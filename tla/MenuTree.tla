------------------------------ MODULE MenuTree ------------------------------
(***************************************************************************)
(* The tree of menus (menu_app.c) and the functions that move the cursor   *)
(* and the window of visible lines through it (menu.c).                    *)
(*                                                                         *)
(* A menu is the list of its entries; an entry is the menu it opens, the   *)
(* interaction action its callback requests, "Back", or "Common", which    *)
(* has neither a child nor a callback.  A position is the MenuManager: the *)
(* menu shown, the index of the entry under the cursor and the index of    *)
(* the first visible entry, all from 0; cursor_index, the line of the      *)
(* cursor on the display, is index - start.                                *)
(***************************************************************************)
EXTENDS Integers, Sequences

Entries ==
  [main |-> <<"run", "motor", "SENSOR_PAGE", "settings", "ABOUT_PAGE">>,
   run |-> <<"RUN_MODE_A", "RUN_MODE_B", "STRAIGHT_TEST", "ARC_TEST", "GO_1000MM",
             "ROUTE_2500", "Q2_LEFT", "Q2_RIGHT", "Q3", "Q4", "Back">>,
   motor |-> <<"MOTOR_TEST_1", "MOTOR_TEST_2", "TURN_LEFT_90", "TURN_RIGHT_90", "Back">>,
   settings |-> <<"SETTINGS_PAGE", "ARC_SETTINGS_PAGE", "Common", "Back">>]

Menus == DOMAIN Entries

MaxShowItems == 4

Count(menu) == Len(Entries[menu])

Under(pos) == Entries[pos.menu][pos.index + 1]

\* Menu_ClampWindowStart
ClampWindowStart(count, start) ==
  IF count <= MaxShowItems THEN 0
  ELSE IF start > count - MaxShowItems THEN count - MaxShowItems ELSE start

\* Menu_ApplySelection
ApplySelection(menu, index, hint) ==
  LET last == Count(menu) - 1
      i == IF index > last THEN last ELSE index
      window == ClampWindowStart(Count(menu), hint)
      start == IF i < window THEN i
               ELSE IF i >= window + MaxShowItems THEN i - MaxShowItems + 1
               ELSE window
  IN  [menu |-> menu, index |-> i, start |-> ClampWindowStart(Count(menu), start)]

MenuInit == ApplySelection("main", 0, 0)

MenuUp(pos) ==
  ApplySelection(pos.menu, IF pos.index = 0 THEN Count(pos.menu) - 1 ELSE pos.index - 1,
                 pos.start)

MenuDown(pos) ==
  IF pos.index + 1 >= Count(pos.menu)
  THEN ApplySelection(pos.menu, 0, 0)
  ELSE ApplySelection(pos.menu, pos.index + 1, pos.start)

\* The part of Menu_Enter that opens a child menu.
MenuChild(pos) == ApplySelection(Under(pos), 0, 0)

\* Menu_Back: to the parent's entry, which is also the hint for the window.
MenuBack(pos) ==
  IF pos.menu = "main" THEN pos
  ELSE LET parent == CHOOSE i \in 1 .. Count("main") : Entries.main[i] = pos.menu
       IN  ApplySelection("main", parent - 1, parent - 1)

=============================================================================
