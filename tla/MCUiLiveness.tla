---------------------------- MODULE MCUiLiveness ----------------------------
(***************************************************************************)
(* One page that shows the stage of its action, and the settings page.     *)
(***************************************************************************)
EXTENDS UiSession

MCProgram == [a \in {"RUN_MODE_A"} |-> TaskProgram[a]]

MCOpened == {"RUN_MODE_A", "SETTINGS_PAGE"}

MCQ1Page ==
  <<[Q1Settings[8] EXCEPT !.default = 1, !.greatest = 1],
    [Q1Settings[9] EXCEPT !.default = 20, !.greatest = 20]>>

MCArcPage ==
  <<[ArcSettings[2] EXCEPT !.default = 10, !.least = 10, !.greatest = 10]>>

=============================================================================
