--------------------------- MODULE UiSessionProofs ---------------------------
(***************************************************************************)
(* Theorems about the driver's session, for every table of actions, every  *)
(* set of opened pages, every table of settings and every depth of the     *)
(* ring.                                                                   *)
(***************************************************************************)
EXTENDS UiSession, TaskServiceProofs

-----------------------------------------------------------------------------
(* The menu *)

\* The cursor is on an entry of its menu and on a shown line, and no line is wasted.
OnAnEntry(pos) ==
  /\ pos.menu \in Menus
  /\ pos.index \in 0 .. Count(pos.menu) - 1
  /\ pos.start \in Nat
  /\ pos.index - pos.start \in 0 .. MaxShowItems - 1
  /\ pos.start + MaxShowItems > Count(pos.menu) => pos.start = 0

LEMMA MenuTable ==
  /\ Menus = {"main", "run", "motor", "settings"}
  /\ Count("main") = 5 /\ Count("run") = 11 /\ Count("motor") = 5 /\ Count("settings") = 4
<1>1. Menus = {"main", "run", "motor", "settings"}
  BY DEF Menus, Entries
<1>2. Count("main") = 5 /\ Count("motor") = 5 /\ Count("settings") = 4
  BY DEF Count, Entries
<1>3. Count("run") = 11
  BY DEF Count, Entries
<1>4. QED BY <1>1, <1>2, <1>3

LEMMA MenusHaveEntries == \A menu \in Menus : Count(menu) \in Nat \ {0}
  BY MenuTable

\* Whatever the index asked for and the hint, Menu_ApplySelection lands on an entry.
LEMMA SelectionLands ==
  ASSUME NEW menu \in Menus, NEW index \in Nat, NEW hint \in Nat
  PROVE  OnAnEntry(ApplySelection(menu, index, hint))
<1> DEFINE n == Count(menu)
           i == IF index > n - 1 THEN n - 1 ELSE index
           window == ClampWindowStart(n, hint)
           start == IF i < window THEN i
                    ELSE IF i >= window + MaxShowItems THEN i - MaxShowItems + 1 ELSE window
<1>1. n \in Nat \ {0}
  BY MenusHaveEntries
<1>2. ApplySelection(menu, index, hint)
        = [menu |-> menu, index |-> i, start |-> ClampWindowStart(n, start)]
  BY DEF ApplySelection
<1> HIDE DEF n
<1>3. i \in 0 .. n - 1
  BY <1>1
<1> HIDE DEF i
<1>4. window \in Nat /\ (n <= 4 => window = 0) /\ (n > 4 => window <= n - 4)
  BY <1>1 DEF ClampWindowStart, MaxShowItems
<1> HIDE DEF window
<1>5. /\ start \in Nat /\ i - start \in 0 .. 3
      /\ n > 4 => start <= n - 4
      /\ n <= 4 => start = 0
  BY <1>1, <1>3, <1>4 DEF MaxShowItems
<1> HIDE DEF start
<1>6. ClampWindowStart(n, start) = start
  BY <1>1, <1>5 DEF ClampWindowStart, MaxShowItems
<1>7. /\ i \in 0 .. n - 1 /\ start \in Nat /\ i - start \in 0 .. MaxShowItems - 1
      /\ start + MaxShowItems > n => start = 0
  BY <1>1, <1>3, <1>5 DEF MaxShowItems
<1>8. QED BY <1>2, <1>6, <1>7 DEF OnAnEntry, n

\* Every move of the cursor does.
LEMMA MovesLand ==
  ASSUME NEW pos, OnAnEntry(pos)
  PROVE  /\ OnAnEntry(MenuUp(pos)) /\ OnAnEntry(MenuDown(pos)) /\ OnAnEntry(MenuBack(pos))
         /\ Under(pos) \in Menus => OnAnEntry(MenuChild(pos))
<1>1. pos.menu \in Menus /\ Count(pos.menu) \in Nat \ {0} /\ pos.index \in Nat /\ pos.start \in Nat
  BY MenusHaveEntries DEF OnAnEntry
<1>2. OnAnEntry(MenuUp(pos))
  <2>1. (IF pos.index = 0 THEN Count(pos.menu) - 1 ELSE pos.index - 1) \in Nat
    BY <1>1
  <2>2. QED BY <1>1, <2>1, SelectionLands DEF MenuUp
<1>3. OnAnEntry(MenuDown(pos))
  BY <1>1, SelectionLands DEF MenuDown
<1>4. OnAnEntry(MenuBack(pos))
  <2>1. CASE pos.menu = "main"
    BY <2>1 DEF MenuBack
  <2>2. CASE pos.menu # "main"
    <3> DEFINE parent == CHOOSE i \in 1 .. Count("main") : Entries.main[i] = pos.menu
    <3>1. \E i \in 1 .. Count("main") : Entries.main[i] = pos.menu
      <4>1. /\ 1 \in 1 .. Count("main") /\ 2 \in 1 .. Count("main") /\ 4 \in 1 .. Count("main")
            /\ Entries.main[1] = "run" /\ Entries.main[2] = "motor" /\ Entries.main[4] = "settings"
        BY MenuTable DEF Entries
      <4>2. pos.menu \in {"run", "motor", "settings"}
        BY <1>1, <2>2, MenuTable
      <4>3. QED BY <4>1, <4>2
    <3>2. parent - 1 \in Nat
      BY <3>1, MenuTable
    <3>3. MenuBack(pos) = ApplySelection("main", parent - 1, parent - 1)
      BY <2>2 DEF MenuBack
    <3>4. "main" \in Menus
      BY MenuTable
    <3> HIDE DEF parent
    <3>5. QED BY <3>2, <3>3, <3>4, SelectionLands
  <2>3. QED BY <2>1, <2>2
<1>5. Under(pos) \in Menus => OnAnEntry(MenuChild(pos))
  BY SelectionLands DEF MenuChild
<1>6. QED BY <1>2, <1>3, <1>4, <1>5

-----------------------------------------------------------------------------
(* The settings *)

Names == {s.name : s \in AllSettings}

\* The cursor of the page is on one of its settings, and every magnitude is a number.
SettingsInv ==
  /\ settingsPage \in SettingsActions
  /\ settingsIndex \in 1 .. Len(Tuned(settingsPage))
  /\ values \in [Names -> Int]
  /\ ArcStaysAnArc

\* The setting under the cursor is an entry of the tables.
LEMMA CurrentIsASetting ==
  ASSUME SettingsInv
  PROVE  CurrentSetting \in AllSettings /\ CurrentSetting \in Settings
<1>1. Tuned(settingsPage) \in {Q1Page, ArcPage}
  BY DEF Tuned
<1>2. /\ Q1Page \in Seq(Settings) /\ ArcPage \in Seq(Settings)
  BY SettingsAssumption
<1>3. settingsIndex \in DOMAIN Tuned(settingsPage)
  BY <1>1, <1>2 DEF SettingsInv
<1>4. CurrentSetting \in AllSettings
  BY <1>1, <1>3 DEF CurrentSetting, AllSettings
<1>5. CurrentSetting \in Settings
  BY <1>1, <1>2, <1>3 DEF CurrentSetting
<1>6. QED BY <1>4, <1>5

LEMMA SettingTables ==
  \A s \in AllSettings : s \in Settings /\ (SkipsZero(s) => s.default # 0)
<1>1. Q1Page \in Seq(Settings) /\ ArcPage \in Seq(Settings)
  BY SettingsAssumption
<1>2. QED BY <1>1, SettingsAssumption DEF AllSettings

\* A press gives a number, and one that is not zero for an arc.
LEMMA AdjustedIs ==
  ASSUME NEW s \in Settings, NEW v \in Int, NEW delta \in {1, -1}
  PROVE  Adjusted(s, v, delta) \in Int /\ (SkipsZero(s) => Adjusted(s, v, delta) # 0)
<1> DEFINE moved == Clamp(v + delta * s.step, s.least, s.greatest)
<1>1. s.step \in Nat \ {0} /\ s.least \in Int /\ s.greatest \in Int
  BY DEF Settings
<1>2. delta * s.step \in Int /\ delta * s.step # 0
  BY <1>1
<1>3. moved \in Int
  <2>1. v + delta * s.step \in Int
    BY <1>2
  <2>2. QED BY <1>1, <2>1 DEF Clamp
<1>4. Adjusted(s, v, delta) = IF moved = 0 /\ SkipsZero(s) THEN delta * s.step ELSE moved
  BY DEF Adjusted
<1> HIDE DEF moved
<1>5. QED BY <1>2, <1>3, <1>4

LEMMA AdjustInv ==
  ASSUME SettingsInv, NEW delta \in {1, -1}, SettingsAdjust(delta)
  PROVE  SettingsInv'
<1> DEFINE s == CurrentSetting
           v == Adjusted(s, values[s.name], delta)
<1>1. s \in AllSettings /\ s \in Settings
  BY CurrentIsASetting
<1>2. s.name \in Names /\ values \in [Names -> Int]
  BY <1>1 DEF Names, SettingsInv
<1>3. v \in Int /\ (SkipsZero(s) => v # 0)
  BY <1>1, <1>2, AdjustedIs
<1>4. /\ values' = [values EXCEPT ![s.name] = v]
      /\ settingsPage' = settingsPage /\ settingsIndex' = settingsIndex
  BY DEF SettingsAdjust
<1> HIDE DEF v, s
<1>5. values' \in [Names -> Int]
  BY <1>2, <1>3, <1>4
<1>6. ArcStaysAnArc'
  <2> SUFFICES ASSUME NEW n \in {"ARC RAD", "ARC ANG"} \intersect Names PROVE values'[n] # 0
    BY <1>5 DEF ArcStaysAnArc
  <2>1. CASE n = s.name
    BY <2>1, <1>2, <1>3, <1>4 DEF SkipsZero
  <2>2. CASE n # s.name
    BY <2>2, <1>2, <1>4 DEF SettingsInv, ArcStaysAnArc
  <2>3. QED BY <2>1, <2>2
<1>7. QED BY <1>4, <1>5, <1>6 DEF SettingsInv, Tuned

LEMMA SettingsInit == UiInit => SettingsInv
<1> SUFFICES ASSUME UiInit PROVE SettingsInv
  OBVIOUS
<1> DEFINE Of(n) == CHOOSE s \in AllSettings : s.name = n
<1>1. values = [n \in Names |-> Of(n).default]
  BY DEF UiInit, Names
<1>2. \A n \in Names : Of(n) \in AllSettings /\ Of(n).name = n
  BY DEF Names
<1> HIDE DEF Of
<1>3. values \in [Names -> Int]
  BY <1>1, <1>2, SettingTables DEF Settings
<1>4. ArcStaysAnArc
  BY <1>1, <1>2, SettingTables DEF ArcStaysAnArc, SkipsZero
<1>5. settingsPage \in SettingsActions /\ settingsIndex \in 1 .. Len(Tuned(settingsPage))
  <2>1. Len(Q1Page) \in Nat \ {0}
    BY SettingsAssumption
  <2>2. settingsPage = "SETTINGS_PAGE" /\ settingsIndex = 1
    BY DEF UiInit
  <2>3. QED BY <2>1, <2>2 DEF SettingsActions, Tuned
<1>6. QED BY <1>3, <1>4, <1>5 DEF SettingsInv

\* Opening a settings page puts the cursor on its first setting.
LEMMA PlainSettings ==
  ASSUME SettingsInv, NEW a, OpenPlain(a)
  PROVE  SettingsInv'
<1>1. values' = values /\ ArcStaysAnArc'
  BY DEF OpenPlain, SettingsInv, ArcStaysAnArc
<1>2. settingsPage' \in SettingsActions /\ settingsIndex' \in 1 .. Len(Tuned(settingsPage'))
  <2>1. CASE a \in SettingsActions
    <3>1. Len(Tuned(a)) \in Nat \ {0}
      BY SettingsAssumption DEF Tuned
    <3>2. QED BY <2>1, <3>1 DEF OpenPlain
  <2>2. CASE a \notin SettingsActions
    BY <2>2 DEF OpenPlain, SettingsInv
  <2>3. QED BY <2>1, <2>2
<1>3. QED BY <1>1, <1>2 DEF SettingsInv, Tuned

LEMMA NextSettings ==
  ASSUME SettingsInv, SettingsNext
  PROVE  SettingsInv'
<1>1. Len(Tuned(settingsPage)) \in Nat
  BY SettingsAssumption DEF Tuned
<1>2. settingsIndex' \in 1 .. Len(Tuned(settingsPage))
  BY <1>1 DEF SettingsNext, NextIndex, SettingsInv
<1>3. QED BY <1>2 DEF SettingsNext, SettingsInv, Tuned, ArcStaysAnArc

-----------------------------------------------------------------------------
(* The page and the screen *)

\* A page is open exactly while the interaction layer holds its action; the lines it
\* last rendered are that action's, and the OLED shows them unless they are marked new.
PageInv ==
  /\ active \in BOOLEAN /\ visible = active
  /\ active => action \in Opened /\ page.title = action
  /\ ~active => action = None
  /\ active /\ ~dirty => screen = page

UiInv ==
  /\ IInv /\ CommandInv
  /\ TaskBelongsToPage
  /\ OnAnEntry(nav)
  /\ SettingsInv
  /\ PageInv

\* What the lines of an action say first is its name.
LEMMA TitleIs == \A a : Content(a).title = a /\ (Content(a).title = a)'
  BY DEF Content

\* Nothing of the task layer changes, and an open page stays on its action.
LEMMA BelongsKept ==
  ASSUME TaskBelongsToPage, UNCHANGED <<vars, active, action>>
  PROVE  TaskBelongsToPage'
BY DEF TaskBelongsToPage, vars, Live, Wrap, Stop, Command

\* Without a page there is room in the ring.
LEMMA RoomWithoutPage ==
  ASSUME UiInv, ~active
  PROVE  ~busy /\ size = 0 /\ command = Stop /\ (\A a : EnqueueResult(a) /\ ~IsQueued(a))
<1>1. ~busy /\ size = 0 /\ command = Stop
  BY DEF UiInv, TaskBelongsToPage
<1>2. \A a : EnqueueResult(a) /\ ~IsQueued(a)
  BY <1>1, QueueDepthAssumption DEF EnqueueResult, IsQueued, InRing
<1>3. QED BY <1>1, <1>2

LEMMA OpenTaskInv ==
  ASSUME UiInv, ~active, NEW a \in Opened, OpenTask(a)
  PROVE  UiInv' /\ Next
<1>1. TaskOf(a) \in TaskAction /\ Enqueue(TaskOf(a))
  BY RoomWithoutPage DEF OpenTask
<1>2. Next
  BY <1>1 DEF Next
<1>3. IInv' /\ CommandInv'
  BY <1>2, NextInv, NextCommand DEF UiInv
<1>4. active' /\ action' = a /\ visible' = TRUE /\ screen' = page' /\ page'.title = a
  BY TitleIs DEF OpenTask, ShowNew
<1>5. TaskBelongsToPage'
  <2>1. ~busy' /\ size' = 1
    BY <1>1, RoomWithoutPage DEF Enqueue, statusVars
  <2>2. Live(1)' = TaskOf(a)
    <3>1. head \in Slots /\ tail = Wrap(head) /\ data \in [Slots -> TaskAction \union {None}]
      BY RoomWithoutPage, QueueDepthAssumption DEF UiInv, IInv, TypeOK, RingInv, Slots
    <3>2. tail = head /\ head' = head /\ data' = [data EXCEPT ![head] = TaskOf(a)]
      BY <1>1, <3>1, WrapInside DEF Enqueue
    <3>3. Live(1)' = data'[Wrap(head' + 1 - 1)]
      BY DEF Live, Wrap
    <3>4. head' + 1 - 1 = head
      BY <3>1, <3>2, QueueDepthAssumption DEF Slots
    <3>5. QED BY <3>1, <3>2, <3>3, <3>4, WrapInside
  <2>3. QED BY <1>4, <2>1, <2>2 DEF TaskBelongsToPage, TaskOf
<1>6. OnAnEntry(nav)' /\ SettingsInv'
  BY DEF UiInv, OpenTask, settingVars, SettingsInv, OnAnEntry, Tuned, ArcStaysAnArc
<1>7. PageInv'
  BY <1>4 DEF PageInv, OpenTask, ShowNew
<1>8. QED BY <1>2, <1>3, <1>5, <1>6, <1>7 DEF UiInv

LEMMA OpenPlainInv ==
  ASSUME UiInv, ~active, NEW a \in Opened, OpenPlain(a)
  PROVE  UiInv' /\ UNCHANGED vars
<1>1. UNCHANGED <<vars, nav>>
  BY DEF OpenPlain
<1>2. IInv' /\ CommandInv'
  BY <1>1, NextInv, NextCommand DEF UiInv
<1>3. active' /\ action' = a /\ visible' = TRUE /\ screen' = page' /\ page'.title = a
  BY TitleIs DEF OpenPlain, ShowNew
<1>4. TaskBelongsToPage'
  <2>1. ~busy' /\ size' = 0
    BY <1>1, RoomWithoutPage DEF vars
  <2>2. QED BY <1>3, <2>1 DEF TaskBelongsToPage
<1>5. OnAnEntry(nav)' /\ SettingsInv'
  BY <1>1, PlainSettings DEF UiInv, OnAnEntry
<1>6. PageInv'
  BY <1>3 DEF PageInv, OpenPlain, ShowNew
<1>7. QED BY <1>1, <1>2, <1>4, <1>5, <1>6 DEF UiInv

\* The request of a menu entry: it is never answered by "Task Queue Full".
LEMMA OpenInv ==
  ASSUME UiInv, ~active, NEW a, OpenAction(a)
  PROVE  UiInv' /\ [Next]_vars
<1>1. a \in Opened /\ (OpenTask(a) \/ OpenPlain(a))
  BY RoomWithoutPage DEF OpenAction, OpenFull
<1>2. QED BY <1>1, OpenTaskInv, OpenPlainInv

LEMMA MenuTickInv ==
  ASSUME UiInv, NEW key, MenuTick(key)
  PROVE  UiInv' /\ [Next]_vars
<1>1. ~active
  BY DEF MenuTick
<1>2. ASSUME NEW pos, OnAnEntry(pos), MoveTo(pos) PROVE UiInv' /\ [Next]_vars
  <2>1. UNCHANGED <<vars, active, action, pageVars, settingVars>> /\ nav' = pos
    BY <1>2 DEF MoveTo, pageVars
  <2>2. IInv' /\ CommandInv'
    BY <2>1, NextInv, NextCommand DEF UiInv
  <2>3. TaskBelongsToPage'
    BY <2>1, BelongsKept DEF UiInv
  <2>4. OnAnEntry(nav)' /\ SettingsInv'
    BY <1>2, <2>1 DEF UiInv, settingVars, SettingsInv, OnAnEntry, Tuned, ArcStaysAnArc
  <2>5. PageInv'
    BY <1>1, <2>1 DEF UiInv, PageInv, pageVars
  <2>6. QED BY <2>1, <2>2, <2>3, <2>4, <2>5 DEF UiInv
<1>3. OnAnEntry(nav)
  BY DEF UiInv
<1>4. CASE OpenAction(Under(nav))
  BY <1>1, <1>4, OpenInv
<1>5. CASE \E pos : OnAnEntry(pos) /\ MoveTo(pos)
  BY <1>2, <1>5
<1>6. QED BY <1>3, <1>4, <1>5, MovesLand DEF MenuTick

\* K4, and K3 off the settings: the task layer is cancelled with its page.
LEMMA ClosePageInv ==
  ASSUME UiInv, active, ClosePage
  PROVE  UiInv' /\ Next
<1>1. CancelCurrent
  <2>1. action # None
    BY OpenedAssumption DEF UiInv, PageInv
  <2>2. QED BY <2>1 DEF ClosePage
<1>2. Next
  BY <1>1 DEF Next
<1>3. IInv' /\ CommandInv'
  BY <1>2, NextInv, NextCommand DEF UiInv
<1>4. TaskBelongsToPage'
  <2>1. ~busy' /\ size' = 0 /\ command' = Stop
    BY <1>1 DEF CancelCurrent
  <2>2. QED BY <2>1 DEF TaskBelongsToPage, Stop, Command
<1>5. OnAnEntry(nav)' /\ SettingsInv'
  BY DEF UiInv, ClosePage, settingVars, SettingsInv, OnAnEntry, Tuned, ArcStaysAnArc
<1>6. PageInv'
  BY DEF ClosePage, PageInv
<1>7. QED BY <1>2, <1>3, <1>4, <1>5, <1>6 DEF UiInv

\* A tick of the page that leaves the task layer and the menu alone, keeps the page's
\* action and shows whatever it renders.
LEMMA ShownInv ==
  ASSUME UiInv, active, UNCHANGED <<vars, nav, active, action>>, visible',
         page'.title = action, ~dirty' => screen' = page', SettingsInv', visible' \in BOOLEAN
  PROVE  UiInv'
<1>1. IInv' /\ CommandInv'
  BY NextInv, NextCommand DEF UiInv
<1>2. TaskBelongsToPage'
  BY BelongsKept DEF UiInv
<1>3. OnAnEntry(nav)'
  BY DEF UiInv, OnAnEntry
<1>4. PageInv'
  BY DEF UiInv, PageInv
<1>5. QED BY <1>1, <1>2, <1>3, <1>4 DEF UiInv

LEMMA PageTickInv ==
  ASSUME UiInv, NEW key, PageTick(key)
  PROVE  UiInv' /\ [Next]_vars
<1>1. active /\ visible /\ page.title = action
  BY DEF PageTick, UiInv, PageInv
<1>2. ASSUME NEW delta \in {1, -1}, SettingsAdjust(delta) PROVE UiInv' /\ UNCHANGED vars
  <2>1. SettingsInv'
    BY <1>2, AdjustInv DEF UiInv
  <2>2. /\ UNCHANGED <<vars, nav, active, action>> /\ visible' = TRUE
        /\ page'.title = action /\ screen' = page'
    BY <1>1, <1>2, TitleIs DEF SettingsAdjust, ShowNew, UiInv, PageInv
  <2>3. QED BY <1>1, <2>1, <2>2, ShownInv
<1>3. ASSUME SettingsNext PROVE UiInv' /\ UNCHANGED vars
  <2>1. SettingsInv'
    BY <1>3, NextSettings DEF UiInv
  <2>2. /\ UNCHANGED <<vars, nav, active, action>> /\ visible' = TRUE
        /\ page'.title = action /\ screen' = page'
    BY <1>1, <1>3, TitleIs DEF SettingsNext, ShowNew, UiInv, PageInv
  <2>3. QED BY <1>1, <2>1, <2>2, ShownInv
<1>4. ASSUME JustFetch(key) PROVE UiInv' /\ UNCHANGED vars
  <2>1. /\ UNCHANGED <<vars, nav, active, action, page, visible, settingVars>>
        /\ FetchPage(key = "up" /\ action = "SENSOR_PAGE")
    BY <1>4 DEF JustFetch
  <2>2. SettingsInv'
    BY <2>1 DEF UiInv, settingVars, SettingsInv, Tuned, ArcStaysAnArc
  <2>3. ~dirty' => screen' = page'
    BY <1>1, <2>1 DEF FetchPage, UiInv, PageInv
  <2>4. visible' \in BOOLEAN
    BY <2>1 DEF UiInv, PageInv
  <2>5. QED BY <1>1, <2>1, <2>2, <2>3, <2>4, ShownInv
<1>5. ASSUME ClosePage PROVE UiInv' /\ Next
  BY <1>1, <1>5, ClosePageInv
<1>6. \/ SettingsAdjust(1) \/ SettingsAdjust(-1) \/ SettingsNext \/ ClosePage \/ JustFetch(key)
  BY DEF PageTick
<1>7. QED BY <1>2, <1>3, <1>4, <1>5, <1>6

\* The refresh renders the lines of the open page's action again.
LEMMA Tick50msInv ==
  ASSUME UiInv, Tick50ms
  PROVE  UiInv' /\ UNCHANGED vars
<1>1. /\ visible /\ UNCHANGED <<vars, nav, active, screen, action, settingVars>>
      /\ UpdateRuntimePage
  BY DEF Tick50ms
<1>2. active /\ action # None
  BY <1>1, OpenedAssumption DEF UiInv, PageInv
<1>3. SetPage(Content(action)')
  BY <1>1, <1>2 DEF UpdateRuntimePage
<1>4. page' = Content(action)' /\ visible' = TRUE
  BY <1>3 DEF SetPage
<1>5. page'.title = action
  BY <1>1, <1>4, TitleIs
<1>6. ~dirty' => screen' = page'
  BY <1>1, <1>2, <1>3 DEF SetPage, UiInv, PageInv
<1>7. SettingsInv'
  BY <1>1 DEF UiInv, settingVars, SettingsInv, Tuned, ArcStaysAnArc
<1>8. QED BY <1>1, <1>2, <1>4, <1>5, <1>6, <1>7, ShownInv

\* A step of the task layer that takes nothing up that the page did not ask for.
LEMMA QuietPageInv ==
  ASSUME UiInv, Next, TaskBelongsToPage',
         UNCHANGED <<nav, active, screen, action, page, visible, dirty, settingVars>>
  PROVE  UiInv'
<1>1. IInv' /\ CommandInv'
  BY NextInv, NextCommand DEF UiInv
<1>2. OnAnEntry(nav)' /\ SettingsInv'
  BY DEF UiInv, settingVars, SettingsInv, OnAnEntry, Tuned, ArcStaysAnArc
<1>3. PageInv'
  BY DEF UiInv, PageInv
<1>4. QED BY <1>1, <1>2, <1>3 DEF UiInv

LEMMA TaskTickInv ==
  ASSUME UiInv, TaskTick
  PROVE  UiInv' /\ Next
<1>1. Tick10ms /\ UNCHANGED <<nav, active, screen, action, page, visible, dirty, settingVars>>
  BY DEF TaskTick, uiVars, pageVars
<1>2. Next
  BY <1>1 DEF Next
<1>3. Stop' = Stop
  BY DEF Stop, Command
<1>4. TaskBelongsToPage'
  <2>1. CASE RestIdle
    <3>1. UNCHANGED <<data, head, size, busy, current, action, active>> /\ command' = Stop
      BY <1>1, <2>1 DEF RestIdle, queueVars, statusVars
    <3>2. QED BY <1>3, <3>1 DEF UiInv, TaskBelongsToPage, Live, Wrap
  <2>2. CASE StartNext
    <3>1. size = 1 /\ Live(1) = TaskOf(action) /\ active
      BY <2>2, <1>1 DEF StartNext, UiInv, TaskBelongsToPage, PageInv, IInv, TypeOK
    <3>2. Live(1) = data[head]
      <4>1. head \in Slots /\ head + 1 - 1 = head
        BY QueueDepthAssumption DEF UiInv, IInv, TypeOK, Slots
      <4>2. QED BY <4>1, WrapInside DEF Live
    <3>3. size' = 0 /\ busy' /\ current' = data[head] /\ UNCHANGED <<action, active>>
      BY <1>1, <2>2, <3>1 DEF StartNext
    <3>4. QED BY <3>1, <3>2, <3>3 DEF TaskBelongsToPage, TaskOf
  <2>3. CASE RunPhase
    <3>1. busy /\ active /\ UNCHANGED <<data, head, size, action, active>>
      BY <1>1, <2>3 DEF RunPhase, queueVars, UiInv, TaskBelongsToPage, PageInv
    <3>2. busy' => current' = current
      BY <2>3 DEF RunPhase, RunTimed, RunSettle, RunTurn, RunPassing, RunEndless, Conclude,
                  StayInPhase, EnterPhase, FinishCurrent, statusVars
    <3>3. QED BY <3>1, <3>2 DEF UiInv, TaskBelongsToPage, Live, Wrap
  <2>4. QED BY <1>1, <2>1, <2>2, <2>3 DEF Tick10ms
<1>5. QED BY <1>1, <1>2, <1>4, QuietPageInv

LEMMA TimeInv ==
  ASSUME UiInv, Time \/ Sensors
  PROVE  UiInv' /\ [Next]_vars
<1>1. UNCHANGED <<nav, active, screen, action, page, visible, dirty, settingVars>>
  BY DEF Time, Sensors, uiVars, pageVars
<1>2. CASE UNCHANGED vars
  <2>1. IInv' /\ CommandInv' /\ TaskBelongsToPage'
    BY <1>1, <1>2, NextInv, NextCommand, BelongsKept DEF UiInv
  <2>2. OnAnEntry(nav)' /\ SettingsInv'
    BY <1>1 DEF UiInv, settingVars, SettingsInv, OnAnEntry, Tuned, ArcStaysAnArc
  <2>3. PageInv'
    BY <1>1 DEF UiInv, PageInv
  <2>4. QED BY <1>2, <2>1, <2>2, <2>3 DEF UiInv
<1>3. CASE Clock \/ Sense
  <2>1. Next
    BY <1>3 DEF Next
  <2>2. UNCHANGED <<data, head, size, busy, current, command>>
    BY <1>3 DEF Clock, Sense, queueVars, statusVars
  <2>3. TaskBelongsToPage'
    BY <1>1, <2>2 DEF UiInv, TaskBelongsToPage, Live, Wrap, Stop, Command
  <2>4. QED BY <1>1, <2>1, <2>3, QuietPageInv
<1>4. QED BY <1>2, <1>3 DEF Time, Sensors

-----------------------------------------------------------------------------
(* Every behaviour *)

LEMMA UiInitInv == UiInit => UiInv
<1> SUFFICES ASSUME UiInit PROVE UiInv
  OBVIOUS
<1>1. Init
  BY DEF UiInit
<1>2. IInv /\ CommandInv
  BY <1>1, InitInv DEF Init, CommandInv, StandsStillUnlessBusy, CommandMatchesPhase
<1>3. TaskBelongsToPage
  BY <1>1 DEF Init, TaskBelongsToPage
<1>4. OnAnEntry(nav)
  <2>1. "main" \in Menus
    BY MenuTable
  <2>2. QED BY <2>1, SelectionLands DEF UiInit, MenuInit
<1>5. SettingsInv /\ PageInv
  BY SettingsInit DEF UiInit, PageInv
<1>6. QED BY <1>2, <1>3, <1>4, <1>5 DEF UiInv

LEMMA UiNextInv ==
  ASSUME UiInv, [UiNext]_allVars
  PROVE  UiInv' /\ [Next]_vars
<1>1. CASE UiTick
  BY <1>1, MenuTickInv, PageTickInv DEF UiTick
<1>2. CASE Tick50ms
  BY <1>2, Tick50msInv
<1>3. CASE TaskTick
  BY <1>3, TaskTickInv
<1>4. CASE Time \/ Sensors
  BY <1>4, TimeInv
<1>5. CASE UNCHANGED allVars
  <2>1. UNCHANGED <<vars, nav, active, screen, action, page, visible, dirty, settingVars>>
    BY <1>5 DEF allVars, uiVars, pageVars
  <2>2. IInv' /\ CommandInv' /\ TaskBelongsToPage'
    BY <2>1, NextInv, NextCommand, BelongsKept DEF UiInv
  <2>3. OnAnEntry(nav)' /\ SettingsInv'
    BY <2>1 DEF UiInv, settingVars, SettingsInv, OnAnEntry, Tuned, ArcStaysAnArc
  <2>4. PageInv'
    BY <2>1 DEF UiInv, PageInv
  <2>5. QED BY <2>1, <2>2, <2>3, <2>4 DEF UiInv
<1>6. QED BY <1>1, <1>2, <1>3, <1>4, <1>5 DEF UiNext

LEMMA UiSound == UiSpec => []UiInv
<1>1. UiInit => UiInv
  BY UiInitInv
<1>2. UiInv /\ [UiNext]_allVars => UiInv'
  BY UiNextInv
<1>3. QED BY <1>1, <1>2, PTL DEF UiSpec

\* Whatever keys come when, the task layer works for the open page and for nothing else:
\* no action survives the closing of its page, and none waits behind another.
THEOREM PageOwnsTheTask == UiSpec => []TaskBelongsToPage
<1>1. UiInv => TaskBelongsToPage
  BY DEF UiInv
<1>2. QED BY <1>1, UiSound, PTL

\* "Task Queue Full" is unreachable from the menu, for every depth of the ring.
THEOREM RequestsAreTaken == UiSpec => []NeverTurnedDown
<1>1. UiInv => NeverTurnedDown
  BY OpenedAssumption DEF UiInv, PageInv, NeverTurnedDown
<1>2. QED BY <1>1, UiSound, PTL

\* No refresh of the page is lost, and the cursor of the menu is always on a shown entry.
THEOREM ScreenIsKept == UiSpec => []ScreenIsCoherent
<1>1. UiInv => ScreenIsCoherent
  BY DEF UiInv, PageInv, OnAnEntry, ScreenIsCoherent
<1>2. QED BY <1>1, UiSound, PTL

\* No sequence of presses tunes an arc to radius or angle zero, whatever the limits and
\* the step of the setting are.
THEOREM ArcIsKept == UiSpec => []ArcStaysAnArc
<1>1. UiInv => ArcStaysAnArc
  BY DEF UiInv, SettingsInv
<1>2. QED BY <1>1, UiSound, PTL

\* The magnitudes change only on a settings page, and no action runs or waits on one.
LEMMA IdleOnSettings ==
  ASSUME UiInv, active, OnSettings
  PROVE  ~busy /\ size = 0
<1>1. TaskOf(action) = action /\ action \notin TaskAction
  BY OpenedAssumption DEF OnSettings, TaskOf, SettingsActions, PlainActions
<1>2. ~busy
  BY <1>1 DEF UiInv, IInv, RunInv, TaskBelongsToPage
<1>3. ASSUME size > 0 PROVE FALSE
  <2>1. size = 1 /\ Live(1) = action
    BY <1>1, <1>3 DEF UiInv, TaskBelongsToPage
  <2>2. Live(1) \in TaskAction
    <3>1. 0 \in 0 .. size - 1 /\ head + 0 = head + 1 - 1
      BY <2>1, QueueDepthAssumption DEF UiInv, IInv, TypeOK, Slots
    <3>2. data[Wrap(head + 0)] \in TaskAction
      BY <3>1 DEF UiInv, IInv, RingInv
    <3>3. QED BY <3>1, <3>2 DEF Live
  <2>3. QED BY <1>1, <2>1, <2>2
<1>4. QED BY <1>2, <1>3, QueueDepthAssumption DEF UiInv, IInv, TypeOK

LEMMA OnlyAdjusting ==
  ASSUME UiInv, [UiNext]_allVars, values' # values
  PROVE  active /\ OnSettings
<1>1. ~Tick50ms /\ ~TaskTick /\ ~Time /\ ~Sensors /\ ~UNCHANGED allVars
  BY DEF Tick50ms, TaskTick, Time, Sensors, allVars, uiVars, settingVars
<1>2. PICK key \in Keys : MenuTick(key) \/ PageTick(key)
  BY <1>1 DEF UiNext, UiTick
<1>3. ~MenuTick(key)
  BY DEF MenuTick, MoveTo, OpenAction, OpenTask, OpenFull, OpenPlain, settingVars
<1>4. ~ClosePage /\ ~JustFetch(key)
  BY DEF ClosePage, JustFetch, settingVars
<1>5. QED BY <1>2, <1>3, <1>4 DEF PageTick

\* The magnitudes of the program are frozen under every running and every waiting action,
\* although nothing in the settings code looks at the task layer.
THEOREM SettingsAreFrozen == UiSpec => SettingsFrozenWhileBusy
<1>1. UiInv /\ [UiNext]_allVars => [values' # values => ~busy /\ size = 0]_allVars
  BY OnlyAdjusting, IdleOnSettings
<1>2. QED BY <1>1, UiSound, PTL DEF UiSpec, SettingsFrozenWhileBusy

=============================================================================
