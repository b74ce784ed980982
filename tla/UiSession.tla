------------------------------ MODULE UiSession ------------------------------
(***************************************************************************)
(* The driver's session: the menu and its pages (menu_port.c, menu_app.c)  *)
(* and the interaction layer (interaction_service.c), composed with the    *)
(* task layer whose actions they request and cancel.                       *)
(*                                                                         *)
(* The main loop alternates the scheduler's tasks with one UI tick, which  *)
(* handles at most one key; here the task tick, the 50 ms tick of the      *)
(* interaction layer, the UI tick and time interleave freely.  Keys are    *)
(* already debounced.                                                      *)
(*                                                                         *)
(* A page is what its lines say of the task layer and of the settings; the *)
(* device readings on it and the percentage are left out.                  *)
(***************************************************************************)
EXTENDS TaskService, MenuTree, SettingsPages

CONSTANTS Opened,   \* the actions the driver of the model opens a page for
          Q1Page,   \* the settings pages: Q1Settings and
          ArcPage   \* ArcSettings, with narrower limits where the model is checked

RefreshPeriod == 200  \* INTERACTION_REFRESH_PERIOD_MS

Keys == {"none", "up", "down", "enter", "back"}

\* TASK_ACTION_SENSOR_SCAN is requested under the name of its page.
TaskOf(a) == IF a = "SENSOR_PAGE" THEN "SENSOR_SCAN" ELSE a

SettingsActions == {"SETTINGS_PAGE", "ARC_SETTINGS_PAGE"}
PlainActions == SettingsActions \union {"ABOUT_PAGE"}

\* The pages of settings and of the version request no task.
ASSUME OpenedAssumption ==
  /\ \A a \in Opened : a \in PlainActions \/ TaskOf(a) \in TaskAction
  /\ None \notin Opened
  /\ PlainActions \intersect TaskAction = {}

VARIABLES
  nav,            \* g_Menu
  active,         \* g_page_state.active
  screen,         \* what the OLED shows: g_page_state.page, or the menu
  action,         \* g_interaction.current_action
  page,           \* g_interaction.page.lines
  visible,        \* g_interaction.page.visible
  dirty,          \* g_interaction.dirty
  sinceRefresh,   \* now - last_refresh_ms, saturating at RefreshPeriod
  settingsPage, settingsIndex,  \* g_settings_page, g_settings_index
  values                        \* the tunable magnitudes, by name

settingVars == <<settingsPage, settingsIndex, values>>
pageVars == <<action, page, visible, dirty, sinceRefresh>>
uiVars == <<nav, active, screen, pageVars, settingVars>>
allVars == <<vars, uiVars>>

Tuned(name) == IF name = "SETTINGS_PAGE" THEN Q1Page ELSE ArcPage
AllSettings == {Q1Page[i] : i \in DOMAIN Q1Page} \union {ArcPage[i] : i \in DOMAIN ArcPage}
CurrentSetting == Tuned(settingsPage)[settingsIndex]

ASSUME SettingsAssumption ==
  /\ Q1Page \in Seq(Settings) \ {<<>>} /\ ArcPage \in Seq(Settings) \ {<<>>}
  /\ \A s \in AllSettings : SkipsZero(s) => s.default # 0

-----------------------------------------------------------------------------
(* Pages *)

BlankPage == [title |-> None, stage |-> "idle", step |-> 0, depth |-> 0, last |-> None,
              setting |-> None, value |-> 0]

MenuScreen == BlankPage

QueueFullPage == [BlankPage EXCEPT !.title = "Task Queue Full"]

StageTitles == {"RUN_MODE_A", "RUN_MODE_B", "GO_1000MM", "ROUTE_2500", "TURN_LEFT_90",
                "TURN_RIGHT_90"}
StepTitles == {"ROUTE_2500", "Q2_LEFT", "Q2_RIGHT", "Q3", "Q4"}
DepthTitles == {"RUN_MODE_A", "RUN_MODE_B"}
LastTitles == {"TURN_LEFT_90", "TURN_RIGHT_90"}

\* The lines that InteractionService_UpdateRuntimePage renders for an action.
Content(a) ==
  [title |-> a,
   stage |-> IF a \in StageTitles THEN stage ELSE "idle",
   step |-> IF a \in StepTitles THEN phase ELSE 0,
   depth |-> IF a \in DepthTitles THEN depth ELSE 0,
   last |-> IF a \in LastTitles THEN last ELSE None,
   setting |-> IF a \in SettingsActions THEN CurrentSetting.name ELSE None,
   value |-> IF a \in SettingsActions THEN values[CurrentSetting.name] ELSE 0]

\* Faulty variants: lines rendered again before the fetch clear the flag, and only the
\* opening of a page raises it.
SetPageForgetful(lines) ==
  /\ page' = lines /\ visible' = TRUE
  /\ dirty' = (~visible \/ page # lines)

SetPageOnce(lines) ==
  /\ page' = lines /\ visible' = TRUE
  /\ dirty' = (dirty \/ ~visible)

\* InteractionService_SetPage: the dirty flag is raised only by new lines.
SetPage(lines) ==
  /\ page' = lines
  /\ visible' = TRUE
  /\ dirty' = (dirty \/ ~visible \/ page # lines)

\* InteractionService_UpdateRuntimePage, after the other changes of the step.
UpdateRuntimePage ==
  IF action = None THEN UNCHANGED <<page, visible, dirty>> ELSE SetPage(Content(action)')

\* InteractionService_FetchPage and the drawing of what it gave.
FetchPage(force) ==
  IF visible /\ (dirty \/ force)
  THEN screen' = page /\ dirty' = FALSE
  ELSE UNCHANGED <<screen, dirty>>

-----------------------------------------------------------------------------
(* Opening a page: MenuApp_OpenAction with InteractionService_RequestAction *)

\* The request is served and the forced fetch takes the new lines at once.
ShowNew(lines) ==
  /\ page' = lines
  /\ screen' = lines
  /\ visible' = TRUE
  /\ dirty' = FALSE
  /\ active' = TRUE

OpenTask(a) ==
  /\ TaskOf(a) \in TaskAction
  /\ EnqueueResult(TaskOf(a))
  /\ \/ Enqueue(TaskOf(a))
     \/ IsQueued(TaskOf(a)) /\ UNCHANGED vars
  /\ action' = a
  /\ sinceRefresh' = 0
  /\ UNCHANGED <<nav, settingVars>>
  /\ ShowNew(Content(a)')

OpenFull(a) ==
  /\ TaskOf(a) \in TaskAction
  /\ ~EnqueueResult(TaskOf(a))
  /\ action' = None
  /\ ShowNew(QueueFullPage)
  /\ UNCHANGED <<vars, nav, sinceRefresh, settingVars>>

OpenPlain(a) ==
  /\ a \in PlainActions
  /\ action' = a
  /\ sinceRefresh' = 0
  /\ settingsPage' = IF a \in SettingsActions THEN a ELSE settingsPage
  /\ settingsIndex' = IF a \in SettingsActions THEN 1 ELSE settingsIndex
  /\ UNCHANGED <<vars, nav, values>>
  /\ ShowNew(Content(a)')

\* Only actions the driver of the model opens; the rest of the tree is walked.
OpenAction(a) == a \in Opened /\ (OpenTask(a) \/ OpenFull(a) \/ OpenPlain(a))

-----------------------------------------------------------------------------
(* The UI tick *)

\* MenuPort_Tick, when the key moves the cursor.
MoveTo(pos) ==
  /\ nav' = pos
  /\ screen' = MenuScreen
  /\ UNCHANGED <<vars, active, pageVars, settingVars>>

MenuTick(key) ==
  /\ ~active
  /\ \/ key = "up" /\ MoveTo(MenuUp(nav))
     \/ key = "down" /\ MoveTo(MenuDown(nav))
     \/ key = "back" /\ MoveTo(MenuBack(nav))
     \/ key = "enter" /\ Under(nav) \in Menus /\ MoveTo(MenuChild(nav))
     \/ key = "enter" /\ Under(nav) = "Back" /\ MoveTo(MenuBack(nav))
     \/ key = "enter" /\ OpenAction(Under(nav))

\* Faulty variant: K1 and K2 tune on every page.
OnAnyPage == action # None

OnSettings == action \in SettingsActions

\* Faulty variant: the page is closed over its task.
ClosePageOnly ==
  /\ active' = FALSE /\ visible' = FALSE /\ action' = None /\ dirty' = FALSE
  /\ screen' = MenuScreen
  /\ UNCHANGED <<vars, nav, page, sinceRefresh, settingVars>>

\* InteractionService_ClosePage and the menu drawn again.
ClosePage ==
  /\ IF action = None THEN UNCHANGED vars ELSE CancelCurrent
  /\ active' = FALSE
  /\ visible' = FALSE
  /\ action' = None
  /\ dirty' = FALSE
  /\ screen' = MenuScreen
  /\ UNCHANGED <<nav, page, sinceRefresh, settingVars>>

\* InteractionService_SettingsAdjust and the forced fetch.
SettingsAdjust(delta) ==
  /\ values' = [values EXCEPT ![CurrentSetting.name] = Adjusted(CurrentSetting, @, delta)]
  /\ UNCHANGED <<vars, nav, action, sinceRefresh, settingsPage, settingsIndex>>
  /\ ShowNew(Content(action)')

SettingsNext ==
  /\ settingsIndex' = NextIndex(Tuned(settingsPage), settingsIndex)
  /\ UNCHANGED <<vars, nav, action, sinceRefresh, settingsPage, values>>
  /\ ShowNew(Content(action)')

\* A key with no function here, K1 on the sensor page (which resets the odometry and
\* forces the fetch), or no key at all.
JustFetch(key) ==
  /\ FetchPage(key = "up" /\ action = "SENSOR_PAGE")
  /\ UNCHANGED <<vars, nav, active, action, page, visible, sinceRefresh, settingVars>>

\* MenuApp_Tick
PageTick(key) ==
  /\ active
  /\ \/ OnSettings /\ key = "up" /\ SettingsAdjust(1)
     \/ OnSettings /\ key = "down" /\ SettingsAdjust(-1)
     \/ OnSettings /\ key = "enter" /\ SettingsNext
     \/ ~OnSettings /\ key = "enter" /\ ClosePage
     \/ key = "back" /\ ClosePage
     \/ ~OnSettings /\ key \in {"up", "down"} /\ JustFetch(key)
     \/ key = "none" /\ JustFetch(key)

UiTick == \E key \in Keys : MenuTick(key) \/ PageTick(key)

-----------------------------------------------------------------------------
\* InteractionService_Tick50ms
Tick50ms ==
  /\ visible
  /\ sinceRefresh >= RefreshPeriod
  /\ sinceRefresh' = 0
  /\ UNCHANGED <<vars, nav, active, screen, action, settingVars>>
  /\ UpdateRuntimePage

TaskTick == Tick10ms /\ UNCHANGED uiVars

Later(now, latest) == IF now + ClockStep > latest THEN latest ELSE now + ClockStep

Time ==
  /\ elapsed < MaxElapsed \/ sinceRefresh < RefreshPeriod
  /\ \/ Clock
     \/ elapsed >= MaxElapsed /\ UNCHANGED vars
  /\ sinceRefresh' = Later(sinceRefresh, RefreshPeriod)
  /\ UNCHANGED <<nav, active, screen, action, page, visible, dirty, settingVars>>

Sensors == Sense /\ UNCHANGED uiVars

UiInit ==
  /\ Init
  /\ nav = MenuInit
  /\ active = FALSE
  /\ screen = MenuScreen
  /\ action = None
  /\ page = BlankPage
  /\ visible = FALSE
  /\ dirty = FALSE
  /\ sinceRefresh = 0
  /\ settingsPage = "SETTINGS_PAGE"
  /\ settingsIndex = 1
  /\ values = [n \in {s.name : s \in AllSettings} |->
                 (CHOOSE s \in AllSettings : s.name = n).default]

UiNext == UiTick \/ Tick50ms \/ TaskTick \/ Time \/ Sensors

\* The main loop never stops ticking, the debounced key is absent on most of its UI
\* ticks, and time goes on.
UiFairness ==
  /\ WF_allVars(PageTick("none"))
  /\ WF_allVars(Tick50ms)
  /\ WF_allVars(TaskTick)
  /\ WF_allVars(Time)

UiSpec == UiInit /\ [][UiNext]_allVars /\ UiFairness

-----------------------------------------------------------------------------
(* Properties *)

\* The task layer works for the open page and for nothing else: without a page it is
\* idle, its ring is empty and the car is commanded to stand; with one, whatever runs
\* or waits is the page's own action, so the ring never holds more than one.
TaskBelongsToPage ==
  /\ ~active => ~busy /\ size = 0 /\ command = Stop
  /\ busy => current = TaskOf(action) /\ size = 0
  /\ size > 0 => size = 1 /\ Live(1) = TaskOf(action)

\* A request of the menu is never turned down: "Task Queue Full" is not reachable.
NeverTurnedDown == active => action # None /\ page.title = action

\* No refresh is lost: as long as the page is not marked dirty the OLED shows the
\* lines the interaction layer last rendered (also across a close and a reopening,
\* which leaves the old lines in g_interaction.page).  In the menu, at the ends of lists
\* longer and shorter than the window, the cursor is on a line that is shown and no line
\* is wasted.
ScreenIsCoherent ==
  /\ active = visible
  /\ active /\ ~dirty => screen = page
  /\ nav.index - nav.start \in 0 .. MaxShowItems - 1
  /\ nav.start + MaxShowItems > Count(nav.menu) => nav.start = 0

\* An arc is never tuned to radius or angle zero, whatever the presses.
ArcStaysAnArc == \A n \in {"ARC RAD", "ARC ANG"} \intersect DOMAIN values : values[n] # 0

\* The magnitudes of the program (labelled LIVE on the page) never change under a
\* running or a waiting action, although nothing in the settings code looks at it.
SettingsFrozenWhileBusy == [][values' # values => ~busy /\ size = 0]_allVars

\* An action whose page is open ends up shown as ended, or its page is closed, on the
\* pages that show the stage, if the sensors see every phase's target reached.
EndIsShown ==
  \A a \in Opened \intersect StageTitles :
    <>[](reading = "hit") =>
      ((active /\ action = a) ~>
        (~active \/ (screen.title = a /\ screen.stage = "complete")))

=============================================================================
