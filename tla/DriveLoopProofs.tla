---------------------------- MODULE DriveLoopProofs ----------------------------
(***************************************************************************)
(* Theorems about a run of the car, for every program of segments and      *)
(* turns, every window and every length of the boost and the release, as   *)
(* long as the windows are as wide as the assumptions of DriveLoop say.    *)
(***************************************************************************)
EXTENDS DriveLoop, TLAPS

-----------------------------------------------------------------------------
(* The scheduler *)

\* What is due are the marks made since the pass began, the last of them the one before
\* the next, and all three from the third on.
DueInv ==
  CASE mark = "T" -> due \in {{}, {"M"}, {"D", "M"}, Ticks}
    [] mark = "D" -> due \in {{}, {"T"}, {"M", "T"}, Ticks}
    [] mark = "M" -> due \in {{}, {"D"}, {"T", "D"}, Ticks}

\* The control tick is marked before the task tick is marked again.
MarkedBeforeTask == "M" \in due \/ ("T" \notin due /\ mark # "T")

\* A pass without the control tick took what was due before its mark.
TodoInv ==
  /\ "D" \in todo /\ "M" \notin todo => "M" \in due \/ (mark = "M" /\ due = {})
  /\ "T" \in todo /\ "M" \notin todo => MarkedBeforeTask

SchedulerInv ==
  /\ mark \in Ticks /\ due \in SUBSET Ticks /\ todo \in SUBSET Ticks /\ rest \in 0 .. KeyGap
  /\ DueInv /\ TodoInv

\* A control tick comes before the next task tick.
ControlFirst == "M" \in todo \/ ("T" \notin todo /\ MarkedBeforeTask)

\* How many device ticks there can have been since the last control tick.
DeviceTicks ==
  IF "M" \notin todo /\ ("D" \in todo \/ ("M" \notin due /\ ("D" \in due \/ mark # "M"))) THEN 0
  ELSE IF "D" \in todo \/ "M" \notin todo THEN 1
  ELSE 2

-----------------------------------------------------------------------------
(* The task layer *)

TaskInv ==
  /\ phase \in 0 .. Len(Program)
  /\ order = IF phase > 0 THEN Issued(phase) ELSE Rest
  /\ requested \in BOOLEAN
  /\ seen \in Int /\ origin \in Int /\ held \in Nat

\* Nothing of an earlier run is left in the control layer.
AtRest == last = Rest /\ drive = "idle" /\ boost = 0 /\ release = 0

\* After a Stop a control tick comes within six marks, before any key.
StopArrives ==
  \/ "M" \in todo
  \/ due = Ticks
  \/ "M" \in due /\ mark = "T" /\ rest <= 3
  \/ "M" \in due /\ mark = "D" /\ rest <= 4
  \/ "M" \notin due /\ mark = "T" /\ rest = 0
  \/ "M" \notin due /\ mark = "D" /\ rest <= 1
  \/ "M" \notin due /\ mark = "M" /\ rest <= 2

RestInv ==
  /\ requested => phase = 0 /\ AtRest
  /\ phase = 0 /\ ~AtRest => StopArrives

\* The phase before this one, if the control layer works on its order.
ComesFrom ==
  \/ phase = 1 /\ last = Rest
  \/ \E i \in 1 .. Len(Program) : Program[i].next = phase /\ last = Issued(i)

\* An order that the control layer has not seen: it will before the next phase but one,
\* the car has hardly moved, and nothing of the phase has happened yet.
UnseenInv ==
  phase > 0 /\ last # order =>
    /\ ControlFirst
    /\ ComesFrom \/ ("T" \notin todo /\ "M" \in todo)
    /\ held = 0
    /\ Enables(order, "distance") => Distance(seen, origin) <= MaxStep * DeviceTicks
    /\ Behavior(order) = "straight" => came = Behavior(last)

\* The boost is given after a turn only.
CameInv ==
  phase > 0 /\ came = "turn" =>
    \E i \in 1 .. Len(Program) : Program[i].next = phase /\ Program[i].command.behavior = "turn"

-----------------------------------------------------------------------------
(* The control layer *)

ControlInv ==
  /\ boost \in Nat /\ release \in Nat
  /\ distanceRef \in SUBSET Int
  /\ boost > 0 \/ release > 0 => Behavior(last) = "straight"

\* Once the order is seen the references are latched, the windows belong to the phase,
\* and while the boost is in force the car is where so many control ticks can take it.
SeenInv ==
  phase > 0 /\ InControl =>
    /\ Enables(order, "distance") =>
         /\ distanceRef # {}
         /\ \A target \in distanceRef :
              /\ Distance(target, origin + order.command.amount) <= 2 * MaxStep
              /\ boost > 0 =>
                   Distance(target, seen + order.command.amount)
                     <= MaxStep * (2 * (held - 1) + DeviceTicks)
    /\ Enables(order, "attitude") =>
         \/ headingRef = {IF Enables(order, "headingLockOnEntry") THEN OwnHeading
                          ELSE order.heading}
         \/ came = "arc" /\ headingRef = {OwnHeading}
    /\ boost > 0 => came = "turn" /\ held > 0 /\ boost + held <= BoostTicks
    /\ release > 0 => came = "arc" /\ held > 0 /\ release + held <= ReleaseTicks

DriveInv ==
  SchedulerInv /\ TaskInv /\ RestInv /\ UnseenInv /\ CameInv /\ ControlInv /\ SeenInv

-----------------------------------------------------------------------------
(* The steps of the scheduler *)

LEMMA TicksAre == Ticks = {"T", "D", "M"} /\ After = [T |-> "D", D |-> "M", M |-> "T"]
  BY DEF Ticks, After

LEMMA DeviceTicksRange == DeviceTicks \in 0 .. 2
  BY DEF DeviceTicks

\* The task tick of a pass.
TaskCalled == "T" \in todo /\ todo' = todo \ {"T"} /\ UNCHANGED <<mark, due>>

LEMMA TaskCall ==
  ASSUME SchedulerInv, TaskCalled, rest' \in 0 .. KeyGap
  PROVE  SchedulerInv' /\ ControlFirst' /\ DeviceTicks' = DeviceTicks
<1>1. ControlFirst'
  BY DEF SchedulerInv, TodoInv, TaskCalled, ControlFirst, MarkedBeforeTask
<1>2. DeviceTicks' = DeviceTicks
  BY DEF TaskCalled, DeviceTicks
<1>3. TodoInv' /\ DueInv'
  BY DEF SchedulerInv, TodoInv, DueInv, TaskCalled, MarkedBeforeTask
<1>4. QED BY <1>1, <1>2, <1>3 DEF SchedulerInv, TaskCalled

\* The device tick of a pass.
DeviceCalled ==
  "D" \in todo /\ "T" \notin todo /\ todo' = todo \ {"D"} /\ UNCHANGED <<mark, due, rest>>

LEMMA DeviceCall ==
  ASSUME SchedulerInv, DeviceCalled
  PROVE  /\ SchedulerInv' /\ (ControlFirst => ControlFirst')
         /\ DeviceTicks' = DeviceTicks + 1
         /\ StopArrives => StopArrives'
<1>1. ControlFirst => ControlFirst'
  BY DEF DeviceCalled, ControlFirst, MarkedBeforeTask
<1>2. TodoInv' /\ DueInv'
  BY DEF SchedulerInv, TodoInv, DueInv, DeviceCalled, MarkedBeforeTask
<1>3. DeviceTicks' = DeviceTicks + 1
  <2>1. CASE "M" \in todo
    BY <2>1 DEF DeviceCalled, DeviceTicks
  <2>2. CASE "M" \notin todo
    <3>1. "M" \in due \/ (mark = "M" /\ due = {})
      BY <2>2 DEF SchedulerInv, TodoInv, DeviceCalled
    <3>2. DeviceTicks = 0
      BY <2>2 DEF DeviceCalled, DeviceTicks
    <3>3. DeviceTicks' = 1
      BY <2>2, <3>1 DEF DeviceCalled, DeviceTicks
    <3>4. QED BY <3>2, <3>3
  <2>3. QED BY <2>1, <2>2
<1>4. StopArrives => StopArrives'
  BY DEF DeviceCalled, StopArrives
<1>5. QED BY <1>1, <1>2, <1>3, <1>4 DEF SchedulerInv, DeviceCalled

\* The control tick of a pass.
ControlCalled == todo = {"M"} /\ todo' = {} /\ UNCHANGED <<mark, due, rest>>

LEMMA ControlCall ==
  ASSUME SchedulerInv, ControlCalled
  PROVE  SchedulerInv' /\ DeviceTicks = 2
<1>1. DeviceTicks = 2
  BY DEF ControlCalled, DeviceTicks
<1>2. TodoInv' /\ DueInv'
  BY DEF SchedulerInv, TodoInv, DueInv, ControlCalled
<1>3. QED BY <1>1, <1>2 DEF SchedulerInv, ControlCalled

\* A mark and the beginning of a pass bring the control tick no later and take no device
\* tick back.
Kept ==
  /\ SchedulerInv' /\ (ControlFirst => ControlFirst')
  /\ DeviceTicks <= DeviceTicks'
  /\ StopArrives => StopArrives'
  /\ "T" \notin todo /\ "M" \in todo => "T" \notin todo' /\ "M" \in todo'

LEMMA MarkKeeps == ASSUME SchedulerInv, Mark PROVE Kept
<1>1. /\ mark \in Ticks /\ due' = due \union {mark} /\ mark' = After[mark]
      /\ UNCHANGED todo /\ due \in SUBSET Ticks
      /\ rest' = Capped(rest + 1, KeyGap) /\ rest \in 0 .. KeyGap
  BY DEF Mark, SchedulerInv
<1>2. \/ mark = "T" /\ mark' = "D"
      \/ mark = "D" /\ mark' = "M"
      \/ mark = "M" /\ mark' = "T"
  BY <1>1, TicksAre
<1>3. DueInv'
  <2>1. CASE mark = "T" /\ mark' = "D"
    BY <1>1, <2>1, TicksAre DEF SchedulerInv, DueInv
  <2>2. CASE mark = "D" /\ mark' = "M"
    BY <1>1, <2>2, TicksAre DEF SchedulerInv, DueInv
  <2>3. CASE mark = "M" /\ mark' = "T"
    BY <1>1, <2>3, TicksAre DEF SchedulerInv, DueInv
  <2>4. QED BY <1>2, <2>1, <2>2, <2>3
<1>4. TodoInv'
  BY <1>1, <1>2 DEF SchedulerInv, TodoInv, MarkedBeforeTask
<1>5. ControlFirst => ControlFirst'
  BY <1>1, <1>2 DEF ControlFirst, MarkedBeforeTask
<1>6. DeviceTicks <= DeviceTicks'
  <2>1. CASE "M" \in todo
    BY <1>1, <2>1 DEF DeviceTicks
  <2>2. CASE "M" \notin todo
    BY <1>1, <1>2, <2>2 DEF DeviceTicks
  <2>3. QED BY <2>1, <2>2
<1>7. rest' \in 0 .. KeyGap /\ \A n \in 0 .. 5 : rest <= n => rest' <= n + 1
  BY <1>1, KeyAssumption DEF Capped
<1>8. StopArrives => StopArrives'
  <2>1. CASE "M" \in todo
    BY <1>1, <2>1 DEF StopArrives
  <2>2. CASE due = Ticks
    BY <1>1, <2>2 DEF StopArrives
  <2>3. CASE "M" \in due /\ mark = "T" /\ rest <= 3
    BY <1>1, <1>2, <1>7, <2>3 DEF StopArrives
  <2>4. CASE "M" \in due /\ mark = "D" /\ rest <= 4
    <3>1. due' = Ticks
      BY <1>1, <2>4, TicksAre DEF SchedulerInv, DueInv
    <3>2. QED BY <3>1 DEF StopArrives, Ticks
  <2>5. CASE "M" \notin due /\ mark = "T" /\ rest = 0
    BY <1>1, <1>2, <1>7, <2>5 DEF StopArrives
  <2>6. CASE "M" \notin due /\ mark = "D" /\ rest <= 1
    BY <1>1, <1>2, <1>7, <2>6 DEF StopArrives
  <2>7. CASE "M" \notin due /\ mark = "M" /\ rest <= 2
    BY <1>1, <1>2, <1>7, <2>7 DEF StopArrives
  <2>8. QED BY <2>1, <2>2, <2>3, <2>4, <2>5, <2>6, <2>7 DEF StopArrives
<1>9. due' \in SUBSET Ticks /\ mark' \in Ticks
  BY <1>1, <1>2, TicksAre
<1>10. QED BY <1>1, <1>3, <1>4, <1>5, <1>6, <1>7, <1>8, <1>9 DEF Kept, SchedulerInv

LEMMA BeginPassKeeps == ASSUME SchedulerInv, BeginPass PROVE Kept
<1>1. /\ todo = {} /\ due # {} /\ todo' = due /\ due' = {} /\ UNCHANGED <<mark, rest>>
      /\ mark \in {"T", "D", "M"} /\ due \in SUBSET Ticks
  BY TicksAre DEF BeginPass, SchedulerInv
<1>2. DueInv'
  BY <1>1 DEF DueInv
<1>3. TodoInv'
  <2>1. CASE mark = "T"
    BY <1>1, <2>1, TicksAre DEF SchedulerInv, DueInv, TodoInv, MarkedBeforeTask
  <2>2. CASE mark = "D"
    BY <1>1, <2>2, TicksAre DEF SchedulerInv, DueInv, TodoInv, MarkedBeforeTask
  <2>3. CASE mark = "M"
    BY <1>1, <2>3, TicksAre DEF SchedulerInv, DueInv, TodoInv, MarkedBeforeTask
  <2>4. QED BY <1>1, <2>1, <2>2, <2>3
<1>4. ControlFirst => ControlFirst'
  BY <1>1 DEF ControlFirst, MarkedBeforeTask
<1>5. DeviceTicks <= DeviceTicks'
  <2>1. CASE "M" \in due
    BY <1>1, <2>1 DEF DeviceTicks
  <2>2. CASE "M" \notin due
    <3>1. mark = "M" => "D" \in due
      BY <1>1, <2>2, TicksAre DEF SchedulerInv, DueInv
    <3>2. DeviceTicks = 0
      BY <1>1, <2>2, <3>1 DEF DeviceTicks
    <3>3. QED BY <3>2, DeviceTicksRange DEF DeviceTicks
  <2>3. QED BY <2>1, <2>2
<1>6. StopArrives => StopArrives'
  BY <1>1, TicksAre DEF StopArrives
<1>7. QED BY <1>1, <1>2, <1>3, <1>4, <1>5, <1>6 DEF Kept, SchedulerInv

\* A Stop issued now comes to the control layer.
LEMMA StopIsOnItsWay ==
  ASSUME SchedulerInv', rest' = 0
  PROVE  StopArrives'
<1>1. mark' \in {"T", "D", "M"}
  BY TicksAre DEF SchedulerInv
<1>2. CASE "M" \in todo'
  BY <1>2 DEF StopArrives
<1>3. CASE "M" \notin todo' /\ "M" \in due'
  <2>1. mark' = "M" => due' = Ticks
    BY <1>3, TicksAre DEF SchedulerInv, DueInv
  <2>2. QED BY <1>1, <1>3, <2>1 DEF StopArrives, Ticks
<1>4. CASE "M" \notin todo' /\ "M" \notin due'
  BY <1>1, <1>4 DEF StopArrives
<1>5. QED BY <1>2, <1>3, <1>4

-----------------------------------------------------------------------------
(* The orders of a run *)

GoodOrder(o) ==
  /\ o.command.amount \in Int
  /\ Behavior(o) = "idle" => o = Rest
  /\ Behavior(o) = "openLoop" => ~Enables(o, "distance") /\ ~Enables(o, "attitude")
  /\ Behavior(o) = "straight" => Enables(o, "speed")
  /\ Enables(o, "distance") => Enables(o, "distanceRelative")

LEMMA RestIs ==
  /\ Behavior(Rest) = "idle" /\ Rest.command.amount = 0 /\ Rest.heading = 0
  /\ \A loop : ~Enables(Rest, loop)
  BY DEF Rest, Order, Stop, Command, Behavior, Enables

LEMMA PhaseFacts ==
  ASSUME NEW i \in 1 .. Len(Program)
  PROVE  /\ Program[i] \in Phases /\ Program[i].command.amount \in Int
         /\ Program[i].next \in 0 .. Len(Program)
         /\ Program[i].command.behavior = "idle" => Program[i].command = Stop
         /\ Program[i].command.behavior = "openLoop" => ~Steered(Program[i].command)
         /\ Program[i].command.behavior = "straight" => "speed" \in Program[i].command.loops
         /\ "distance" \in Program[i].command.loops =>
              "distanceRelative" \in Program[i].command.loops
              /\ Program[i].until \in {"settle", "entry"}
<1>1. Program \in Seq(Phases) /\ IsRun(Program)
  BY ProgramAssumption DEF IsRun
<1>2. Program[i] \in Phases
  BY <1>1
<1>3. Program[i].command \in Commands
  BY <1>2 DEF Phases
<1>4. Program[i].command.amount \in Int
  BY <1>3 DEF Commands
<1>5. QED BY <1>1, <1>2, <1>4 DEF IsRun

LEMMA ProgramLength == Len(Program) \in Nat \ {0}
  BY ProgramAssumption DEF IsRun

LEMMA IssuedIs ==
  ASSUME NEW i \in 1 .. Len(Program)
  PROVE  /\ Issued(i).command = Program[i].command
         /\ Behavior(Issued(i)) = Program[i].command.behavior
         /\ \A loop : Enables(Issued(i), loop) <=> loop \in Program[i].command.loops
         /\ GoodOrder(Issued(i))
<1>1. Issued(i).command = Program[i].command
  BY DEF Issued, OrderOf, Order
<1>2. /\ Behavior(Issued(i)) = Program[i].command.behavior
      /\ \A loop : Enables(Issued(i), loop) <=> loop \in Program[i].command.loops
  BY <1>1 DEF Behavior, Enables
<1>3. Program[i].command = Stop => Issued(i) = Rest
  <2>1. Stop.loops = {}
    BY DEF Stop, Command
  <2>2. QED BY <2>1 DEF Issued, OrderOf, Rest
<1>4. GoodOrder(Issued(i))
  BY <1>1, <1>2, <1>3, PhaseFacts DEF GoodOrder, Steered
<1>5. QED BY <1>1, <1>2, <1>4

LEMMA OrderIsGood == ASSUME TaskInv PROVE GoodOrder(order)
<1>1. CASE phase > 0
  <2>1. phase \in 1 .. Len(Program)
    BY <1>1, ProgramLength DEF TaskInv
  <2>2. QED BY <1>1, <2>1, IssuedIs DEF TaskInv
<1>2. CASE ~(phase > 0)
  BY <1>2, RestIs DEF TaskInv, GoodOrder
<1>3. QED BY <1>1, <1>2

-----------------------------------------------------------------------------
(* The control tick *)

\* What one control tick on order o, with the car at d, does to the windows, the
\* references and the wheels.
Controls(o, d) ==
  /\ last' = o
  /\ distanceRef' = DistanceLatched(o, d)
  /\ \/ headingRef' = HeadingLatched(o)
     \/ headingRef' = {OwnHeading} /\ Behavior(o) = "straight" /\ ReleaseAfterChange(o) > 0
  /\ boost' \in Nat /\ release' \in Nat
  /\ boost' > 0 => Behavior(o) = "straight" /\ boost' = BoostAfterChange(o) - 1
  /\ release' > 0 => Behavior(o) = "straight" /\ release' = ReleaseAfterChange(o) - 1
  /\ drive' = "hold" => Frozen(o, d)
  /\ drive' = "boost" => Behavior(o) = "straight" /\ BoostAfterChange(o) > 0
  /\ o = Rest => drive' = "idle"

\* A command that is not a straight leaves no window.
LEMMA WindowsClosed ==
  ASSUME ControlInv, NEW o, Behavior(o) # "straight"
  PROVE  BoostAfterChange(o) = 0 /\ ReleaseAfterChange(o) = 0
  BY DEF ControlInv, BoostAfterChange, ReleaseAfterChange, Changed, Between

LEMMA WindowsAre ==
  ASSUME ControlInv, NEW o
  PROVE  BoostAfterChange(o) \in Nat /\ ReleaseAfterChange(o) \in Nat
  BY ControlAssumption DEF ControlInv, BoostAfterChange, ReleaseAfterChange

LEMMA ControlIs ==
  ASSUME ControlInv, NEW o, GoodOrder(o), NEW d \in Int,
         NEW online \in BOOLEAN, NEW calm \in BOOLEAN, Control(o, d, online, calm)
  PROVE  Controls(o, d)
<1>1. CASE Behavior(o) = "idle"
  <2>1. o = Rest /\ BeIdle(o)
    BY <1>1 DEF GoodOrder, Control
  <2>2. DistanceLatched(o, d) = {} /\ HeadingLatched(o) = {}
    BY <2>1, RestIs DEF DistanceLatched, HeadingLatched
  <2>3. boost' = 0 /\ release' = 0
    BY <1>1, <2>1, WindowsClosed DEF BeIdle
  <2>4. QED BY <2>1, <2>2, <2>3 DEF BeIdle, Controls
<1>2. CASE Behavior(o) = "openLoop" /\ Enables(o, "openLoop")
  <2>1. DriveOpenLoop(o) /\ o # Rest
    BY <1>2, RestIs DEF Control
  <2>2. DistanceLatched(o, d) = {} /\ HeadingLatched(o) = {}
    BY <1>2 DEF GoodOrder, DistanceLatched, HeadingLatched
  <2>3. boost' = 0 /\ release' = 0
    BY <1>2, <2>1, WindowsClosed DEF DriveOpenLoop
  <2>4. QED BY <2>1, <2>2, <2>3 DEF DriveOpenLoop, Controls
<1>3. CASE Behavior(o) # "idle" /\ ~(Behavior(o) = "openLoop" /\ Enables(o, "openLoop"))
  <2>1. Steer(o, d, online, calm) /\ o # Rest
    BY <1>3, RestIs DEF Control
  <2>2. /\ last' = o /\ distanceRef' = DistanceLatched(o, d)
        /\ \/ headingRef' = HeadingLatched(o)
           \/ headingRef' = {OwnHeading} /\ Releasing(o)
        /\ boost' = BoostLeft(o)
        /\ drive' \in {"boost", "hold", "track"}
        /\ drive' = "boost" <=> Boosting(o)
        /\ drive' = "hold" => Frozen(o, d)
    BY <2>1 DEF Steer
  <2>3. \/ release' = 0
        \/ Releasing(o) /\ release' = ReleaseAfterChange(o) - 1
        \/ ~Releasing(o) /\ release' = ReleaseAfterChange(o)
    BY <2>1 DEF Steer
  <2>4. BoostAfterChange(o) \in Nat /\ ReleaseAfterChange(o) \in Nat
    BY WindowsAre
  <2>5. /\ boost' \in Nat
        /\ boost' > 0 => Behavior(o) = "straight" /\ boost' = BoostAfterChange(o) - 1
    <3>1. CASE Behavior(o) = "straight"
      BY <2>2, <2>4, <3>1 DEF BoostLeft, Boosting, GoodOrder
    <3>2. CASE Behavior(o) # "straight"
      BY <2>2, <3>2, WindowsClosed DEF BoostLeft, Boosting
    <3>3. QED BY <3>1, <3>2
  <2>6. /\ release' \in Nat
        /\ release' > 0 => Behavior(o) = "straight" /\ release' = ReleaseAfterChange(o) - 1
    <3>1. CASE Releasing(o)
      BY <2>3, <2>4, <3>1 DEF Releasing
    <3>2. CASE ~Releasing(o)
      <4>1. ReleaseAfterChange(o) = 0
        BY <2>4, <3>2, WindowsClosed DEF Releasing
      <4>2. QED BY <2>3, <3>2, <4>1
    <3>3. QED BY <3>1, <3>2
  <2>7. QED BY <2>1, <2>2, <2>5, <2>6 DEF Controls, Boosting, Releasing
<1>4. QED BY <1>1, <1>2, <1>3

\* Distances and the travel of several device ticks.
LEMMA DistanceIs ==
  ASSUME NEW a \in Int, NEW b \in Int
  PROVE  /\ Distance(a, b) \in Nat /\ Distance(a, a) = 0
         /\ \A n \in Int : Distance(a, b) <= n <=> a - b <= n /\ b - a <= n
  BY DEF Distance

LEMMA TravelGrows ==
  ASSUME NEW x \in Nat, NEW y \in Nat, x <= y
  PROVE  MaxStep * x \in Nat /\ MaxStep * x <= MaxStep * y
<1>1. MaxStep \in Nat
  BY WindowAssumption
<1>2. PICK z \in Nat : y = x + z
  <2>1. y - x \in Nat /\ y = x + (y - x)
    OBVIOUS
  <2>2. QED BY <2>1
<1>3. MaxStep * y = MaxStep * x + MaxStep * z
  BY <1>1, <1>2
<1>4. MaxStep * x \in Nat /\ MaxStep * z \in Nat
  BY <1>1
<1>5. QED BY <1>3, <1>4

\* The control tick that first sees an order: the references are its own, and the
\* windows are those of the phase it comes from.
LEMMA ControlFirstSees ==
  ASSUME DriveInv, ControlTick, phase > 0, last # order
  PROVE  SeenInv'
<1>1. /\ ControlCalled /\ held' = Capped(held + 1, BoostTicks + ReleaseTicks)
      /\ UNCHANGED <<order, phase, origin, came, seen>>
  BY DEF ControlTick, ControlCalled, taskVars
<1>2. Controls(order, seen) /\ GoodOrder(order)
  <2>1. GoodOrder(order) /\ ControlInv /\ seen \in Int
    BY OrderIsGood DEF DriveInv, TaskInv
  <2>2. QED BY <2>1, ControlIs DEF ControlTick
<1>3. /\ held = 0
      /\ Enables(order, "distance") => Distance(seen, origin) <= MaxStep * DeviceTicks
      /\ Behavior(order) = "straight" => came = Behavior(last)
  BY DEF DriveInv, UnseenInv
<1>4. seen \in Int /\ origin \in Int /\ order.command.amount \in Int /\ MaxStep \in Nat
  BY <1>2, WindowAssumption DEF DriveInv, TaskInv, GoodOrder
<1>5. DeviceTicks = 2 /\ DeviceTicks' \in 0 .. 2
  BY <1>1, ControlCall, DeviceTicksRange DEF DriveInv, DeviceTicks
<1>6. Changed(order)
  BY DEF Changed
<1>7. boost' > 0 => came = "turn" /\ held' = 1 /\ boost' + held' <= BoostTicks
  <2> SUFFICES ASSUME boost' > 0
               PROVE  came = "turn" /\ held' = 1 /\ boost' + held' <= BoostTicks
    OBVIOUS
  <2>1. /\ Behavior(order) = "straight" /\ boost' = BoostAfterChange(order) - 1 /\ boost' \in Nat
    BY <1>2 DEF Controls
  <2>2. BoostAfterChange(order) = BoostTicks /\ Behavior(last) = "turn"
    BY <1>6, <2>1, ControlAssumption DEF BoostAfterChange, Between
  <2>3. held' = 1
    BY <1>1, <1>3, <2>1, <2>2, ControlAssumption DEF Capped
  <2>4. QED BY <1>3, <2>1, <2>2, <2>3, ControlAssumption
<1>8. release' > 0 => came = "arc" /\ held' = 1 /\ release' + held' <= ReleaseTicks
  <2> SUFFICES ASSUME release' > 0
               PROVE  came = "arc" /\ held' = 1 /\ release' + held' <= ReleaseTicks
    OBVIOUS
  <2>1. /\ Behavior(order) = "straight" /\ release' = ReleaseAfterChange(order) - 1
        /\ release' \in Nat
    BY <1>2 DEF Controls
  <2>2. ReleaseAfterChange(order) = ReleaseTicks /\ Behavior(last) = "arc"
    BY <1>6, <2>1, ControlAssumption DEF ReleaseAfterChange, Between
  <2>3. held' = 1
    BY <1>1, <1>3, <2>1, <2>2, ControlAssumption DEF Capped
  <2>4. QED BY <1>3, <2>1, <2>2, <2>3, ControlAssumption
<1>9. ASSUME Enables(order, "distance")
      PROVE  /\ distanceRef' # {}
             /\ \A target \in distanceRef' :
                  /\ Distance(target, origin + order.command.amount) <= 2 * MaxStep
                  /\ Distance(target, seen + order.command.amount) = 0
  <2>1. distanceRef' = {order.command.amount + seen}
    BY <1>2, <1>6, <1>9 DEF Controls, DistanceLatched, GoodOrder
  <2>2. Distance(seen, origin) <= MaxStep * 2
    BY <1>3, <1>5, <1>9
  <2> DEFINE amount == order.command.amount
  <2>3. amount \in Int
    BY <1>4
  <2> HIDE DEF amount
  <2>4. Distance(amount + seen, origin + amount) <= 2 * MaxStep
    BY <1>4, <2>2, <2>3 DEF Distance
  <2>5. Distance(amount + seen, seen + amount) = 0
    BY <1>4, <2>3 DEF Distance
  <2>6. QED BY <2>1, <2>4, <2>5 DEF amount
<1>10. Enables(order, "attitude") =>
         \/ headingRef' = {IF Enables(order, "headingLockOnEntry") THEN OwnHeading
                           ELSE order.heading}
         \/ came = "arc" /\ headingRef' = {OwnHeading}
  <2> SUFFICES ASSUME Enables(order, "attitude"), headingRef' # HeadingLatched(order)
               PROVE  came = "arc" /\ headingRef' = {OwnHeading}
    BY <1>6 DEF HeadingLatched
  <2>1. headingRef' = {OwnHeading} /\ Behavior(order) = "straight" /\ ReleaseAfterChange(order) > 0
    BY <1>2 DEF Controls
  <2>2. Behavior(last) = "arc"
    BY <1>6, <2>1 DEF ReleaseAfterChange, Between
  <2>3. QED BY <1>3, <2>1, <2>2
<1>11. MaxStep * (2 * (1 - 1) + DeviceTicks') \in Nat
  <2>1. PICK n \in 0 .. 2 : DeviceTicks' = n
    BY <1>5
  <2>2. 2 * (1 - 1) + n \in Nat
    OBVIOUS
  <2>3. QED BY <2>1, <2>2, TravelGrows
<1>12. \A target \in distanceRef' :
         Enables(order, "distance") /\ boost' > 0 =>
           Distance(target, seen + order.command.amount)
             <= MaxStep * (2 * (held' - 1) + DeviceTicks')
  BY <1>7, <1>9, <1>11
<1>13. QED BY <1>1, <1>7, <1>8, <1>9, <1>10, <1>12
       DEF SeenInv, Enables, InControl

\* A further control tick on an order: the references stay, the windows run out.
LEMMA ControlSeesAgain ==
  ASSUME DriveInv, ControlTick, phase > 0, last = order
  PROVE  SeenInv'
<1>1. /\ ControlCalled /\ held' = Capped(held + 1, BoostTicks + ReleaseTicks)
      /\ UNCHANGED <<order, phase, origin, came, seen>>
  BY DEF ControlTick, ControlCalled, taskVars
<1>2. Controls(order, seen) /\ GoodOrder(order)
  <2>1. GoodOrder(order) /\ ControlInv /\ seen \in Int
    BY OrderIsGood DEF DriveInv, TaskInv
  <2>2. QED BY <2>1, ControlIs DEF ControlTick
<1>3. ~Changed(order) /\ SeenInv /\ InControl
  BY DEF Changed, DriveInv, InControl
<1>4. /\ seen \in Int /\ origin \in Int /\ held \in Nat /\ MaxStep \in Nat
      /\ boost \in Nat /\ release \in Nat /\ order.command.amount \in Int
      /\ distanceRef \in SUBSET Int
  BY <1>2, WindowAssumption DEF DriveInv, TaskInv, GoodOrder, ControlInv
<1>5. DeviceTicks = 2 /\ DeviceTicks' \in 0 .. 2
  BY <1>1, ControlCall, DeviceTicksRange DEF DriveInv, DeviceTicks
<1>6. BoostAfterChange(order) = boost /\ ReleaseAfterChange(order) = release
  BY <1>3 DEF BoostAfterChange, ReleaseAfterChange
<1>7. boost' > 0 => /\ boost > 0 /\ came = "turn" /\ held > 0 /\ held' = held + 1
                    /\ boost' + held' <= BoostTicks
  <2> SUFFICES ASSUME boost' > 0
               PROVE  /\ boost > 0 /\ came = "turn" /\ held > 0 /\ held' = held + 1
                      /\ boost' + held' <= BoostTicks
    OBVIOUS
  <2>1. boost' = boost - 1 /\ boost' \in Nat /\ boost > 0
    BY <1>2, <1>4, <1>6 DEF Controls
  <2>2. came = "turn" /\ held > 0 /\ boost + held <= BoostTicks
    BY <1>3, <2>1 DEF SeenInv
  <2>3. held' = held + 1
    BY <1>1, <1>4, <2>1, <2>2, ControlAssumption DEF Capped
  <2>4. QED BY <1>4, <2>1, <2>2, <2>3, ControlAssumption
<1>8. release' > 0 => came = "arc" /\ held' > 0 /\ release' + held' <= ReleaseTicks
  <2> SUFFICES ASSUME release' > 0
               PROVE  came = "arc" /\ held' > 0 /\ release' + held' <= ReleaseTicks
    OBVIOUS
  <2>1. release' = release - 1 /\ release' \in Nat /\ release > 0
    BY <1>2, <1>4, <1>6 DEF Controls
  <2>2. came = "arc" /\ held > 0 /\ release + held <= ReleaseTicks
    BY <1>3, <2>1 DEF SeenInv
  <2>3. held' = held + 1
    BY <1>1, <1>4, <2>1, <2>2, ControlAssumption DEF Capped
  <2>4. QED BY <1>4, <2>1, <2>2, <2>3, ControlAssumption
<1>9. Enables(order, "distance") => distanceRef' = distanceRef /\ distanceRef # {}
  BY <1>2, <1>3 DEF Controls, DistanceLatched, SeenInv
<1>10. Enables(order, "attitude") =>
         \/ headingRef' = {IF Enables(order, "headingLockOnEntry") THEN OwnHeading
                           ELSE order.heading}
         \/ came = "arc" /\ headingRef' = {OwnHeading}
  <2> SUFFICES ASSUME Enables(order, "attitude")
               PROVE  \/ headingRef' = {IF Enables(order, "headingLockOnEntry") THEN OwnHeading
                                        ELSE order.heading}
                      \/ came = "arc" /\ headingRef' = {OwnHeading}
    OBVIOUS
  <2>1. \/ headingRef = {IF Enables(order, "headingLockOnEntry") THEN OwnHeading
                         ELSE order.heading}
        \/ came = "arc" /\ headingRef = {OwnHeading}
    BY <1>3 DEF SeenInv
  <2>2. CASE headingRef' = HeadingLatched(order)
    <3>1. HeadingLatched(order) = headingRef
      BY <1>3, <2>1 DEF HeadingLatched
    <3>2. QED BY <2>1, <2>2, <3>1
  <2>3. CASE headingRef' = {OwnHeading} /\ ReleaseAfterChange(order) > 0
    BY <1>3, <1>6, <2>3 DEF SeenInv
  <2>4. QED BY <1>2, <2>2, <2>3 DEF Controls
<1>11. \A target \in distanceRef' :
         Enables(order, "distance") =>
           /\ Distance(target, origin + order.command.amount) <= 2 * MaxStep
           /\ boost' > 0 => Distance(target, seen + order.command.amount)
                              <= MaxStep * (2 * (held' - 1) + DeviceTicks')
  <2> SUFFICES ASSUME NEW target \in distanceRef, Enables(order, "distance")
               PROVE  /\ Distance(target, origin + order.command.amount) <= 2 * MaxStep
                      /\ boost' > 0 =>
                           Distance(target, seen + order.command.amount)
                             <= MaxStep * (2 * (held' - 1) + DeviceTicks')
    BY <1>9
  <2>1. Distance(target, origin + order.command.amount) <= 2 * MaxStep
    BY <1>3 DEF SeenInv
  <2>2. ASSUME boost' > 0
        PROVE  Distance(target, seen + order.command.amount)
                 <= MaxStep * (2 * (held' - 1) + DeviceTicks')
    <3>1. Distance(target, seen + order.command.amount) <= MaxStep * (2 * (held - 1) + 2)
      BY <1>3, <1>5, <1>7, <2>2 DEF SeenInv
    <3> DEFINE x == 2 * (held - 1) + 2
               y == 2 * (held' - 1) + DeviceTicks'
               near == Distance(target, seen + order.command.amount)
    <3>2. x \in Nat /\ y \in Nat /\ x <= y
      <4>1. PICK n \in 0 .. 2 : DeviceTicks' = n
        BY <1>5
      <4>2. held \in Nat \ {0} /\ held' = held + 1
        BY <1>4, <1>7, <2>2
      <4>3. y = 2 * ((held + 1) - 1) + n
        BY <4>1, <4>2
      <4>4. QED BY <4>2, <4>3
    <3>3. near \in Nat
      <4>1. target \in Int /\ seen + order.command.amount \in Int
        BY <1>4
      <4>2. QED BY <4>1, DistanceIs
    <3> HIDE DEF x, y, near
    <3>4. MaxStep * x \in Nat /\ MaxStep * y \in Nat /\ MaxStep * x <= MaxStep * y
      BY <3>2, TravelGrows
    <3>5. near <= MaxStep * x
      BY <3>1 DEF x, near
    <3>6. near <= MaxStep * y
      BY <3>3, <3>4, <3>5
    <3>7. QED BY <3>6 DEF y, near
  <2>3. QED BY <2>1, <2>2
<1>12. QED BY <1>1, <1>4, <1>7, <1>8, <1>9, <1>10, <1>11
       DEF SeenInv, Enables, InControl

LEMMA ControlTickInv == ASSUME DriveInv, ControlTick PROVE DriveInv'
<1>1. /\ ControlCalled /\ held' = Capped(held + 1, BoostTicks + ReleaseTicks)
      /\ UNCHANGED <<order, phase, origin, came, seen, requested>>
  BY DEF ControlTick, ControlCalled, taskVars
<1>2. Controls(order, seen) /\ GoodOrder(order)
  <2>1. GoodOrder(order) /\ ControlInv /\ seen \in Int
    BY OrderIsGood DEF DriveInv, TaskInv
  <2>2. QED BY <2>1, ControlIs DEF ControlTick
<1>3. SchedulerInv'
  BY <1>1, ControlCall DEF DriveInv
<1>4. TaskInv'
  <2>1. held' \in Nat
    BY <1>1, ControlAssumption DEF DriveInv, TaskInv, Capped
  <2>2. Issued(phase)' = Issued(phase)
    BY <1>1 DEF Issued
  <2>3. QED BY <1>1, <2>1, <2>2 DEF DriveInv, TaskInv
<1>5. RestInv'
  <2>1. phase = 0 => order = Rest
    BY DEF DriveInv, TaskInv
  <2>2. order = Rest => AtRest'
    BY <1>2, RestIs DEF Controls, AtRest, Rest, Order, Stop, Command
  <2>3. requested => phase = 0
    BY DEF DriveInv, RestInv
  <2>4. QED BY <1>1, <2>1, <2>2, <2>3 DEF RestInv
<1>6. UnseenInv'
  BY <1>1, <1>2 DEF Controls, UnseenInv
<1>7. CameInv'
  BY <1>1 DEF DriveInv, CameInv
<1>8. ControlInv'
  <2>1. distanceRef' \in SUBSET Int
    BY <1>2 DEF Controls, DistanceLatched, GoodOrder, DriveInv, TaskInv, ControlInv
  <2>2. QED BY <1>2, <2>1 DEF Controls, ControlInv, Behavior
<1>9. SeenInv'
  <2>1. CASE phase > 0
    BY <2>1, ControlFirstSees, ControlSeesAgain
  <2>2. CASE ~(phase > 0)
    BY <1>1, <2>2 DEF SeenInv
  <2>3. QED BY <2>1, <2>2
<1>10. QED BY <1>3, <1>4, <1>5, <1>6, <1>7, <1>8, <1>9 DEF DriveInv

-----------------------------------------------------------------------------
(* The device tick *)

LEMMA DeviceTickInv == ASSUME DriveInv, DeviceTick PROVE DriveInv'
<1>1. /\ DeviceCalled
      /\ UNCHANGED <<controlVars, order, phase, origin, came, requested, held>>
  BY DEF DeviceTick, DeviceCalled, taskVars
<1>2. PICK step \in -MaxStep .. MaxStep : seen' = seen + step
  BY DEF DeviceTick
<1>3. /\ MaxStep \in Nat /\ step \in Int /\ step <= MaxStep /\ -step <= MaxStep
      /\ seen \in Int /\ origin \in Int /\ held \in Nat /\ seen' \in Int
  BY <1>2, WindowAssumption DEF DriveInv, TaskInv
<1>4. /\ SchedulerInv' /\ (ControlFirst => ControlFirst')
      /\ DeviceTicks' = DeviceTicks + 1
      /\ StopArrives => StopArrives'
  BY <1>1, DeviceCall DEF DriveInv
<1>5. DeviceTicks \in Nat
  BY DeviceTicksRange
<1>6. \A x \in Nat : MaxStep * (x + 1) = MaxStep * x + MaxStep /\ MaxStep * x \in Nat
  BY <1>3
<1>7. TaskInv'
  <2>1. Issued(phase)' = Issued(phase)
    BY <1>1 DEF Issued
  <2>2. QED BY <1>1, <1>3, <2>1 DEF DriveInv, TaskInv
<1>8. RestInv'
  BY <1>1, <1>4 DEF DriveInv, RestInv, AtRest, controlVars
<1>9. UnseenInv'
  <2> SUFFICES ASSUME phase > 0, last # order PROVE UnseenInv'
    BY <1>1 DEF UnseenInv, controlVars
  <2>1. /\ ControlFirst
        /\ ComesFrom \/ ("T" \notin todo /\ "M" \in todo)
        /\ held = 0
        /\ Enables(order, "distance") => Distance(seen, origin) <= MaxStep * DeviceTicks
        /\ Behavior(order) = "straight" => came = Behavior(last)
    BY DEF DriveInv, UnseenInv
  <2>2. (ComesFrom \/ ("T" \notin todo /\ "M" \in todo))'
    BY <1>1, <2>1 DEF ComesFrom, controlVars, DeviceCalled, Issued
  <2>3. ASSUME Enables(order, "distance")
        PROVE  Distance(seen', origin) <= MaxStep * DeviceTicks'
    <3> DEFINE x == MaxStep * DeviceTicks
    <3>1. MaxStep * DeviceTicks' = x + MaxStep /\ x \in Nat
      BY <1>4, <1>5, <1>6
    <3>2. Distance(seen, origin) <= x
      BY <2>1, <2>3
    <3> HIDE DEF x
    <3>3. Distance(seen + step, origin) <= x + MaxStep
      BY <1>3, <3>1, <3>2 DEF Distance
    <3>4. QED BY <1>2, <3>1, <3>3
  <2>4. QED BY <1>1, <1>4, <2>1, <2>2, <2>3 DEF UnseenInv, Enables, Behavior, controlVars
<1>10. CameInv' /\ ControlInv'
  BY <1>1 DEF DriveInv, CameInv, ControlInv, controlVars, Behavior
<1>11. SeenInv'
  <2> SUFFICES ASSUME phase > 0, InControl PROVE SeenInv'
    BY <1>1 DEF SeenInv, InControl, controlVars
  <2>1. SeenInv /\ order.command.amount \in Int /\ distanceRef \in SUBSET Int
    BY OrderIsGood DEF DriveInv, GoodOrder, ControlInv
  <2>2. ASSUME NEW target \in distanceRef, Enables(order, "distance"), boost > 0
        PROVE  Distance(target, seen' + order.command.amount)
                 <= MaxStep * (2 * (held - 1) + DeviceTicks')
    <3> DEFINE amount == order.command.amount
               x == 2 * (held - 1) + DeviceTicks
    <3>1. held > 0 /\ Distance(target, seen + amount) <= MaxStep * x
      BY <2>1, <2>2 DEF SeenInv
    <3>2. x \in Nat /\ 2 * (held - 1) + DeviceTicks' = x + 1
      BY <1>3, <1>4, <1>5, <3>1
    <3>3. amount \in Int /\ target \in Int
      BY <2>1
    <3> HIDE DEF amount, x
    <3>4. MaxStep * (x + 1) = MaxStep * x + MaxStep /\ MaxStep * x \in Nat
      BY <1>6, <3>2
    <3> DEFINE y == MaxStep * x
    <3>5. y \in Nat /\ Distance(target, seen + amount) <= y
      BY <3>1, <3>4
    <3> HIDE DEF y
    <3>6. Distance(target, seen + step + amount) <= y + MaxStep
      BY <1>3, <3>3, <3>5 DEF Distance
    <3>7. Distance(target, seen' + amount) <= MaxStep * (x + 1)
      BY <1>2, <3>4, <3>6 DEF y
    <3>8. QED BY <3>2, <3>7 DEF amount
  <2>3. /\ Enables(order, "distance") =>
             /\ distanceRef # {}
             /\ \A target \in distanceRef :
                  Distance(target, origin + order.command.amount) <= 2 * MaxStep
        /\ Enables(order, "attitude") =>
             \/ headingRef = {IF Enables(order, "headingLockOnEntry") THEN OwnHeading
                              ELSE order.heading}
             \/ came = "arc" /\ headingRef = {OwnHeading}
        /\ boost > 0 => came = "turn" /\ held > 0 /\ boost + held <= BoostTicks
        /\ release > 0 => came = "arc" /\ held > 0 /\ release + held <= ReleaseTicks
    BY <2>1 DEF SeenInv
  <2>4. UNCHANGED <<last, distanceRef, headingRef, boost, release, order, phase, origin, came, held>>
    BY <1>1 DEF controlVars
  <2>5. QED BY <2>2, <2>3, <2>4 DEF SeenInv, InControl, Enables
<1>12. QED BY <1>4, <1>7, <1>8, <1>9, <1>10, <1>11 DEF DriveInv

-----------------------------------------------------------------------------
(* The task tick *)

\* A task tick that changes no phase.
LEMMA TaskStays ==
  ASSUME DriveInv, TaskCalled,
         UNCHANGED <<controlVars, order, requested, phase, origin, came, seen, rest, held>>
  PROVE  DriveInv'
<1>1. SchedulerInv' /\ ControlFirst' /\ DeviceTicks' = DeviceTicks
  BY TaskCall DEF DriveInv, SchedulerInv
<1>2. Issued(phase)' = Issued(phase)
  BY DEF Issued
<1>3. TaskInv'
  BY <1>2 DEF DriveInv, TaskInv
<1>4. RestInv'
  <2>1. StopArrives => StopArrives'
    BY DEF TaskCalled, StopArrives
  <2>2. QED BY <2>1 DEF DriveInv, RestInv, AtRest, controlVars
<1>5. UnseenInv'
  <2> SUFFICES ASSUME phase > 0, last # order PROVE UnseenInv'
    BY DEF UnseenInv, controlVars
  <2>1. /\ ComesFrom /\ held = 0
        /\ Enables(order, "distance") => Distance(seen, origin) <= MaxStep * DeviceTicks
        /\ Behavior(order) = "straight" => came = Behavior(last)
    BY DEF DriveInv, UnseenInv, TaskCalled
  <2>2. ComesFrom'
    BY <2>1 DEF ComesFrom, controlVars, Issued
  <2>3. QED BY <1>1, <2>1, <2>2 DEF UnseenInv, Enables, Behavior, controlVars
<1>6. CameInv' /\ ControlInv'
  BY DEF DriveInv, CameInv, ControlInv, controlVars, Behavior
<1>7. SeenInv'
  BY <1>1 DEF DriveInv, SeenInv, InControl, Enables, controlVars
<1>8. QED BY <1>1, <1>3, <1>4, <1>5, <1>6, <1>7 DEF DriveInv

\* The run has ended or has been cancelled: the Stop is on its way.
LEMMA RunEnds ==
  ASSUME DriveInv, SchedulerInv', phase' = 0, order' = Rest, held' = 0, rest' = 0,
         ~requested', requested' \in BOOLEAN, UNCHANGED <<controlVars, seen, origin>>
  PROVE  DriveInv'
<1>1. TaskInv'
  BY ProgramLength DEF DriveInv, TaskInv, Rest, Order, Stop, Command
<1>2. RestInv'
  BY StopIsOnItsWay DEF RestInv
<1>3. UnseenInv' /\ CameInv' /\ SeenInv'
  BY DEF UnseenInv, CameInv, SeenInv
<1>4. ControlInv'
  BY DEF DriveInv, ControlInv, controlVars, Behavior
<1>5. QED BY <1>1, <1>2, <1>3, <1>4 DEF DriveInv

LEMMA StartRunInv == ASSUME DriveInv, TaskCalled, StartRun, UNCHANGED controlVars PROVE DriveInv'
<1>1. AtRest /\ last = Rest
  BY DEF StartRun, DriveInv, RestInv, AtRest
<1>2. /\ requested' = FALSE /\ phase' = 1 /\ order' = Issued(1) /\ seen' = 0 /\ origin' = 0
      /\ came' = "idle" /\ held' = 0 /\ rest' = rest
  BY DEF StartRun
<1>3. SchedulerInv' /\ ControlFirst'
  BY <1>2, TaskCall DEF DriveInv, SchedulerInv
<1>4. 1 \in 1 .. Len(Program) /\ 1 \in 0 .. Len(Program)
  BY ProgramLength
<1>5. TaskInv'
  <2>1. Issued(phase)' = Issued(1)
    BY <1>2 DEF Issued
  <2>2. requested' \in BOOLEAN
    BY <1>2
  <2>3. phase' \in 0 .. Len(Program) /\ phase' > 0
    BY <1>2, <1>4
  <2>4. seen' \in Int /\ origin' \in Int /\ held' \in Nat
    BY <1>2
  <2>5. order' = Issued(phase)'
    BY <1>2, <2>1
  <2>6. QED BY <2>2, <2>3, <2>4, <2>5 DEF TaskInv
<1>6. RestInv' /\ CameInv'
  BY <1>2 DEF RestInv, CameInv
<1>7. UNCHANGED <<last, boost, release, distanceRef, headingRef, drive>>
  BY DEF controlVars
<1>8. UnseenInv'
  <2>1. ComesFrom'
    BY <1>1, <1>2, <1>7 DEF ComesFrom, Rest, Order, Stop, Command
  <2>2. Distance(0, 0) <= MaxStep * DeviceTicks'
    <3>1. PICK n \in 0 .. 2 : DeviceTicks' = n
      BY DEF DeviceTicks
    <3>2. MaxStep * n \in Nat
      BY TravelGrows
    <3>3. QED BY <3>1, <3>2 DEF Distance
  <2>3. Behavior(last)' = "idle"
    BY <1>1, <1>7, RestIs DEF Behavior
  <2>4. QED BY <1>2, <1>3, <2>1, <2>2, <2>3 DEF UnseenInv
<1>9. ControlInv'
  BY <1>7 DEF DriveInv, ControlInv, Behavior
<1>10. SeenInv'
  <2> SUFFICES ASSUME last' = order' PROVE SeenInv'
    BY DEF SeenInv, InControl
  <2>1. \A loop : ~Enables(order', loop)
    BY <1>1, <1>7, RestIs
  <2>2. boost' = 0 /\ release' = 0
    BY <1>1, <1>7 DEF AtRest
  <2>3. QED BY <2>1, <2>2 DEF SeenInv, Enables
<1>11. QED BY <1>3, <1>5, <1>6, <1>8, <1>9, <1>10 DEF DriveInv

\* The phase before a phase that is entered: the control layer works on its order, or it
\* missed it and works on the one before, and then the new phase is no straight.
LEMMA EnteredFrom ==
  ASSUME DriveInv, "T" \in todo, phase > 0, NEW slow, NEW turned, PhaseDone(slow, turned),
         Program[phase].next # Finish
  PROVE  /\ phase \in 1 .. Len(Program) /\ Program[phase].next \in 1 .. Len(Program)
         /\ last # order =>
              Program[Program[phase].next].command.behavior # "straight" /\ "M" \in todo
         /\ Steered(Program[Program[phase].next].command) =>
              last # Issued(Program[phase].next)
<1> DEFINE k == Program[phase].next
<1>1. phase \in 1 .. Len(Program) /\ order = Issued(phase)
  BY ProgramLength DEF DriveInv, TaskInv
<1>2. k \in 1 .. Len(Program)
  BY <1>1, PhaseFacts, ProgramLength DEF Finish
<1>3. ToldApart(Program)
  BY ProgramAssumption DEF IsRun
<1>4. CASE last = order
  <2>1. Steered(Program[k].command) => OrderOf(Program, k) # OrderOf(Program, phase)
    BY <1>1, <1>2, <1>3 DEF ToldApart
  <2>2. QED BY <1>1, <1>2, <1>4, <2>1 DEF Issued
<1>5. CASE last # order
  <2>1. Program[phase].until \in {"settle", "entry"}
    BY <1>5 DEF PhaseDone
  <2>2. ComesFrom /\ "M" \in todo
    BY <1>5 DEF DriveInv, UnseenInv, ControlFirst
  <2>3. CASE phase = 1 /\ last = Rest
    <3>1. Program[k].command.behavior # "straight"
      BY <2>1, <2>3, ProgramAssumption DEF IsRun
    <3>2. Steered(Program[k].command) => last # Issued(k)
      BY <1>2, <2>3, IssuedIs, RestIs DEF Steered, Behavior, Enables
    <3>3. QED BY <1>1, <1>2, <2>2, <3>1, <3>2
  <2>4. CASE \E i \in 1 .. Len(Program) : Program[i].next = phase /\ last = Issued(i)
    <3>1. PICK i \in 1 .. Len(Program) : Program[i].next = phase /\ last = Issued(i)
      BY <2>4
    <3>2. /\ Program[k].command.behavior # "straight"
          /\ Steered(Program[k].command) => OrderOf(Program, k) # OrderOf(Program, i)
      BY <1>1, <1>3, <2>1, <3>1 DEF ToldApart
    <3>3. QED BY <1>1, <1>2, <2>2, <3>1, <3>2 DEF Issued
  <2>5. QED BY <2>2, <2>3, <2>4 DEF ComesFrom
<1>6. QED BY <1>4, <1>5

LEMMA EnterPhaseInv ==
  ASSUME DriveInv, TaskCalled, phase > 0, NEW slow, NEW turned, PhaseDone(slow, turned),
         Program[phase].next # Finish, EnterPhase(Program[phase].next),
         UNCHANGED <<controlVars, requested, seen>>
  PROVE  DriveInv'
<1> DEFINE k == Program[phase].next
<1>1. /\ phase \in 1 .. Len(Program) /\ k \in 1 .. Len(Program) /\ order = Issued(phase)
      /\ last # order => Program[k].command.behavior # "straight" /\ "M" \in todo
      /\ Steered(Program[k].command) => last # Issued(k)
  BY EnteredFrom DEF TaskCalled, DriveInv, TaskInv
<1>2. /\ phase' = k /\ order' = Issued(k) /\ came' = Behavior(order) /\ held' = 0 /\ rest' = rest
      /\ origin' = IF Program[k].until = "turn" THEN origin ELSE seen
  BY DEF EnterPhase
<1> HIDE DEF k
<1>3. UNCHANGED <<last, boost, release, distanceRef, headingRef, drive, seen, requested>>
  BY DEF controlVars
<1>4. SchedulerInv' /\ ControlFirst'
  BY <1>2, TaskCall DEF DriveInv, SchedulerInv
<1>5. seen \in Int /\ origin' \in Int /\ phase' > 0
  BY <1>1, <1>2 DEF DriveInv, TaskInv
<1>6. TaskInv'
  <2>1. Issued(phase)' = Issued(k)
    BY <1>2 DEF Issued
  <2>2. k \in 0 .. Len(Program)
    BY <1>1
  <2>3. QED BY <1>2, <1>3, <1>5, <2>1, <2>2 DEF DriveInv, TaskInv
<1>7. RestInv'
  BY <1>3, <1>5 DEF DriveInv, RestInv
<1>8. UnseenInv'
  <2> SUFFICES ASSUME last # Issued(k) PROVE UnseenInv'
    BY <1>2, <1>3 DEF UnseenInv
  <2>1. (ComesFrom \/ ("T" \notin todo /\ "M" \in todo))'
    <3>1. CASE last = order
      <4>1. Program[phase].next = phase' /\ last' = Issued(phase)
        BY <1>1, <1>2, <1>3, <3>1 DEF k
      <4>2. QED BY <1>1, <4>1 DEF ComesFrom, Issued
    <3>2. CASE last # order
      BY <1>1, <3>2 DEF TaskCalled
    <3>3. QED BY <3>1, <3>2
  <2>2. ASSUME Enables(order', "distance")
        PROVE  Distance(seen', origin') <= MaxStep * DeviceTicks'
    <3>1. Program[k].until \in {"settle", "entry"}
      BY <1>1, <1>2, <2>2, IssuedIs, PhaseFacts
    <3>2. Distance(seen', origin') = 0
      BY <1>2, <1>3, <1>5, <3>1 DEF Distance
    <3>3. PICK n \in 0 .. 2 : DeviceTicks' = n
      BY DEF DeviceTicks
    <3>4. MaxStep * n \in Nat
      BY TravelGrows
    <3>5. QED BY <3>2, <3>3, <3>4
  <2>3. Behavior(order') = "straight" => came' = Behavior(last')
    BY <1>1, <1>2, <1>3, IssuedIs
  <2>4. QED BY <1>2, <1>4, <2>1, <2>2, <2>3 DEF UnseenInv, Enables, Behavior
<1>9. CameInv'
  BY <1>1, <1>2, IssuedIs DEF CameInv, k
<1>10. ControlInv'
  BY <1>3 DEF DriveInv, ControlInv, Behavior
<1>11. SeenInv'
  <2> SUFFICES ASSUME last = Issued(k) PROVE SeenInv'
    BY <1>2, <1>3 DEF SeenInv, InControl
  <2>1. ~Steered(Program[k].command)
    BY <1>1
  <2>2. ~Enables(order', "distance") /\ ~Enables(order', "attitude")
    BY <1>1, <1>2, <2>1, IssuedIs DEF Steered
  <2>3. Behavior(last) # "straight"
    BY <1>1, <2>1, IssuedIs DEF Steered
  <2>4. ~(boost' > 0) /\ ~(release' > 0)
    BY <1>3, <2>3 DEF DriveInv, ControlInv
  <2>5. QED BY <2>2, <2>4 DEF SeenInv, Enables
<1>12. QED BY <1>4, <1>6, <1>7, <1>8, <1>9, <1>10, <1>11 DEF DriveInv

LEMMA TaskTickInv == ASSUME DriveInv, TaskTick PROVE DriveInv'
<1>1. TaskCalled /\ UNCHANGED controlVars
  BY DEF TaskTick, TaskCalled
<1>2. CASE StartRun
  BY <1>1, <1>2, StartRunInv
<1>3. CASE RestIdle
  <2>1. order' = order
    BY <1>3 DEF RestIdle, DriveInv, TaskInv
  <2>2. QED BY <1>1, <1>3, <2>1, TaskStays DEF RestIdle
<1>4. CASE RunPhase
  <2>1. PICK slow \in BOOLEAN, turned \in BOOLEAN :
          IF ~PhaseDone(slow, turned) THEN StayInPhase(slow)
          ELSE IF Program[phase].next = Finish THEN FinishRun
          ELSE EnterPhase(Program[phase].next)
    BY <1>4 DEF RunPhase
  <2>2. phase > 0 /\ UNCHANGED <<requested, seen>> /\ ~requested
    <3>1. phase > 0 /\ UNCHANGED <<requested, seen>>
      BY <1>4 DEF RunPhase
    <3>2. QED BY <3>1 DEF DriveInv, RestInv
  <2>3. CASE StayInPhase(slow)
    BY <1>1, <2>2, <2>3, TaskStays DEF StayInPhase
  <2>4. CASE FinishRun
    <3>1. rest' \in 0 .. KeyGap /\ UNCHANGED origin
      BY <2>4, KeyAssumption DEF FinishRun
    <3>2. SchedulerInv'
      BY <1>1, <3>1, TaskCall DEF DriveInv
    <3>3. phase' = 0 /\ order' = Rest /\ held' = 0 /\ rest' = 0
      BY <2>4 DEF FinishRun
    <3>4. ~requested' /\ requested' \in BOOLEAN
      BY <2>2 DEF DriveInv, TaskInv
    <3>5. UNCHANGED <<controlVars, seen, origin>>
      BY <1>1, <2>2, <3>1
    <3>6. QED BY <3>2, <3>3, <3>4, <3>5, RunEnds
  <2>5. CASE /\ PhaseDone(slow, turned) /\ Program[phase].next # Finish
             /\ EnterPhase(Program[phase].next)
    BY <1>1, <2>2, <2>5, EnterPhaseInv
  <2>6. QED BY <2>1, <2>3, <2>4, <2>5
<1>5. QED BY <1>2, <1>3, <1>4 DEF TaskTick

-----------------------------------------------------------------------------
(* The steps of the scheduler and the driver *)

\* A step that moves nothing but the scheduler and the request.
LEMMA QuietStep ==
  ASSUME DriveInv, Kept, requested' \in BOOLEAN, requested' => phase = 0 /\ AtRest,
         UNCHANGED <<controlVars, order, phase, origin, came, seen, held>>
  PROVE  DriveInv'
<1>1. UNCHANGED <<last, boost, release, distanceRef, headingRef, drive>>
  BY DEF controlVars
<1>2. /\ SchedulerInv' /\ (ControlFirst => ControlFirst') /\ (StopArrives => StopArrives')
      /\ ("T" \notin todo /\ "M" \in todo => "T" \notin todo' /\ "M" \in todo')
  BY DEF Kept
<1>3. TaskInv'
  <2>1. Issued(phase)' = Issued(phase)
    BY DEF Issued
  <2>2. QED BY <2>1 DEF DriveInv, TaskInv
<1>4. RestInv'
  BY <1>1, <1>2 DEF DriveInv, RestInv, AtRest
<1>5. CameInv' /\ ControlInv'
  BY <1>1 DEF DriveInv, CameInv, ControlInv, Behavior
<1>6. \A n \in Nat : MaxStep * (n + DeviceTicks) <= MaxStep * (n + DeviceTicks')
  <2> TAKE n \in Nat
  <2>1. PICK before \in 0 .. 2, after \in 0 .. 2 :
          before = DeviceTicks /\ after = DeviceTicks'
    BY DEF DeviceTicks
  <2>2. before <= after
    BY <2>1 DEF Kept
  <2>3. n + before \in Nat /\ n + after \in Nat /\ n + before <= n + after
    BY <2>2
  <2>4. MaxStep * (n + before) <= MaxStep * (n + after)
    BY <2>3, TravelGrows
  <2>5. QED BY <2>1, <2>4
<1>7. UnseenInv'
  <2> SUFFICES ASSUME phase > 0, last # order PROVE UnseenInv'
    BY <1>1 DEF UnseenInv
  <2>1. /\ ControlFirst
        /\ ComesFrom \/ ("T" \notin todo /\ "M" \in todo)
        /\ held = 0
        /\ Enables(order, "distance") => Distance(seen, origin) <= MaxStep * DeviceTicks
        /\ Behavior(order) = "straight" => came = Behavior(last)
    BY DEF DriveInv, UnseenInv
  <2>2. (ComesFrom \/ ("T" \notin todo /\ "M" \in todo))'
    BY <1>1, <1>2, <2>1 DEF ComesFrom, Issued
  <2>3. ASSUME Enables(order, "distance")
        PROVE  Distance(seen, origin) <= MaxStep * DeviceTicks'
    <3>1. PICK before \in 0 .. 2, after \in 0 .. 2 :
            before = DeviceTicks /\ after = DeviceTicks'
      BY DEF DeviceTicks
    <3>2. before <= after
      BY <3>1 DEF Kept
    <3>3. MaxStep * before \in Nat /\ MaxStep * after \in Nat
          /\ MaxStep * before <= MaxStep * after
      BY <3>2, TravelGrows
    <3>4. Distance(seen, origin) \in Nat
      BY DistanceIs DEF DriveInv, TaskInv
    <3>5. Distance(seen, origin) <= MaxStep * before
      BY <2>1, <2>3, <3>1
    <3>6. Distance(seen, origin) <= MaxStep * after
      BY <3>3, <3>4, <3>5
    <3>7. QED BY <3>1, <3>6
  <2>4. QED BY <1>1, <1>2, <2>1, <2>2, <2>3 DEF UnseenInv, Enables, Behavior
<1>8. SeenInv'
  <2> SUFFICES ASSUME phase > 0, last = order PROVE SeenInv'
    BY <1>1 DEF SeenInv, InControl
  <2>1. SeenInv /\ InControl
    BY DEF DriveInv, InControl
  <2>2. ASSUME NEW target \in distanceRef, Enables(order, "distance"), boost > 0
        PROVE  Distance(target, seen + order.command.amount)
                 <= MaxStep * (2 * (held - 1) + DeviceTicks')
    <3> DEFINE near == Distance(target, seen + order.command.amount)
               n == 2 * (held - 1)
    <3>1. held > 0 /\ near <= MaxStep * (n + DeviceTicks)
      BY <2>1, <2>2 DEF SeenInv
    <3>2. n \in Nat /\ seen \in Int /\ order.command.amount \in Int /\ target \in Int
      BY <2>2, <3>1, OrderIsGood DEF DriveInv, TaskInv, ControlInv, GoodOrder
    <3>3. near \in Nat
      <4>1. seen + order.command.amount \in Int
        BY <3>2
      <4>2. QED BY <3>2, <4>1, DistanceIs
    <3>4. MaxStep * (n + DeviceTicks) <= MaxStep * (n + DeviceTicks')
      BY <1>6, <3>2
    <3>5. MaxStep * (n + DeviceTicks) \in Nat /\ MaxStep * (n + DeviceTicks') \in Nat
      <4>1. PICK before \in 0 .. 2, after \in 0 .. 2 :
              before = DeviceTicks /\ after = DeviceTicks'
        BY DEF DeviceTicks
      <4>2. n + before \in Nat /\ n + after \in Nat
        BY <3>2
      <4>3. MaxStep * (n + before) \in Nat /\ MaxStep * (n + after) \in Nat
        BY <4>2, TravelGrows
      <4>4. QED BY <4>1, <4>3
    <3> HIDE DEF near, n
    <3>6. near <= MaxStep * (n + DeviceTicks')
      BY <3>1, <3>3, <3>4, <3>5
    <3>7. QED BY <3>6 DEF near, n
  <2>3. UNCHANGED <<last, distanceRef, headingRef, boost, release, order, phase, origin, came,
                    seen, held>>
    BY <1>1
  <2>4. QED BY <2>1, <2>2, <2>3 DEF SeenInv, InControl, Enables
<1>9. QED BY <1>2, <1>3, <1>4, <1>5, <1>7, <1>8 DEF DriveInv

\* When the page can be opened the last Stop has long come to the control layer.
LEMMA OpenPageRests == ASSUME DriveInv, OpenPage PROVE AtRest
<1>1. todo = {} /\ due # Ticks /\ rest = KeyGap /\ phase = 0
  BY DEF OpenPage, KeysPolled
<1>2. ~StopArrives
  BY <1>1, KeyAssumption DEF StopArrives
<1>3. QED BY <1>1, <1>2 DEF DriveInv, RestInv

LEMMA InitDriveInv == ASSUME Init PROVE DriveInv
<1>1. /\ last = Rest /\ distanceRef = {} /\ boost = 0 /\ release = 0 /\ drive = "idle"
      /\ order = Rest /\ requested = FALSE /\ phase = 0 /\ origin = 0 /\ seen = 0
      /\ mark = "T" /\ due = {} /\ todo = {} /\ rest = KeyGap /\ held = 0
  BY DEF Init, ControlInit
<1>2. SchedulerInv
  <2>1. mark \in Ticks /\ due \in SUBSET Ticks /\ todo \in SUBSET Ticks
    BY <1>1, TicksAre
  <2>2. rest \in 0 .. KeyGap
    BY <1>1, KeyAssumption
  <2>3. DueInv /\ TodoInv
    BY <1>1 DEF DueInv, TodoInv
  <2>4. QED BY <2>1, <2>2, <2>3 DEF SchedulerInv
<1>3. TaskInv
  <2>1. requested \in BOOLEAN
    BY <1>1
  <2>2. phase \in 0 .. Len(Program) /\ ~(phase > 0)
    BY <1>1, ProgramLength
  <2>3. seen \in Int /\ origin \in Int /\ held \in Nat /\ order = Rest
    BY <1>1
  <2>4. QED BY <2>1, <2>2, <2>3 DEF TaskInv
<1>4. RestInv /\ UnseenInv /\ CameInv /\ SeenInv
  BY <1>1 DEF RestInv, AtRest, UnseenInv, CameInv, SeenInv
<1>5. ControlInv
  BY <1>1 DEF ControlInv
<1>6. QED BY <1>2, <1>3, <1>4, <1>5 DEF DriveInv

LEMMA StepDriveInv == ASSUME DriveInv, [Next]_vars PROVE DriveInv'
<1>1. requested \in BOOLEAN /\ (requested => phase = 0 /\ AtRest) /\ SchedulerInv
  BY DEF DriveInv, TaskInv, RestInv
<1>2. CASE TaskTick
  BY <1>2, TaskTickInv
<1>3. CASE DeviceTick
  BY <1>3, DeviceTickInv
<1>4. CASE ControlTick
  BY <1>4, ControlTickInv
<1>5. CASE Mark
  <2>1. UNCHANGED <<controlVars, order, requested, phase, origin, came, seen, held>>
    BY <1>5 DEF Mark, taskVars
  <2>2. QED BY <1>1, <1>5, <2>1, MarkKeeps, QuietStep
<1>6. CASE BeginPass
  <2>1. UNCHANGED <<controlVars, order, requested, phase, origin, came, seen, held>>
    BY <1>6 DEF BeginPass, taskVars
  <2>2. QED BY <1>1, <1>6, <2>1, BeginPassKeeps, QuietStep
<1>7. CASE OpenPage
  <2>1. UNCHANGED <<controlVars, order, phase, origin, came, seen, mark, due, todo, rest, held>>
    BY <1>7 DEF OpenPage
  <2>2. Kept
    <3>1. SchedulerInv' /\ (ControlFirst => ControlFirst') /\ (StopArrives => StopArrives')
      BY <1>1, <2>1
         DEF SchedulerInv, DueInv, TodoInv, MarkedBeforeTask, ControlFirst, StopArrives
    <3>2. DeviceTicks' = DeviceTicks
      BY <2>1 DEF DeviceTicks
    <3>3. DeviceTicks <= DeviceTicks'
      BY <3>2, DeviceTicksRange
    <3>4. QED BY <2>1, <3>1, <3>3 DEF Kept
  <2>3. requested' \in BOOLEAN
    BY <1>7 DEF OpenPage
  <2>4. phase = 0 /\ AtRest
    BY <1>7, OpenPageRests DEF OpenPage
  <2>5. QED BY <2>1, <2>2, <2>3, <2>4, QuietStep
<1>8. CASE ClosePage
  <2>1. /\ phase' = 0 /\ order' = Rest /\ held' = 0 /\ rest' = 0 /\ requested' = FALSE
        /\ UNCHANGED <<controlVars, origin, seen, mark, due, todo>>
    BY <1>8 DEF ClosePage
  <2>2. SchedulerInv'
    <3>1. DueInv' /\ TodoInv'
      BY <1>1, <2>1 DEF SchedulerInv, DueInv, TodoInv, MarkedBeforeTask
    <3>2. rest' \in 0 .. KeyGap
      BY <2>1, KeyAssumption
    <3>3. QED BY <1>1, <2>1, <3>1, <3>2 DEF SchedulerInv
  <2>3. ~requested' /\ requested' \in BOOLEAN
    BY <2>1
  <2>4. QED BY <2>1, <2>2, <2>3, RunEnds
<1>9. CASE UNCHANGED vars
  <2>1. /\ UNCHANGED <<controlVars, order, requested, phase, origin, came, seen, held>>
        /\ UNCHANGED <<mark, due, todo, rest>>
    BY <1>9 DEF vars, taskVars
  <2>2. Kept
    <3>1. SchedulerInv' /\ (ControlFirst => ControlFirst') /\ (StopArrives => StopArrives')
      BY <1>1, <2>1
         DEF SchedulerInv, DueInv, TodoInv, MarkedBeforeTask, ControlFirst, StopArrives
    <3>2. DeviceTicks' = DeviceTicks
      BY <2>1 DEF DeviceTicks
    <3>3. DeviceTicks <= DeviceTicks'
      BY <3>2, DeviceTicksRange
    <3>4. QED BY <2>1, <3>1, <3>3 DEF Kept
  <2>3. QED BY <1>1, <2>1, <2>2, QuietStep
<1>10. QED BY <1>2, <1>3, <1>4, <1>5, <1>6, <1>7, <1>8, <1>9 DEF Next

\* The invariant of a run.
THEOREM DriveSound == Spec => []DriveInv
<1>1. Init => DriveInv
  BY InitDriveInv
<1>2. DriveInv /\ [Next]_vars => DriveInv'
  BY StepDriveInv
<1>3. QED BY <1>1, <1>2, PTL DEF Spec

-----------------------------------------------------------------------------
(* What the control layer keeps for a phase *)

\* In every run the distance and the heading that the control layer steers to are those
\* of the phase whose order it has seen: the target within the travel of two device
\* ticks (motion_control.c, MotionControl_LatchReferences).
THEOREM TargetsBelong == Spec => []TargetIsThisPhases
<1>1. DriveInv => TargetIsThisPhases
  <2> SUFFICES ASSUME DriveInv, InControl, phase > 0 PROVE TargetIsThisPhases
    BY DEF TargetIsThisPhases
  <2>1. SeenInv
    BY DEF DriveInv
  <2>2. QED BY <2>1 DEF SeenInv, TargetIsThisPhases
<1>2. QED BY <1>1, DriveSound, PTL

\* In every run the boost belongs to a straight entered from a turn and the release to
\* one entered from an arc, and neither lasts longer than it was given.
THEOREM WindowsBelong == Spec => []ExitWindowsBelong
<1>1. DriveInv => ExitWindowsBelong
  <2> SUFFICES ASSUME DriveInv, InControl
               PROVE  /\ boost > 0 => came = "turn" /\ boost + held <= BoostTicks
                      /\ release > 0 => came = "arc" /\ release + held <= ReleaseTicks
    BY DEF ExitWindowsBelong
  <2>1. CASE phase > 0
    BY <2>1 DEF DriveInv, SeenInv
  <2>2. CASE ~(phase > 0)
    <3>1. last = Rest
      BY <2>2 DEF DriveInv, TaskInv, InControl
    <3>2. ~(boost > 0) /\ ~(release > 0)
      BY <3>1, RestIs DEF DriveInv, ControlInv
    <3>3. QED BY <3>2
  <2>3. QED BY <2>1, <2>2
<1>2. QED BY <1>1, DriveSound, PTL

-----------------------------------------------------------------------------
(* What a control tick may do *)

LEMMA OnlyControlTick == ASSUME [Next]_vars, Controlled PROVE ControlTick
<1>1. ~TaskTick
  BY DEF TaskTick, Controlled
<1>2. ~DeviceTick
  BY DEF DeviceTick, Controlled
<1>3. ~Mark /\ ~BeginPass /\ ~OpenPage /\ ~ClosePage /\ ~UNCHANGED vars
  BY DEF Mark, BeginPass, OpenPage, ClosePage, vars, Controlled
<1>4. QED BY <1>1, <1>2, <1>3 DEF Next

LEMMA ControlTickControls ==
  ASSUME DriveInv, ControlTick
  PROVE  Controls(order, seen) /\ GoodOrder(order)
<1>1. GoodOrder(order) /\ ControlInv /\ seen \in Int
  BY OrderIsGood DEF DriveInv, TaskInv
<1>2. QED BY <1>1, ControlIs DEF ControlTick

LEMMA HeldInWindow ==
  ASSUME DriveInv, DriveInv', ControlTick, drive' = "hold", phase > 0
  PROVE  /\ Program[phase].until = "settle" => InWindow
         /\ Program[phase].until = "entry" => EntryReady
<1> DEFINE amount == Program[phase].command.amount
<1>1. phase \in 1 .. Len(Program) /\ order = Issued(phase)
  BY ProgramLength DEF DriveInv, TaskInv
<1>2. order.command.amount = amount /\ amount \in Int
  BY <1>1, IssuedIs, PhaseFacts
<1>3. /\ seen \in Int /\ origin \in Int
      /\ MaxStep \in Nat /\ DoneError \in Nat /\ Lead \in Nat /\ FreezeError \in Nat
  BY WindowAssumption, ControlAssumption DEF DriveInv, TaskInv
<1>4. Controls(order, seen) /\ UNCHANGED <<order, phase, origin>>
  BY ControlTickControls DEF ControlTick, taskVars
<1>5. PICK target \in distanceRef' : Distance(target, seen) <= FreezeError
  BY <1>4 DEF Controls, Frozen
<1>6. Enables(order, "distance")
  BY <1>4, <1>5 DEF Controls, DistanceLatched
<1>7. target \in Int
  BY <1>5 DEF DriveInv, ControlInv
<1>8. Distance(target, origin + amount) <= 2 * MaxStep
  <2>1. last' = order
    BY <1>4 DEF Controls
  <2>2. QED BY <1>2, <1>4, <1>5, <1>6, <2>1 DEF DriveInv, SeenInv, InControl, Enables
<1> HIDE DEF amount
<1>9. Distance(amount, seen - origin) <= FreezeError + 2 * MaxStep
  BY <1>2, <1>3, <1>5, <1>7, <1>8 DEF Distance
<1>10. InWindow
  <2>1. Distance(amount, seen - origin) <= DoneError
    <3>1. Distance(amount, seen - origin) \in Nat
      BY <1>2, <1>3 DEF Distance
    <3>2. QED BY <1>3, <1>9, <3>1, WindowAssumption
  <2>2. QED BY <2>1 DEF InWindow, Travelled, amount
<1>11. ASSUME Program[phase].until = "entry"
       PROVE  EntryReady
  <2>1. amount <= 0 \/ amount >= FreezeError + 2 * MaxStep
    BY <1>1, <1>11, SegmentAssumption DEF amount
  <2>2. FreezeError + 2 * MaxStep <= Lead
    BY WindowAssumption
  <2>3. amount <= 0 \/ seen - origin >= amount - Capped(Lead, amount)
    BY <1>2, <1>3, <1>9, <2>1, <2>2 DEF Distance, Capped
  <2>4. QED BY <2>3 DEF EntryReady, Travelled, amount
<1>12. QED BY <1>10, <1>11

\* In no run does the control layer freeze the car (FreezeError) where the test of its
\* phase would still wait: the run always goes on, though no phase has a timeout
\* (task_service.c, TaskService_IsDistanceDone and the two entry tests).
THEOREM FreezeIsSeen == Spec => NeverFrozenShortOfExit
<1>1. DriveInv /\ DriveInv' /\ [Next]_vars =>
        [Controlled /\ drive' = "hold" /\ phase > 0 =>
           /\ Program[phase].until = "settle" => InWindow
           /\ Program[phase].until = "entry" => EntryReady]_vars
  BY OnlyControlTick, HeldInWindow
<1>2. QED BY <1>1, DriveSound, PTL DEF Spec, NeverFrozenShortOfExit

\* The segment is long enough for the boost it gets.
LEMMA BoostedSegment ==
  ASSUME DriveInv, phase > 0, came = "turn", Enables(order, "distance")
  PROVE  order.command.amount > FreezeError + 2 * (MaxStep * BoostTicks)
<1>1. phase \in 1 .. Len(Program) /\ order = Issued(phase)
  BY ProgramLength DEF DriveInv, TaskInv
<1>2. PICK i \in 1 .. Len(Program) :
        Program[i].next = phase /\ Program[i].command.behavior = "turn"
  BY DEF DriveInv, CameInv
<1>3. "distance" \in Program[phase].command.loops
  BY <1>1, IssuedIs
<1>4. Program[phase].command.amount > FreezeError + 2 * (MaxStep * BoostTicks)
  BY <1>1, <1>2, <1>3, SegmentAssumption
<1>5. QED BY <1>1, <1>4, IssuedIs

LEMMA BoostFarFromTarget ==
  ASSUME DriveInv, ControlTick, drive' = "boost", NEW target \in distanceRef'
  PROVE  Distance(target, seen) > FreezeError
<1> DEFINE amount == order.command.amount
<1>1. Controls(order, seen) /\ GoodOrder(order)
  BY ControlTickControls
<1>2. Behavior(order) = "straight" /\ BoostAfterChange(order) > 0
  BY <1>1 DEF Controls
<1>3. phase > 0
  BY <1>2, RestIs DEF DriveInv, TaskInv
<1>4. Enables(order, "distance") /\ target \in DistanceLatched(order, seen)
  BY <1>1 DEF Controls, DistanceLatched
<1>5. /\ seen \in Int /\ held \in Nat /\ boost \in Nat /\ amount \in Int
      /\ MaxStep \in Nat /\ FreezeError \in Nat /\ BoostTicks \in Nat
  BY <1>1, WindowAssumption, ControlAssumption DEF DriveInv, TaskInv, ControlInv, GoodOrder
<1>6. MaxStep * BoostTicks \in Nat
  BY <1>5
<1>7. CASE Changed(order)
  <2>1. came = "turn"
    <3>1. Behavior(last) = "turn"
      BY <1>2, <1>7 DEF BoostAfterChange, Between
    <3>2. QED BY <1>2, <1>3, <1>7, <3>1 DEF DriveInv, UnseenInv, Changed
  <2>2. amount > FreezeError + 2 * (MaxStep * BoostTicks)
    BY <1>3, <1>4, <2>1, BoostedSegment
  <2>3. target = amount + seen
    BY <1>1, <1>4, <1>7 DEF DistanceLatched, GoodOrder
  <2> DEFINE travel == MaxStep * BoostTicks
  <2> HIDE DEF amount, travel
  <2>4. travel \in Nat /\ amount > FreezeError + 2 * travel
    BY <1>6, <2>2 DEF travel
  <2>5. QED BY <1>5, <2>3, <2>4 DEF Distance
<1>8. CASE ~Changed(order)
  <2>1. boost > 0 /\ InControl
    BY <1>2, <1>8 DEF BoostAfterChange, Changed, InControl
  <2>2. /\ distanceRef # {}
        /\ \A t \in distanceRef :
             Distance(t, seen + amount) <= MaxStep * (2 * (held - 1) + DeviceTicks)
        /\ came = "turn" /\ held > 0 /\ boost + held <= BoostTicks
    BY <1>3, <1>4, <2>1 DEF DriveInv, SeenInv
  <2>3. target \in distanceRef
    BY <1>4, <1>8, <2>2 DEF DistanceLatched
  <2>4. amount > FreezeError + 2 * (MaxStep * BoostTicks)
    BY <1>3, <1>4, <2>2, BoostedSegment
  <2>5. DeviceTicks = 2
    BY ControlCall DEF ControlTick, ControlCalled, DriveInv
  <2>6. target \in Int
    BY <2>3 DEF DriveInv, ControlInv
  <2> DEFINE travel == MaxStep * BoostTicks
             ticks == 2 * (held - 1) + 2
  <2>7. ticks \in Nat /\ 2 * BoostTicks \in Nat /\ ticks <= 2 * BoostTicks
    BY <1>5, <2>1, <2>2
  <2>8. Distance(target, seen + amount) <= MaxStep * ticks
    BY <2>2, <2>3, <2>5
  <2>9. MaxStep * (2 * BoostTicks) = 2 * travel
    BY <1>5
  <2> HIDE DEF amount, ticks, travel
  <2>10. /\ MaxStep * ticks \in Nat
         /\ MaxStep * ticks <= MaxStep * (2 * BoostTicks)
    BY <2>7, TravelGrows
  <2>11. travel \in Nat /\ amount > FreezeError + 2 * travel
    BY <1>6, <2>4 DEF travel
  <2>12. Distance(target, seen + amount) <= 2 * travel
    <3>1. Distance(target, seen + amount) \in Nat
      BY <1>5, <2>6 DEF Distance
    <3> DEFINE d == Distance(target, seen + amount)
               m == MaxStep * ticks
    <3>2. d \in Nat /\ m \in Nat /\ d <= m /\ m <= 2 * travel
      BY <2>8, <2>9, <2>10, <3>1
    <3> HIDE DEF d, m
    <3>3. d <= 2 * travel
      BY <2>11, <3>2
    <3>4. QED BY <3>3 DEF d
  <2>13. QED BY <1>5, <2>6, <2>11, <2>12 DEF Distance
<1>9. QED BY <1>7, <1>8

\* In every run the boost is over before the car is in the freeze window of its target,
\* which it would drive through (motion_control.c, the boost after the speed limit).
THEOREM BoostNeverOvershoots == Spec => BoostEndsFirst
<1>1. DriveInv /\ [Next]_vars =>
        [Controlled /\ drive' = "boost" =>
           \A target \in distanceRef' : Distance(target, seen) > FreezeError]_vars
  BY OnlyControlTick, BoostFarFromTarget
<1>2. QED BY <1>1, DriveSound, PTL DEF Spec, BoostEndsFirst

\* Every run starts with the wheels off and nothing of an earlier run in the control
\* layer: the keys are too far apart for a Stop to be overtaken.
THEOREM RunsStartAtRest == Spec => StartsAtRest
<1>1. DriveInv /\ [Next]_vars =>
        [phase = 0 /\ phase' > 0 =>
           last = Rest /\ drive = "idle" /\ boost = 0 /\ release = 0]_vars
  <2> SUFFICES ASSUME DriveInv, [Next]_vars, phase = 0, phase' > 0 PROVE AtRest
    BY DEF AtRest
  <2>1. TaskTick
    BY DEF Next, DeviceTick, ControlTick, Mark, BeginPass, OpenPage, ClosePage, vars, taskVars
  <2>2. StartRun
    BY <2>1 DEF TaskTick, RestIdle, RunPhase
  <2>3. QED BY <2>2 DEF StartRun, DriveInv, RestInv
<1>2. QED BY <1>1, DriveSound, PTL DEF Spec, StartsAtRest

=============================================================================
