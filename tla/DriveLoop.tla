------------------------------ MODULE DriveLoop ------------------------------
(***************************************************************************)
(* One run of the car through the three ticks that drive it: the task tick *)
(* (T) steps the phases and issues the orders, the device tick (D) brings  *)
(* in the distance, the control tick (M) moves the wheels.                 *)
(*                                                                         *)
(* The scheduler marks T, D and M due in this order once every 10 ms.  A   *)
(* pass takes what is due at its start and calls it in this order; marks   *)
(* made meanwhile wait for the next pass, and marks of several periods     *)
(* merge, so two calls of T may have no call of M between them.  The       *)
(* driver's keys come between two passes.  AppScheduler has the details.   *)
(*                                                                         *)
(* T reads the distance before D refreshes it and M after, so the two      *)
(* layers measure one segment from different origins; the properties say   *)
(* what nevertheless holds between them.                                   *)
(***************************************************************************)
EXTENDS MotionControl, TaskPrograms

CONSTANTS Program,    \* the phases of the run
          DoneError,  \* APP_DISTANCE_DONE_ERR_MM: 28
          DoneHold,   \* APP_DISTANCE_DONE_HOLD_CYCLES: 5
          Lead,       \* the entry lead: 160 before a turn, 120 before an arc
          MaxStep,    \* the most the distance changes from one D to the next
          MaxAway,    \* bound of the model: how far a phase's origin is left behind
          KeyGap      \* marks between two keys: 20 ms, two periods of three

\* The turn or arc whose target heading the task layer holds in phase i.
TurnBefore(p, i) ==
  LET turns == {j \in 1 .. i : p[j].until \in {"turn", "arc"}}
  IN IF turns = {} THEN 0 ELSE CHOOSE j \in turns : \A k \in turns : k <= j

\* The order a phase issues: its command, with that heading if it steers to one.
OrderOf(p, i) ==
  LET command == p[i].command
  IN Order(command, IF "attitude" \in command.loops /\ "headingLockOnEntry" \notin command.loops
                    THEN TurnBefore(p, i) ELSE 0)

Issued(i) == OrderOf(Program, i)

\* Orders on whose references or windows the control layer keeps something.
Steered(command) ==
  command.behavior = "straight" \/ {"distance", "attitude"} \intersect command.loops # {}

\* The control layer tells a steered phase from the ones before it: from its predecessor,
\* and from the one before if a control tick may miss the predecessor, which is then no
\* straight's.
ToldApart(p) ==
  \A i, j \in 1 .. Len(p) :
    p[i].next = j =>
      /\ Steered(p[j].command) => OrderOf(p, j) # OrderOf(p, i)
      /\ p[j].until \in {"settle", "entry"} /\ p[j].next # Finish =>
           /\ p[p[j].next].command.behavior # "straight"
           /\ Steered(p[p[j].next].command) => OrderOf(p, p[j].next) # OrderOf(p, i)

\* What the commands of a run have in common, and how its phases follow each other.
IsRun(p) ==
  /\ p \in Seq(Phases) /\ Len(p) > 0
  /\ \A i \in 1 .. Len(p) :
       /\ p[i].next \in 0 .. Len(p)
       /\ p[i].command.behavior = "idle" => p[i].command = Stop
       /\ p[i].command.behavior = "openLoop" => ~Steered(p[i].command)
       /\ p[i].command.behavior = "straight" => "speed" \in p[i].command.loops
       /\ "distance" \in p[i].command.loops =>
            "distanceRelative" \in p[i].command.loops /\ p[i].until \in {"settle", "entry"}
  /\ p[1].until \in {"settle", "entry"} /\ p[1].next # Finish =>
       p[p[1].next].command.behavior # "straight"
  /\ ToldApart(p)

ASSUME ProgramAssumption == IsRun(Program)

\* The runs of the task layer that measure a distance or turn are such.
RunsOfTheCode == {"ARC_TEST", "GO_1000MM", "ROUTE_2500", "Q2_LEFT", "Q2_RIGHT", "Q3", "Q4",
                  "TURN_LEFT_90", "TURN_RIGHT_90"}

ASSUME CodeAssumption == \A a \in RunsOfTheCode : IsRun(TaskProgram[a])

\* Both windows of the task layer are wider than the freeze window by what the car can
\* travel while the two layers see an order: DoneError - FreezeError is 8 mm, two
\* device ticks at 320 mm/s when no pass is late.
ASSUME WindowAssumption ==
  /\ MaxStep \in Nat /\ DoneError \in Nat /\ Lead \in Nat
  /\ FreezeError + 2 * MaxStep <= DoneError
  /\ FreezeError + 2 * MaxStep <= Lead

\* A segment is longer than the freeze window and that travel, and one entered from a turn
\* also by what the car travels under the boost, which overrides the freeze.
ASSUME SegmentAssumption ==
  \A i \in 1 .. Len(Program) :
    /\ Program[i].until = "entry" =>
         \/ Program[i].command.amount <= 0
         \/ Program[i].command.amount >= FreezeError + 2 * MaxStep
    /\ \A j \in 1 .. Len(Program) :
         /\ Program[j].next = i /\ Program[j].command.behavior = "turn"
         /\ "distance" \in Program[i].command.loops
         => Program[i].command.amount > FreezeError + 2 * (MaxStep * BoostTicks)

\* A key waits for two steady readings 20 ms apart.
ASSUME KeyAssumption == KeyGap \in Nat /\ KeyGap >= 6

ASSUME HoldAssumption == DoneHold \in Nat \ {0} /\ MaxAway \in Nat

VARIABLES
  order,      \* g_motion_command
  requested,  \* the ring holds the action
  phase,      \* phase_index, 0 when not busy
  settled,    \* g_distance_settle_count
  origin,     \* g_phase_origin_distance_mm
  seen,       \* g_snapshot.chassis_distance_mm
  mark,       \* the tick that falls due next
  due,        \* ticks that are due
  todo,       \* ticks the pass has still to call
  rest,       \* marks since the last Stop, saturating at KeyGap
  came,       \* history: the behaviour of the phase before this one
  held        \* history: control ticks since the phase began

taskVars == <<order, requested, phase, settled, origin, came>>
vars == <<controlVars, taskVars, seen, mark, due, todo, rest, held>>

Ticks == {"T", "D", "M"}
After == [T |-> "D", D |-> "M", M |-> "T"]

Travelled == seen - origin

Capped(n, top) == IF n > top THEN top ELSE n

-----------------------------------------------------------------------------
(* The task tick *)

\* The first tick of the run zeroes the odometer.
StartRun ==
  /\ phase = 0 /\ requested
  /\ requested' = FALSE
  /\ phase' = 1
  /\ order' = Issued(1)
  /\ seen' = 0 /\ origin' = 0
  /\ settled' = 0
  /\ came' = "idle" /\ held' = 0
  /\ UNCHANGED rest

RestIdle ==
  /\ phase = 0 /\ ~requested
  /\ order' = Rest
  /\ UNCHANGED <<requested, phase, settled, origin, came, seen, rest, held>>

InWindow == Distance(Program[phase].command.amount, Travelled) <= DoneError

\* TaskService_IsRouteTurnEntryReady, TaskService_IsRouteArcEntryReady
EntryReady ==
  \/ Program[phase].command.amount <= 0
  \/ Travelled >= Program[phase].command.amount - Capped(Lead, Program[phase].command.amount)

SettledNow(slow) == IF InWindow /\ slow THEN Capped(settled + 1, DoneHold) ELSE 0

\* The test of the phase.  A turn or an arc takes its order to come about.
PhaseDone(slow, turned) ==
  CASE Program[phase].until = "settle" -> SettledNow(slow) >= DoneHold
    [] Program[phase].until = "entry" -> EntryReady
    [] OTHER -> turned /\ last = order

\* A straight or an arc starts at the distance in the snapshot.
EnterPhase(i) ==
  /\ phase' = i
  /\ order' = Issued(i)
  /\ origin' = IF Program[i].until = "turn" THEN origin ELSE seen
  /\ settled' = IF Program[i].until = "turn" THEN settled ELSE 0
  /\ came' = Behavior(order) /\ held' = 0
  /\ UNCHANGED rest

FinishRun ==
  /\ phase' = 0
  /\ order' = Rest
  /\ came' = "idle" /\ held' = 0
  /\ rest' = 0
  /\ UNCHANGED <<origin, settled>>

StayInPhase(slow) ==
  /\ settled' = IF Program[phase].until = "settle" THEN SettledNow(slow) ELSE settled
  /\ UNCHANGED <<phase, order, origin, came, held, rest>>

RunPhase ==
  /\ phase > 0
  /\ \E slow, turned \in BOOLEAN :
       IF ~PhaseDone(slow, turned) THEN StayInPhase(slow)
       ELSE IF Program[phase].next = Finish THEN FinishRun
       ELSE EnterPhase(Program[phase].next)
  /\ UNCHANGED <<requested, seen>>

\* TaskService_Tick10ms
TaskTick ==
  /\ "T" \in todo
  /\ todo' = todo \ {"T"}
  /\ StartRun \/ RestIdle \/ RunPhase
  /\ UNCHANGED <<controlVars, mark, due>>

-----------------------------------------------------------------------------
(* The other two ticks, the scheduler and the driver *)

\* DeviceCenter_Tick10ms: the car has moved, forwards or back.
DeviceTick ==
  /\ "D" \in todo /\ "T" \notin todo
  /\ todo' = todo \ {"D"}
  /\ \E step \in -MaxStep .. MaxStep :
       /\ Distance(origin, seen + step) <= MaxAway
       /\ seen' = seen + step
  /\ UNCHANGED <<controlVars, taskVars, mark, due, rest, held>>

\* MotionControl_Tick10ms; a gyro that is not online reports no yaw.
ControlTick ==
  /\ todo = {"M"}
  /\ todo' = {}
  /\ \E online, calm \in BOOLEAN : (online \/ calm) /\ Control(order, seen, online, calm)
  /\ held' = Capped(held + 1, BoostTicks + ReleaseTicks)
  /\ UNCHANGED <<taskVars, seen, mark, due, rest>>

\* Time passes, at any point of a pass or between two.
Mark ==
  /\ due' = due \union {mark}
  /\ mark' = After[mark]
  /\ rest' = Capped(rest + 1, KeyGap)
  /\ UNCHANGED <<controlVars, taskVars, seen, todo, held>>

BeginPass ==
  /\ todo = {} /\ due # {}
  /\ todo' = due
  /\ due' = {}
  /\ UNCHANGED <<controlVars, taskVars, seen, mark, rest, held>>

\* The UI polls its keys at the end of a pass, which takes less than a period.
KeysPolled == todo = {} /\ due # Ticks

\* Opening the page enqueues the run, a key after the one that closed it.
OpenPage ==
  /\ KeysPolled /\ phase = 0 /\ ~requested /\ rest = KeyGap
  /\ requested' = TRUE
  /\ UNCHANGED <<controlVars, order, phase, settled, origin, came, seen, mark, due, todo,
                 rest, held>>

\* TaskService_CancelCurrent
ClosePage ==
  /\ KeysPolled /\ (phase > 0 \/ requested)
  /\ order' = Rest
  /\ phase' = 0 /\ requested' = FALSE /\ settled' = 0
  /\ came' = "idle" /\ held' = 0
  /\ rest' = 0
  /\ UNCHANGED <<controlVars, origin, seen, mark, due, todo>>

Init ==
  /\ ControlInit
  /\ order = Rest /\ requested = FALSE /\ phase = 0 /\ settled = 0
  /\ origin = 0 /\ seen = 0
  /\ mark = "T" /\ due = {} /\ todo = {} /\ rest = KeyGap
  /\ came = "idle" /\ held = 0

Next ==
  \/ TaskTick
  \/ DeviceTick
  \/ ControlTick
  \/ Mark
  \/ BeginPass
  \/ OpenPage
  \/ ClosePage

Spec == Init /\ [][Next]_vars

-----------------------------------------------------------------------------
(* Properties *)

\* The control layer has seen the order in force.
InControl == last = order

\* A control tick has just run.
Controlled == "M" \in todo /\ "M" \notin todo'

\* Once the control layer has seen a segment's order, it steers to this segment's end
\* and heading, not to those of an earlier segment or run: its target differs from the
\* task layer's by what the car travels in two device ticks at most, and its heading is
\* the one commanded unless the release after an arc let it follow the car.
TargetIsThisPhases ==
  InControl /\ phase > 0 =>
    /\ Enables(order, "distance") =>
         \A target \in distanceRef :
           Distance(target, origin + order.command.amount) <= 2 * MaxStep
    /\ Enables(order, "attitude") =>
         \/ headingRef = {IF Enables(order, "headingLockOnEntry") THEN OwnHeading
                          ELSE order.heading}
         \/ came = "arc" /\ headingRef = {OwnHeading}

\* The car is never frozen where the task layer still waits for it to go on: whenever
\* the control layer holds it at its target, the test of the phase sees it in its
\* window.  Otherwise the run would wait for ever, for no phase has a timeout.
NeverFrozenShortOfExit ==
  [][Controlled /\ drive' = "hold" /\ phase > 0 =>
       /\ Program[phase].until = "settle" => InWindow
       /\ Program[phase].until = "entry" => EntryReady]_vars

\* The boost is in force only in a straight that this run has entered from a turn, the
\* release only in one entered from an arc, each for no more control ticks than it was
\* given: neither outlives its phase, a cancel, or a missed control tick.
ExitWindowsBelong ==
  InControl =>
    /\ boost > 0 => came = "turn" /\ boost + held <= BoostTicks
    /\ release > 0 => came = "arc" /\ release + held <= ReleaseTicks

\* The boost overrides the freeze at the target, so it must be over before the car comes
\* there.
BoostEndsFirst ==
  [][Controlled /\ drive' = "boost" =>
       \A target \in distanceRef' : Distance(target, seen) > FreezeError]_vars

\* The wheels were off before every run: the Stop that ended the last one has reached the
\* control layer, so that nothing of it (command, references, windows) enters the next.
StartsAtRest ==
  [][phase = 0 /\ phase' > 0 =>
       last = Rest /\ drive = "idle" /\ boost = 0 /\ release = 0]_vars

=============================================================================
