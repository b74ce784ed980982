------------------------------ MODULE TurnLoop ------------------------------
(***************************************************************************)
(* A turn on the spot, from its start to the test that ends it: the task   *)
(* layer fixes a target heading and watches error and yaw rate             *)
(* (task_service.c), the control layer drives the wheels towards the       *)
(* target and lets go near it (motion_control.c), the gyro driver counts   *)
(* the heading (device_gyro.c, HeadingTrail).  A turn starts while the     *)
(* car drives straight, stands or still turns from what came before it.    *)
(*                                                                         *)
(* Headings are tenths of a degree, rates tenths of a degree per second.   *)
(* The driver counts in 32 bits and cuts what it reports to the ends of an *)
(* int16; target and error wrap.  Half stands for 32768.  A tick of each   *)
(* kind per period, in the order of the scheduler's table; DriveLoop has   *)
(* the passes that are late.  How the car moves is a parameter.            *)
(***************************************************************************)
EXTENDS HeadingTrail

CONSTANTS Half,         \* 2^15
          Scale,        \* what is counted of a heading's unit: 100
          Turns,        \* the angles of turns
          ProgramTurns, \* turns of a program: at most 4
          MaxTurns,     \* bound of the model: turns since the heading was zeroed
          Swing,        \* how far a turn may go past its angle or back from its start
          \* motion_control.c
          MinError,     \* APP_TURN_ASSIST_MIN_ERR_DEG10: 20
          SoftError,    \* APP_TURN_ASSIST_SOFT_ERR_DEG10: 120
          SoftDuty,     \* APP_TURN_ASSIST_SOFT_WHEEL_DUTY: 100
          MinDuty,      \* APP_TURN_ASSIST_MIN_WHEEL_DUTY: 160
          MaxDuty,      \* APP_TURN_DIRECT_MAX_WHEEL_DUTY: 680
          DutyKp,       \* APP_TURN_DIRECT_DUTY_KP in hundredths: 105
          YawDamp,      \* APP_TURN_DIRECT_YAW_DAMP in hundredths: 8
          SteerDuty,    \* what a straight may steer with
          \* task_service.c, for each kind of turn
          DoneError,    \* 30, 20 and 25
          DoneYaw,      \* 25, 320 and 420
          DoneHold,     \* 8, 2 and 1
          StallError,   \* APP_ROUTE_TURN_STALL_HEADING_ERR_DEG10: 25
          StallYaw,     \* APP_ROUTE_TURN_STALL_YAW_ABS_MDPS: 40
          StallDelta,   \* APP_ROUTE_TURN_STALL_DELTA_DEG10: 1
          StallHold,    \* APP_ROUTE_TURN_STALL_HOLD_CYCLES: 8
          \* the car
          Rates,        \* the rates it turns with,
          Moves(_, _, _), \* whether one can follow another under a duty within a tick,
          StickDuty     \* and the duty that may not be enough to turn it

\* A turn test; a turn of the route; a turn of Q2, Q3 or Q4.
Kinds == {"test", "route", "question"}

ASSUME AngleAssumption ==
  /\ {Half, Scale} \subseteq Nat \ {0} /\ Turns \subseteq Int \ {0} /\ Turns # {} /\ Swing \in Nat
  /\ {ProgramTurns, MaxTurns} \subseteq Nat \ {0}

ASSUME DutyAssumption ==
  /\ {MinError, SoftError, SoftDuty, MinDuty, MaxDuty, DutyKp, YawDamp, SteerDuty, StickDuty} \subseteq Nat
  /\ MinError < SoftError /\ SoftError < Half
  /\ 0 < SoftDuty /\ SoftDuty <= MinDuty /\ MinDuty <= MaxDuty

ASSUME TestAssumption ==
  /\ DoneError \in [Kinds -> Nat] /\ DoneYaw \in [Kinds -> Nat]
  /\ DoneHold \in [Kinds -> Nat \ {0}]
  /\ {StallError, StallYaw, StallDelta} \subseteq Nat /\ StallHold \in Nat \ {0}

ASSUME MotionAssumption == Rates \subseteq Int /\ 0 \in Rates /\ SteerDuty <= MaxDuty

VARIABLES
  wheels,     \* duty of the right wheels, the negative of that of the left, for turning
  turning,    \* the kind of turn in progress, "straight" between the turns of a program,
              \* or "none"
  target,     \* the heading steered to: in a turn, g_turn_target_heading_deg10
  lastError,  \* g_turn_last_heading_error_deg10
  settle,     \* g_turn_settle_count
  stall,      \* g_turn_stall_count
  now,        \* the tick that comes next
  told,       \* history: the angle of the last turn, 0 since the heading was zeroed,
  began,      \* the heading, uncut, at which it began,
  turns,      \* the turns since the heading was zeroed,
  ended       \* and whether this task tick has ended the turn by its test

history == <<told, began, turns, ended>>
testVars == <<target, lastError, settle, stall>>
turnVars == <<gyroVars, rate, wheels, turning, testVars, now, history>>

-----------------------------------------------------------------------------
(* Sixteen bits *)

\* A cast to int16.
Int16(n) == ((n + Half) % (2 * Half)) - Half

\* DeviceGyro_ClampInt16
Clamp16(n) == IF n >= Half THEN Half - 1 ELSE IF n < -Half THEN -Half ELSE n

\* MotionControl_AbsInt16, TaskService_AbsInt16: the lowest number is its own magnitude.
Abs16(n) == Int16(IF n >= 0 THEN n ELSE -n)

\* What heading_deg10 counts of the sum.
Whole(sum) == Quotient(sum, Scale)

Heading == Clamp16(Whole(accum))

\* The heading stays in an int16 over so many turns, with all that they swing past.
HeadingHolds(count) == \A angle \in Turns : count * (Magnitude(angle) + Swing) + Swing < Half

\* Nothing else keeps the heading of a program off the ends.
ASSUME HeadingAssumption == HeadingHolds(ProgramTurns)

\* Far from the ends of an int16, at which the car would turn nine times a second.
Yaw == filter

Error == Int16(target - Heading)

-----------------------------------------------------------------------------
(* The duty of a turn *)

\* MotionControl_GetTurnAssistDuty
AssistDuty(error) ==
  LET span == SoftError - MinError
  IN  IF Abs16(error) <= MinError THEN 0
      ELSE IF Abs16(error) >= SoftError THEN MinDuty
      ELSE SoftDuty + ((MinDuty - SoftDuty) * (Abs16(error) - MinError) + span \div 2) \div span

\* Faulty variant: nothing is taken off for the yaw rate.
DutyForUndamped(error, yaw) ==
  LET wanted == DutyKp * Abs16(error) + 100 * AssistDuty(error)
  IN  (IF wanted > 100 * MaxDuty THEN 100 * MaxDuty ELSE wanted) \div 100

\* The duty before it gets its sign.
DutyFor(error, yaw) ==
  LET base == 100 * AssistDuty(error)
      wanted == DutyKp * Abs16(error) + base - YawDamp * Magnitude(yaw)
  IN  (IF wanted < base THEN base
       ELSE IF wanted > 100 * MaxDuty THEN 100 * MaxDuty ELSE wanted) \div 100

\* MotionControl_RunTurnHeadingDutyPath
TurnDuty(error, yaw) ==
  IF Abs16(error) <= MinError THEN 0
  ELSE IF error > 0 THEN DutyFor(error, yaw) ELSE -DutyFor(error, yaw)

-----------------------------------------------------------------------------
(* The car *)

\* No test sees a car that stands this far from its target.
Hung(kind) == 1 + (IF kind = "test" \/ StallError < DoneError[kind] THEN DoneError[kind]
                   ELSE StallError)

\* The car that the program is tuned for.  Where no test would see it stand, the duty turns
\* it, and fast enough for the gyro to count it from rest.  A car for which this fails hangs
\* in its turn; the tuning guide has it on lines 24 and 97 (a turn stuck at its end) and 209
\* (one that cannot be wrung to its target).
ASSUME StickAssumption ==
  /\ \A kind \in Kinds : DutyFor(Hung(kind), 0) > StickDuty
  /\ \A v \in Rates, duty \in -MaxDuty .. MaxDuty :
       LET after == {next \in Rates : Moves(v, duty, next)}
       IN  /\ after # {}
           /\ v * duty >= 0 /\ Magnitude(duty) > StickDuty =>
                \A next \in after : next * Side(duty) >= FilterDiv * (Deadband + 1)

-----------------------------------------------------------------------------
(* The task tick *)

\* Faulty variant: the angle counts from the zero of the heading.
TargetFromZero(angle) == Int16(angle)

TargetOf(angle) == Int16(Heading + angle)

\* TaskService_StartTurnPhase: in a program, from a straight, whose last few centimetres a
\* turn of the route cuts off; in a turn test, at once, whatever the car still does.
StartTurn(kind, angle) ==
  /\ turns < MaxTurns
  /\ IF kind = "test" THEN turning = "none" ELSE turning = "straight" /\ turns < ProgramTurns
  /\ turning' = kind
  /\ target' = TargetOf(angle)
  /\ lastError' = angle
  /\ settle' = 0 /\ stall' = 0
  /\ told' = angle /\ began' = Whole(accum) /\ turns' = turns + 1 /\ ended' = FALSE
  /\ UNCHANGED gyroVars

\* DeviceGyro_ResetHeading
ResetHeading ==
  /\ ResetCount
  /\ told' = 0 /\ began' = 0 /\ turns' = 0 /\ ended' = FALSE

\* A program zeroes the heading with its first segment.
StartProgram ==
  /\ turning = "none" /\ turning' = "straight" /\ target' = 0
  /\ ResetHeading
  /\ UNCHANGED <<lastError, settle, stall>>

\* KEY_UP on the Sensor page.
ZeroHeading == turning = "none" /\ ResetHeading /\ UNCHANGED <<turning, testVars>>

Settling(kind) == Abs16(Error) <= DoneError[kind] /\ Magnitude(Yaw) <= DoneYaw[kind]

\* Faulty variant: the rule for a stalled turn has a window of its own.
StalledNearer ==
  /\ Abs16(Error) <= MinError /\ Magnitude(Yaw) <= StallYaw
  /\ Abs16(Int16(Error - lastError)) <= StallDelta

Stalled ==
  /\ Abs16(Error) <= StallError /\ Magnitude(Yaw) <= StallYaw
  /\ Abs16(Int16(Error - lastError)) <= StallDelta

\* TaskService_IsTurnDone and, but for the tests, TaskService_IsTurnDoneCustom; after a turn
\* a program goes on straight to its target, or has ended.
CheckTurn ==
  /\ turning \in Kinds
  /\ settle' = IF Settling(turning) THEN settle + 1 ELSE 0
  /\ stall' = IF turning # "test" /\ ~Settling(turning) /\ Stalled THEN stall + 1 ELSE 0
  /\ lastError' = IF turning # "test" THEN Error ELSE lastError
  /\ ended' = (settle' >= DoneHold[turning] \/ stall' >= StallHold)
  /\ turning' \in IF ~ended' THEN {turning} ELSE IF turning = "test" THEN {"none"} ELSE {"straight"}
  /\ UNCHANGED <<gyroVars, target, told, began, turns>>

\* TaskService_CancelCurrent
CancelTurn ==
  /\ turning # "none"
  /\ turning' = "none" /\ target' = 0 /\ settle' = 0 /\ ended' = FALSE
  /\ UNCHANGED <<gyroVars, lastError, stall, told, began, turns>>

\* TaskService_FinishCurrent, after a last straight
FinishProgram ==
  /\ turning = "straight" /\ turning' = "none"
  /\ UNCHANGED <<gyroVars, testVars, history>>

Rest == turning \notin Kinds /\ UNCHANGED <<gyroVars, turning, testVars, history>>

TaskTick ==
  /\ now = "task" /\ now' = "device"
  /\ \/ \E kind \in Kinds, angle \in Turns : StartTurn(kind, angle)
     \/ StartProgram
     \/ ZeroHeading
     \/ CheckTurn
     \/ CancelTurn
     \/ FinishProgram
     \/ Rest
  /\ UNCHANGED <<rate, wheels>>

-----------------------------------------------------------------------------
(* The device tick and the control tick *)

\* DeviceGyro_UpdateStreamData
DeviceTick ==
  /\ now = "device" /\ now' = "control"
  /\ rate' \in {next \in Rates : Moves(rate, wheels, next)}
  /\ Sample
  /\ ended' = FALSE
  /\ UNCHANGED <<wheels, turning, testVars, told, began, turns>>

\* What makes a straight turn: its loops steer to the heading it holds, or let the car be.
Steering == {0, Side(Error) * SteerDuty}

\* MotionControl_Tick10ms
ControlTick ==
  /\ now = "control" /\ now' = "task"
  /\ wheels' \in IF turning \in Kinds THEN {TurnDuty(Error, Yaw)}
                 ELSE IF turning = "straight" THEN Steering ELSE {0}
  /\ UNCHANGED <<gyroVars, rate, turning, testVars, history>>

TurnInit ==
  /\ TrailInit /\ wheels = 0 /\ now = "task"
  /\ turning = "none" /\ target = 0 /\ lastError = 0 /\ settle = 0 /\ stall = 0
  /\ told = 0 /\ began = 0 /\ turns = 0 /\ ended = FALSE

TurnNext == TaskTick \/ DeviceTick \/ ControlTick

\* Ticks go on; that the car moves when driven is a matter of Moves.
TurnSpec == TurnInit /\ [][TurnNext]_turnVars /\ WF_turnVars(TurnNext)

-----------------------------------------------------------------------------
(* Properties *)

\* Where a test may end a turn: this far from its angle by the window of its kind, or by
\* the rule for stalls.
Short == {DoneError[kind] : kind \in Kinds} \union {StallError}

\* How far the heading has come since the turn began, and has to go.
Done == Whole(accum) - began
Left == told - Done

\* A turn goes by its angle from where the heading was when it began, however the car was
\* turning then and in however many turns the heading was counted up since it was zeroed:
\* the wheels push the car to that angle and from no side away from it, they are let go only
\* as near to it as MinError, and no test ends the turn further from it than its window
\* (StartTurnPhase, IsTurnDone and IsTurnDoneCustom in task_service.c,
\* MotionControl_RunTurnHeadingDutyPath).
TurnsAsTold ==
  /\ turning \in Kinds /\ now = "task" =>
       /\ wheels > 0 <=> Left > MinError
       /\ wheels < 0 <=> Left < -MinError
  /\ ended => \E e \in Short : Magnitude(Left) <= e

\* A turn overshoots by no more than Swing, and goes no further back than that, whatever
\* motion it takes over and wherever it is cancelled: the pull of the duty towards the
\* target, damped by the yaw rate, against the lag of the filter and of the car.
SwingIsSmall ==
  \/ told >= 0 /\ -Swing <= Done /\ Done <= told + Swing
  \/ told <= 0 /\ told - Swing <= Done /\ Done <= Swing

\* Every turn ends: where the wheels are let go, or cannot move the car, the test of the
\* turn or the rule for stalls sees it done, and the counting of the heading does not leave
\* the two waiting for each other.  No turn has a timeout.
EveryTurnEnds == turning \in Kinds ~> turning \notin Kinds

=============================================================================
