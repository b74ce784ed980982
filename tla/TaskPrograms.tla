---------------------------- MODULE TaskPrograms ----------------------------
(***************************************************************************)
(* What each action of the task layer does, as a table: one record per     *)
(* phase_index of its Run function in task_service.c, in the order of the  *)
(* indices.  A record holds                                                *)
(*                                                                         *)
(*   command   the motion command issued on entry to the phase,            *)
(*   until     the kind of test that ends the phase,                       *)
(*   limit     the duration in ms (timed) or the number of consecutive     *)
(*             good ticks (settle, turn) that test asks for,               *)
(*   stallable whether a stalled turn may also end the phase,              *)
(*   next      the phase entered then, or Finish.                          *)
(*                                                                         *)
(* Magnitudes are the defaults of app_config.h; the Settings pages change  *)
(* magnitudes only and never while an action runs (module UiSession).      *)
(***************************************************************************)
EXTENDS BehaviorMotion, Sequences

Finish == 0

ExitTests == {"timed", "settle", "entry", "turn", "arc", "endless"}

Phases == [command : Commands, until : ExitTests, limit : Nat, stallable : BOOLEAN, next : Nat]

Phase(command, until, limit, stallable, next) ==
  [command |-> command, until |-> until, limit |-> limit, stallable |-> stallable,
   next |-> next]

\* AppTick_IsExpired(g_phase_start_ms, ms)
Timed(command, ms, next) == Phase(command, "timed", ms, FALSE, next)

\* TaskService_IsDistanceDoneByMeasure: APP_DISTANCE_DONE_HOLD_CYCLES good ticks.
DistanceDoneHoldCycles == 5
Settle(command, next) == Phase(command, "settle", DistanceDoneHoldCycles, FALSE, next)

\* TaskService_IsRouteTurnEntryReady and TaskService_IsRouteArcEntryReady: one tick
\* past the distance target less the entry lead.
Entry(command, next) == Phase(command, "entry", 1, FALSE, next)

\* TaskService_IsArcDoneByMeasureCustom: one tick with the arc's angle or its safety
\* distance covered.
ArcDone(command, next) == Phase(command, "arc", 1, FALSE, next)

\* TaskService_IsTurnDoneCustom: settled for hold ticks, or stalled.
TurnCustom(command, hold, stallable, next) == Phase(command, "turn", hold, stallable, next)

\* TaskService_IsTurnDone: settled for hold ticks only.
TurnStrict(command, hold, next) == Phase(command, "turn", hold, FALSE, next)

Endless(command) == Phase(command, "endless", 0, FALSE, 1)

-----------------------------------------------------------------------------
RunModeA == <<Timed(Straight(180), 800, 2),
              Timed(LineFollow(160), 1200, Finish)>>

RunModeB == <<Timed(Turn(900), 600, 2),
              Timed(Straight(200), 900, Finish)>>

RunStraightTest == <<Endless(Straight(220))>>

\* The approach speed that the last 18 degrees of the arc re-command is a magnitude
\* of the same command.
RunArcTest == <<ArcDone(ArcToHeading(180, 250), Finish)>>

RunGoDistance == <<Settle(StraightDistance(180, 1000), Finish)>>

RunMotorTest1 == <<Endless(SpeedHold(120))>>

RunMotorTest2 == <<Endless(OpenLoop(320))>>

RunTurnAngle(delta) == <<TurnStrict(TurnToHeading(delta), 8, Finish)>>

\* Phases 2 and 5 are the delays between a straight and a turn that the switch still
\* handles and no phase leads to.
RunRoute2500 ==
  <<Entry(StraightDistance(320, 2400), 3),
    Timed(Stop, 40, 3),
    TurnCustom(TurnToHeading(375), 2, TRUE, 4),
    Entry(StraightDistanceToHeading(320, 500), 6),
    Timed(Stop, 40, 6),
    TurnCustom(TurnToHeading(-375), 2, TRUE, 7),
    Settle(StraightDistanceToHeading(320, 500), Finish)>>

\* The heading window of Q2 (25) is as wide as the stall window and its yaw window
\* wider, so a stalled tick is already a settled one: no stall of its own.
RunQ2(side) ==
  <<Entry(StraightDistance(320, 800), 2),
    TurnCustom(TurnToHeading(side * 223), 1, FALSE, 3),
    Entry(StraightDistanceToHeading(320, 800), 4),
    TurnCustom(TurnToHeading(-(side * 450)), 1, FALSE, 5),
    Entry(StraightDistanceToHeading(320, 800), 6),
    TurnCustom(TurnToHeading(side * 450), 1, FALSE, 7),
    Entry(StraightDistanceToHeading(320, 800), 8),
    TurnCustom(TurnToHeading(-(side * 225)), 1, FALSE, 9),
    Settle(StraightDistanceToHeading(320, 900), Finish)>>

\* Phase 6 is an empty case that no phase leads to.
RunQ3 ==
  <<Entry(StraightDistance(320, 1180), 2),
    ArcDone(ArcByRadius(180, -300), 3),
    Entry(StraightDistanceToHeading(320, 530), 4),
    ArcDone(ArcByRadius(180, -300), 5),
    Settle(StraightDistance(320, 1800), Finish),
    [Endless(Stop) EXCEPT !.next = 6]>>

RunQ4 ==
  <<Entry(StraightDistance(320, 1000), 2),
    TurnCustom(TurnToHeading(401), 2, TRUE, 3),
    Entry(StraightDistanceToHeading(320, 1000), 4),
    TurnCustom(TurnToHeading(-400), 2, TRUE, 5),
    Entry(StraightDistanceToHeading(320, 1500), 6),
    TurnCustom(TurnToHeading(-400), 2, TRUE, 7),
    Entry(StraightDistanceToHeading(320, 500), 8),
    TurnCustom(TurnToHeading(400), 2, TRUE, 9),
    Settle(StraightDistanceToHeading(320, 500), Finish)>>

RunSensorScan == <<Timed(Stop, 200, Finish)>>

-----------------------------------------------------------------------------
\* The switch of TaskService_Tick10ms, action by action.
TaskProgram ==
  [RUN_MODE_A |-> RunModeA, RUN_MODE_B |-> RunModeB, STRAIGHT_TEST |-> RunStraightTest,
   ARC_TEST |-> RunArcTest, GO_1000MM |-> RunGoDistance, ROUTE_2500 |-> RunRoute2500,
   Q2_LEFT |-> RunQ2(1), Q2_RIGHT |-> RunQ2(-1), Q3 |-> RunQ3, Q4 |-> RunQ4,
   MOTOR_TEST_1 |-> RunMotorTest1, MOTOR_TEST_2 |-> RunMotorTest2,
   TURN_LEFT_90 |-> RunTurnAngle(900), TURN_RIGHT_90 |-> RunTurnAngle(-900),
   SENSOR_SCAN |-> RunSensorScan]

=============================================================================
