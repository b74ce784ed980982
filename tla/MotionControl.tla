---------------------------- MODULE MotionControl ----------------------------
(***************************************************************************)
(* The control layer (motion_control.c): each tick compares the motion     *)
(* command in force with the one it worked on last, latches the distance   *)
(* and heading it steers to when the command is new, and decides how the   *)
(* wheels are driven.                                                      *)
(*                                                                         *)
(* The loops themselves (pid.c), the deadbands and the mixing of speeds    *)
(* are left out: drive only says which of the tick's branches sets the     *)
(* speed of the car's centre,                                              *)
(*                                                                         *)
(*   idle   motors off                 hold   frozen at the target         *)
(*   open   duties as commanded        boost  the speed-up after a turn    *)
(*   track  the loops                                                      *)
(*                                                                         *)
(* An order is a command of BehaviorMotion and the absolute heading it     *)
(* carries, a number that tells the headings of one run apart.             *)
(***************************************************************************)
EXTENDS BehaviorMotion

CONSTANTS BoostTicks,    \* g_app_turn_exit_boost_ticks: 12
          ReleaseTicks,  \* APP_ARC_EXIT_RELEASE_TICKS: 20
          SteadyTicks,   \* APP_ARC_EXIT_RELEASE_HOLD_TICKS: 4
          FreezeError    \* APP_DISTANCE_STOP_FREEZE_ERR_MM: 20

ASSUME ControlAssumption ==
  /\ BoostTicks \in Nat /\ ReleaseTicks \in Nat /\ SteadyTicks \in Nat \ {0}
  /\ FreezeError \in Nat

VARIABLES
  last,         \* last_command
  distanceRef,  \* distance_target_mm, empty if not valid
  headingRef,   \* heading_target_deg10, empty if not valid
  boost,        \* turn_exit_boost_ticks
  release,      \* arc_exit_release_ticks
  steady,       \* arc_exit_stable_ticks
  drive         \* what the wheels were told last

controlVars == <<last, distanceRef, headingRef, boost, release, steady, drive>>

Order(command, heading) == [command |-> command, heading |-> heading]
Rest == Order(Stop, 0)

\* The heading the car had when it was latched, as opposed to a commanded one.
OwnHeading == -1

Distance(a, b) == IF a > b THEN a - b ELSE b - a

Enables(order, loop) == loop \in order.command.loops

Behavior(order) == order.command.behavior

Between(order, from, to) == Behavior(last) = from /\ Behavior(order) = to

-----------------------------------------------------------------------------
\* MotionControl_CommandEquals
Changed(order) == order # last

\* Faulty variant: a change to any other command keeps what is left of the boost.
BoostAfterChangeKept(order) ==
  IF Changed(order) /\ Between(order, "turn", "straight") THEN BoostTicks ELSE boost

\* The counters once a change of the command has been looked at.
BoostAfterChange(order) ==
  IF ~Changed(order) THEN boost
  ELSE IF Between(order, "turn", "straight") THEN BoostTicks ELSE 0

ReleaseAfterChange(order) ==
  IF ~Changed(order) THEN release
  ELSE IF Between(order, "arc", "straight") THEN ReleaseTicks ELSE 0

SteadyAfterChange(order) == IF Changed(order) THEN 0 ELSE steady

\* Faulty variant: the target is measured from the zero of the odometer.
DistanceLatchedFromZero(order, seen) ==
  IF ~Enables(order, "distance") THEN {}
  ELSE IF Changed(order) \/ distanceRef = {} THEN {order.command.amount} ELSE distanceRef

\* MotionControl_LatchReferences, the distance: relative to where the car is now.
DistanceLatched(order, seen) ==
  IF ~Enables(order, "distance") THEN {}
  ELSE IF Changed(order) \/ distanceRef = {}
       THEN {order.command.amount + (IF Enables(order, "distanceRelative") THEN seen ELSE 0)}
       ELSE distanceRef

\* MotionControl_LatchReferences, the heading.
HeadingLatched(order) ==
  IF ~Enables(order, "attitude") THEN {}
  ELSE IF Changed(order) \/ headingRef = {}
       THEN {IF Enables(order, "headingLockOnEntry") THEN OwnHeading ELSE order.heading}
       ELSE headingRef

-----------------------------------------------------------------------------
\* Faulty variant: the return comes before the command is remembered.
BeIdleForgetful(order) ==
  /\ distanceRef' = {} /\ headingRef' = {}
  /\ boost' = BoostAfterChange(order)
  /\ release' = ReleaseAfterChange(order)
  /\ steady' = SteadyAfterChange(order)
  /\ drive' = "idle"
  /\ UNCHANGED last

\* The two early returns of the tick.
BeIdle(order) ==
  /\ last' = Rest
  /\ distanceRef' = {} /\ headingRef' = {}
  /\ boost' = BoostAfterChange(order)
  /\ release' = ReleaseAfterChange(order)
  /\ steady' = SteadyAfterChange(order)
  /\ drive' = "idle"

DriveOpenLoop(order) ==
  /\ last' = order
  /\ distanceRef' = {} /\ headingRef' = {}
  /\ boost' = BoostAfterChange(order)
  /\ release' = ReleaseAfterChange(order)
  /\ steady' = SteadyAfterChange(order)
  /\ drive' = "open"

Boosting(order) ==
  Behavior(order) = "straight" /\ Enables(order, "speed") /\ BoostAfterChange(order) > 0

Releasing(order) == Behavior(order) = "straight" /\ ReleaseAfterChange(order) > 0

\* Faulty variant: the window is that of the task layer's test for a route.
FrozenWide(order, seen) ==
  /\ Enables(order, "speed")
  /\ \E target \in DistanceLatched(order, seen) : Distance(target, seen) <= 4 * FreezeError

\* The speed limit is 0 next to the target.
Frozen(order, seen) ==
  /\ Enables(order, "speed")
  /\ \E target \in DistanceLatched(order, seen) : Distance(target, seen) <= FreezeError

\* Faulty variant: the boost is not used up.
BoostLeftFull(order) == BoostAfterChange(order)

BoostLeft(order) == BoostAfterChange(order) - (IF Boosting(order) THEN 1 ELSE 0)

\* The steady ticks counted at the end of a tick, and whether the release goes on.
SteadyCount(order, calm) == IF calm THEN SteadyAfterChange(order) + 1 ELSE 0

StillReleasing(order, calm) ==
  ReleaseAfterChange(order) > 1 /\ SteadyCount(order, calm) < SteadyTicks

\* The rest of the tick: a boost goes over the limit, a release lets the heading
\* target follow the car while the gyro is online.
Steer(order, seen, online, calm) ==
  /\ last' = order
  /\ distanceRef' = DistanceLatched(order, seen)
  /\ headingRef' = IF Releasing(order) /\ online /\ HeadingLatched(order) # {}
                   THEN {OwnHeading} ELSE HeadingLatched(order)
  /\ drive' = CASE Boosting(order) -> "boost"
                [] ~Boosting(order) /\ Frozen(order, seen) -> "hold"
                [] OTHER -> "track"
  /\ boost' = BoostLeft(order)
  /\ IF Releasing(order)
     THEN IF StillReleasing(order, calm)
          THEN release' = ReleaseAfterChange(order) - 1 /\ steady' = SteadyCount(order, calm)
          ELSE release' = 0 /\ steady' = 0
     ELSE release' = ReleaseAfterChange(order) /\ steady' = SteadyAfterChange(order)

\* MotionControl_Tick10ms on the order in force, the distance in the snapshot, whether
\* the gyro is online and whether the car's yaw rate is small.
Control(order, seen, online, calm) ==
  CASE Behavior(order) = "idle" -> BeIdle(order)
    [] Behavior(order) = "openLoop" /\ Enables(order, "openLoop") -> DriveOpenLoop(order)
    [] OTHER -> Steer(order, seen, online, calm)

\* MotionControl_Init
ControlInit ==
  /\ last = Rest /\ distanceRef = {} /\ headingRef = {}
  /\ boost = 0 /\ release = 0 /\ steady = 0
  /\ drive = "idle"

=============================================================================
