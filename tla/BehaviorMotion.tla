--------------------------- MODULE BehaviorMotion ---------------------------
(***************************************************************************)
(* The behaviour layer: the constructors of the one motion command that    *)
(* the task layer hands to the control layer (behavior_motion.c).  Every   *)
(* setter of the source first clears the whole command and then fills in   *)
(* its own fields, so a command is a value that depends on nothing that    *)
(* was commanded before.                                                   *)
(*                                                                         *)
(* A command is a record of the behaviour, the set of the control loops    *)
(* and modes whose enable flags are 1, the speed target, and the one other *)
(* magnitude the behaviour uses (a distance, a radius, a heading delta, a  *)
(* yaw rate or a duty).                                                    *)
(***************************************************************************)
EXTENDS Integers

Behaviors == {"idle", "openLoop", "speedHold", "straight", "arc", "turn", "lineFollow"}

Loops == {"speed", "distance", "attitude", "turn", "line", "openLoop",
          "distanceRelative", "headingLockOnEntry"}

Commands == [behavior : Behaviors, loops : SUBSET Loops, speed : Int, amount : Int]

Command(behavior, loops, speed, amount) ==
  [behavior |-> behavior, loops |-> loops, speed |-> speed, amount |-> amount]

\* BehaviorMotion_Init and BehaviorMotion_Stop: the cleared command.
Stop == Command("idle", {}, 0, 0)

OpenLoop(duty) == Command("openLoop", {"openLoop"}, 0, duty)

SpeedHold(speed) == Command("speedHold", {"speed"}, speed, 0)

Straight(speed) ==
  Command("straight", {"speed", "attitude", "turn", "headingLockOnEntry"}, speed, 0)

StraightToHeading(speed) == Command("straight", {"speed", "attitude", "turn"}, speed, 0)

StraightDistance(speed, mm) ==
  [Straight(speed) EXCEPT !.loops = @ \union {"distance", "distanceRelative"}, !.amount = mm]

StraightDistanceToHeading(speed, mm) ==
  [StraightToHeading(speed) EXCEPT !.loops = @ \union {"distance", "distanceRelative"},
                                   !.amount = mm]

Arc(speed, radius) == Command("arc", {"speed", "turn"}, speed, radius)

ArcToHeading(speed, radius) ==
  [Arc(speed, radius) EXCEPT !.loops = @ \union {"attitude"}]

ArcByRadius(speed, radius) == Arc(speed, radius)

Turn(yawRate) == Command("turn", {"turn"}, 0, yawRate)

\* The heading target is the heading on entry plus delta; the command keeps delta.
TurnToHeading(delta) == Command("turn", {"attitude"}, 0, delta)

LineFollow(speed) == Command("lineFollow", {"speed", "turn", "line"}, speed, 0)

=============================================================================
