----------------------------- MODULE MCDriveLoop -----------------------------
(***************************************************************************)
(* A run with a segment of each kind: one that ends in a turn, one entered *)
(* from the turn that ends in an arc, and a last one that comes from the   *)
(* arc and settles.  Positions count from the origin of the phase, so      *)
(* states that differ in how the run got there are the same.               *)
(***************************************************************************)
EXTENDS DriveLoop

MCProgram ==
  <<Entry(StraightDistance(1, 7), 2),
    TurnCustom(TurnToHeading(1), 2, TRUE, 3),
    Entry(StraightDistanceToHeading(1, 7), 4),
    ArcDone(ArcByRadius(1, -2), 5),
    Settle(StraightDistanceToHeading(1, 7), Finish)>>

FromOrigin ==
  <<last, {target - origin : target \in distanceRef}, headingRef, boost, release, steady,
    drive, requested, phase, order, settled, Travelled, mark, due, todo, rest, came, held>>

=============================================================================
