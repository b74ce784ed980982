----------------------------- MODULE MCTurnLoop -----------------------------
(***************************************************************************)
(* Headings in degrees, of which an int16 holds 36: room for two turns by  *)
(* 8 degrees with all that the car swings past them, and in MCTurnSpin.cfg *)
(* 20, which three turns exceed.  The windows are those of the program in  *)
(* whole degrees; holds and filter are shorter.  Rates are quarters of a   *)
(* degree a tick: the car gains 4 of them in a tick under a duty, loses 2  *)
(* under a lower one and 4 without one, and needs more of a duty to start  *)
(* than to go on.  Stretches of two counted samples.                       *)
(***************************************************************************)
EXTENDS TurnLoop

MCTurns == {8, -8}
MCLeft == {8}
PerKind(test, route, question) ==
  [kind \in Kinds |-> CASE kind = "test" -> test [] kind = "route" -> route [] OTHER -> question]
MCDoneError == PerKind(3, 2, 3)
MCDoneYaw == PerKind(0, 8, 10)
MCDoneHold == PerKind(3, 2, 1)
MCRates == {2 * n : n \in -6 .. 6}

\* The rate after a tick under a duty that keeps up another.
Toward(v, to) ==
  LET by == IF v * to > 0 /\ Magnitude(to) < Magnitude(v) THEN 2 ELSE 4
  IN  IF Magnitude(to - v) <= by THEN to ELSE v + by * Side(to - v)
\* And without a duty.
Slower(v) == IF Magnitude(v) <= 4 THEN 0 ELSE v - 4 * Side(v)
\* The fastest rate that a duty keeps up, of at most 12.
Pace(duty) == IF duty - StickDuty >= 60 THEN 12 ELSE IF duty - StickDuty >= 30 THEN 8 ELSE 4

MCMoves(v, duty, next) ==
  IF duty = 0 THEN next = Slower(v)
  ELSE IF Magnitude(duty) <= StickDuty
  THEN next \in {Slower(v)} \union (IF v * duty > 0 THEN {Toward(v, 4 * Side(duty))} ELSE {})
  ELSE \E pace \in {4, Pace(Magnitude(duty))} : next = Toward(v, Side(duty) * pace)

=============================================================================
