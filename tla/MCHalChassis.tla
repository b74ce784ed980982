---------------------------- MODULE MCHalChassis ----------------------------
(***************************************************************************)
(* Two motors that take two steps to a stop and three to reverse, and an   *)
(* encoder whose wheel turns up to three edges either way, so that edges   *)
(* outrun the handler, reverse under it and wrap around the cycle of four. *)
(***************************************************************************)
EXTENDS HalChassis

\* The two halves share no variable and each property but the type invariant, whose
\* conjuncts do, speaks of one of them: it is enough to go on while one is at rest.
OneHalfMoves ==
  \/ duty = [w \in Wheels |-> 0] /\ latched = duty /\ applied = 0 /\ ~dirty
  \/ position = 0 /\ ticks = 0 /\ isr = "off" /\ pending = {}

=============================================================================
