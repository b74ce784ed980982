--------------------------- MODULE MCTaskPrograms ---------------------------
(***************************************************************************)
(* Every action of the firmware with its real phases and hold counts, one  *)
(* slot of queue: every phase change, cancel and restart is explored.      *)
(***************************************************************************)
EXTENDS TaskHistory

MCProgram == TaskProgram

\* States that differ only in the action last completed, in dead slots of the ring or
\* in a time no timed phase is waiting for have the same future.
RelevantElapsed ==
  IF busy /\ CurrentPhase.until = "timed" THEN elapsed ELSE 0

View == <<[i \in 1 .. size |-> Live(i)], current, stage, busy, phase, count,
          RelevantElapsed, command, reading, streak>>

=============================================================================
