----------------------------- MODULE TaskHistory -----------------------------
(***************************************************************************)
(* The task layer with a history of its own: since the current phase was   *)
(* entered, the number of ticks in a row whose reading was "hit", and in a *)
(* row whose reading was "stall" where a stall may end the phase, kept     *)
(* apart from the counters of the code and cleared on entry to a phase     *)
(* whatever the code clears.                                               *)
(***************************************************************************)
EXTENDS TaskService

\* A phase that waits for several good ticks leads to another phase, and only a turn may
\* end by a stall.
ASSUME HeldAssumption ==
  \A a \in TaskAction : \A i \in 1 .. Len(Program[a]) :
    LET p == Program[a][i]
    IN  p.until \in {"settle", "turn"} => p.next # i /\ (p.stallable => p.until = "turn")

VARIABLE streak

historyVars == <<vars, streak>>

NoStreak == [hit |-> 0, stall |-> 0]

\* The tests that ask for several good ticks in a row.
Held == busy /\ CurrentPhase.until \in {"settle", "turn"}

ThisStreak ==
  [hit |-> IF reading = "hit" THEN streak.hit + 1 ELSE 0,
   stall |-> IF reading = "stall" /\ CurrentPhase.stallable THEN streak.stall + 1 ELSE 0]

\* A tick took the running action out of its phase, into another one or to its end.
PhaseEnded == busy /\ (stage' = "complete" \/ (busy' /\ phase' # phase))

HistoryInit == Init /\ streak = NoStreak

HistoryNext ==
  \/ (\E a \in TaskAction : Enqueue(a)) /\ UNCHANGED streak
  \/ CancelCurrent /\ streak' = NoStreak
  \/ RestIdle /\ UNCHANGED streak
  \/ StartNext /\ streak' = NoStreak
  \/ RunPhase /\ streak' = IF PhaseEnded \/ ~Held THEN NoStreak ELSE ThisStreak
  \/ Clock /\ UNCHANGED streak
  \/ Sense /\ UNCHANGED streak

HistorySpec == HistoryInit /\ [][HistoryNext]_historyVars

LongEnough ==
  \/ ThisStreak.hit >= CurrentPhase.limit
  \/ CurrentPhase.stallable /\ ThisStreak.stall >= StallHoldCycles

\* A phase that waits for the car to settle ends on a tick if and only if that tick
\* completes the required run of good ticks, all of them within this very phase of
\* this very run: no count left over from an earlier turn, segment or cancelled run
\* shortens the wait, and none of its own is lost.
HoldRespected ==
  [][RunPhase /\ Held => (PhaseEnded <=> LongEnough)]_historyVars

=============================================================================
