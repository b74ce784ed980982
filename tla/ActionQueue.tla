----------------------------- MODULE ActionQueue -----------------------------
(***************************************************************************)
(* What the task layer promises to the interaction layer, with no ring, no *)
(* phases and no counters: a bounded first-in first-out queue of distinct  *)
(* actions that one runner serves in order, an action being either         *)
(* pending once or running but never both, and a car that is commanded to  *)
(* move only on behalf of a running action.                                *)
(***************************************************************************)
EXTENDS Naturals, Sequences

CONSTANTS Actions,   \* the requestable actions
          Capacity,  \* APP_TASK_QUEUE_DEPTH
          Nobody     \* no action is running

VARIABLES pending,   \* the accepted actions not yet started, oldest first
          running,   \* the action in execution, or Nobody
          moving     \* a motion command other than Stop is in force

promised == <<pending, running, moving>>

Waiting(a) == \E i \in 1 .. Len(pending) : pending[i] = a

Init ==
  /\ pending = <<>>
  /\ running = Nobody
  /\ moving = FALSE

Request(a) ==
  /\ Len(pending) < Capacity
  /\ a # running
  /\ ~Waiting(a)
  /\ pending' = Append(pending, a)
  /\ UNCHANGED <<running, moving>>

Begin ==
  /\ running = Nobody
  /\ pending # <<>>
  /\ running' = Head(pending)
  /\ pending' = Tail(pending)
  /\ moving' \in BOOLEAN

Work ==
  /\ running # Nobody
  /\ moving' \in BOOLEAN
  /\ UNCHANGED <<pending, running>>

Complete ==
  /\ running # Nobody
  /\ running' = Nobody
  /\ moving' = FALSE
  /\ UNCHANGED pending

CancelAll ==
  /\ pending' = <<>>
  /\ running' = Nobody
  /\ moving' = FALSE

Next == (\E a \in Actions : Request(a)) \/ Begin \/ Work \/ Complete \/ CancelAll

Spec == Init /\ [][Next]_promised

=============================================================================
