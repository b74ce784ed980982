---------------------------- MODULE AppScheduler ----------------------------
(***************************************************************************)
(* The cooperative scheduler (app_scheduler.c) under the SysTick interrupt *)
(* (AppTick.c): periodic callbacks served in passes of the main loop, on a *)
(* millisecond counter that wraps.                                         *)
(*                                                                         *)
(* A pass latches the time once and then walks the nodes; the interrupt    *)
(* advances the counter between any two of its steps, and between passes   *)
(* the main loop spends time on the UI.  The counter has Modulus values    *)
(* (2^32 in the code) and a difference of two of its values is read as a   *)
(* signed number, as the cast to int32_t does.                             *)
(*                                                                         *)
(* MaxLag bounds the time from the latch of one pass to the latch of the   *)
(* next; the signed comparison needs it below half of Modulus, which is 24 *)
(* days on the car.                                                        *)
(***************************************************************************)
EXTENDS Integers, Sequences

CONSTANTS Table,    \* the registered nodes in order: period and start_delay
          Modulus,  \* of the millisecond counter
          MaxLag    \* ms from latch to latch

Nodes == 1 .. Len(Table)

ASSUME TableAssumption ==
  Table \in Seq([period : Nat \ {0}, delay : Nat]) /\ Table # <<>>

\* Two times that are compared are less than half the range of the counter apart.
ASSUME ModulusAssumption ==
  /\ Modulus \in Nat /\ Modulus % 2 = 0
  /\ MaxLag \in Nat /\ 2 * MaxLag < Modulus
  /\ \A i \in Nodes : 2 * Table[i].period <= Modulus /\ 2 * Table[i].delay <= Modulus

VARIABLES
  now,      \* g_app_tick_ms
  next,     \* next_run_ms of each node
  latched,  \* now_ms of the pass
  node,     \* the node the pass is at, 0 between passes
  lag,      \* time since latched, without wrapping
  called,   \* the node whose callback the last step ran, 0 if none
  age,      \* history: true time since the last point of the node's grid
  fresh,    \* history: nodes with a point of their grid since latched
  owed      \* history: nodes with one up to latched that no call has answered

history == <<age, fresh, owed>>
vars == <<now, next, latched, node, lag, called, history>>

\* Signed difference of two counter values.
Diff(a, b) == LET d == (a - b) % Modulus IN IF d < Modulus \div 2 THEN d ELSE d - Modulus

\* The least number of periods that brings next past t.
Periods(i, t) == Diff(t, next[i]) \div Table[i].period + 1

-----------------------------------------------------------------------------
\* AppScheduler_Run latches the time.
BeginRun ==
  /\ node = 0
  /\ node' = 1
  /\ latched' = now
  /\ lag' = 0
  /\ called' = 0
  /\ owed' = owed \union fresh
  /\ fresh' = {}
  /\ UNCHANGED <<now, next, age>>

\* Faulty variant: a node is due only once its time has passed.
IsOverdue(i) == Diff(latched, next[i]) > 0

IsDue(i) == Diff(latched, next[i]) >= 0

\* Faulty variant: a new start from the late call.
CatchUpDrifting(i) == (latched + Table[i].period) % Modulus

\* The do-while that makes up for the periods missed.
CatchUp(i) == (next[i] + Periods(i, latched) * Table[i].period) % Modulus

\* Faulty variant: the loop's bound leaves out the last node.
VisitAllButLast ==
  /\ node > 0
  /\ called' = IF IsDue(node) THEN node ELSE 0
  /\ next' = IF IsDue(node) THEN [next EXCEPT ![node] = CatchUp(node)] ELSE next
  /\ owed' = IF IsDue(node) THEN owed \ {node} ELSE owed
  /\ node' = (node + 1) % Len(Table)
  /\ UNCHANGED <<now, latched, lag, age, fresh>>

\* One turn of the loop; the callback comes before the node's next time.
Visit ==
  /\ node > 0
  /\ called' = IF IsDue(node) THEN node ELSE 0
  /\ next' = IF IsDue(node) THEN [next EXCEPT ![node] = CatchUp(node)] ELSE next
  /\ owed' = IF IsDue(node) THEN owed \ {node} ELSE owed
  /\ node' = (node + 1) % (Len(Table) + 1)
  /\ UNCHANGED <<now, latched, lag, age, fresh>>

Run == BeginRun \/ Visit

\* AppTick_IrqHandler, at any point of a pass or between two.
SysTick ==
  /\ lag < MaxLag
  /\ lag' = lag + 1
  /\ now' = (now + 1) % Modulus
  /\ age' = [i \in Nodes |-> IF age[i] + 1 = Table[i].period THEN 0 ELSE age[i] + 1]
  /\ fresh' = fresh \union {i \in Nodes : age'[i] = 0}
  /\ called' = 0
  /\ UNCHANGED <<next, latched, node, owed>>

\* Every node registered at time 0 (AppScheduler_Register).
Init ==
  /\ now = 0 /\ latched = 0 /\ node = 0 /\ lag = 0 /\ called = 0
  /\ next = [i \in Nodes |-> Table[i].delay]
  /\ age = [i \in Nodes |-> -Table[i].delay]
  /\ fresh = {i \in Nodes : Table[i].delay = 0}
  /\ owed = {}

Next == Run \/ SysTick

\* The main loop always comes back to the scheduler and the interrupt is enabled.
Fairness == WF_vars(Run) /\ WF_vars(SysTick)

Spec == Init /\ [][Next]_vars /\ Fairness

-----------------------------------------------------------------------------
(* Properties *)

\* No drift: however late a pass is and however often the counter wraps, a node's next
\* time stays on the grid laid when it was registered (what the comment in the catch-up
\* loop is there for).
KeepsItsGrid ==
  \A i \in Nodes : (Diff(latched, next[i]) + lag - age[i]) % Table[i].period = 0

\* A node is called in a pass if and only if a point of its grid has come since its
\* last call: once for any number of missed periods, never early, never skipped, and
\* a tick that interrupts the pass counts for the next one.
CalledWhenOwed == [][Visit => (called' = node <=> node \in owed)]_vars

\* No node starves, whatever nodes stand before it and however the pass is interrupted.
EveryNodeIsServed == \A i \in Nodes : []<>(called = i)

=============================================================================
