----------------------------- MODULE TaskService -----------------------------
(***************************************************************************)
(* The task layer (task_service.c): a ring of requested actions and the    *)
(* state machine that runs one of them at a time, phase by phase.          *)
(*                                                                         *)
(* All of it runs in the main loop, so Enqueue, CancelCurrent and the 10   *)
(* ms tick are atomic with respect to one another; what interleaves with   *)
(* them is time (Clock) and what the sensors report (Sense).  What a Run   *)
(* function reads of the sensors is reduced to the outcome of the test of  *)
(* its current phase:                                                      *)
(*                                                                         *)
(*   "hit"    the test's window holds on this tick,                        *)
(*   "stall"  it does not, and the turn has stopped just outside it,       *)
(*   "miss"   neither.                                                     *)
(*                                                                         *)
(* TASK_STAGE_PREPARE is not a value of stage: Start sets it and the Run   *)
(* function called by the same tick replaces it, so no other code sees it. *)
(* The percentage shown to the driver is left out, and so is               *)
(* g_arc_settle_count, which no called function reads.                     *)
(***************************************************************************)
EXTENDS TaskPrograms, FiniteSets

CONSTANTS Program,     \* the phases of every action: a part of TaskProgram
          QueueDepth,  \* APP_TASK_QUEUE_DEPTH, 8 in the code
          None,        \* TASK_ACTION_NONE
          ClockStep,   \* the ms by which the model's clock advances
          MaxElapsed   \* where it saturates, past every timed phase

TaskAction == DOMAIN Program

ASSUME QueueDepthAssumption == QueueDepth \in Nat \ {0}

ASSUME NoneAssumption == None \notin TaskAction

ASSUME ClockAssumption == ClockStep \in Nat \ {0} /\ MaxElapsed \in Nat

ASSUME ProgramAssumption ==
  \A a \in TaskAction :
    /\ Program[a] \in Seq(Phases)
    /\ Len(Program[a]) > 0
    /\ \A i \in 1 .. Len(Program[a]) :
         /\ Program[a][i].next \in {Finish} \union (1 .. Len(Program[a]))
         /\ Program[a][i].until \in {"settle", "turn"} => Program[a][i].limit > 0

VARIABLES
  data, head, tail, size,                    \* g_queue
  current, last, stage, depth, busy, phase,  \* g_status
  count,                                     \* g_distance_settle_count, g_turn_...
  elapsed,                                   \* now - g_phase_start_ms, saturating
  command,                                   \* g_motion_command
  reading                                    \* the sensors, as the phase's test sees them

queueVars == <<data, head, tail, size, depth>>
statusVars == <<current, last, stage, busy, phase>>
vars == <<data, head, tail, size, current, last, stage, depth, busy, phase, count,
          elapsed, command, reading>>

Slots == 0 .. QueueDepth - 1
Readings == {"miss", "hit", "stall"}
Stages == {"idle", "execute", "complete"}
StallHoldCycles == 8
NoCounts == [distance |-> 0, turn |-> 0, stall |-> 0]
Counts == [distance : Nat, turn : Nat, stall : Nat]

CurrentPhase == Program[current][phase]

-----------------------------------------------------------------------------
(* The ring *)

Wrap(i) == i % QueueDepth

\* TaskService_IsQueued: running now, or in one of the size slots from head on.
InRing(a) == \E i \in 0 .. size - 1 : data[Wrap(head + i)] = a

\* Faulty variant: the running action is not looked at.
IsQueuedInRing(a) == InRing(a)

IsQueued(a) == (busy /\ current = a) \/ InRing(a)

\* The value Enqueue returns for an action other than NONE: full is looked at first.
EnqueueResult(a) == size < QueueDepth

Enqueue(a) ==
  /\ EnqueueResult(a)
  /\ ~IsQueued(a)
  /\ data' = [data EXCEPT ![tail] = a]
  /\ tail' = Wrap(tail + 1)
  /\ size' = size + 1
  /\ depth' = size + 1
  /\ UNCHANGED <<head, statusVars, count, elapsed, command, reading>>

\* Faulty variant: a cancel that leaves the ring.
CancelKeepsRing ==
  /\ command' = Stop
  /\ current' = None /\ stage' = "idle" /\ busy' = FALSE /\ phase' = 0
  /\ count' = [count EXCEPT !.distance = 0, !.turn = 0]
  /\ UNCHANGED <<queueVars, last, elapsed, reading>>

CancelCurrent ==
  /\ command' = Stop
  /\ head' = 0 /\ tail' = 0 /\ size' = 0 /\ depth' = 0
  /\ current' = None
  /\ stage' = "idle"
  /\ busy' = FALSE
  /\ phase' = 0
  /\ count' = [count EXCEPT !.distance = 0, !.turn = 0]
  /\ UNCHANGED <<data, last, elapsed, reading>>

-----------------------------------------------------------------------------
(* The counters of consecutive good ticks *)

\* Faulty variant: the ticks outside the window are counted.
DistanceCountOutside ==
  [count EXCEPT !.distance = IF reading = "hit" THEN 0 ELSE @ + 1]

\* TaskService_IsDistanceDoneByMeasure
DistanceCount == [count EXCEPT !.distance = IF reading = "hit" THEN @ + 1 ELSE 0]

\* TaskService_IsTurnDoneCustom, and TaskService_IsTurnDone, which leaves stall alone.
TurnCount ==
  [count EXCEPT !.turn = IF reading = "hit" THEN @ + 1 ELSE 0,
                !.stall = IF ~CurrentPhase.stallable THEN @
                          ELSE IF reading = "stall" THEN @ + 1 ELSE 0]

\* Faulty variant: a phase starts on the counters of the one before.
StartedCountKept(p, c) == c

\* The StartXxxPhase functions: each clears the counters its own phase will read.
StartedCount(p, c) ==
  CASE p.until = "turn" -> [c EXCEPT !.turn = 0, !.stall = 0]
    [] p.until \in {"settle", "entry", "arc"} -> [c EXCEPT !.distance = 0]
    [] OTHER -> c

-----------------------------------------------------------------------------
(* The tick *)

\* Faulty variant: the last motion command stays in force.
FinishWithoutStop ==
  /\ last' = current
  /\ current' = None /\ stage' = "complete" /\ busy' = FALSE /\ phase' = 0
  /\ UNCHANGED command

FinishCurrent ==
  /\ last' = current
  /\ current' = None
  /\ stage' = "complete"
  /\ busy' = FALSE
  /\ phase' = 0
  /\ command' = Stop

\* Faulty variant: the new phase issues no command of its own.
EnterPhaseSilently(i) == phase' = i /\ UNCHANGED <<current, last, stage, busy, command>>

EnterPhase(i) ==
  /\ phase' = i
  /\ command' = Program[current][i].command
  /\ UNCHANGED <<current, last, stage, busy>>

StayInPhase == UNCHANGED <<statusVars, command>>

\* What a Run function does once its test has given done and left the counters at c.
Conclude(done, c) ==
  IF ~done
  THEN StayInPhase /\ count' = c
  ELSE IF CurrentPhase.next = Finish
       THEN FinishCurrent /\ count' = c
       ELSE /\ EnterPhase(CurrentPhase.next)
            /\ count' = StartedCount(Program[current][CurrentPhase.next], c)

RunTimed ==
  /\ CurrentPhase.until = "timed"
  /\ Conclude(elapsed >= CurrentPhase.limit, count)
  /\ elapsed' = IF elapsed >= CurrentPhase.limit /\ CurrentPhase.next # Finish
                THEN 0 ELSE elapsed

RunSettle ==
  /\ CurrentPhase.until = "settle"
  /\ Conclude(DistanceCount.distance >= CurrentPhase.limit, DistanceCount)
  /\ UNCHANGED elapsed

RunTurn ==
  /\ CurrentPhase.until = "turn"
  /\ Conclude(\/ TurnCount.turn >= CurrentPhase.limit
              \/ CurrentPhase.stallable /\ TurnCount.stall >= StallHoldCycles,
              TurnCount)
  /\ UNCHANGED elapsed

\* A straight with an entry lead, or an arc: the first good tick ends the phase.
RunPassing ==
  /\ CurrentPhase.until \in {"entry", "arc"}
  /\ Conclude(reading = "hit", count)
  /\ UNCHANGED elapsed

RunEndless ==
  /\ CurrentPhase.until = "endless"
  /\ Conclude(FALSE, count)
  /\ UNCHANGED elapsed

RunPhase ==
  /\ busy
  /\ RunTimed \/ RunSettle \/ RunTurn \/ RunPassing \/ RunEndless
  /\ UNCHANGED <<queueVars, reading>>

\* Dequeue, Start and the PREPARE branch of the Run function, all in one tick.
StartNext ==
  /\ ~busy
  /\ size > 0
  /\ head' = Wrap(head + 1)
  /\ size' = size - 1
  /\ depth' = size - 1
  /\ current' = data[head]
  /\ stage' = "execute"
  /\ busy' = TRUE
  /\ phase' = 1
  /\ command' = Program[data[head]][1].command
  /\ count' = NoCounts
  /\ elapsed' = 0
  /\ UNCHANGED <<data, tail, last, reading>>

RestIdle ==
  /\ ~busy
  /\ size = 0
  /\ command' = Stop
  /\ UNCHANGED <<queueVars, statusVars, count, elapsed, reading>>

Tick10ms == RestIdle \/ StartNext \/ RunPhase

-----------------------------------------------------------------------------
(* Time and the sensors *)

Clock ==
  /\ elapsed < MaxElapsed
  /\ elapsed' = IF elapsed + ClockStep > MaxElapsed THEN MaxElapsed ELSE elapsed + ClockStep
  /\ UNCHANGED <<queueVars, statusVars, count, command, reading>>

Sense ==
  /\ reading' \in Readings \ {reading}
  /\ UNCHANGED <<queueVars, statusVars, count, elapsed, command>>

-----------------------------------------------------------------------------
Init ==
  /\ data = [i \in Slots |-> None]
  /\ head = 0 /\ tail = 0 /\ size = 0 /\ depth = 0
  /\ current = None /\ last = None
  /\ stage = "idle"
  /\ busy = FALSE
  /\ phase = 0
  /\ count = NoCounts
  /\ elapsed = 0
  /\ command = Stop
  /\ reading = "miss"

Next ==
  \/ \E a \in TaskAction : Enqueue(a)
  \/ CancelCurrent
  \/ Tick10ms
  \/ Clock
  \/ Sense

\* The scheduler runs the tick and SysTick advances the clock for as long as the
\* car is powered; nothing obliges a driver or a sensor.
Fairness == WF_vars(Tick10ms) /\ WF_vars(Clock)

Spec == Init /\ [][Next]_vars /\ Fairness

-----------------------------------------------------------------------------
(* Properties *)

\* Every variable stays in its range; the counters are natural numbers, phase is an
\* index of the running action's phases or 0.
TypeOK ==
  /\ data \in [Slots -> TaskAction \union {None}]
  /\ head \in Slots /\ tail \in Slots
  /\ size \in 0 .. QueueDepth /\ depth \in 0 .. QueueDepth
  /\ current \in TaskAction \union {None}
  /\ last \in TaskAction \union {None}
  /\ stage \in Stages
  /\ busy \in BOOLEAN
  /\ phase \in Nat
  /\ count \in Counts
  /\ elapsed \in Nat
  /\ command \in Commands
  /\ reading \in Readings

\* An action is never booked twice: not in two live slots of the ring, and not in one
\* while it runs (the check of TaskService_IsQueued against slots left over from
\* earlier laps, whose contents a dequeue does not erase).
NoDoubleBooking ==
  /\ \A i, j \in 0 .. size - 1 : data[Wrap(head + i)] = data[Wrap(head + j)] => i = j
  /\ busy => ~InRing(current)

\* The ring, the status and the command implement the abstract queue.
Live(i) == data[Wrap(head + i - 1)]

Abstract == INSTANCE ActionQueue
              WITH Actions <- TaskAction, Capacity <- QueueDepth, Nobody <- None,
                   pending <- [i \in 1 .. size |-> Live(i)],
                   running <- IF busy THEN current ELSE None,
                   moving <- command # Stop

\* Every step of the task layer is a step of ActionQueue or changes nothing it shows.
ImplementsActionQueue == Abstract!Spec

\* The command in force brings about what the test of the phase waits for: it drives the
\* right way, and as far as the test looks for.
Suits ==
  \/ CurrentPhase.until \in {"timed", "endless"}
  \/ /\ command.behavior = CASE CurrentPhase.until \in {"settle", "entry"} -> "straight"
                             [] OTHER -> CurrentPhase.until
     /\ command.amount = CurrentPhase.command.amount

\* The sensors end up reporting the target of a phase as reached, provided that the car is
\* commanded towards it.
TargetsAreReached == <>[](busy /\ Suits => reading = "hit")

\* If the targets are reached, every accepted action leaves the ring: it is started or
\* cancelled.  (Programs without an endless phase: a motor test keeps the ring waiting until
\* it is cancelled.)
EveryRequestLeavesTheRing ==
  TargetsAreReached => \A a \in TaskAction : InRing(a) ~> ~InRing(a)

\* Likewise every started action ends, by its last phase or by a cancel: no phase waits for
\* what it has not commanded, for a timer that is restarted or for a count that is lost.
EveryActionEnds == TargetsAreReached => (busy ~> ~busy)

=============================================================================
