-------------------------- MODULE TaskServiceProofs --------------------------
(***************************************************************************)
(* Theorems about the task layer, for every table of actions, every depth  *)
(* of the ring and every clock: its invariants, what a phase waits for and *)
(* that it implements the abstract queue of ActionQueue.                   *)
(***************************************************************************)
EXTENDS TaskHistory, SequenceTheorems, TLAPS

-----------------------------------------------------------------------------
(* The arithmetic of the ring *)

\* An index wrapped around the ring is a slot of it.
LEMMA WrapIsSlot == \A i \in Nat : Wrap(i) \in Slots
  BY QueueDepthAssumption DEF Wrap, Slots

\* Inside the ring wrapping changes nothing.
LEMMA WrapInside == \A i \in Slots : Wrap(i) = i
  BY QueueDepthAssumption DEF Wrap, Slots

\* One lap further it takes off the length of the ring.
LEMMA WrapPast == \A i \in QueueDepth .. 2 * QueueDepth - 1 : Wrap(i) = i - QueueDepth
  BY QueueDepthAssumption DEF Wrap, Slots

\* Offsets below the length of the ring reach different slots.
LEMMA WrapInjective ==
  ASSUME NEW h \in Slots, NEW i \in Slots, NEW j \in Slots, Wrap(h + i) = Wrap(h + j)
  PROVE  i = j
<1>1. \A k \in Slots : Wrap(h + k) = IF h + k < QueueDepth THEN h + k ELSE h + k - QueueDepth
  BY WrapInside, WrapPast, QueueDepthAssumption DEF Slots
<1>2. QED BY <1>1, QueueDepthAssumption DEF Slots

\* Moving the head one slot on moves every live slot one place forward.
LEMMA WrapShift ==
  ASSUME NEW h \in Slots, NEW i \in 0 .. QueueDepth
  PROVE  i < QueueDepth => Wrap(Wrap(h + 1) + i) = Wrap(h + (i + 1))
<1>1. CASE h + 1 < QueueDepth
  <2>1. Wrap(h + 1) = h + 1
    BY <1>1, WrapInside, QueueDepthAssumption DEF Slots
  <2>2. (h + 1) + i = h + (i + 1)
    BY QueueDepthAssumption DEF Slots
  <2>3. QED BY <2>1, <2>2
<1>2. CASE h + 1 = QueueDepth
  <2>1. Wrap(h + 1) = 0
    BY <1>2, WrapPast, QueueDepthAssumption DEF Slots
  <2>2. ASSUME i < QueueDepth PROVE Wrap(h + (i + 1)) = i /\ Wrap(0 + i) = i
    BY <1>2, <2>2, WrapPast, WrapInside, QueueDepthAssumption DEF Slots
  <2>3. QED BY <2>1, <2>2
<1>3. QED BY <1>1, <1>2, QueueDepthAssumption DEF Slots

-----------------------------------------------------------------------------
(* The invariant *)

\* The fields of g_queue describe one ring: size slots from head on hold actions, tail is
\* the slot after them, and the depth shown by the status is the size.
RingInv ==
  /\ tail = Wrap(head + size)
  /\ depth = size
  /\ \A i \in 0 .. size - 1 : data[Wrap(head + i)] \in TaskAction

\* A running action is an action of the table, in one of its phases.
RunInv == busy => current \in TaskAction /\ phase \in 1 .. Len(Program[current])

IInv == TypeOK /\ RingInv /\ RunInv

\* The cleared command is a command.
LEMMA StopIsCommand == Stop \in Commands
  BY DEF Stop, Command, Commands, Behaviors, Loops

\* The phases of the table are phases, and what follows one is another or the end.
LEMMA ProgramPhases ==
  ASSUME NEW a \in TaskAction, NEW i \in 1 .. Len(Program[a])
  PROVE  /\ Program[a][i] \in Phases
         /\ Program[a][i].command \in Commands
         /\ Program[a][i].limit \in Nat
         /\ Program[a][i].next # Finish => Program[a][i].next \in 1 .. Len(Program[a])
<1>1. Program[a] \in Seq(Phases)
  BY ProgramAssumption
<1>2. Program[a][i] \in Phases
  BY <1>1
<1>3. QED BY <1>2, ProgramAssumption DEF Phases

LEMMA NoCountsIsCounts == NoCounts \in Counts
  BY DEF NoCounts, Counts

LEMMA InitInv == Init => IInv
<1> SUFFICES ASSUME Init PROVE IInv
  OBVIOUS
<1>1. TypeOK
  <2>1. data \in [Slots -> TaskAction \union {None}]
    BY DEF Init
  <2>2. head \in Slots /\ tail \in Slots /\ size \in 0 .. QueueDepth /\ depth \in 0 .. QueueDepth
    BY QueueDepthAssumption DEF Init, Slots
  <2>3. /\ current \in TaskAction \union {None} /\ last \in TaskAction \union {None}
        /\ stage \in Stages /\ busy \in BOOLEAN /\ phase \in Nat
        /\ elapsed \in Nat /\ reading \in Readings
    BY DEF Init, Stages, Readings
  <2>4. count \in Counts /\ command \in Commands
    BY StopIsCommand, NoCountsIsCounts DEF Init
  <2>5. QED BY <2>1, <2>2, <2>3, <2>4 DEF TypeOK
<1>2. RingInv
  <2>1. 0 \in Slots
    BY QueueDepthAssumption DEF Slots
  <2>2. QED BY <2>1, WrapInside DEF Init, RingInv
<1>3. RunInv
  BY DEF Init, RunInv
<1>4. QED BY <1>1, <1>2, <1>3 DEF IInv

\* A request that is appended keeps the ring one ring.
LEMMA EnqueueInv == ASSUME IInv, NEW a \in TaskAction, Enqueue(a) PROVE IInv'
<1> USE DEF IInv
<1>1. size \in Slots /\ size' = size + 1 /\ head' = head /\ head \in Slots /\ tail \in Slots
  BY QueueDepthAssumption DEF Enqueue, EnqueueResult, TypeOK, Slots
<1>2. head + (size + 1) = (head + size) + 1 /\ head + size \in Nat /\ tail + 1 \in Nat
  BY <1>1, QueueDepthAssumption DEF Slots
<1>3. tail' \in Slots
  BY <1>2, WrapIsSlot DEF Enqueue
<1>4. TypeOK'
  BY <1>1, <1>3, QueueDepthAssumption DEF Enqueue, TypeOK, Slots, statusVars
<1>5. RingInv'
  <2>1. tail' = Wrap(head' + size')
    <3>1. tail = Wrap(head + size)
      BY DEF RingInv
    <3>2. CASE head + size + 1 < QueueDepth
      <4>1. Wrap(head + size) = head + size
        BY <3>2, <1>1, WrapInside, QueueDepthAssumption DEF Slots
      <4>2. QED BY <3>1, <4>1, <1>1, <1>2 DEF Enqueue
    <3>3. CASE head + size + 1 = QueueDepth
      <4>1. Wrap(head + size) = head + size
        BY <3>3, <1>1, WrapInside, QueueDepthAssumption DEF Slots
      <4>2. QED BY <3>1, <4>1, <1>1, <1>2 DEF Enqueue
    <3>4. CASE head + size + 1 > QueueDepth
      <4>1. Wrap(head + size) = head + size - QueueDepth
        BY <3>4, <1>1, WrapPast, QueueDepthAssumption DEF Slots
      <4>2. head + size + 1 - QueueDepth \in Slots
        BY <3>4, <1>1, QueueDepthAssumption DEF Slots
      <4>3. Wrap(tail + 1) = head + size + 1 - QueueDepth
        <5>1. tail + 1 = head + size + 1 - QueueDepth
          BY <3>1, <4>1, <1>1, QueueDepthAssumption DEF Slots
        <5>2. QED BY <5>1, <4>2, WrapInside
      <4>4. Wrap(head + (size + 1)) = head + size + 1 - QueueDepth
        BY <3>4, <1>1, WrapPast, QueueDepthAssumption DEF Slots
      <4>5. QED BY <4>3, <4>4, <1>1 DEF Enqueue
    <3>5. QED BY <3>2, <3>3, <3>4, <1>1, QueueDepthAssumption DEF Slots
  <2>2. \A i \in 0 .. size' - 1 : data'[Wrap(head' + i)] \in TaskAction
    <3> TAKE i \in 0 .. size' - 1
    <3>1. CASE i = size
      <4>1. Wrap(head + i) = tail
        BY <3>1 DEF RingInv
      <4>2. data'[tail] = a
        BY <1>1 DEF Enqueue, TypeOK
      <4>3. QED BY <4>1, <4>2, <1>1
    <3>2. CASE i # size
      <4>1. i \in 0 .. size - 1 /\ i \in Slots
        BY <3>2, <1>1, QueueDepthAssumption DEF Slots
      <4>2. Wrap(head + i) # tail
        BY <4>1, <1>1, WrapInjective, <3>2 DEF RingInv
      <4>3. Wrap(head + i) \in Slots
        BY <4>1, <1>1, WrapIsSlot, QueueDepthAssumption DEF Slots
      <4>4. data'[Wrap(head + i)] = data[Wrap(head + i)]
        BY <4>2, <4>3 DEF Enqueue, TypeOK
      <4>5. QED BY <4>1, <4>4, <1>1 DEF RingInv
    <3>3. QED BY <3>1, <3>2
  <2>3. depth' = size'
    BY DEF Enqueue
  <2>4. QED BY <2>1, <2>2, <2>3 DEF RingInv
<1>6. RunInv'
  BY DEF Enqueue, RunInv, statusVars
<1>7. QED BY <1>4, <1>5, <1>6

\* A cancel empties the ring and leaves nothing running.
LEMMA CancelInv == ASSUME IInv, CancelCurrent PROVE IInv'
<1> USE DEF IInv
<1>1. 0 \in Slots /\ 0 \in 0 .. QueueDepth
  BY QueueDepthAssumption DEF Slots
<1>2. count' \in Counts
  BY DEF CancelCurrent, TypeOK, Counts
<1>3. TypeOK'
  BY <1>1, <1>2, StopIsCommand DEF CancelCurrent, TypeOK, Stages
<1>4. RingInv'
  BY <1>1, WrapInside DEF CancelCurrent, RingInv
<1>5. RunInv'
  BY DEF CancelCurrent, RunInv
<1>6. QED BY <1>3, <1>4, <1>5

\* Starting the action at the head takes it out of the ring and into its first phase.
LEMMA StartNextInv == ASSUME IInv, StartNext PROVE IInv'
<1> USE DEF IInv
<1>1. /\ size \in 1 .. QueueDepth /\ size' = size - 1 /\ head' = Wrap(head + 1)
      /\ head \in Slots /\ tail' = tail /\ data' = data /\ depth' = size'
  BY QueueDepthAssumption DEF StartNext, TypeOK
<1>2. head' \in Slots
  BY <1>1, WrapIsSlot, QueueDepthAssumption DEF Slots
<1>3. data[head] \in TaskAction
  <2>1. Wrap(head + 0) = head
    BY <1>1, WrapInside, QueueDepthAssumption DEF Slots
  <2>2. 0 \in 0 .. size - 1
    BY <1>1, QueueDepthAssumption
  <2>3. QED BY <2>1, <2>2 DEF RingInv
<1>4. Len(Program[data[head]]) \in Nat /\ 1 \in 1 .. Len(Program[data[head]])
  BY <1>3, ProgramAssumption
<1>5. command' \in Commands
  BY <1>3, <1>4, ProgramPhases DEF StartNext
<1>6. size' \in 0 .. QueueDepth /\ depth' \in 0 .. QueueDepth
  BY <1>1, QueueDepthAssumption
<1>7. TypeOK'
  BY <1>1, <1>2, <1>3, <1>5, <1>6, NoCountsIsCounts DEF StartNext, TypeOK, Stages
<1>8. RingInv'
  <2>1. \A i \in 0 .. size' : i < QueueDepth /\ i \in 0 .. QueueDepth
    BY <1>1, QueueDepthAssumption
  <2>2. \A i \in 0 .. size' : Wrap(head' + i) = Wrap(head + (i + 1))
    BY <1>1, <2>1, WrapShift
  <2>3. tail' = Wrap(head' + size')
    <3>1. size' \in 0 .. size' /\ size' + 1 = size
      BY <1>1, QueueDepthAssumption
    <3>2. QED BY <3>1, <2>2, <1>1 DEF RingInv
  <2>4. \A i \in 0 .. size' - 1 : data'[Wrap(head' + i)] \in TaskAction
    <3> TAKE i \in 0 .. size' - 1
    <3>1. i \in 0 .. size' /\ i + 1 \in 0 .. size - 1
      BY <1>1, QueueDepthAssumption
    <3>2. QED BY <3>1, <2>2, <1>1 DEF RingInv
  <2>5. QED BY <2>3, <2>4, <1>1 DEF RingInv
<1>9. RunInv'
  BY <1>3, <1>4 DEF StartNext, RunInv
<1>10. QED BY <1>7, <1>8, <1>9

-----------------------------------------------------------------------------
(* Phases *)

\* The fields a Run function writes, and what they are after it.
PhaseOutcome ==
  /\ current' \in TaskAction \union {None}
  /\ last' \in TaskAction \union {None}
  /\ stage' \in Stages
  /\ busy' \in BOOLEAN
  /\ phase' \in Nat
  /\ count' \in Counts
  /\ command' \in Commands
  /\ RunInv'

\* The counters a Run function updates stay counters.
LEMMA CountsStayCounts ==
  ASSUME IInv
  PROVE  /\ count \in Counts /\ DistanceCount \in Counts /\ TurnCount \in Counts
         /\ \A p, c : c \in Counts => StartedCount(p, c) \in Counts
<1>1. count \in Counts
  BY DEF IInv, TypeOK
<1>2. DistanceCount \in Counts
  BY <1>1 DEF DistanceCount, Counts
<1>3. TurnCount \in Counts
  <2> DEFINE t == IF reading = "hit" THEN count.turn + 1 ELSE 0
             s == IF ~CurrentPhase.stallable THEN count.stall
                  ELSE IF reading = "stall" THEN count.stall + 1 ELSE 0
  <2>1. t \in Nat /\ s \in Nat
    BY <1>1 DEF Counts
  <2>2. TurnCount = [count EXCEPT !.turn = t, !.stall = s]
    BY DEF TurnCount
  <2> HIDE DEF t, s
  <2>3. QED BY <1>1, <2>1, <2>2 DEF Counts
<1>4. \A p, c : c \in Counts => StartedCount(p, c) \in Counts
  BY DEF StartedCount, Counts
<1>5. QED BY <1>1, <1>2, <1>3, <1>4

\* Whatever the test gave: stay, go to the phase the table names, or finish.
LEMMA ConcludeOutcome ==
  ASSUME IInv, busy, NEW done \in BOOLEAN, NEW c \in Counts, Conclude(done, c)
  PROVE  PhaseOutcome
<1>1. current \in TaskAction /\ phase \in 1 .. Len(Program[current])
  BY DEF IInv, RunInv
<1>2. CASE ~done
  BY <1>2 DEF Conclude, StayInPhase, statusVars, PhaseOutcome, IInv, TypeOK, RunInv
<1>3. CASE done /\ CurrentPhase.next = Finish
  <2>1. FinishCurrent /\ count' = c
    BY <1>3 DEF Conclude
  <2>2. RunInv' /\ busy' \in BOOLEAN
    BY <2>1 DEF FinishCurrent, RunInv
  <2>3. stage' \in Stages /\ phase' \in Nat /\ command' \in Commands
    BY <2>1, StopIsCommand DEF FinishCurrent, Stages
  <2>4. current' \in TaskAction \union {None} /\ last' \in TaskAction \union {None}
    BY <1>1, <2>1 DEF FinishCurrent
  <2>5. QED BY <2>1, <2>2, <2>3, <2>4 DEF PhaseOutcome
<1>4. CASE done /\ CurrentPhase.next # Finish
  <2> DEFINE n == CurrentPhase.next
  <2>1. n \in 1 .. Len(Program[current])
    BY <1>1, <1>4, ProgramPhases DEF CurrentPhase
  <2>2. Program[current][n].command \in Commands
    BY <1>1, <2>1, ProgramPhases
  <2>3. count' \in Counts
    BY <1>4, CountsStayCounts DEF Conclude
  <2>4. /\ phase' = n /\ command' = Program[current][n].command
        /\ UNCHANGED <<current, last, stage, busy>>
    BY <1>4 DEF Conclude, EnterPhase
  <2> HIDE DEF n
  <2>5. Len(Program[current]) \in Nat
    BY <1>1, ProgramAssumption
  <2>6. phase' \in Nat
    BY <2>1, <2>4, <2>5
  <2>7. QED BY <1>1, <2>1, <2>2, <2>3, <2>4, <2>6 DEF PhaseOutcome, IInv, TypeOK, RunInv
<1>5. QED BY <1>2, <1>3, <1>4

\* One 10 ms tick of a running action.
LEMMA RunPhaseInv == ASSUME IInv, RunPhase PROVE IInv'
<1>1. busy /\ UNCHANGED <<queueVars, reading>>
  BY DEF RunPhase
<1>2. current \in TaskAction /\ phase \in 1 .. Len(Program[current])
  BY <1>1 DEF IInv, RunInv
<1>3. CurrentPhase.limit \in Nat
  BY <1>2, ProgramPhases DEF CurrentPhase
<1>4. PhaseOutcome /\ elapsed' \in Nat
  <2>1. CASE RunTimed
    <3>1. (elapsed >= CurrentPhase.limit) \in BOOLEAN
      OBVIOUS
    <3>2. PhaseOutcome
      BY <1>1, <2>1, <3>1, CountsStayCounts, ConcludeOutcome DEF RunTimed
    <3>3. QED BY <2>1, <3>2 DEF RunTimed, IInv, TypeOK
  <2>2. CASE RunSettle
    <3>1. (DistanceCount.distance >= CurrentPhase.limit) \in BOOLEAN
      OBVIOUS
    <3>2. QED BY <1>1, <2>2, <3>1, CountsStayCounts, ConcludeOutcome DEF RunSettle, IInv, TypeOK
  <2>3. CASE RunTurn
    <3> DEFINE done == \/ TurnCount.turn >= CurrentPhase.limit
                       \/ CurrentPhase.stallable /\ TurnCount.stall >= StallHoldCycles
    <3>1. done \in BOOLEAN
      OBVIOUS
    <3>2. Conclude(done, TurnCount) /\ UNCHANGED elapsed
      BY <2>3 DEF RunTurn
    <3> HIDE DEF done
    <3>3. QED BY <1>1, <3>1, <3>2, CountsStayCounts, ConcludeOutcome DEF IInv, TypeOK
  <2>4. CASE RunPassing
    <3>1. (reading = "hit") \in BOOLEAN
      OBVIOUS
    <3>2. QED BY <1>1, <2>4, <3>1, CountsStayCounts, ConcludeOutcome DEF RunPassing, IInv, TypeOK
  <2>5. CASE RunEndless
    BY <1>1, <2>5, CountsStayCounts, ConcludeOutcome DEF RunEndless, IInv, TypeOK
  <2>6. QED BY <2>1, <2>2, <2>3, <2>4, <2>5 DEF RunPhase
<1>5. TypeOK' /\ RingInv'
  BY <1>1, <1>4 DEF IInv, TypeOK, RingInv, PhaseOutcome, queueVars
<1>6. QED BY <1>4, <1>5 DEF IInv, PhaseOutcome

-----------------------------------------------------------------------------
(* Every behaviour *)

LEMMA NextInv == ASSUME IInv, [Next]_vars PROVE IInv'
<1>1. CASE \E a \in TaskAction : Enqueue(a)
  BY <1>1, EnqueueInv
<1>2. CASE CancelCurrent
  BY <1>2, CancelInv
<1>3. CASE RestIdle
  <2>1. UNCHANGED <<queueVars, statusVars, count, elapsed, reading>> /\ command' \in Commands
    BY <1>3, StopIsCommand DEF RestIdle
  <2>2. QED BY <2>1 DEF IInv, TypeOK, RingInv, RunInv, queueVars, statusVars
<1>4. CASE StartNext
  BY <1>4, StartNextInv
<1>5. CASE RunPhase
  BY <1>5, RunPhaseInv
<1>6. CASE Clock
  <2>1. elapsed' \in Nat
    BY <1>6, ClockAssumption DEF Clock, IInv, TypeOK
  <2>2. UNCHANGED <<queueVars, statusVars, count, command, reading>>
    BY <1>6 DEF Clock
  <2>3. QED BY <2>1, <2>2 DEF IInv, TypeOK, RingInv, RunInv, queueVars, statusVars
<1>7. CASE Sense
  <2>1. reading' \in Readings
    BY <1>7 DEF Sense
  <2>2. UNCHANGED <<queueVars, statusVars, count, elapsed, command>>
    BY <1>7 DEF Sense
  <2>3. QED BY <2>1, <2>2 DEF IInv, TypeOK, RingInv, RunInv, queueVars, statusVars
<1>8. CASE UNCHANGED vars
  BY <1>8 DEF vars, IInv, TypeOK, RingInv, RunInv
<1>9. QED BY <1>1, <1>2, <1>3, <1>4, <1>5, <1>6, <1>7, <1>8 DEF Next, Tick10ms

\* The fields of the ring stay consistent and the running action stays in its table.
THEOREM RingConsistent == Spec => []IInv
<1>1. Init => IInv
  BY InitInv
<1>2. IInv /\ [Next]_vars => IInv'
  BY NextInv
<1>3. QED BY <1>1, <1>2, PTL DEF Spec

\* Type correctness: no index leaves the ring, no counter the naturals, and no phase
\* change takes the state machine out of its table.
THEOREM TypeCorrect == Spec => []TypeOK
<1>1. IInv => TypeOK
  BY DEF IInv
<1>2. QED BY <1>1, RingConsistent, PTL

-----------------------------------------------------------------------------
(* What the task layer commands *)

\* Whatever ends an action leaves the cleared command behind.
StandsStillUnlessBusy == ~busy => command = Stop

\* Between two ticks the command in force is that of the running action's phase.
CommandMatchesPhase ==
  busy => /\ stage = "execute"
          /\ phase \in DOMAIN Program[current]
          /\ command = CurrentPhase.command

CommandInv == StandsStillUnlessBusy /\ CommandMatchesPhase

\* A finished action leaves Stop, a phase change commands for the phase it enters.
LEMMA ConcludeCommand ==
  ASSUME IInv, CommandInv, busy, NEW done, NEW c, Conclude(done, c)
  PROVE  CommandInv'
<1>1. current \in TaskAction /\ phase \in 1 .. Len(Program[current])
  BY DEF IInv, RunInv
<1>2. CASE ~done
  BY <1>2 DEF Conclude, StayInPhase, statusVars, CommandInv, StandsStillUnlessBusy,
              CommandMatchesPhase, CurrentPhase
<1>3. CASE done /\ CurrentPhase.next = Finish
  <2>1. ~busy' /\ command' = Stop
    BY <1>3 DEF Conclude, FinishCurrent
  <2>2. Stop' = Stop
    BY DEF Stop, Command
  <2>3. QED BY <2>1, <2>2 DEF CommandInv, StandsStillUnlessBusy, CommandMatchesPhase
<1>4. CASE done /\ CurrentPhase.next # Finish
  <2> DEFINE n == CurrentPhase.next
  <2>1. n \in 1 .. Len(Program[current])
    BY <1>1, <1>4, ProgramPhases DEF CurrentPhase
  <2>2. n \in DOMAIN Program[current]
    BY <1>1, <2>1, ProgramAssumption
  <2>3. /\ phase' = n /\ command' = Program[current][n].command
        /\ UNCHANGED <<current, last, stage, busy>>
    BY <1>4 DEF Conclude, EnterPhase
  <2> HIDE DEF n
  <2>4. QED BY <2>2, <2>3 DEF CommandInv, StandsStillUnlessBusy, CommandMatchesPhase, CurrentPhase
<1>5. QED BY <1>2, <1>3, <1>4

LEMMA NextCommand == ASSUME IInv, CommandInv, [Next]_vars PROVE CommandInv'
<1> USE DEF CommandInv, StandsStillUnlessBusy, CommandMatchesPhase
<1>1. CASE \E a \in TaskAction : Enqueue(a)
  BY <1>1 DEF Enqueue, statusVars, CurrentPhase
<1>2. CASE CancelCurrent
  BY <1>2 DEF CancelCurrent
<1>3. CASE RestIdle
  BY <1>3 DEF RestIdle, statusVars
<1>4. CASE StartNext
  <2>1. IInv'
    BY <1>4, StartNextInv
  <2>2. current' \in TaskAction /\ phase' \in 1 .. Len(Program[current'])
    BY <1>4, <2>1 DEF IInv, RunInv, StartNext
  <2>3. phase' \in DOMAIN Program[current']
    BY <2>2, ProgramAssumption
  <2>4. QED BY <1>4, <2>3 DEF StartNext, CurrentPhase
<1>5. CASE RunPhase
  <2>1. busy /\ \E done, c : Conclude(done, c)
    BY <1>5 DEF RunPhase, RunTimed, RunSettle, RunTurn, RunPassing, RunEndless
  <2>2. QED BY <2>1, ConcludeCommand
<1>6. CASE Clock
  BY <1>6 DEF Clock, statusVars, CurrentPhase
<1>7. CASE Sense
  BY <1>7 DEF Sense, statusVars, CurrentPhase
<1>8. CASE UNCHANGED vars
  BY <1>8 DEF vars, CurrentPhase
<1>9. QED BY <1>1, <1>2, <1>3, <1>4, <1>5, <1>6, <1>7, <1>8 DEF Next, Tick10ms

-----------------------------------------------------------------------------
(* No action is booked twice *)

\* A request is appended only if no live slot and no running action holds it already.
LEMMA EnqueueBooking ==
  ASSUME IInv, NoDoubleBooking, NEW a \in TaskAction, Enqueue(a)
  PROVE  NoDoubleBooking'
<1>1. /\ size \in Slots /\ size' = size + 1 /\ head' = head /\ head \in Slots
      /\ tail = Wrap(head + size) /\ tail \in Slots
      /\ busy' = busy /\ current' = current
  BY QueueDepthAssumption DEF Enqueue, EnqueueResult, IInv, RingInv, TypeOK, Slots, statusVars
<1>2. data'[tail] = a
  BY <1>1 DEF Enqueue, IInv, TypeOK
<1>3. \A i \in 0 .. size - 1 : Wrap(head + i) # tail /\ data'[Wrap(head + i)] = data[Wrap(head + i)]
  <2> TAKE i \in 0 .. size - 1
  <2>1. i \in Slots /\ i # size
    BY <1>1, QueueDepthAssumption DEF Slots
  <2>2. Wrap(head + i) # tail
    BY <1>1, <2>1, WrapInjective
  <2>3. Wrap(head + i) \in Slots
    BY <1>1, <2>1, WrapIsSlot, QueueDepthAssumption DEF Slots
  <2>4. QED BY <2>2, <2>3 DEF Enqueue, IInv, TypeOK
<1>4. \A i \in 0 .. size - 1 : data[Wrap(head + i)] # a
  BY DEF Enqueue, IsQueued, InRing
<1>5. \A i \in 0 .. size' - 1 : i = size \/ i \in 0 .. size - 1
  BY <1>1, QueueDepthAssumption DEF Slots
<1>6. \A i \in 0 .. size' - 1 :
        data'[Wrap(head' + i)] = IF i = size THEN a ELSE data[Wrap(head + i)]
  BY <1>1, <1>2, <1>3, <1>5
<1>7. ASSUME NEW i \in 0 .. size' - 1, NEW j \in 0 .. size' - 1,
             data'[Wrap(head' + i)] = data'[Wrap(head' + j)]
      PROVE  i = j
  BY <1>4, <1>5, <1>6, <1>7 DEF NoDoubleBooking
<1>8. ASSUME busy' PROVE ~InRing(current)'
  <2>1. a # current
    BY <1>1, <1>8 DEF Enqueue, IsQueued
  <2>2. \A i \in 0 .. size - 1 : data[Wrap(head + i)] # current
    BY <1>1, <1>8 DEF NoDoubleBooking, InRing
  <2>3. \A i \in 0 .. size' - 1 : data'[Wrap(head' + i)] # current'
    BY <1>1, <1>5, <1>6, <2>1, <2>2
  <2>4. QED BY <2>3 DEF InRing
<1>9. QED BY <1>7, <1>8 DEF NoDoubleBooking

\* The started action leaves the ring, and no other slot held it.
LEMMA StartNextBooking ==
  ASSUME IInv, NoDoubleBooking, StartNext PROVE NoDoubleBooking'
<1>1. /\ size \in 1 .. QueueDepth /\ size' = size - 1 /\ head' = Wrap(head + 1)
      /\ head \in Slots /\ data' = data /\ current' = data[head] /\ busy' = TRUE
  BY QueueDepthAssumption DEF StartNext, IInv, TypeOK
<1>2. \A i \in 0 .. size' - 1 :
        Wrap(head' + i) = Wrap(head + (i + 1)) /\ i + 1 \in 0 .. size - 1
  <2> TAKE i \in 0 .. size' - 1
  <2>1. i \in 0 .. QueueDepth /\ i < QueueDepth /\ i + 1 \in 0 .. size - 1
    BY <1>1, QueueDepthAssumption
  <2>2. QED BY <1>1, <2>1, WrapShift
<1>3. Wrap(head + 0) = head /\ 0 \in 0 .. size - 1
  BY <1>1, WrapInside, QueueDepthAssumption DEF Slots
<1>4. ASSUME NEW i \in 0 .. size' - 1, NEW j \in 0 .. size' - 1,
             data'[Wrap(head' + i)] = data'[Wrap(head' + j)]
      PROVE  i = j
  <2>1. i + 1 = j + 1
    BY <1>1, <1>2, <1>4 DEF NoDoubleBooking
  <2>2. i \in Int /\ j \in Int
    BY <1>1
  <2>3. QED BY <2>1, <2>2
<1>5. ~InRing(current)'
  <2>1. ASSUME NEW i \in 0 .. size' - 1, data'[Wrap(head' + i)] = current' PROVE FALSE
    <3>1. data[Wrap(head + (i + 1))] = data[Wrap(head + 0)]
      BY <1>1, <1>2, <1>3, <2>1
    <3>2. i + 1 = 0
      BY <1>2, <1>3, <3>1 DEF NoDoubleBooking
    <3>3. QED BY <1>1, <3>2
  <2>2. QED BY <2>1 DEF InRing
<1>6. QED BY <1>4, <1>5 DEF NoDoubleBooking

LEMMA NextBooking == ASSUME IInv, NoDoubleBooking, [Next]_vars PROVE NoDoubleBooking'
<1> USE DEF NoDoubleBooking, InRing
<1>1. CASE \E a \in TaskAction : Enqueue(a)
  BY <1>1, EnqueueBooking
<1>2. CASE CancelCurrent
  BY <1>2 DEF CancelCurrent
<1>3. CASE RestIdle
  BY <1>3 DEF RestIdle, queueVars, statusVars
<1>4. CASE StartNext
  BY <1>4, StartNextBooking
<1>5. CASE RunPhase
  <2>1. busy /\ UNCHANGED <<data, head, size>> /\ \E done, c : Conclude(done, c)
    BY <1>5 DEF RunPhase, RunTimed, RunSettle, RunTurn, RunPassing, RunEndless, queueVars
  <2>2. busy' => current' = current
    BY <2>1 DEF Conclude, StayInPhase, FinishCurrent, EnterPhase, statusVars
  <2>3. QED BY <2>1, <2>2
<1>6. CASE Clock
  BY <1>6 DEF Clock, queueVars, statusVars
<1>7. CASE Sense
  BY <1>7 DEF Sense, queueVars, statusVars
<1>8. CASE UNCHANGED vars
  BY <1>8 DEF vars
<1>9. QED BY <1>1, <1>2, <1>3, <1>4, <1>5, <1>6, <1>7, <1>8 DEF Next, Tick10ms

\* On a ring of any depth, however often it wraps: no action waits twice, and none
\* waits while it runs.
THEOREM NeverBookedTwice == Spec => []NoDoubleBooking
<1>1. Init => IInv /\ NoDoubleBooking
  BY InitInv DEF Init, NoDoubleBooking, InRing
<1>2. IInv /\ NoDoubleBooking /\ [Next]_vars => (IInv /\ NoDoubleBooking)'
  BY NextInv, NextBooking
<1>3. QED BY <1>1, <1>2, PTL DEF Spec

-----------------------------------------------------------------------------
(* Holds are respected *)

\* In a phase that is held, the counter its test reads is the true streak.
StreakInv ==
  /\ streak \in [hit : Nat, stall : Nat]
  /\ busy /\ CurrentPhase.until = "settle" => count.distance = streak.hit
  /\ busy /\ CurrentPhase.until = "turn" =>
       /\ count.turn = streak.hit
       /\ CurrentPhase.stallable => count.stall = streak.stall

\* A test that is not met leaves the action in its phase, one that is met takes it out,
\* and the phase that is entered starts on the counters its own test reads at 0.
LEMMA ConcludeHolds ==
  ASSUME IInv, CommandInv, busy, NEW done \in BOOLEAN, NEW c \in Counts, Conclude(done, c)
  PROVE  /\ Held => (PhaseEnded <=> done)
         /\ ~done => UNCHANGED <<busy, current, phase>> /\ count' = c
         /\ done /\ busy' => LET p == CurrentPhase'
                             IN  /\ p.until = "settle" => count'.distance = 0
                                 /\ p.until = "turn" => count'.turn = 0 /\ count'.stall = 0
<1>1. /\ current \in TaskAction /\ phase \in 1 .. Len(Program[current])
      /\ stage = "execute"
  BY DEF IInv, RunInv, CommandInv, CommandMatchesPhase
<1>2. CASE ~done
  BY <1>1, <1>2 DEF Conclude, StayInPhase, statusVars, PhaseEnded
<1>3. CASE done /\ CurrentPhase.next = Finish
  <2>1. ~busy' /\ stage' = "complete"
    BY <1>3 DEF Conclude, FinishCurrent
  <2>2. QED BY <1>3, <2>1 DEF PhaseEnded
<1>4. CASE done /\ CurrentPhase.next # Finish
  <2> DEFINE n == CurrentPhase.next
             p == Program[current][n]
  <2>1. /\ phase' = n /\ UNCHANGED <<current, busy>> /\ count' = StartedCount(p, c)
    BY <1>4 DEF Conclude, EnterPhase
  <2>2. CurrentPhase' = p
    BY <2>1 DEF CurrentPhase
  <2>3. /\ p.until = "settle" => count'.distance = 0
        /\ p.until = "turn" => count'.turn = 0 /\ count'.stall = 0
    BY <2>1 DEF StartedCount, Counts
  <2>4. Held => n # phase
    BY <1>1, HeldAssumption DEF Held, CurrentPhase
  <2> HIDE DEF n, p
  <2>5. QED BY <1>4, <2>1, <2>2, <2>3, <2>4 DEF PhaseEnded
<1>5. QED BY <1>2, <1>3, <1>4

\* What a tick of a phase does, whatever its test.
LEMMA RunPhaseConcludes ==
  ASSUME IInv, CommandInv, RunPhase
  PROVE  \E done \in BOOLEAN, c \in Counts :
           /\ Conclude(done, c)
           /\ CurrentPhase.until = "settle" =>
                c = DistanceCount /\ done = (DistanceCount.distance >= CurrentPhase.limit)
           /\ CurrentPhase.until = "turn" =>
                /\ c = TurnCount
                /\ done = \/ TurnCount.turn >= CurrentPhase.limit
                          \/ CurrentPhase.stallable /\ TurnCount.stall >= StallHoldCycles
<1>1. count \in Counts /\ DistanceCount \in Counts /\ TurnCount \in Counts
  BY CountsStayCounts
<1>2. CASE RunTimed
  <2>1. CurrentPhase.until = "timed" /\ Conclude(elapsed >= CurrentPhase.limit, count)
    BY <1>2 DEF RunTimed
  <2>2. (elapsed >= CurrentPhase.limit) \in BOOLEAN
    OBVIOUS
  <2>3. QED BY <1>1, <2>1, <2>2
<1>3. CASE RunSettle
  <2>1. /\ CurrentPhase.until = "settle"
        /\ Conclude(DistanceCount.distance >= CurrentPhase.limit, DistanceCount)
    BY <1>3 DEF RunSettle
  <2>2. (DistanceCount.distance >= CurrentPhase.limit) \in BOOLEAN
    OBVIOUS
  <2>3. QED BY <1>1, <2>1, <2>2
<1>4. CASE RunTurn
  <2> DEFINE d == \/ TurnCount.turn >= CurrentPhase.limit
                  \/ CurrentPhase.stallable /\ TurnCount.stall >= StallHoldCycles
  <2>1. CurrentPhase.until = "turn" /\ Conclude(d, TurnCount)
    BY <1>4 DEF RunTurn
  <2>2. d \in BOOLEAN
    OBVIOUS
  <2> HIDE DEF d
  <2>3. CurrentPhase.until # "settle"
    BY <2>1
  <2>4. \E done \in BOOLEAN, c \in Counts :
          /\ Conclude(done, c)
          /\ CurrentPhase.until # "settle" /\ c = TurnCount /\ done = d
    BY <1>1, <2>1, <2>2, <2>3
  <2>5. QED BY <2>4 DEF d
<1>5. CASE RunPassing
  <2>1. CurrentPhase.until \in {"entry", "arc"} /\ Conclude(reading = "hit", count)
    BY <1>5 DEF RunPassing
  <2>2. (reading = "hit") \in BOOLEAN
    OBVIOUS
  <2>3. QED BY <1>1, <2>1, <2>2
<1>6. CASE RunEndless
  <2>1. CurrentPhase.until = "endless" /\ Conclude(FALSE, count)
    BY <1>6 DEF RunEndless
  <2>2. QED BY <1>1, <2>1
<1>7. QED BY <1>2, <1>3, <1>4, <1>5, <1>6 DEF RunPhase

\* With the counters equal to the streaks, the test is met when the streak is long enough,
\* and the counters stay equal to the streaks.
LEMMA RunPhaseStreak ==
  ASSUME IInv, CommandInv, StreakInv, RunPhase
  PROVE  /\ Held => (PhaseEnded <=> LongEnough)
         /\ streak' = (IF PhaseEnded \/ ~Held THEN NoStreak ELSE ThisStreak) => StreakInv'
<1>1. /\ current \in TaskAction /\ phase \in 1 .. Len(Program[current]) /\ busy
      /\ count \in Counts
  BY DEF IInv, TypeOK, RunInv, RunPhase
<1>2. /\ CurrentPhase.limit \in Nat /\ CurrentPhase.stallable \in BOOLEAN
      /\ CurrentPhase.until = "settle" => ~CurrentPhase.stallable
  BY <1>1, ProgramPhases, HeldAssumption DEF CurrentPhase, Phases
<1>3. PICK done \in BOOLEAN, c \in Counts :
        /\ Conclude(done, c)
        /\ CurrentPhase.until = "settle" =>
             c = DistanceCount /\ done = (DistanceCount.distance >= CurrentPhase.limit)
        /\ CurrentPhase.until = "turn" =>
             /\ c = TurnCount
             /\ done = \/ TurnCount.turn >= CurrentPhase.limit
                       \/ CurrentPhase.stallable /\ TurnCount.stall >= StallHoldCycles
  BY RunPhaseConcludes
<1>4. /\ Held => (PhaseEnded <=> done)
      /\ ~done => UNCHANGED <<busy, current, phase>> /\ count' = c
      /\ done /\ busy' => LET p == CurrentPhase'
                          IN  /\ p.until = "settle" => count'.distance = 0
                              /\ p.until = "turn" => count'.turn = 0 /\ count'.stall = 0
  BY <1>1, <1>3, ConcludeHolds
<1>5. streak \in [hit : Nat, stall : Nat]
  BY DEF StreakInv
<1>6. ThisStreak \in [hit : Nat, stall : Nat] /\ NoStreak \in [hit : Nat, stall : Nat]
  BY <1>5 DEF ThisStreak, NoStreak
<1>7. CurrentPhase.until = "settle" => DistanceCount.distance = ThisStreak.hit
  BY <1>1, <1>5 DEF StreakInv, DistanceCount, ThisStreak, Counts
<1>8. CurrentPhase.until = "turn" =>
        /\ TurnCount.turn = ThisStreak.hit
        /\ CurrentPhase.stallable => TurnCount.stall = ThisStreak.stall
  BY <1>1, <1>5 DEF StreakInv, TurnCount, ThisStreak, Counts
<1>9. Held => (done <=> LongEnough)
  <2>1. CASE CurrentPhase.until = "settle"
    BY <1>2, <1>3, <1>7, <2>1 DEF LongEnough
  <2>2. CASE CurrentPhase.until = "turn"
    BY <1>2, <1>3, <1>8, <2>2 DEF LongEnough
  <2>3. QED BY <2>1, <2>2 DEF Held
<1>10. ASSUME streak' = IF PhaseEnded \/ ~Held THEN NoStreak ELSE ThisStreak
       PROVE  StreakInv'
  <2>1. streak' \in [hit : Nat, stall : Nat]
    BY <1>6, <1>10
  <2>2. CASE ~done
    <3>1. busy' /\ CurrentPhase' = CurrentPhase /\ count' = c
      BY <1>1, <1>4, <2>2 DEF CurrentPhase
    <3>2. CASE Held
      <4>1. streak' = ThisStreak
        BY <1>4, <1>10, <2>2, <3>2
      <4>2. QED BY <1>3, <1>7, <1>8, <2>1, <3>1, <4>1 DEF StreakInv
    <3>3. CASE ~Held
      <4>1. CurrentPhase.until \notin {"settle", "turn"}
        BY <1>1, <3>3 DEF Held
      <4>2. QED BY <2>1, <3>1, <4>1 DEF StreakInv
    <3>4. QED BY <3>2, <3>3
  <2>3. CASE done
    <3>1. streak' = NoStreak
      BY <1>4, <1>10, <2>3
    <3>2. streak'.hit = 0 /\ streak'.stall = 0
      BY <3>1 DEF NoStreak
    <3>3. QED BY <1>4, <2>1, <2>3, <3>2 DEF StreakInv
  <2>4. QED BY <2>2, <2>3
<1>11. QED BY <1>4, <1>9, <1>10

\* The counters are equal to the streaks whatever else happens.
LEMMA NextStreak ==
  ASSUME IInv, CommandInv, StreakInv, [HistoryNext]_historyVars PROVE StreakInv'
<1>1. CASE (\E a \in TaskAction : Enqueue(a)) /\ UNCHANGED streak
  BY <1>1 DEF Enqueue, statusVars, StreakInv, CurrentPhase
<1>2. CASE CancelCurrent /\ streak' = NoStreak
  BY <1>2 DEF CancelCurrent, NoStreak, StreakInv
<1>3. CASE RestIdle /\ UNCHANGED streak
  BY <1>3 DEF RestIdle, statusVars, StreakInv, CurrentPhase
<1>4. CASE StartNext /\ streak' = NoStreak
  BY <1>4 DEF StartNext, NoStreak, NoCounts, StreakInv
<1>5. CASE RunPhase /\ streak' = IF PhaseEnded \/ ~Held THEN NoStreak ELSE ThisStreak
  BY <1>5, RunPhaseStreak
<1>6. CASE Clock /\ UNCHANGED streak
  BY <1>6 DEF Clock, statusVars, StreakInv, CurrentPhase
<1>7. CASE Sense /\ UNCHANGED streak
  BY <1>7 DEF Sense, statusVars, StreakInv, CurrentPhase
<1>8. CASE UNCHANGED historyVars
  BY <1>8 DEF historyVars, vars, StreakInv, CurrentPhase
<1>9. QED BY <1>1, <1>2, <1>3, <1>4, <1>5, <1>6, <1>7, <1>8 DEF HistoryNext

\* Whatever the table of phases and the hold counts are: a phase that waits for the car to
\* settle ends with the tick that completes its own run of good ticks, and with no other.
THEOREM HoldsRespected == HistorySpec => HoldRespected
<1> DEFINE HInv == IInv /\ CommandInv /\ StreakInv
<1>1. HistoryInit => HInv
  <2>1. NoStreak \in [hit : Nat, stall : Nat]
    BY DEF NoStreak
  <2>2. QED BY <2>1, InitInv DEF HistoryInit, Init, CommandInv, StandsStillUnlessBusy,
                                 CommandMatchesPhase, StreakInv
<1>2. HInv /\ [HistoryNext]_historyVars => HInv'
  <2> SUFFICES ASSUME HInv, [HistoryNext]_historyVars PROVE HInv'
    OBVIOUS
  <2>1. [Next]_vars
    BY DEF HistoryNext, historyVars, Next, Tick10ms
  <2>2. QED BY <2>1, NextInv, NextCommand, NextStreak
<1>3. HInv => [RunPhase /\ Held => (PhaseEnded <=> LongEnough)]_historyVars
  BY RunPhaseStreak
<1>4. QED BY <1>1, <1>2, <1>3, PTL DEF HistorySpec, HoldRespected

-----------------------------------------------------------------------------
(* The abstract queue *)

\* The pending actions as the ring holds them.
Pending == [i \in 1 .. size |-> Live(i)]

Running == IF busy THEN current ELSE None

\* What the ring may hold: its live slots, in order, are actions.
LEMMA PendingIsSequence ==
  ASSUME IInv
  PROVE  /\ Pending \in Seq(TaskAction) /\ Len(Pending) = size
         /\ size \in 0 .. QueueDepth
         /\ \A i \in 1 .. size : Pending[i] = data[Wrap(head + i - 1)]
<1>1. size \in 0 .. QueueDepth /\ head \in Slots
  BY DEF IInv, TypeOK
<1>2. \A i \in 1 .. size : Live(i) \in TaskAction
  <2> TAKE i \in 1 .. size
  <2>1. i - 1 \in 0 .. size - 1 /\ head + i - 1 = head + (i - 1)
    BY <1>1, QueueDepthAssumption DEF Slots
  <2>2. QED BY <2>1 DEF Live, IInv, RingInv
<1>3. size \in Nat
  BY <1>1, QueueDepthAssumption
<1>4. Pending \in [1 .. size -> TaskAction]
  BY <1>2 DEF Pending
<1>5. Pending \in Seq(TaskAction) /\ Len(Pending) = size
  BY <1>3, <1>4
<1>6. QED BY <1>1, <1>5 DEF Pending, Live

\* A live slot holds an action exactly if the queue has it waiting.
LEMMA WaitingInRing ==
  ASSUME IInv, NEW a
  PROVE  (\E i \in 1 .. Len(Pending) : Pending[i] = a) <=> InRing(a)
<1>1. size \in Nat /\ head \in Nat
  BY QueueDepthAssumption DEF IInv, TypeOK, Slots
<1>2. Len(Pending) = size /\ \A i \in 1 .. size : Pending[i] = data[Wrap(head + i - 1)]
  BY PendingIsSequence
<1>3. ASSUME NEW i \in 1 .. size, Pending[i] = a PROVE InRing(a)
  <2>1. i - 1 \in 0 .. size - 1 /\ head + i - 1 = head + (i - 1)
    BY <1>1
  <2>2. QED BY <1>2, <1>3, <2>1 DEF InRing
<1>4. ASSUME NEW i \in 0 .. size - 1, data[Wrap(head + i)] = a
      PROVE  \E j \in 1 .. size : Pending[j] = a
  <2>1. i + 1 \in 1 .. size /\ head + (i + 1) - 1 = head + i
    BY <1>1
  <2>2. QED BY <1>2, <1>4, <2>1
<1>5. QED BY <1>2, <1>3, <1>4 DEF InRing

\* A request is appended.
LEMMA EnqueueAppends ==
  ASSUME IInv, NEW a \in TaskAction, Enqueue(a)
  PROVE  Pending' = Append(Pending, a)
<1>1. /\ size \in Slots /\ size' = size + 1 /\ head' = head /\ head \in Slots
      /\ tail = Wrap(head + size) /\ tail \in Slots
  BY QueueDepthAssumption DEF Enqueue, EnqueueResult, IInv, RingInv, TypeOK, Slots
<1>2. data'[tail] = a
  BY <1>1 DEF Enqueue, IInv, TypeOK
<1>3. \A i \in 0 .. size - 1 : data'[Wrap(head + i)] = data[Wrap(head + i)]
  <2> TAKE i \in 0 .. size - 1
  <2>1. i \in Slots /\ i # size
    BY <1>1, QueueDepthAssumption DEF Slots
  <2>2. Wrap(head + i) # tail
    BY <1>1, <2>1, WrapInjective
  <2>3. Wrap(head + i) \in Slots
    BY <1>1, <2>1, WrapIsSlot, QueueDepthAssumption DEF Slots
  <2>4. QED BY <2>2, <2>3 DEF Enqueue, IInv, TypeOK
<1>4. size \in Nat /\ head \in Nat
  BY <1>1, QueueDepthAssumption DEF Slots
<1>5. \A i \in 1 .. size' : Live(i)' = IF i = size + 1 THEN a ELSE Live(i)
  <2> TAKE i \in 1 .. size'
  <2>1. CASE i = size + 1
    <3>1. head + i - 1 = head + size
      BY <1>4, <2>1
    <3>2. QED BY <1>1, <1>2, <2>1, <3>1 DEF Live
  <2>2. CASE i # size + 1
    <3>1. i - 1 \in 0 .. size - 1 /\ head + i - 1 = head + (i - 1)
      BY <1>1, <1>4, <2>2
    <3>2. QED BY <1>1, <1>3, <2>2, <3>1 DEF Live
  <2>3. QED BY <2>1, <2>2
<1>6. Pending' = [i \in 1 .. size + 1 |-> IF i = size + 1 THEN a ELSE Pending[i]]
  BY <1>1, <1>4, <1>5 DEF Pending
<1>7. Pending \in Seq(TaskAction) /\ Len(Pending) = size
  BY PendingIsSequence
<1>8. /\ Append(Pending, a) \in [1 .. size + 1 -> TaskAction]
      /\ \A i \in 1 .. size : Append(Pending, a)[i] = Pending[i]
      /\ Append(Pending, a)[size + 1] = a
  <2>1. Append(Pending, a) \in Seq(TaskAction) /\ Len(Append(Pending, a)) = size + 1
    BY <1>7, AppendProperties
  <2>2. Append(Pending, a) \in [1 .. size + 1 -> TaskAction]
    BY <2>1, LenProperties
  <2>3. QED BY <1>7, <2>2, AppendProperties
<1>9. \A i \in 1 .. size + 1 : Append(Pending, a)[i] = IF i = size + 1 THEN a ELSE Pending[i]
  BY <1>4, <1>8
<1>10. Append(Pending, a) = [i \in 1 .. size + 1 |-> IF i = size + 1 THEN a ELSE Pending[i]]
  BY <1>8, <1>9
<1>11. QED BY <1>6, <1>10

\* The oldest request is taken.
LEMMA StartNextTakes ==
  ASSUME IInv, StartNext
  PROVE  Pending # <<>> /\ Pending' = Tail(Pending) /\ current' = Head(Pending)
<1>1. /\ size \in 1 .. QueueDepth /\ size' = size - 1 /\ head' = Wrap(head + 1)
      /\ head \in Slots /\ data' = data /\ current' = data[head]
  BY QueueDepthAssumption DEF StartNext, IInv, TypeOK
<1>2. /\ Pending \in Seq(TaskAction) /\ Len(Pending) = size
      /\ \A i \in 1 .. size : Pending[i] = data[Wrap(head + i - 1)]
  BY PendingIsSequence
<1>3. size \in Nat \ {0} /\ head \in Nat /\ size <= QueueDepth
  BY <1>1, QueueDepthAssumption DEF Slots
<1>4. Wrap(head + 1 - 1) = head
  <2>1. head + 1 - 1 = head
    BY <1>3
  <2>2. QED BY <1>1, <2>1, WrapInside
<1>5. current' = Head(Pending)
  BY <1>1, <1>2, <1>3, <1>4
<1>6. \A i \in 1 .. size - 1 : Live(i)' = Pending[i + 1]
  <2> TAKE i \in 1 .. size - 1
  <2>1. i - 1 \in 0 .. QueueDepth /\ i - 1 < QueueDepth /\ i + 1 \in 1 .. size
    BY <1>3, QueueDepthAssumption
  <2>2. Wrap(Wrap(head + 1) + (i - 1)) = Wrap(head + ((i - 1) + 1))
    BY <1>1, <2>1, WrapShift
  <2>3. Wrap(head + 1) \in Nat
    BY <1>3, WrapIsSlot, QueueDepthAssumption DEF Slots
  <2>4. /\ Wrap(head + 1) + i - 1 = Wrap(head + 1) + (i - 1)
        /\ head + ((i - 1) + 1) = head + (i + 1) - 1
    BY <1>3, <2>3
  <2>5. QED BY <1>1, <1>2, <2>1, <2>2, <2>4 DEF Live
<1>7. Pending' = [i \in 1 .. size - 1 |-> Pending[i + 1]]
  BY <1>1, <1>6 DEF Pending
<1>8. Pending # <<>>
  BY <1>2, <1>3
<1>9. Pending' = Tail(Pending)
  <2>1. /\ Tail(Pending) \in Seq(TaskAction) /\ Len(Tail(Pending)) = size - 1
        /\ \A i \in 1 .. Len(Tail(Pending)) : Tail(Pending)[i] = Pending[i + 1]
    BY <1>2, <1>8, HeadTailProperties
  <2>2. Tail(Pending) \in [1 .. size - 1 -> TaskAction]
    BY <2>1, LenProperties
  <2>3. Tail(Pending) = [i \in 1 .. size - 1 |-> Pending[i + 1]]
    BY <2>1, <2>2
  <2>4. QED BY <1>7, <2>3
<1>10. QED BY <1>5, <1>8, <1>9

-----------------------------------------------------------------------------
(* The refinement *)

\* The initial ring is the empty queue.
LEMMA InitMaps == Init => Abstract!Init
<1> SUFFICES ASSUME Init PROVE Abstract!Init
  OBVIOUS
<1>1. size = 0 /\ ~busy /\ command = Stop
  BY DEF Init
<1>2. [i \in 1 .. size |-> Live(i)] = <<>>
  BY <1>1
<1>3. QED BY <1>1, <1>2 DEF Abstract!Init

\* Every step of the task layer is one of the queue or leaves what it shows.
LEMMA NextMaps ==
  ASSUME IInv, CommandInv, [Next]_vars
  PROVE  [Abstract!Next]_(Abstract!promised)
<1>1. Abstract!promised = <<Pending, Running, command # Stop>>
  BY DEF Abstract!promised, Pending, Running
<1>2. Stop' = Stop
  BY DEF Stop, Command
<1>3. ASSUME NEW a \in TaskAction, Enqueue(a) PROVE Abstract!Request(a)
  <2>1. Pending' = Append(Pending, a)
    BY <1>3, EnqueueAppends
  <2>2. size < QueueDepth /\ ~IsQueued(a) /\ busy' = busy /\ current' = current /\ command' = command
    BY <1>3 DEF Enqueue, EnqueueResult, statusVars
  <2>3. Len(Pending) < QueueDepth
    BY <2>2, PendingIsSequence
  <2>4. ~Abstract!Waiting(a)
    BY <2>2, WaitingInRing DEF IsQueued, Abstract!Waiting, Pending
  <2>5. a # Running
    BY <2>2, NoneAssumption DEF IsQueued, Running
  <2>6. QED BY <1>2, <2>1, <2>2, <2>3, <2>4, <2>5 DEF Abstract!Request, Pending, Running
<1>4. ASSUME CancelCurrent PROVE Abstract!CancelAll
  <2>1. size' = 0 /\ ~busy' /\ command' = Stop
    BY <1>4 DEF CancelCurrent
  <2>2. [i \in 1 .. size |-> Live(i)]' = <<>>
    BY <2>1
  <2>3. QED BY <1>2, <2>1, <2>2 DEF Abstract!CancelAll
<1>5. ASSUME StartNext PROVE Abstract!Begin
  <2>1. Pending # <<>> /\ Pending' = Tail(Pending) /\ current' = Head(Pending)
    BY <1>5, StartNextTakes
  <2>2. ~busy /\ busy'
    BY <1>5 DEF StartNext
  <2>3. QED BY <2>1, <2>2 DEF Abstract!Begin, Pending
<1>6. ASSUME RestIdle \/ Clock \/ Sense \/ UNCHANGED vars PROVE UNCHANGED Abstract!promised
  <2>1. UNCHANGED <<data, head, size, busy, current, command>>
    BY <1>6 DEF RestIdle, Clock, Sense, vars, queueVars, statusVars, CommandInv,
                StandsStillUnlessBusy
  <2>2. Pending' = Pending
    BY <2>1 DEF Pending, Live, Wrap
  <2>3. QED BY <1>1, <1>2, <2>1, <2>2 DEF Abstract!promised, Pending
<1>7. ASSUME RunPhase PROVE Abstract!Work \/ Abstract!Complete
  <2>1. busy /\ UNCHANGED <<data, head, size>> /\ \E done, c : Conclude(done, c)
    BY <1>7 DEF RunPhase, RunTimed, RunSettle, RunTurn, RunPassing, RunEndless, queueVars
  <2>2. Pending' = Pending
    BY <2>1 DEF Pending, Live, Wrap
  <2>3. \/ busy' = busy /\ current' = current
        \/ ~busy' /\ command' = Stop
    BY <2>1 DEF Conclude, StayInPhase, FinishCurrent, EnterPhase, statusVars
  <2>4. current \in TaskAction
    BY <2>1 DEF IInv, RunInv
  <2>5. CASE busy' = busy /\ current' = current
    BY <2>1, <2>2, <2>4, <2>5, NoneAssumption DEF Abstract!Work, Pending
  <2>6. CASE ~busy' /\ command' = Stop
    BY <1>2, <2>1, <2>2, <2>4, <2>6, NoneAssumption DEF Abstract!Complete, Pending
  <2>7. QED BY <2>3, <2>5, <2>6
<1>8. QED BY <1>3, <1>4, <1>5, <1>6, <1>7 DEF Next, Tick10ms, Abstract!Next

\* The task layer is a bounded queue of distinct actions with one runner that moves the
\* car only while it runs one.
THEOREM ImplementsQueue == Spec => ImplementsActionQueue
<1>1. Init => IInv /\ CommandInv
  BY InitInv DEF Init, CommandInv, StandsStillUnlessBusy, CommandMatchesPhase
<1>2. IInv /\ CommandInv /\ [Next]_vars => (IInv /\ CommandInv)'
  BY NextInv, NextCommand
<1>3. IInv /\ CommandInv /\ [Next]_vars => [Abstract!Next]_(Abstract!promised)
  BY NextMaps
<1>4. QED BY <1>1, <1>2, <1>3, InitMaps, PTL DEF Spec, ImplementsActionQueue, Abstract!Spec

=============================================================================
