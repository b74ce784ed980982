---------------------------- MODULE DebugLinkProofs ----------------------------
(***************************************************************************)
(* The ring of the serial port, filled and drained by two nodes of the     *)
(* scheduler, implements the fifo of lines, for every size of the ring,    *)
(* every transmitter, every table of nodes and all lines; and the          *)
(* scheduler keeps every node on its grid and calls it when it is owed a   *)
(* call, for every table and every width of the counter.                   *)
(***************************************************************************)
EXTENDS DebugLink, SequenceTheorems, TLAPS

-----------------------------------------------------------------------------
(* The arithmetic of the ring *)

\* What wrapping does to the indices and differences that occur.
LEMMA WrapWithin ==
  \A i \in -BufferSize .. 2 * BufferSize - 1 :
    Wrap(i) = IF i < 0 THEN i + BufferSize ELSE IF i < BufferSize THEN i ELSE i - BufferSize
<1> SUFFICES ASSUME NEW i \in -BufferSize .. 2 * BufferSize - 1
             PROVE  Wrap(i) = IF i < 0 THEN i + BufferSize
                              ELSE IF i < BufferSize THEN i ELSE i - BufferSize
  OBVIOUS
<1>1. CASE i < 0
  BY <1>1, PortAssumption DEF Wrap
<1>2. CASE i >= 0 /\ i < BufferSize
  BY <1>2, PortAssumption DEF Wrap
<1>3. CASE i >= BufferSize
  BY <1>3, PortAssumption DEF Wrap
<1>4. QED BY <1>1, <1>2, <1>3, PortAssumption

\* The fields of g_serial are indices of one ring of bytes.
PortInv ==
  /\ tx_buffer \in [Slots -> Byte] /\ tx_head \in Slots /\ tx_tail \in Slots
  /\ uart \in 0 .. UartSlots

\* How many bytes wait, without the wrapping.
LEMMA UsedIs ==
  ASSUME PortInv
  PROVE  /\ Used \in Slots
         /\ Used = IF tx_head < tx_tail THEN tx_head - tx_tail + BufferSize
                   ELSE tx_head - tx_tail
  BY WrapWithin, PortAssumption DEF PortInv, Used, Slots

\* The bytes that wait are a sequence.
LEMMA QueuedIsSequence ==
  ASSUME PortInv
  PROVE  /\ Queued \in Seq(Byte) /\ Len(Queued) = Used
         /\ \A k \in 1 .. Used : Queued[k] = tx_buffer[Wrap(tx_tail + k - 1)]
<1>1. Used \in Nat /\ Used < BufferSize
  BY UsedIs, PortAssumption DEF Slots
<1>2. \A k \in 1 .. Used : Wrap(tx_tail + k - 1) \in Slots
  BY <1>1, WrapWithin, PortAssumption DEF PortInv, Slots
<1>3. Queued \in [1 .. Used -> Byte]
  BY <1>2 DEF Queued, PortInv
<1>4. Queued \in Seq(Byte) /\ Len(Queued) = Used
  BY <1>1, <1>3
<1>5. QED BY <1>4 DEF Queued

\* The slot of the k-th byte from the tail on lies k - Used - 1 places from the head.
LEMMA FromHead ==
  ASSUME PortInv, NEW k \in 1 .. BufferSize
  PROVE  /\ Wrap(tx_tail + k - 1) \in Slots
         /\ Wrap(Wrap(tx_tail + k - 1) - tx_head) =
              IF k > Used THEN k - Used - 1 ELSE k - Used - 1 + BufferSize
<1> DEFINE i == Wrap(tx_tail + k - 1)
<1>1. i = IF tx_tail + k - 1 < BufferSize THEN tx_tail + k - 1 ELSE tx_tail + k - 1 - BufferSize
  BY WrapWithin, PortAssumption DEF PortInv, Slots
<1>2. i \in Slots
  BY <1>1, PortAssumption DEF PortInv, Slots
<1>3. tx_head \in Slots /\ tx_tail \in Slots
  BY DEF PortInv
<1> HIDE DEF i
<1>4. Wrap(i - tx_head) = IF i < tx_head THEN i - tx_head + BufferSize ELSE i - tx_head
  BY <1>2, <1>3, WrapWithin, PortAssumption DEF Slots
<1>5. Wrap(i - tx_head) = IF k > Used THEN k - Used - 1 ELSE k - Used - 1 + BufferSize
  BY <1>1, <1>2, <1>3, <1>4, UsedIs, PortAssumption DEF Slots
<1>6. QED BY <1>2, <1>5 DEF i

-----------------------------------------------------------------------------
(* The two operations *)

\* What is printed goes behind what waits, as much of it as there is room for.
LEMMA PrintAppends ==
  ASSUME PortInv, NEW line \in Seq(Byte), Printf(line)
  PROVE  /\ PortInv'
         /\ Queued' = Queued \o SubSeq(line, 1, Least(BufferSize - 1 - Len(Queued), Len(line)))
<1> DEFINE n == Least(Room, Len(line))
<1>1. /\ Used \in Nat /\ Used < BufferSize /\ Len(line) \in Nat
      /\ Len(Queued) = Used /\ Queued \in Seq(Byte)
  BY UsedIs, QueuedIsSequence, PortAssumption DEF Slots
<1>2. n \in Nat /\ n <= Len(line) /\ Used + n < BufferSize
  BY <1>1, PortAssumption DEF Least, Room
<1>3. /\ tx_buffer' = [i \in Slots |-> IF Wrap(i - tx_head) < n
                                       THEN line[Wrap(i - tx_head) + 1] ELSE tx_buffer[i]]
      /\ tx_head' = Wrap(tx_head + n) /\ tx_tail' = tx_tail /\ uart' = uart
  BY DEF Printf
<1>4. n = Least(BufferSize - 1 - Len(Queued), Len(line))
  BY <1>1 DEF Room
<1> HIDE DEF n
<1>5. tx_head' = IF tx_head + n < BufferSize THEN tx_head + n ELSE tx_head + n - BufferSize
  BY <1>1, <1>2, <1>3, WrapWithin, PortAssumption DEF PortInv, Slots
<1>6. tx_head' \in Slots /\ tx_tail' \in Slots
  BY <1>1, <1>2, <1>3, <1>5, PortAssumption DEF PortInv, Slots
<1>7. tx_buffer' \in [Slots -> Byte]
  <2>1. ASSUME NEW i \in Slots, Wrap(i - tx_head) < n
        PROVE  line[Wrap(i - tx_head) + 1] \in Byte
    <3>1. Wrap(i - tx_head) \in Slots
      BY WrapWithin, PortAssumption DEF PortInv, Slots
    <3>2. Wrap(i - tx_head) + 1 \in 1 .. Len(line)
      BY <1>1, <1>2, <2>1, <3>1, PortAssumption DEF Slots
    <3>3. QED BY <3>2, ElementOfSeq
  <2>2. QED BY <1>3, <2>1 DEF PortInv
<1>8. PortInv'
  BY <1>3, <1>6, <1>7 DEF PortInv
<1>9. Used' = Used + n
  <2>1. Used' = IF tx_head' < tx_tail' THEN tx_head' - tx_tail' + BufferSize
                ELSE tx_head' - tx_tail'
    BY <1>3, <1>6, WrapWithin, PortAssumption DEF Used, Slots
  <2>2. /\ tx_head \in Int /\ tx_tail \in Int /\ 0 <= tx_head /\ tx_head < BufferSize
        /\ 0 <= tx_tail /\ tx_tail < BufferSize /\ tx_tail' = tx_tail
    BY <1>3, PortAssumption DEF PortInv, Slots
  <2>3. Used = IF tx_head < tx_tail THEN tx_head - tx_tail + BufferSize ELSE tx_head - tx_tail
    BY UsedIs
  <2> HIDE DEF Used
  <2>4. CASE tx_head < tx_tail
    BY <1>2, <1>5, <2>1, <2>2, <2>3, <2>4, PortAssumption
  <2>5. CASE ~(tx_head < tx_tail)
    BY <1>2, <1>5, <2>1, <2>2, <2>3, <2>5, PortAssumption
  <2>6. QED BY <2>4, <2>5
<1>10. \A k \in 1 .. Used + n :
         tx_buffer'[Wrap(tx_tail + k - 1)] = IF k <= Used THEN Queued[k] ELSE line[k - Used]
  <2> TAKE k \in 1 .. Used + n
  <2>1. k \in 1 .. BufferSize
    BY <1>1, <1>2, PortAssumption
  <2>2. /\ Wrap(tx_tail + k - 1) \in Slots
        /\ Wrap(Wrap(tx_tail + k - 1) - tx_head) =
             IF k > Used THEN k - Used - 1 ELSE k - Used - 1 + BufferSize
    BY <2>1, FromHead
  <2>3. CASE k <= Used
    <3>1. ~(k - Used - 1 + BufferSize < n) /\ ~(k > Used) /\ k \in 1 .. Used
      BY <1>1, <1>2, <2>3, PortAssumption
    <3>2. QED BY <1>3, <2>2, <2>3, <3>1, QueuedIsSequence
  <2>4. CASE k > Used
    <3>1. k - Used - 1 < n /\ k - Used - 1 + 1 = k - Used /\ ~(k <= Used)
      BY <1>1, <1>2, <2>4
    <3>2. QED BY <1>3, <2>2, <2>4, <3>1
  <2>5. QED BY <1>1, <2>3, <2>4
<1>11. Queued' = [k \in 1 .. Used + n |-> IF k <= Used THEN Queued[k] ELSE line[k - Used]]
  <2>1. Queued' = [k \in 1 .. Used' |-> tx_buffer'[Wrap(tx_tail' + k - 1)]]
    BY DEF Queued, Wrap
  <2>2. QED BY <1>3, <1>9, <1>10, <2>1
<1> DEFINE part == SubSeq(line, 1, n)
<1>12. /\ part \in Seq(Byte) /\ Len(part) = n
       /\ \A k \in 1 .. n : part[k] = line[k]
  <2>1. \A k \in 1 .. n : line[k] \in Byte
    BY <1>1, <1>2
  <2>2. /\ part \in Seq(Byte) /\ Len(part) = IF 1 <= n THEN n - 1 + 1 ELSE 0
        /\ \A k \in 1 .. n - 1 + 1 : part[k] = line[1 + k - 1]
    BY <1>2, <2>1, SubSeqProperties
  <2>3. QED BY <1>2, <2>2
<1> HIDE DEF part
<1>13. Queued \o part = [k \in 1 .. Used + n |-> IF k <= Used THEN Queued[k] ELSE line[k - Used]]
  <2>1. /\ Queued \o part \in Seq(Byte) /\ Len(Queued \o part) = Used + n
        /\ \A k \in 1 .. Used + n :
             (Queued \o part)[k] = IF k <= Used THEN Queued[k] ELSE part[k - Used]
    BY <1>1, <1>12, ConcatProperties
  <2>2. Queued \o part \in [1 .. Used + n -> Byte]
    BY <2>1, LenProperties
  <2>3. \A k \in 1 .. Used + n :
          (Queued \o part)[k] = IF k <= Used THEN Queued[k] ELSE line[k - Used]
    <3> TAKE k \in 1 .. Used + n
    <3>1. ~(k <= Used) => k - Used \in 1 .. n
      BY <1>1, <1>2
    <3>2. QED BY <1>12, <2>1, <3>1
  <2>4. QED BY <2>2, <2>3
<1>14. QED BY <1>4, <1>8, <1>11, <1>13 DEF part

\* A tick hands over the oldest bytes and leaves the rest.
LEMMA TickTakes ==
  ASSUME PortInv, SerialTick
  PROVE  /\ PortInv'
         /\ \E n \in 0 .. Len(Queued) :
              /\ sent' = SubSeq(Queued, 1, n)
              /\ Queued' = SubSeq(Queued, n + 1, Len(Queued))
<1>1. PICK freed \in 0 .. 1 :
        LET n == Least(Used, UartSlots - uart + freed)
        IN  /\ sent' = [k \in 1 .. n |-> tx_buffer[Wrap(tx_tail + k - 1)]]
            /\ tx_tail' = Wrap(tx_tail + n)
            /\ uart' = Least(uart + n, UartSlots)
            /\ tx_buffer' = tx_buffer /\ tx_head' = tx_head
  BY DEF SerialTick
<1> DEFINE n == Least(Used, UartSlots - uart + freed)
<1>2. /\ Used \in Nat /\ Used < BufferSize /\ Len(Queued) = Used /\ Queued \in Seq(Byte)
      /\ \A k \in 1 .. Used : Queued[k] = tx_buffer[Wrap(tx_tail + k - 1)]
      /\ \A k \in 1 .. Used : Queued[k] \in Byte
  <2>1. /\ Used \in Nat /\ Used < BufferSize /\ Len(Queued) = Used /\ Queued \in Seq(Byte)
        /\ \A k \in 1 .. Used : Queued[k] = tx_buffer[Wrap(tx_tail + k - 1)]
    BY UsedIs, QueuedIsSequence, PortAssumption DEF Slots
  <2>2. \A k \in 1 .. Len(Queued) : Queued[k] \in Byte
    BY <2>1, ElementOfSeq
  <2>3. QED BY <2>1, <2>2
<1>3. /\ n \in 0 .. Used /\ tx_tail' = Wrap(tx_tail + n)
      /\ sent' = [k \in 1 .. n |-> tx_buffer[Wrap(tx_tail + k - 1)]]
      /\ tx_buffer' = tx_buffer /\ tx_head' = tx_head /\ uart' \in 0 .. UartSlots
  BY <1>1, <1>2, PortAssumption DEF PortInv, Least
<1> HIDE DEF n
<1>4. /\ tx_head \in Int /\ tx_tail \in Int /\ 0 <= tx_head /\ tx_head < BufferSize
      /\ 0 <= tx_tail /\ tx_tail < BufferSize /\ n \in Nat /\ n < BufferSize
  BY <1>2, <1>3, PortAssumption DEF PortInv, Slots
<1>5. tx_tail' = IF tx_tail + n < BufferSize THEN tx_tail + n ELSE tx_tail + n - BufferSize
  BY <1>3, <1>4, WrapWithin, PortAssumption
<1>6. tx_tail' \in Slots
  BY <1>4, <1>5, PortAssumption DEF Slots
<1>7. PortInv'
  BY <1>3, <1>6 DEF PortInv
<1>8. Used' = Used - n
  <2>1. Used' = IF tx_head < tx_tail' THEN tx_head - tx_tail' + BufferSize
                ELSE tx_head - tx_tail'
    BY <1>3, <1>4, <1>6, WrapWithin, PortAssumption DEF Used, Slots
  <2>2. Used = IF tx_head < tx_tail THEN tx_head - tx_tail + BufferSize ELSE tx_head - tx_tail
    BY UsedIs
  <2> HIDE DEF Used
  <2>3. CASE tx_head < tx_tail
    BY <1>3, <1>4, <1>5, <2>1, <2>2, <2>3, PortAssumption
  <2>4. CASE ~(tx_head < tx_tail)
    BY <1>3, <1>4, <1>5, <2>1, <2>2, <2>4, PortAssumption
  <2>5. QED BY <2>3, <2>4
<1>9. \A k \in 1 .. Used - n : Wrap(tx_tail' + k - 1) = Wrap(tx_tail + (n + k) - 1)
  <2> TAKE k \in 1 .. Used - n
  <2>1. Wrap(tx_tail' + k - 1) = IF tx_tail' + k - 1 < BufferSize THEN tx_tail' + k - 1
                                 ELSE tx_tail' + k - 1 - BufferSize
    BY <1>2, <1>4, <1>5, WrapWithin, PortAssumption
  <2>2. Wrap(tx_tail + (n + k) - 1) =
          IF tx_tail + (n + k) - 1 < BufferSize THEN tx_tail + (n + k) - 1
          ELSE tx_tail + (n + k) - 1 - BufferSize
    BY <1>2, <1>4, WrapWithin, PortAssumption
  <2>3. QED BY <1>2, <1>4, <1>5, <2>1, <2>2, PortAssumption
<1>10. Queued' = [k \in 1 .. Used - n |-> Queued[n + k]]
  <2>1. Queued' = [k \in 1 .. Used' |-> tx_buffer'[Wrap(tx_tail' + k - 1)]]
    BY DEF Queued, Wrap
  <2>2. \A k \in 1 .. Used - n : tx_buffer[Wrap(tx_tail' + k - 1)] = Queued[n + k]
    <3> TAKE k \in 1 .. Used - n
    <3>1. n + k \in 1 .. Used
      BY <1>2, <1>4
    <3>2. QED BY <1>2, <1>9, <3>1
  <2>3. QED BY <1>3, <1>8, <2>1, <2>2
<1>11. sent' = SubSeq(Queued, 1, n)
  <2>1. \A k \in 1 .. n : Queued[k] \in Byte
    BY <1>2, <1>3
  <2>2. /\ SubSeq(Queued, 1, n) \in Seq(Byte)
        /\ Len(SubSeq(Queued, 1, n)) = IF 1 <= n THEN n - 1 + 1 ELSE 0
        /\ \A k \in 1 .. n - 1 + 1 : SubSeq(Queued, 1, n)[k] = Queued[1 + k - 1]
    BY <1>4, <2>1, SubSeqProperties
  <2>3. /\ SubSeq(Queued, 1, n) \in [1 .. n -> Byte]
        /\ \A k \in 1 .. n : SubSeq(Queued, 1, n)[k] = Queued[k]
    <3>1. Len(SubSeq(Queued, 1, n)) = n /\ n - 1 + 1 = n
      BY <1>4, <2>2
    <3>2. \A k \in 1 .. n : SubSeq(Queued, 1, n)[k] = Queued[k]
      <4> TAKE k \in 1 .. n
      <4>1. 1 + k - 1 = k
        BY <1>4
      <4>2. QED BY <2>2, <3>1, <4>1
    <3>3. SubSeq(Queued, 1, n) \in [1 .. n -> Byte]
      BY <2>2, <3>1, LenProperties
    <3>4. QED BY <3>2, <3>3
  <2>4. \A k \in 1 .. n : sent'[k] = Queued[k]
    BY <1>2, <1>3
  <2>5. QED BY <1>3, <2>3, <2>4
<1>12. Queued' = SubSeq(Queued, n + 1, Len(Queued))
  <2> DEFINE rest == SubSeq(Queued, n + 1, Used)
  <2>1. \A k \in n + 1 .. Used : Queued[k] \in Byte
    BY <1>2, <1>4
  <2>2. /\ rest \in Seq(Byte)
        /\ Len(rest) = IF n + 1 <= Used THEN Used - (n + 1) + 1 ELSE 0
        /\ \A k \in 1 .. Used - (n + 1) + 1 : rest[k] = Queued[n + 1 + k - 1]
    BY <1>2, <1>4, <2>1, SubSeqProperties
  <2> HIDE DEF rest
  <2>3. Len(rest) = Used - n /\ Used - (n + 1) + 1 = Used - n
    BY <1>2, <1>3, <1>4, <2>2
  <2>4. rest \in [1 .. Used - n -> Byte]
    BY <2>2, <2>3, LenProperties
  <2>5. \A k \in 1 .. Used - n : rest[k] = Queued[n + k]
    <3> TAKE k \in 1 .. Used - n
    <3>1. n + 1 + k - 1 = n + k
      BY <1>4
    <3>2. QED BY <2>2, <2>3, <3>1
  <2>6. rest = Queued'
    BY <1>10, <2>4, <2>5
  <2>7. QED BY <1>2, <2>6 DEF rest
<1>13. QED BY <1>2, <1>3, <1>7, <1>11, <1>12

-----------------------------------------------------------------------------
(* The refinement *)

\* The initial states are those of an empty fifo.
LEMMA LinkInitMaps == LinkInit => PortInv /\ Link!Init
<1> SUFFICES ASSUME LinkInit PROVE PortInv /\ Link!Init
  OBVIOUS
<1>1. SyncLine \in Seq(Byte) /\ SyncLine # <<>>
  BY LinkAssumption
<1>2. SyncLine[1] \in Byte
  BY <1>1
<1>3. PortInv
  BY <1>2, PortAssumption DEF LinkInit, PortInit, PortInv, Slots
<1>4. Used = 0
  BY <1>3, UsedIs DEF LinkInit, PortInit
<1>5. Queued = <<>>
  BY <1>4 DEF Queued
<1>6. QED BY <1>3, <1>5 DEF Link!Init, LinkInit, PortInit

\* A tick that prints nothing leaves the fifo as it was.
LEMMA QuietMaps ==
  ASSUME PortInv, UNCHANGED <<tx_buffer, tx_head, tx_tail>>
  PROVE  Queued' = Queued
  BY DEF Queued, Used, Wrap

\* What is printed is one of the lines.
LEMMA PrintMaps ==
  ASSUME PortInv, NEW line \in Reports \union {SyncLine}, Printf(line)
  PROVE  PortInv' /\ Link!Next
<1>1. line \in Seq(Byte)
  BY LinkAssumption
<1>2. Queued' = Queued \o SubSeq(line, 1, Least(BufferSize - 1 - Len(Queued), Len(line)))
      /\ PortInv' /\ sent' = <<>>
  BY <1>1, PrintAppends DEF Printf
<1>3. Link!Put(line)
  BY <1>2 DEF Link!Put, Link!Least, Least
<1>4. QED BY <1>2, <1>3 DEF Link!Next

\* A tick of the HAL node takes from the fifo, or pauses.
LEMMA SerialTickMaps ==
  ASSUME PortInv, SerialTick
  PROVE  PortInv' /\ Link!Next
<1>1. PICK n \in 0 .. Len(Queued) : /\ sent' = SubSeq(Queued, 1, n)
                                    /\ Queued' = SubSeq(Queued, n + 1, Len(Queued))
  BY TickTakes
<1>2. PortInv' /\ Queued \in Seq(Byte) /\ Len(Queued) \in Nat
  BY TickTakes, QueuedIsSequence
<1>3. CASE n = 0
  <2>1. sent' = <<>> /\ Queued' = Queued
    BY <1>1, <1>2, <1>3, SubSeqEmpty, SubSeqFull
  <2>2. QED BY <1>2, <2>1 DEF Link!Next, Link!Pause
<1>4. CASE n # 0
  <2>1. n \in 1 .. Len(Queued)
    BY <1>2, <1>4
  <2>2. Link!Get(n)
    BY <1>1 DEF Link!Get
  <2>3. QED BY <1>2, <2>1, <2>2 DEF Link!Next
<1>5. QED BY <1>3, <1>4

\* Every step of the link is one of the fifo, and keeps the ring sound.
LEMMA LinkNextMaps ==
  ASSUME PortInv, [LinkNext]_linkVars
  PROVE  PortInv' /\ [Link!Next]_<<Queued, sent>>
<1>1. CASE Quiet
  <2>1. Queued' = Queued /\ sent' = <<>> /\ PortInv'
    BY <1>1, QuietMaps DEF Quiet, PortInv
  <2>2. QED BY <2>1 DEF Link!Next, Link!Pause
<1>2. CASE DebugTick
  <2>1. CASE Quiet
    BY <1>1, <2>1
  <2>2. CASE \E line \in Reports \union {SyncLine} : Printf(line)
    BY <2>2, PrintMaps
  <2>3. QED BY <1>2, <2>1, <2>2 DEF DebugTick
<1>3. CASE LinkVisit
  <2>1. HalTick \/ DebugTick \/ Idle
    BY <1>3 DEF LinkVisit
  <2>2. QED BY <1>1, <1>2, <2>1, SerialTickMaps DEF HalTick, Idle
<1>4. CASE Transmit
  <2>1. Queued' = Queued /\ sent' = <<>>
    BY <1>4, QuietMaps DEF Transmit, ShiftOut
  <2>2. PortInv'
    BY <1>4, PortAssumption DEF Transmit, ShiftOut, PortInv
  <2>3. QED BY <2>1, <2>2 DEF Link!Next, Link!Pause
<1>5. CASE UNCHANGED linkVars
  BY <1>5, QuietMaps DEF linkVars, portVars, PortInv
<1>6. QED BY <1>1, <1>3, <1>4, <1>5 DEF LinkNext, LinkRun, LinkTick, Idle

\* Whatever is printed leaves in order and unmixed (Serial_PushTxByte, Serial_Tick1ms), for
\* every size of the ring and all lines.
THEOREM ImplementsFifo == LinkSpec => ImplementsLineFifo
<1>1. QED BY LinkInitMaps, LinkNextMaps, PTL DEF LinkSpec, ImplementsLineFifo, Link!Spec

-----------------------------------------------------------------------------
(* The scheduler: the arithmetic of the counter *)

\* The numbers of the table and the counter.
LEMMA SchedulerNumbers ==
  /\ Len(Table) \in Nat \ {0}
  /\ \A i \in Nodes : /\ Table[i].period \in Nat \ {0} /\ Table[i].delay \in Nat
                      /\ 2 * Table[i].period <= Modulus /\ 2 * Table[i].delay <= Modulus
  /\ Modulus \in Nat \ {0} /\ MaxLag \in Nat /\ Modulus \div 2 \in Nat \ {0}
  /\ Modulus = 2 * (Modulus \div 2) /\ MaxLag < Modulus \div 2
<1>1. Len(Table) \in Nat \ {0}
  BY TableAssumption
<1>2. \A i \in Nodes : Table[i] \in [period : Nat \ {0}, delay : Nat]
  BY TableAssumption, ElementOfSeq DEF Nodes
<1>3. QED BY <1>1, <1>2, ModulusAssumption

\* A remainder of a number that is not far off.
LEMMA Remainder ==
  ASSUME NEW m \in Nat \ {0}, NEW x \in Int, -m <= x, x < 2 * m
  PROVE  x % m = IF x < 0 THEN x + m ELSE IF x < m THEN x ELSE x - m
  OBVIOUS

\* Division by a period.
LEMMA Division ==
  ASSUME NEW d \in Nat, NEW p \in Nat \ {0}
  PROVE  /\ d \div p \in Nat /\ d % p \in 0 .. p - 1
         /\ d = p * (d \div p) + (d % p)
  OBVIOUS

\* Multiples of a period.
LEMMA Multiples ==
  ASSUME NEW p \in Nat \ {0}, NEW k \in Int, NEW j \in Int
  PROVE  /\ (k * p) % p = 0
         /\ k * p + p = (k + 1) * p /\ k * p - p = (k - 1) * p /\ k * p - j * p = (k - j) * p
         /\ k >= 0 => k * p >= 0
         /\ k <= -1 => k * p <= -p
         /\ k <= -2 => k * p <= -2 * p
  OBVIOUS

Times == 0 .. Modulus - 1

\* The signed difference, without remainders.
LEMMA DiffRange ==
  ASSUME NEW a \in Times, NEW b \in Times
  PROVE  /\ Diff(a, b) \in -(Modulus \div 2) .. (Modulus \div 2) - 1
         /\ a - b \in {Diff(a, b) - Modulus, Diff(a, b), Diff(a, b) + Modulus}
<1>1. (a - b) % Modulus = IF a - b < 0 THEN a - b + Modulus ELSE a - b
  <2> DEFINE x == a - b
  <2>1. x \in Int /\ Modulus \in Nat \ {0} /\ -Modulus <= x /\ x < Modulus /\ x < 2 * Modulus
    BY SchedulerNumbers DEF Times
  <2> HIDE DEF x
  <2>2. x % Modulus = IF x < 0 THEN x + Modulus ELSE IF x < Modulus THEN x ELSE x - Modulus
    BY <2>1, Remainder
  <2>3. QED BY <2>1, <2>2 DEF x
<1>2. QED BY <1>1, SchedulerNumbers DEF Diff, Times

\* Two numbers in the range of a difference that are a multiple of Modulus apart are one.
LEMMA DiffIs ==
  ASSUME NEW a \in Times, NEW b \in Times, NEW d \in Int,
         -(Modulus \div 2) <= d, d < Modulus \div 2,
         a - b \in {d - Modulus, d, d + Modulus, d - 2 * Modulus, d + 2 * Modulus}
  PROVE  Diff(a, b) = d
<1> DEFINE D == Diff(a, b)
           h == Modulus \div 2
<1>1. /\ D \in -h .. h - 1 /\ h \in Nat /\ Modulus = 2 * h
      /\ a - b \in {D - Modulus, D, D + Modulus} /\ a - b \in Int
  BY DiffRange, SchedulerNumbers DEF Times
<1>2. -h <= d /\ d < h
  OBVIOUS
<1> HIDE DEF D, h
<1>3. D = d
  BY <1>1, <1>2
<1>4. QED BY <1>3 DEF D

-----------------------------------------------------------------------------
(* The scheduler: the invariant *)

\* How late a node was when the pass was latched, negative before its time.
Late(i) == Diff(latched, next[i])

\* A time t after the next time of a node and a time a after the last point of its grid
\* are whole periods apart; the next time is at most the first point to come.
OnGrid(t, a, p) ==
  /\ a \in Int /\ a < p
  /\ \E k \in Int : t = a + k * p /\ (a >= 0 => k >= -1)
  /\ a < 0 => t = a

\* A node is owed a call, or will be at the next latch, if and only if its time has come;
\* in a pass, points up to the latch are owed and points after it are fresh.
NodeInv(i) ==
  /\ Late(i) <= MaxLag
  /\ node = 0 \/ i < node => Late(i) <= 0
  /\ OnGrid(Late(i) + lag, age[i], Table[i].period)
  /\ i \in owed \union fresh <=> Late(i) + lag >= 0
  /\ node > 0 => /\ i \in owed <=> Late(i) >= 0
                 /\ i \in fresh <=> 0 <= age[i] /\ age[i] < lag

SchedulerInv ==
  /\ now \in Times /\ latched \in Times /\ next \in [Nodes -> Times]
  /\ lag \in 0 .. MaxLag /\ now - latched \in {lag, lag - Modulus}
  /\ node \in 0 .. Len(Table)
  /\ age \in [Nodes -> Int]
  /\ \A i \in Nodes : NodeInv(i)

\* A tick takes a node one step along its grid.
LEMMA GridTick ==
  ASSUME NEW p \in Nat \ {0}, NEW t \in Int, NEW a \in Int, NEW b \in Int,
         OnGrid(t, a, p), b = IF a + 1 = p THEN 0 ELSE a + 1
  PROVE  OnGrid(t + 1, b, p) /\ (t + 1 >= 0 <=> t >= 0 \/ b = 0)
<1>1. PICK k \in Int : t = a + k * p /\ (a >= 0 => k >= -1)
  BY DEF OnGrid
<1>2. /\ a < p /\ (a < 0 => t = a)
      /\ k * p + p = (k + 1) * p /\ 0 * p = 0 /\ k + 1 \in Int
      /\ k >= 0 => k * p >= 0
      /\ k <= -1 => k * p <= -p
      /\ k = -1 => k * p = -p
  BY Multiples DEF OnGrid
<1>3. b \in Int /\ b < p
  BY <1>2
<1>4. CASE a + 1 = p
  <2> DEFINE n == k + 1
  <2>1. b = 0 /\ a >= 0 /\ t + 1 = b + n * p /\ n >= -1 /\ n \in Int
    BY <1>1, <1>2, <1>4
  <2> HIDE DEF n
  <2>2. OnGrid(t + 1, b, p)
    BY <1>3, <2>1 DEF OnGrid
  <2>3. t + 1 >= 0
    BY <1>1, <1>2, <1>4, <2>1
  <2>4. QED BY <2>1, <2>2, <2>3
<1>5. CASE a + 1 # p /\ a >= 0
  <2>1. b = a + 1 /\ t + 1 = b + k * p /\ k >= -1 /\ b > 0
    BY <1>1, <1>5
  <2>2. OnGrid(t + 1, b, p)
    BY <1>3, <2>1 DEF OnGrid
  <2>3. t + 1 >= 0 <=> t >= 0
    BY <1>1, <1>2, <1>5
  <2>4. QED BY <2>1, <2>2, <2>3
<1>6. CASE a + 1 # p /\ a < 0
  <2>1. b = a + 1 /\ t + 1 = b /\ b <= 0 /\ t < 0
    BY <1>2, <1>6
  <2>2. \E j \in Int : t + 1 = b + j * p /\ (b >= 0 => j >= -1)
    BY <1>2, <2>1
  <2>3. OnGrid(t + 1, b, p)
    BY <1>3, <2>1, <2>2 DEF OnGrid
  <2>4. QED BY <2>1, <2>3
<1>7. QED BY <1>4, <1>5, <1>6

\* The periods missed by late are made up for, a time g after the latch: the lateness left is d.
Skips(late, d, g, a, p) ==
  /\ p \in Nat \ {0} /\ late \in Nat /\ g \in Nat /\ a \in Int /\ d \in Int
  /\ OnGrid(late + g, a, p)
  /\ d = late - (late \div p + 1) * p

\* Making up for the periods missed takes a late node to its first time after the latch,
\* which has passed since if and only if a point of the grid has come since.
LEMMA GridCatchUp ==
  ASSUME NEW late, NEW d, NEW g, NEW a, NEW p, Skips(late, d, g, a, p)
  PROVE  /\ -p <= d /\ d < 0
         /\ OnGrid(d + g, a, p)
         /\ d + g >= 0 <=> 0 <= a /\ a < g
<1> DEFINE q == late \div p
<1>0. /\ p \in Nat \ {0} /\ late \in Nat /\ g \in Nat /\ a \in Int /\ d \in Int
      /\ OnGrid(late + g, a, p) /\ d = late - (q + 1) * p
  BY DEF Skips
<1>1. PICK k \in Int : late + g = a + k * p /\ (a >= 0 => k >= -1)
  BY <1>0 DEF OnGrid
<1>2. q \in Nat /\ late % p \in 0 .. p - 1 /\ late = p * q + (late % p)
  BY <1>0, Division
<1>3. q + 1 \in Int /\ q * p + p = (q + 1) * p /\ q * p = p * q
  BY <1>0, <1>2, Multiples
<1> HIDE DEF q
<1>4. d = (late % p) - p
  BY <1>0, <1>2, <1>3
<1>5. -p <= d /\ d < 0
  BY <1>0, <1>2, <1>4
<1>6. a >= 0 /\ a < p
  BY <1>0 DEF OnGrid
<1> DEFINE j == k - (q + 1)
<1>7. j \in Int /\ k * p - (q + 1) * p = j * p
  BY <1>0, <1>3, Multiples
<1>8. d + g = a + j * p
  <2>1. k * p \in Int /\ (q + 1) * p \in Int
    BY <1>0, <1>3
  <2>2. QED BY <1>0, <1>1, <1>7, <2>1
<1>9. /\ j >= 0 => j * p >= 0
      /\ j <= -1 => j * p <= -p
      /\ j <= -2 => j * p <= -2 * p
  BY <1>0, <1>7, Multiples
<1> HIDE DEF j
<1>10. j >= -1
  BY <1>0, <1>5, <1>6, <1>7, <1>8, <1>9
<1>11. OnGrid(d + g, a, p)
  <2>1. \E i \in Int : d + g = a + i * p /\ (a >= 0 => i >= -1)
    BY <1>7, <1>8, <1>10, Zenon
  <2>2. ~(a < 0)
    BY <1>0, <1>6
  <2>3. QED BY <1>0, <1>6, <2>1, <2>2 DEF OnGrid
<1>12. d + g >= 0 <=> a < g
  BY <1>0, <1>5, <1>6, <1>7, <1>8, <1>9
<1>13. QED BY <1>5, <1>6, <1>11, <1>12

\* Every node was registered before the first tick.
LEMMA SchedulerInitInv == Init => SchedulerInv
<1> SUFFICES ASSUME Init PROVE SchedulerInv
  OBVIOUS
<1>1. \A i \in Nodes : Table[i].delay \in Times /\ Table[i].delay <= Modulus \div 2
  BY SchedulerNumbers DEF Times
<1>2. 0 \in Times /\ next \in [Nodes -> Times] /\ age \in [Nodes -> Int]
  BY <1>1, SchedulerNumbers DEF Init, Times
<1>3. ASSUME NEW i \in Nodes PROVE NodeInv(i)
  <2> DEFINE w == Table[i].delay
             p == Table[i].period
  <2>1. w \in Nat /\ w <= Modulus \div 2 /\ p \in Nat \ {0} /\ w \in Times /\ 0 \in Times
    BY <1>1, <1>2, SchedulerNumbers
  <2>2. next[i] = w /\ latched = 0 /\ age[i] = -w /\ lag = 0 /\ node = 0
        /\ owed = {} /\ (i \in fresh <=> w = 0)
    BY DEF Init
  <2> HIDE DEF w, p
  <2>3. Late(i) = -w
    <3>1. -w \in Int /\ -(Modulus \div 2) <= -w /\ -w < Modulus \div 2 /\ 0 - w = -w
      BY <2>1, SchedulerNumbers
    <3>2. Diff(0, w) = -w
      BY <2>1, <3>1, DiffIs
    <3>3. QED BY <2>2, <3>2 DEF Late
  <2>4. OnGrid(-w, -w, p)
    <3>1. -w = -w + 0 * p
      BY <2>1
    <3>2. QED BY <2>1, <3>1 DEF OnGrid
  <2>5. Late(i) + lag = -w /\ Table[i].period = p
    BY <2>1, <2>2, <2>3 DEF p
  <2>6. QED BY <2>1, <2>2, <2>3, <2>4, <2>5, SchedulerNumbers DEF NodeInv
<1>4. QED BY <1>2, <1>3, SchedulerNumbers DEF SchedulerInv, Init

\* What a signed difference is made of.
LEMMA LateRange ==
  ASSUME SchedulerInv, NEW i \in Nodes
  PROVE  /\ Late(i) \in Int /\ -(Modulus \div 2) <= Late(i) /\ Late(i) <= MaxLag
         /\ latched - next[i] \in {Late(i) - Modulus, Late(i), Late(i) + Modulus}
         /\ next[i] \in Times /\ latched \in Times /\ lag \in 0 .. MaxLag /\ age[i] \in Int
<1>1. next[i] \in Times /\ latched \in Times /\ NodeInv(i)
      /\ lag \in 0 .. MaxLag /\ age[i] \in Int
  BY DEF SchedulerInv
<1>2. QED BY <1>1, DiffRange, SchedulerNumbers DEF Late, NodeInv

\* The latch of a pass: what is fresh becomes owed.
LEMMA BeginInv == ASSUME SchedulerInv, BeginRun PROVE SchedulerInv'
<1>1. /\ node = 0 /\ node' = 1 /\ latched' = now /\ lag' = 0
      /\ owed' = owed \union fresh /\ fresh' = {}
      /\ now' = now /\ next' = next /\ age' = age
  BY DEF BeginRun
<1>2. /\ now \in Times /\ latched \in Times /\ next \in [Nodes -> Times]
      /\ lag \in 0 .. MaxLag /\ now - latched \in {lag, lag - Modulus} /\ age \in [Nodes -> Int]
  BY DEF SchedulerInv
<1>3. ASSUME NEW i \in Nodes PROVE NodeInv(i)'
  <2> DEFINE d == Late(i) + lag
  <2>1. /\ Late(i) \in Int /\ -(Modulus \div 2) <= Late(i)
        /\ latched - next[i] \in {Late(i) - Modulus, Late(i), Late(i) + Modulus}
        /\ next[i] \in Times
    BY LateRange
  <2>2. /\ Late(i) <= 0 /\ OnGrid(d, age[i], Table[i].period)
        /\ (i \in owed \union fresh <=> d >= 0)
    BY <1>1 DEF SchedulerInv, NodeInv
  <2>3. d \in Int /\ -(Modulus \div 2) <= d /\ d <= MaxLag /\ d < Modulus \div 2
    BY <1>2, <2>1, <2>2, SchedulerNumbers
  <2>4. now - next[i] \in {d - Modulus, d, d + Modulus, d - 2 * Modulus, d + 2 * Modulus}
    <3> DEFINE x == now - latched
               y == latched - next[i]
    <3>1. x \in Int /\ y \in Int /\ now - next[i] = x + y /\ Modulus \in Int /\ lag \in Int
      BY <1>2, <2>1, SchedulerNumbers DEF Times
    <3>2. x \in {lag, lag - Modulus} /\ y \in {Late(i) - Modulus, Late(i), Late(i) + Modulus}
      BY <1>2, <2>1
    <3> HIDE DEF x, y
    <3>3. x + y \in {d - Modulus, d, d + Modulus, d - 2 * Modulus, d + 2 * Modulus}
      BY <2>1, <3>1, <3>2
    <3>4. QED BY <3>1, <3>3
  <2> HIDE DEF d
  <2>5. Diff(now, next[i]) = d
    BY <1>2, <2>1, <2>3, <2>4, DiffIs
  <2>6. Late(i)' = d
    BY <1>1, <2>5 DEF Late
  <2>7. ~(i < 1) /\ d + 0 = d
    BY <2>3 DEF Nodes
  <2>8. /\ Late(i)' <= MaxLag
        /\ node' = 0 \/ i < node' => Late(i)' <= 0
        /\ OnGrid(Late(i)' + lag', age'[i], Table[i].period)
        /\ i \in owed' \union fresh' <=> Late(i)' + lag' >= 0
        /\ node' > 0 => /\ i \in owed' <=> Late(i)' >= 0
                        /\ i \in fresh' <=> 0 <= age'[i] /\ age'[i] < lag'
    <3>1. ~(node' = 0 \/ i < node') /\ i \notin fresh' /\ age'[i] \in Int /\ lag' = 0
      BY <1>1, <1>2, <2>7
    <3>2. Late(i)' + lag' = d
      BY <1>1, <2>6, <2>7
    <3>3. QED BY <1>1, <2>2, <2>3, <2>6, <3>1, <3>2 DEF d
  <2>9. QED BY <2>8 DEF NodeInv
<1>4. now' - latched' = lag' /\ lag' \in 0 .. MaxLag /\ node' \in 0 .. Len(Table)
  BY <1>1, <1>2, SchedulerNumbers DEF Times
<1>5. QED BY <1>1, <1>2, <1>3, <1>4 DEF SchedulerInv

\* A tick of the counter, and of a difference of it.
LEMMA TickWraps ==
  ASSUME NEW n \in Times, NEW l \in Times, NEW g \in Nat, g + 1 <= MaxLag,
         n - l \in {g, g - Modulus}
  PROVE  /\ (n + 1) % Modulus \in Times
         /\ ((n + 1) % Modulus) - l \in {g + 1, g + 1 - Modulus}
<1>1. /\ n \in Int /\ 0 <= n /\ n < Modulus /\ l \in Int /\ 0 <= l /\ l < Modulus
      /\ Modulus \in Nat \ {0} /\ g + 1 < Modulus
  BY SchedulerNumbers DEF Times
<1>2. /\ n + 1 < Modulus => (n + 1) % Modulus = n + 1
      /\ n + 1 = Modulus => (n + 1) % Modulus = 0
  BY <1>1
<1>3. CASE n + 1 < Modulus
  BY <1>1, <1>2, <1>3 DEF Times
<1>4. CASE n + 1 = Modulus
  BY <1>1, <1>2, <1>4 DEF Times
<1>5. QED BY <1>1, <1>3, <1>4

\* The interrupt: every node goes one step along its grid.
LEMMA SysTickInv == ASSUME SchedulerInv, SysTick PROVE SchedulerInv'
<1>1. /\ lag < MaxLag /\ lag' = lag + 1 /\ now' = (now + 1) % Modulus
      /\ age' = [i \in Nodes |-> IF age[i] + 1 = Table[i].period THEN 0 ELSE age[i] + 1]
      /\ fresh' = fresh \union {i \in Nodes : age'[i] = 0}
      /\ next' = next /\ latched' = latched /\ node' = node /\ owed' = owed
  BY DEF SysTick
<1>2. /\ now \in Times /\ latched \in Times /\ next \in [Nodes -> Times]
      /\ lag \in 0 .. MaxLag /\ now - latched \in {lag, lag - Modulus} /\ age \in [Nodes -> Int]
      /\ node \in 0 .. Len(Table)
  BY DEF SchedulerInv
<1>3. now' \in Times /\ lag' \in 0 .. MaxLag /\ now' - latched' \in {lag', lag' - Modulus}
  <2>1. lag \in Nat /\ lag + 1 <= MaxLag /\ lag + 1 \in 0 .. MaxLag
    BY <1>1, <1>2, SchedulerNumbers
  <2>2. /\ (now + 1) % Modulus \in Times
        /\ ((now + 1) % Modulus) - latched \in {lag + 1, lag + 1 - Modulus}
    BY <1>2, <2>1, TickWraps
  <2>3. now' = (now + 1) % Modulus /\ latched' = latched /\ lag' = lag + 1
    BY <1>1
  <2> DEFINE m == (now + 1) % Modulus
  <2>4. m \in Int /\ m = now' /\ (m - latched = lag + 1 \/ m - latched = lag + 1 - Modulus)
    BY <2>2, <2>3 DEF Times
  <2> HIDE DEF m
  <2>5. now' \in Times /\ lag' \in 0 .. MaxLag
    BY <2>1, <2>2, <2>3
  <2>6. now' - latched' = lag' \/ now' - latched' = lag' - Modulus
    <3>1. latched \in Int /\ lag \in Int /\ Modulus \in Int
      BY <1>2, SchedulerNumbers DEF Times
    <3>2. QED BY <2>3, <2>4, <3>1
  <2>7. QED BY <2>5, <2>6
<1>5. age' \in [Nodes -> Int]
  BY <1>1, <1>2
<1>6. ASSUME NEW i \in Nodes PROVE NodeInv(i)'
  <2> DEFINE t == Late(i) + lag
             p == Table[i].period
             a == age[i]
             b == age'[i]
  <2>1. Late(i) \in Int /\ t \in Int /\ p \in Nat \ {0} /\ a \in Int /\ lag \in Int
    BY <1>2, LateRange, SchedulerNumbers
  <2>2. /\ Late(i) <= MaxLag
        /\ node = 0 \/ i < node => Late(i) <= 0
        /\ OnGrid(t, a, p)
        /\ i \in owed \union fresh <=> t >= 0
        /\ node > 0 => (i \in owed <=> Late(i) >= 0) /\ (i \in fresh <=> 0 <= a /\ a < lag)
    BY DEF SchedulerInv, NodeInv
  <2>3. b = (IF a + 1 = p THEN 0 ELSE a + 1) /\ b \in Int
    BY <1>1, <1>5
  <2>4. i \in fresh' <=> i \in fresh \/ b = 0
    BY <1>1
  <2>5. Late(i)' = Late(i) /\ Late(i) + lag' = t + 1
    BY <1>1, <2>1 DEF Late
  <2> HIDE DEF t, p, a, b
  <2>6. OnGrid(t + 1, b, p) /\ (t + 1 >= 0 <=> t >= 0 \/ b = 0)
    BY <2>1, <2>2, <2>3, GridTick
  <2>7. a < p
    BY <2>2 DEF OnGrid
  <2>8. node > 0 => (i \in fresh' <=> 0 <= b /\ b < lag + 1)
    BY <1>2, <2>1, <2>2, <2>3, <2>4, <2>7
  <2>9. /\ Late(i)' <= MaxLag
        /\ node' = 0 \/ i < node' => Late(i)' <= 0
        /\ OnGrid(Late(i)' + lag', age'[i], Table[i].period)
        /\ i \in owed' \union fresh' <=> Late(i)' + lag' >= 0
        /\ node' > 0 => /\ i \in owed' <=> Late(i)' >= 0
                        /\ i \in fresh' <=> 0 <= age'[i] /\ age'[i] < lag'
    BY <1>1, <2>2, <2>4, <2>5, <2>6, <2>8 DEF b, p
  <2>10. QED BY <2>9 DEF NodeInv
<1>7. QED BY <1>1, <1>2, <1>3, <1>5, <1>6 DEF SchedulerInv

\* The next time of a late node: less than half the range of the counter away.
LEMMA CatchUpTo ==
  ASSUME SchedulerInv, NEW i \in Nodes, Late(i) >= 0
  PROVE  /\ CatchUp(i) \in Times
         /\ Diff(latched, CatchUp(i)) =
              Late(i) - (Late(i) \div Table[i].period + 1) * Table[i].period
<1> DEFINE late == Late(i)
           p == Table[i].period
           q == late \div p
           jump == (q + 1) * p
           d == late - jump
           h == Modulus \div 2
<1>1. /\ late \in Nat /\ late <= MaxLag
      /\ latched - next[i] \in {late - Modulus, late, late + Modulus}
      /\ next[i] \in Times /\ latched \in Times
  BY LateRange
<1>2. /\ p \in Nat \ {0} /\ p <= h /\ h \in Nat \ {0} /\ Modulus = 2 * h
      /\ MaxLag \in Nat /\ MaxLag < h /\ Modulus \in Nat \ {0}
  BY SchedulerNumbers
<1>3. CatchUp(i) = (next[i] + jump) % Modulus
  BY DEF CatchUp, Periods, Late
<1> HIDE DEF late, p, h
<1>4. q \in Nat /\ late % p \in 0 .. p - 1 /\ late = p * q + (late % p)
  BY <1>1, <1>2, Division
<1>5. q + 1 \in Int /\ q * p + p = (q + 1) * p /\ q * p = p * q /\ q * p \in Int
  BY <1>2, <1>4, Multiples
<1> HIDE DEF q
<1>6. jump \in Int /\ d = (late % p) - p /\ jump = late - (late % p) + p
  BY <1>1, <1>2, <1>4, <1>5
<1> HIDE DEF jump
<1>7. jump > 0 /\ jump < Modulus /\ d \in Int /\ -h <= d /\ d < h
  BY <1>1, <1>2, <1>4, <1>6
<1> DEFINE x == next[i] + jump
<1>8. next[i] \in Int /\ 0 <= next[i] /\ next[i] < Modulus
  BY <1>1, <1>2 DEF Times
<1>9. x \in Int /\ 0 <= x /\ -Modulus <= x /\ x < 2 * Modulus /\ x = next[i] + jump
  BY <1>2, <1>6, <1>7, <1>8
<1> HIDE DEF x
<1>10. x % Modulus = IF x < 0 THEN x + Modulus ELSE IF x < Modulus THEN x ELSE x - Modulus
  BY <1>2, <1>9, Remainder
<1> DEFINE nx == x % Modulus
<1>11. nx \in Times /\ (nx = next[i] + jump \/ nx = next[i] + jump - Modulus)
  <2>1. nx \in Int /\ 0 <= nx /\ nx <= Modulus - 1 /\ (nx = x \/ nx = x - Modulus)
    BY <1>2, <1>9, <1>10
  <2> HIDE DEF nx
  <2>2. nx = next[i] + jump \/ nx = next[i] + jump - Modulus
    BY <1>2, <1>6, <1>8, <1>9, <2>1
  <2>3. nx \in Times
    BY <1>2, <2>1 DEF Times
  <2>4. QED BY <2>2, <2>3
<1>12. CatchUp(i) = nx
  BY <1>3 DEF x
<1> HIDE DEF nx
<1>13. latched - nx \in {d - Modulus, d, d + Modulus, d - 2 * Modulus, d + 2 * Modulus}
  <2>1. latched \in Int /\ nx \in Int
    BY <1>1, <1>11 DEF Times
  <2>2. \/ latched - nx = (latched - next[i]) - jump
        \/ latched - nx = (latched - next[i]) - jump + Modulus
    BY <1>2, <1>6, <1>8, <1>11, <2>1
  <2> DEFINE y == latched - next[i]
             z == latched - nx
  <2>3. y \in Int /\ z \in Int /\ (z = y - jump \/ z = y - jump + Modulus)
        /\ (y = late - Modulus \/ y = late \/ y = late + Modulus)
    BY <1>1, <1>2, <1>8, <2>1, <2>2
  <2> HIDE DEF y, z
  <2>4. \/ z = d - Modulus \/ z = d \/ z = d + Modulus
        \/ z = d - 2 * Modulus \/ z = d + 2 * Modulus
    BY <1>1, <1>2, <1>6, <2>3
  <2>5. QED BY <2>4 DEF z
<1> HIDE DEF d
<1>14. Diff(latched, nx) = d
  BY <1>1, <1>2, <1>7, <1>11, <1>13, DiffIs DEF h
<1>15. QED BY <1>11, <1>12, <1>14 DEF d, jump, q, late, p

\* One turn of the loop: a node that is due is called and goes past the latch.
LEMMA VisitInv == ASSUME SchedulerInv, Visit PROVE SchedulerInv'
<1>1. /\ node > 0
      /\ next' = IF IsDue(node) THEN [next EXCEPT ![node] = CatchUp(node)] ELSE next
      /\ owed' = IF IsDue(node) THEN owed \ {node} ELSE owed
      /\ node' = (node + 1) % (Len(Table) + 1)
      /\ now' = now /\ latched' = latched /\ lag' = lag /\ age' = age /\ fresh' = fresh
  BY DEF Visit
<1>2. /\ now \in Times /\ latched \in Times /\ next \in [Nodes -> Times]
      /\ lag \in 0 .. MaxLag /\ now - latched \in {lag, lag - Modulus} /\ age \in [Nodes -> Int]
      /\ node \in 0 .. Len(Table) /\ \A i \in Nodes : NodeInv(i)
  BY DEF SchedulerInv
<1>3. node \in Nodes /\ Len(Table) \in Nat \ {0} /\ MaxLag \in Nat
  BY <1>1, <1>2, SchedulerNumbers DEF Nodes
<1>4. node' = IF node = Len(Table) THEN 0 ELSE node + 1
  <2> DEFINE m == Len(Table) + 1
             x == node + 1
  <2>1. m \in Nat \ {0} /\ x \in Int /\ -m <= x /\ x < 2 * m /\ 0 <= x /\ x <= m
    BY <1>2, <1>3
  <2>2. x = m <=> node = Len(Table)
    BY <1>2, <1>3
  <2>3. node' = x % m
    BY <1>1
  <2> HIDE DEF m, x
  <2>4. x % m = IF x < 0 THEN x + m ELSE IF x < m THEN x ELSE x - m
    BY <2>1, Remainder
  <2>5. node' = IF x = m THEN 0 ELSE x
    BY <2>1, <2>3, <2>4
  <2>6. QED BY <2>2, <2>5 DEF x
<1>5. IsDue(node) <=> Late(node) >= 0
  BY DEF IsDue, Late
<1>6. next' \in [Nodes -> Times]
  BY <1>1, <1>2, <1>3, <1>5, CatchUpTo
<1>7. ASSUME NEW i \in Nodes PROVE NodeInv(i)'
  <2> DEFINE p == Table[i].period
  <2>1. /\ Late(i) \in Int /\ Late(i) <= MaxLag
        /\ node = 0 \/ i < node => Late(i) <= 0
        /\ OnGrid(Late(i) + lag, age[i], p)
        /\ i \in owed \union fresh <=> Late(i) + lag >= 0
        /\ i \in owed <=> Late(i) >= 0
        /\ i \in fresh <=> 0 <= age[i] /\ age[i] < lag
    BY <1>1, <1>2, LateRange DEF NodeInv
  <2>2. /\ i \in 1 .. Len(Table) /\ node \in 1 .. Len(Table)
        /\ age[i] \in Int /\ lag \in Nat /\ age'[i] = age[i]
    BY <1>1, <1>2, <1>3 DEF Nodes
  <2>3. CASE i = node /\ IsDue(node)
    <3> DEFINE late == Late(i)
               d == late - (late \div p + 1) * p
    <3>1. next'[i] = CatchUp(i) /\ owed' = owed \ {i}
      BY <1>1, <1>2, <2>3
    <3>2. late \in Nat /\ p \in Nat \ {0}
      BY <1>5, <2>1, <2>3, SchedulerNumbers
    <3>3. Diff(latched, CatchUp(i)) = d
      BY <1>5, <2>3, CatchUpTo
    <3>4. Late(i)' = d
      BY <1>1, <3>1, <3>3 DEF Late
    <3>5. OnGrid(late + lag, age[i], p)
      BY <2>1
    <3> HIDE DEF late, p
    <3>6. d \in Int
      <4>1. late \div p \in Nat
        BY <3>2, Division
      <4>2. QED BY <3>2, <4>1
    <3>7. /\ -p <= d /\ d < 0 /\ OnGrid(d + lag, age[i], p)
          /\ d + lag >= 0 <=> 0 <= age[i] /\ age[i] < lag
      <4>1. Skips(late, d, lag, age[i], p)
        BY <2>2, <3>2, <3>5, <3>6 DEF Skips
      <4> HIDE DEF d
      <4>2. QED BY <4>1, GridCatchUp
    <3> HIDE DEF d
    <3>8. d <= 0 /\ d <= MaxLag /\ ~(d >= 0)
      BY <1>3, <3>6, <3>7
    <3>9. i \notin owed' /\ fresh' = fresh /\ lag' = lag
      BY <1>1, <3>1
    <3>10. /\ Late(i)' <= MaxLag
           /\ node' = 0 \/ i < node' => Late(i)' <= 0
           /\ OnGrid(Late(i)' + lag', age'[i], Table[i].period)
           /\ i \in owed' \union fresh' <=> Late(i)' + lag' >= 0
           /\ node' > 0 => /\ i \in owed' <=> Late(i)' >= 0
                           /\ i \in fresh' <=> 0 <= age'[i] /\ age'[i] < lag'
      BY <2>1, <2>2, <3>4, <3>7, <3>8, <3>9 DEF p
    <3>11. QED BY <3>10 DEF NodeInv
  <2>4. CASE ~(i = node /\ IsDue(node))
    <3>1. next'[i] = next[i] /\ (i \in owed' <=> i \in owed)
      BY <1>1, <1>2, <2>4
    <3>2. Late(i)' = Late(i)
      BY <1>1, <3>1 DEF Late
    <3>3. i < node \/ i = node \/ (i > node /\ node' # 0 /\ ~(i < node'))
      BY <1>4, <2>2
    <3>4. i = node => Late(i) <= 0
      BY <1>5, <2>1, <2>4
    <3>5. node' = 0 \/ i < node' => Late(i)' <= 0
      BY <2>1, <3>2, <3>3, <3>4
    <3>6. /\ Late(i)' <= MaxLag
          /\ OnGrid(Late(i)' + lag', age'[i], Table[i].period)
          /\ i \in owed' \union fresh' <=> Late(i)' + lag' >= 0
          /\ node' > 0 => /\ i \in owed' <=> Late(i)' >= 0
                          /\ i \in fresh' <=> 0 <= age'[i] /\ age'[i] < lag'
      BY <1>1, <2>1, <2>2, <3>1, <3>2 DEF p
    <3>7. QED BY <3>5, <3>6 DEF NodeInv
  <2>5. QED BY <2>3, <2>4
<1>8. node' \in 0 .. Len(Table)
  BY <1>2, <1>3, <1>4
<1>9. QED BY <1>1, <1>2, <1>6, <1>7, <1>8 DEF SchedulerInv

LEMMA SchedulerStep == SchedulerInv /\ [Next]_vars => SchedulerInv'
<1> SUFFICES ASSUME SchedulerInv, [Next]_vars PROVE SchedulerInv'
  OBVIOUS
<1>1. CASE UNCHANGED vars
  BY <1>1 DEF vars, history, SchedulerInv, NodeInv, Late, Diff
<1>2. QED BY <1>1, BeginInv, VisitInv, SysTickInv DEF Next, Run

\* In every reachable state the invariant says where each node stands.
LEMMA SchedulerIsSound == Spec => []SchedulerInv
<1>1. QED BY SchedulerInitInv, SchedulerStep, PTL DEF Spec

-----------------------------------------------------------------------------
(* The scheduler: its theorems *)

\* No node drifts off the grid laid at its registration (AppScheduler_Run's catch-up), for
\* every table of nodes, every width of the counter and every lateness below half of it.
THEOREM GridIsKept == Spec => []KeepsItsGrid
<1>1. SchedulerInv => KeepsItsGrid
  <2> SUFFICES ASSUME SchedulerInv, NEW i \in Nodes
               PROVE  (Diff(latched, next[i]) + lag - age[i]) % Table[i].period = 0
    BY DEF KeepsItsGrid
  <2> DEFINE p == Table[i].period
             t == Late(i) + lag
             a == age[i]
  <2>1. OnGrid(t, a, p) /\ p \in Nat \ {0} /\ t \in Int
    BY LateRange, SchedulerNumbers DEF SchedulerInv, NodeInv
  <2>2. Diff(latched, next[i]) + lag - age[i] = t - a
    <3>1. Diff(latched, next[i]) = Late(i)
      BY DEF Late
    <3>2. Late(i) \in Int /\ lag \in Int /\ age[i] \in Int
      BY LateRange
    <3>3. QED BY <3>1, <3>2
  <2> HIDE DEF p, t, a
  <2>3. PICK k \in Int : t = a + k * p
    BY <2>1 DEF OnGrid
  <2>4. a \in Int /\ (k * p) % p = 0 /\ k * p \in Int
    BY <2>1, <2>3, Multiples DEF OnGrid
  <2>5. t - a = k * p
    BY <2>1, <2>3, <2>4
  <2>6. QED BY <2>2, <2>4, <2>5 DEF p
<1>2. QED BY <1>1, SchedulerIsSound, PTL

\* A pass calls a node if and only if a point of its grid up to the latch is unanswered
\* (the test in AppScheduler_Run), for every table and counter as above.
THEOREM CalledIsOwed == Spec => CalledWhenOwed
<1>1. ASSUME SchedulerInv, Visit PROVE called' = node <=> node \in owed
  <2>1. node > 0 /\ node \in Nodes /\ called' = (IF IsDue(node) THEN node ELSE 0)
    BY <1>1 DEF SchedulerInv, Visit, Nodes
  <2>2. node \in owed <=> Late(node) >= 0
    BY <1>1, <2>1 DEF SchedulerInv, NodeInv
  <2>3. called' = node <=> IsDue(node)
    BY <2>1 DEF Nodes
  <2>4. QED BY <2>2, <2>3 DEF IsDue, Late
<1>2. SchedulerInv => (Visit => (called' = node <=> node \in owed))
  BY <1>1
<1>3. QED BY <1>2, SchedulerIsSound, PTL DEF CalledWhenOwed

=============================================================================
