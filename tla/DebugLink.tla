------------------------------ MODULE DebugLink ------------------------------
(***************************************************************************)
(* The serial port under the scheduler (app_system.c): the HAL node feeds  *)
(* the transmitter, the debug node prints a line, and a pass that is late  *)
(* feeds it late but prints all the same, so the ring does fill up.        *)
(***************************************************************************)
EXTENDS AppScheduler, SerialPort

CONSTANTS Hal, Debug,  \* nodes of AppSystem_HalTick1ms and AppSystem_DebugTick500ms
          Byte,        \* what a line is made of
          MuteMs,      \* APP_DEBUG_STARTUP_MUTE_MS: 1200
          SyncLine,    \* #DBG,START
          Reports      \* what the T and S lines can be

ASSUME LinkAssumption ==
  /\ Hal \in Nodes /\ Debug \in Nodes
  /\ Hal # Debug
  /\ SyncLine # <<>> /\ Reports \union {SyncLine} \subseteq Seq(Byte)

VARIABLE sync_sent

linkVars == <<vars, portVars, sync_sent>>

\* AppSystem_DebugTick500ms; the mute comes back each time the counter wraps.
DebugTick ==
  \/ now < MuteMs /\ Quiet /\ UNCHANGED sync_sent
  \/ now >= MuteMs /\ ~sync_sent /\ Printf(SyncLine) /\ sync_sent' = TRUE
  \/ /\ now >= MuteMs /\ sync_sent
     /\ \E line \in Reports : Printf(line)
     /\ UNCHANGED sync_sent

\* AppSystem_HalTick1ms, the serial half of it.
HalTick == SerialTick /\ UNCHANGED sync_sent

Idle == Quiet /\ UNCHANGED sync_sent

LinkVisit ==
  /\ Visit
  /\ CASE called' = Hal -> HalTick
       [] called' = Debug -> DebugTick
       [] OTHER -> Idle

LinkRun == (BeginRun /\ Idle) \/ LinkVisit

LinkTick == SysTick /\ Idle

Transmit == ShiftOut /\ UNCHANGED <<vars, sync_sent>>

LinkInit ==
  /\ Init
  /\ PortInit(SyncLine[1])
  /\ sync_sent = FALSE

LinkNext == LinkRun \/ LinkTick \/ Transmit

\* As in AppScheduler, and the transmitter never stops.
LinkFairness == WF_linkVars(LinkRun) /\ WF_linkVars(LinkTick) /\ WF_linkVars(Transmit)

LinkSpec == LinkInit /\ [][LinkNext]_linkVars /\ LinkFairness

-----------------------------------------------------------------------------
(* Properties *)

\* The bytes in the ring, oldest first.
Queued == [k \in 1 .. Used |-> tx_buffer[Wrap(tx_tail + k - 1)]]

Link == INSTANCE LineFifo
  WITH Lines <- Reports \union {SyncLine}, Capacity <- BufferSize - 1,
       queue <- Queued, out <- sent

\* The ring and the two nodes implement the fifo of lines: however late the passes feed
\* the transmitter and however often the ring is full, no byte is overwritten, repeated
\* or sent between those of another line, and a line is cut only where the ring was full.
ImplementsLineFifo == Link!Spec

\* What has been printed is sent: the ring moves on from every position, for the HAL node
\* is called and the transmitter runs, whatever else the passes do.
EveryByteLeaves == \A t \in Slots : (tx_tail = t /\ Used > 0) ~> tx_tail # t

=============================================================================
