----------------------------- MODULE SerialPort -----------------------------
(***************************************************************************)
(* The transmit side of the debug UART (Serial.c): a ring of bytes between *)
(* the callers that print and the 1 ms tick that feeds the hardware.  Both *)
(* run in the main loop, so only the hardware goes on meanwhile; pushing a *)
(* line byte by byte, each dropped if the ring is full, is one step.       *)
(*                                                                         *)
(* The tick also empties the receiver into a mailbox of one byte.  Nothing *)
(* in the firmware asks for it, and it is left out.                        *)
(***************************************************************************)
EXTENDS Integers, Sequences

CONSTANTS BufferSize,  \* APP_UART_TX_BUFFER_SIZE: 256
          UartSlots    \* bytes that the transmitter holds

ASSUME PortAssumption == BufferSize \in Nat \ {0} /\ UartSlots \in Nat \ {0}

VARIABLES
  tx_buffer, tx_head, tx_tail,  \* g_serial
  uart,                         \* bytes in the transmitter
  sent                          \* what the last step gave to it

portVars == <<tx_buffer, tx_head, tx_tail, uart, sent>>

Slots == 0 .. BufferSize - 1

\* Serial_GetNextIndex, n times.
Wrap(i) == i % BufferSize

Least(a, b) == IF a < b THEN a ELSE b

Used == Wrap(tx_head - tx_tail)

\* Faulty variant: the test for a full ring looks at the head, not at the slot after it.
RoomUpToTail == BufferSize - Used

\* What Serial_IsTxBufferFull leaves: one slot always stays free.
Room == BufferSize - 1 - Used

\* Serial_Printf, Serial_SendString: Serial_PushTxByte for each byte of the line.
Printf(line) ==
  LET n == Least(Room, Len(line))
  IN  /\ tx_buffer' = [i \in Slots |-> IF Wrap(i - tx_head) < n
                                       THEN line[Wrap(i - tx_head) + 1] ELSE tx_buffer[i]]
      /\ tx_head' = Wrap(tx_head + n)
      /\ sent' = <<>>
      /\ UNCHANGED <<tx_tail, uart>>

\* Faulty variant: a full ring is taken for an empty one.
SerialTickBlind ==
  \E freed \in 0 .. 1 :
    LET n == IF Room = 0 THEN 0 ELSE Least(Used, UartSlots - uart + freed)
    IN  /\ sent' = [k \in 1 .. n |-> tx_buffer[Wrap(tx_tail + k - 1)]]
        /\ tx_tail' = Wrap(tx_tail + n)
        /\ uart' = Least(uart + n, UartSlots)
        /\ UNCHANGED <<tx_buffer, tx_head>>

\* Serial_Tick1ms: bytes go over until the transmitter is full or the ring is empty; one
\* may leave the transmitter meanwhile.
SerialTick ==
  \E freed \in 0 .. 1 :
    LET n == Least(Used, UartSlots - uart + freed)
    IN  /\ sent' = [k \in 1 .. n |-> tx_buffer[Wrap(tx_tail + k - 1)]]
        /\ tx_tail' = Wrap(tx_tail + n)
        /\ uart' = Least(uart + n, UartSlots)
        /\ UNCHANGED <<tx_buffer, tx_head>>

\* The transmitter has sent a byte.
ShiftOut ==
  /\ uart > 0
  /\ uart' = uart - 1
  /\ sent' = <<>>
  /\ UNCHANGED <<tx_buffer, tx_head, tx_tail>>

Quiet == sent' = <<>> /\ UNCHANGED <<tx_buffer, tx_head, tx_tail, uart>>

\* Serial_Init
PortInit(byte) ==
  /\ tx_buffer = [i \in Slots |-> byte]
  /\ tx_head = 0 /\ tx_tail = 0
  /\ uart = 0 /\ sent = <<>>

=============================================================================
