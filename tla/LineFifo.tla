------------------------------ MODULE LineFifo ------------------------------
(***************************************************************************)
(* What the serial port promises to those who print: the bytes of a line   *)
(* leave in order, behind those of the lines before and unmixed with any   *)
(* other's; a line loses bytes only if it does not fit, and then only its  *)
(* end.                                                                    *)
(***************************************************************************)
EXTENDS Naturals, Sequences

CONSTANTS Lines,    \* what may be printed, sequences of bytes
          Capacity  \* bytes that may wait

VARIABLES queue,  \* the bytes that wait, oldest first
          out     \* what the last step handed to the UART

Least(a, b) == IF a < b THEN a ELSE b

Init == queue = <<>> /\ out = <<>>

Put(line) ==
  /\ queue' = queue \o SubSeq(line, 1, Least(Capacity - Len(queue), Len(line)))
  /\ out' = <<>>

Get(n) ==
  /\ out' = SubSeq(queue, 1, n)
  /\ queue' = SubSeq(queue, n + 1, Len(queue))

Pause == out' = <<>> /\ UNCHANGED queue

Next ==
  \/ \E line \in Lines : Put(line)
  \/ \E n \in 1 .. Len(queue) : Get(n)
  \/ Pause

Spec == Init /\ [][Next]_<<queue, out>>

=============================================================================
