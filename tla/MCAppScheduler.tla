--------------------------- MODULE MCAppScheduler ---------------------------
(***************************************************************************)
(* Three nodes with the pattern of the firmware's seven: the HAL node      *)
(* every tick, a node of a longer period one tick behind, and the debug    *)
(* node, slow and last.  The counter wraps at 16, which the slow period    *)
(* does not divide.  The ring has room for two bytes, one line.            *)
(***************************************************************************)
EXTENDS DebugLink

MCTable == <<[period |-> 1, delay |-> 0], [period |-> 2, delay |-> 1],
             [period |-> 3, delay |-> 1]>>

MCByte == {"sync", "S", "end"}
MCSyncLine == <<"sync">>
MCReports == {<<"S", "end">>}

=============================================================================
