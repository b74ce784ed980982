--------------------------- MODULE MCDeviceCenter ---------------------------
(***************************************************************************)
(* A configuration of two chunks, a calibration of two samples and an      *)
(* automatic zero that may come before, during or after the first lock.    *)
(***************************************************************************)
EXTENDS DeviceCenter

=============================================================================
