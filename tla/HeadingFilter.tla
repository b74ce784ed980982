---------------------------- MODULE HeadingFilter ----------------------------
(***************************************************************************)
(* From the rate the gyro measures to the heading it counts                *)
(* (DeviceGyro_UpdateStreamData in device_gyro.c): the rate is smoothed,   *)
(* a smoothed rate near zero is set to zero for good, and only a rate      *)
(* above a threshold is counted, from its ActiveCount-th sample on.        *)
(*                                                                         *)
(* Rates are tenths of a degree per second, headings are counted in        *)
(* hundredths of their unit.  A rate is that of the chip after its bias    *)
(* and its raw dead band.                                                  *)
(***************************************************************************)
EXTENDS Integers

CONSTANTS FilterDiv,      \* APP_GYRO_YAW_FILTER_DIV: 4
          Deadband,       \* APP_GYRO_YAW_DEADBAND_DPS10: 3
          IntegrateFrom,  \* APP_GYRO_HEADING_INTEGRATE_DPS10: 8
          ActiveCount     \* APP_GYRO_HEADING_ACTIVE_COUNT: 3

ASSUME FilterAssumption ==
  /\ FilterDiv \in Nat \ {0} /\ Deadband \in Nat /\ ActiveCount \in Nat \ {0}
  /\ IntegrateFrom \in Nat /\ Deadband < IntegrateFrom

Side(n) == IF n > 0 THEN 1 ELSE IF n < 0 THEN -1 ELSE 0
Magnitude(n) == n * Side(n)

\* A division of C, which cuts towards zero.
Quotient(n, d) == Side(n) * (Magnitude(n) \div d)

\* g_runtime.yaw_filter_dps10, which is also what yaw_mdps reports.
Smoothed(filter, rate) ==
  LET next == filter + Quotient(rate - filter, FilterDiv)
  IN  IF Magnitude(next) <= Deadband THEN 0 ELSE next

\* g_runtime.heading_active_count, which is compared with ActiveCount only.
ActiveAfter(active, filter) ==
  IF Magnitude(filter) < IntegrateFrom THEN 0
  ELSE IF active < ActiveCount THEN active + 1 ELSE active

\* Faulty variant: only what exceeds the threshold is counted.
CountedAbove(active, filter) ==
  IF active < ActiveCount THEN 0 ELSE filter - Side(filter) * IntegrateFrom

\* heading_integrate_dps10
Counted(active, filter) == IF active < ActiveCount THEN 0 ELSE filter

=============================================================================
