---------------------------- MODULE HeadingTrail ----------------------------
(***************************************************************************)
(* The heading that the gyro driver counts, sample by sample, and how far  *)
(* it is behind the angle that the car has turned.  The module that        *)
(* extends this one has the car.                                           *)
(***************************************************************************)
EXTENDS HeadingFilter

CONSTANTS MaxSamples  \* bound of the model: samples in a stretch that is looked at

ASSUME TrailAssumption == MaxSamples \in Nat

VARIABLES
  rate,     \* the rate of the car as the chip measures it
  filter,   \* yaw_filter_dps10
  active,   \* heading_active_count, up to ActiveCount
  accum,    \* heading_accum_x100
  owed,     \* history: what the car has turned and the heading has not been counted on,
  entered,  \* the smoothed rate at the beginning
  samples   \* and the samples of a stretch in which samples are counted

gyroVars == <<filter, active, accum, owed, entered, samples>>

TrailInit ==
  /\ rate = 0 /\ filter = 0 /\ active = 0 /\ accum = 0
  /\ owed = 0 /\ entered = 0 /\ samples = 0

\* DeviceGyro_UpdateStreamData
Sample ==
  /\ filter' = Smoothed(filter, rate')
  /\ active' = ActiveAfter(active, filter')
  /\ accum' = accum + Counted(active', filter')
  /\ IF active' = ActiveCount /\ samples < MaxSamples
     THEN /\ owed' = owed + rate' - (accum' - accum)
          /\ samples' = samples + 1
          /\ UNCHANGED entered
     ELSE owed' = 0 /\ samples' = 0 /\ entered' = filter'

\* DeviceGyro_ResetHeading
ResetCount ==
  /\ filter' = 0 /\ active' = 0 /\ accum' = 0
  /\ owed' = 0 /\ entered' = 0 /\ samples' = 0

-----------------------------------------------------------------------------
(* A property *)

\* While it is counted, the heading is behind the car by what the filter delays, FilterDiv - 1
\* samples' worth of the change of its rate, and by less than FilterDiv thousandths of a
\* degree per sample that the division cuts off; whichever way and however fast the car
\* turns (DeviceGyro_UpdateStreamData, the chain from yaw_dps10_raw to heading_accum_x100).
HeadingTrails ==
  Magnitude(owed - (FilterDiv - 1) * (filter - entered)) <= (FilterDiv - 1) * samples

=============================================================================
