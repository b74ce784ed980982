---------------------------- MODULE DeviceCenter ----------------------------
(***************************************************************************)
(* The measurements that the upper layers share (device_center.c): the     *)
(* snapshot of the gyro and of the odometer, and their zero.               *)
(*                                                                         *)
(* ResetOdometry zeroes the distance and the heading.  The start of every  *)
(* run that measures a distance calls it (task_service.c), so does KEY1 on *)
(* the Sensor page (menu_app.c), and so does the device tick itself, once, *)
(* when the gyro has locked and AutoZeroTicks have gone by since power-up. *)
(* A run keeps origins in the zeroed frame, so a zero under a run would    *)
(* move its targets.                                                       *)
(*                                                                         *)
(* The environment is the chip on the bus, the noise on it, the way the    *)
(* car moves and the driver's runs.                                        *)
(***************************************************************************)
EXTENDS DeviceGyro

CONSTANTS AutoZeroTicks,  \* g_odom_auto_zero_ms in ticks: 350
          MaxDistance     \* bound of the model: the car stops there

ASSUME CenterAssumption == AutoZeroTicks \in Nat /\ MaxDistance \in Nat

VARIABLES
  chip,       \* the gyro that is fitted
  bus,        \* good: every transfer works; noisy: any of them may fail
  applying,   \* ticks until the chip has applied its configuration
  gyro,       \* g_runtime and g_gyro of device_gyro.c
  imu,        \* g_snapshot: imu_heading_deg10, imu_online, imu_parser_locked
  distance,   \* g_snapshot.chassis_distance_mm
  odomReady,  \* g_odom_ready
  pending,    \* g_odom_auto_zero_pending
  uptime,     \* ticks since power-up, saturating at AutoZeroTicks
  run,        \* the run in progress
  sampled,    \* history: samples since the last time the bias could not be measured
  missed      \* history: ticks since the last sample

history == <<sampled, missed>>
vars == <<chip, bus, applying, gyro, imu, distance, odomReady, pending, uptime, run, history>>

Runs == {"none", "distance", "other"}

Copied(g) == [heading |-> g.heading, online |-> g.online, locked |-> g.locked]

Outcomes == IF bus = "good" THEN {TRUE} ELSE BOOLEAN

-----------------------------------------------------------------------------
\* Faulty variant: the automatic zero stays pending.
ResetOdometryOnly ==
  /\ gyro' = ResetHeading(gyro)
  /\ imu' = [imu EXCEPT !.heading = 0]
  /\ distance' = 0
  /\ UNCHANGED pending

\* DeviceCenter_ResetOdometry, called between two ticks.
ResetOdometry ==
  /\ gyro' = ResetHeading(gyro)
  /\ imu' = [imu EXCEPT !.heading = 0]
  /\ distance' = 0
  /\ pending' = FALSE

\* The condition at the end of the tick, on what the tick has just copied.
AutoZeroDue(g) == pending /\ g.online /\ g.locked /\ uptime' >= AutoZeroTicks

\* What the tick has read, for the history: a miss in the stream costs no sample.
Note(ok, elapsed) ==
  LET reads == IsReady(gyro, elapsed) /\ gyro.state \in {"CALIBRATE", "STREAM"}
      more == IF sampled > SampleCount THEN sampled ELSE sampled + 1
  IN /\ sampled' = CASE reads /\ ok -> more
                     [] reads /\ ~ok /\ gyro.state = "STREAM" -> sampled
                     [] OTHER -> 0
     /\ missed' = IF reads /\ ok THEN 0 ELSE IF missed > MissLimit THEN missed ELSE missed + 1

\* DeviceCenter_Tick10ms: the gyro's tick, the copies, the odometer (whose first tick
\* only takes the wheels' counts) and the automatic zero.  The chip is ready for a
\* check of its status once it has applied the configuration.
Tick10ms ==
  \E ok \in Outcomes, turned \in -1 .. 1, moved \in 0 .. 1, elapsed \in 1 .. RetryTicks :
    LET done == ok /\ (gyro.state = "CHECK_STATUS" => Left(applying, elapsed) = 0)
        g == Ticked(gyro, done, chip, turned, elapsed)
    IN /\ uptime' = IF uptime + elapsed > AutoZeroTicks THEN AutoZeroTicks ELSE uptime + elapsed
       /\ applying' = IF g.state = "CHECK_STATUS" /\ gyro.state = "ENABLE_CFG"
                      THEN ApplyTicks ELSE Left(applying, elapsed)
       /\ odomReady' = TRUE
       /\ distance + moved <= MaxDistance
       /\ IF AutoZeroDue(g)
          THEN gyro' = ResetHeading(g) /\ distance' = 0 /\ pending' = FALSE
          ELSE /\ gyro' = g
               /\ distance' = IF odomReady THEN distance + moved ELSE distance
               /\ UNCHANGED pending
       /\ imu' = Copied(gyro')
       /\ Note(ok, elapsed)
       /\ UNCHANGED <<chip, bus, run>>

-----------------------------------------------------------------------------
\* A run whose first tick zeroes the odometer: straight, arc and distance tests, the
\* route and the four questions.
StartDistanceRun ==
  /\ run = "none"
  /\ run' = "distance"
  /\ ResetOdometry
  /\ UNCHANGED <<chip, bus, applying, odomReady, uptime, history>>

\* The timed modes, the motor tests, the turn tests and the sensor scan.
StartOtherRun ==
  /\ run = "none"
  /\ run' = "other"
  /\ UNCHANGED <<chip, bus, applying, gyro, imu, distance, odomReady, pending, uptime, history>>

EndRun ==
  /\ run # "none"
  /\ run' = "none"
  /\ UNCHANGED <<chip, bus, applying, gyro, imu, distance, odomReady, pending, uptime, history>>

\* KEY1 on the Sensor page, under which no run but its own short scan goes on.
ZeroOnPage ==
  /\ run # "distance"
  /\ ResetOdometry
  /\ UNCHANGED <<chip, bus, applying, odomReady, uptime, run, history>>

BusChanges ==
  /\ bus' \in {"good", "noisy"}
  /\ bus' # bus
  /\ UNCHANGED <<chip, applying, gyro, imu, distance, odomReady, pending, uptime, run, history>>

\* DeviceCenter_Init
Init ==
  /\ chip \in Chips /\ bus \in {"good", "noisy"} /\ applying = 0
  /\ gyro = Powered /\ imu = Copied(Powered)
  /\ distance = 0 /\ odomReady = FALSE /\ pending = TRUE /\ uptime = 0
  /\ run = "none" /\ sampled = 0 /\ missed = 0

Next ==
  \/ Tick10ms
  \/ StartDistanceRun
  \/ StartOtherRun
  \/ EndRun
  \/ ZeroOnPage
  \/ BusChanges

\* The scheduler never stops calling the device tick.
Spec == Init /\ [][Next]_vars /\ WF_vars(Tick10ms)

-----------------------------------------------------------------------------
(* Properties *)

\* The control loops steer by the heading whenever the gyro is online, so a heading of
\* an earlier life of the gyro must be gone before it is online again: outside the
\* stream the heading is zero, through every failure and recovery.
HeadingNeedsLock == ~imu.locked => imu.heading = 0

\* A heading served as locked is never older than two lost samples, however the noise,
\* the retries and the zeroes interleave.
ServedNotStale == imu.locked => missed < MissLimit

\* The gyro counts as locked only after a whole calibration without a failed read and
\* one sample more: no failure in the middle leaves half a bias behind.
LockedAfterCalibration == [][~imu.locked /\ imu'.locked => sampled' > SampleCount]_vars

\* While a run measures distances, the distance and (as long as the gyro stays locked)
\* the heading change only as the car moves: no zero moves the frame under the run,
\* neither the automatic one, whenever the gyro comes up, nor anybody else's.
FrameHolds ==
  [][run = "distance" /\ run' = "distance" =>
       /\ distance' \in {distance, distance + 1}
       /\ imu.locked /\ imu'.locked => imu'.heading - imu.heading \in -1 .. 1]_vars

\* Once the bus works for good, the driver finds its way from any state back to a
\* locked gyro, and the automatic zero is done with.
GyroComesBack == <>[](bus = "good") => <>[](imu.locked /\ ~pending)

=============================================================================
