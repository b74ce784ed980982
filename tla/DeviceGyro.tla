----------------------------- MODULE DeviceGyro -----------------------------
(***************************************************************************)
(* The gyro driver (device_gyro.c): it probes the bus for one of three     *)
(* chips, configures the one it finds, averages its bias over a rest and   *)
(* then streams, and it goes back to the probe whenever a transfer fails.  *)
(*                                                                         *)
(* The driver is a record, g_runtime and g_gyro together, and every        *)
(* handler of the source an operator on it, so that DeviceCenter can call  *)
(* them one after the other within a tick.  A transfer over the bit-banged *)
(* bus either works or fails as a whole.  Of a sample only the turn it     *)
(* adds to the heading is kept; filters, bias tracking, debug texts and    *)
(* the address, which follows from the chip, are left out.  Time is        *)
(* counted in periods of the tick, of which a late tick passes several.    *)
(***************************************************************************)
EXTENDS Integers

CONSTANTS ChunkCount,   \* chunks of the IMU660RA configuration: 256
          SampleCount,  \* APP_GYRO_CALIBRATE_SAMPLE_COUNT: 128
          RetryTicks,   \* APP_BOARD_GYRO_RETRY_PERIOD_MS in ticks: 20
          ApplyTicks,   \* the 30 ms that the configuration takes to apply
          MaxHeading    \* where the heading saturates

ASSUME GyroAssumption ==
  /\ ChunkCount \in Nat \ {0} /\ SampleCount \in Nat \ {0}
  /\ RetryTicks \in Nat \ {0} /\ ApplyTicks \in Nat /\ MaxHeading \in Nat

Chips == {"IMU660RA", "MPU6050@68", "MPU6050@69"}

MissLimit == 3

\* Where the driver looks for each chip, and what it does when it is not there.
Probed == [PROBE_IMU660RA |-> "IMU660RA", PROBE_MPU6050_68 |-> "MPU6050@68",
           PROBE_MPU6050_69 |-> "MPU6050@69"]

NextProbe == [PROBE_IMU660RA |-> "PROBE_MPU6050_68", PROBE_MPU6050_68 |-> "PROBE_MPU6050_69"]

\* The states that write one register, and the state after each.
AfterWrite == [PWR_CONF |-> "INIT_CTRL", INIT_CTRL |-> "LOAD_CFG", ENABLE_CFG |-> "CHECK_STATUS",
               PWR_CTRL |-> "GYR_CONF", GYR_CONF |-> "GYR_RANGE", GYR_RANGE |-> "CALIBRATE",
               MPU_PWR |-> "MPU_GYRO_CFG", MPU_GYRO_CFG |-> "CALIBRATE"]

States == DOMAIN Probed \union DOMAIN AfterWrite
            \union {"LOAD_CFG", "CHECK_STATUS", "CALIBRATE", "STREAM"}

Gyros == [state : States, sensor : Chips \union {"none"}, offset : 0 .. ChunkCount,
          samples : 0 .. SampleCount, misses : 0 .. MissLimit, wait : 0 .. RetryTicks + ApplyTicks,
          heading : -MaxHeading .. MaxHeading, online : BOOLEAN, locked : BOOLEAN]

-----------------------------------------------------------------------------
\* DeviceGyro_Init
Powered == [state |-> "PROBE_IMU660RA", sensor |-> "none", offset |-> 0, samples |-> 0,
            misses |-> 0, wait |-> 0, heading |-> 0, online |-> FALSE, locked |-> FALSE]

\* Faulty variant: the heading served is not cleared.
SetRetryKeepingHeading(g) == [Powered EXCEPT !.wait = RetryTicks, !.heading = g.heading]

\* DeviceGyro_SetRetry: everything is forgotten.
SetRetry(g) == [Powered EXCEPT !.wait = RetryTicks]

\* DeviceGyro_EnterCalibrate
EnterCalibrate(g) ==
  [g EXCEPT !.state = "CALIBRATE", !.samples = 0, !.misses = 0, !.wait = 0, !.heading = 0,
            !.online = TRUE, !.locked = FALSE]

\* The three probes: chip is the one that answers on the bus.
Probe(g, ok, chip) ==
  IF ok /\ chip = Probed[g.state]
  THEN [g EXCEPT !.sensor = chip,
                 !.state = IF chip = "IMU660RA" THEN "PWR_CONF" ELSE "MPU_PWR"]
  ELSE IF g.state \in DOMAIN NextProbe THEN [g EXCEPT !.state = NextProbe[g.state]]
  ELSE SetRetry(g)

\* Faulty variant: the status is read without waiting for the configuration.
WriteRegisterHasty(g, ok) ==
  IF ~ok THEN SetRetry(g)
  ELSE IF AfterWrite[g.state] = "CALIBRATE" THEN EnterCalibrate(g)
  ELSE [g EXCEPT !.state = AfterWrite[g.state]]

WriteRegister(g, ok) ==
  IF ~ok THEN SetRetry(g)
  ELSE IF AfterWrite[g.state] = "CALIBRATE" THEN EnterCalibrate(g)
  ELSE [g EXCEPT !.state = AfterWrite[g.state],
                 !.offset = IF g.state = "INIT_CTRL" THEN 0 ELSE @,
                 !.wait = IF g.state = "ENABLE_CFG" THEN ApplyTicks ELSE @]

\* DeviceGyro_LoadImu660raConfigChunk and the case around it.
LoadConfigChunk(g, ok) ==
  IF ~ok THEN SetRetry(g)
  ELSE [g EXCEPT !.offset = @ + 1,
                 !.state = IF g.offset + 1 >= ChunkCount THEN "ENABLE_CFG" ELSE @]

\* ok: the status could be read and says that the chip is ready.
CheckStatus(g, ok) == IF ok THEN [g EXCEPT !.state = "PWR_CTRL"] ELSE SetRetry(g)

\* Faulty variant: a sample that cannot be read is left out.
HandleCalibrateLenient(g, ok) ==
  IF ~ok THEN g
  ELSE IF g.samples + 1 >= SampleCount
       THEN [g EXCEPT !.samples = @ + 1, !.state = "STREAM", !.heading = 0]
       ELSE [g EXCEPT !.samples = @ + 1]

\* DeviceGyro_HandleCalibrate
HandleCalibrate(g, ok) ==
  IF ~ok THEN SetRetry(g)
  ELSE IF g.samples + 1 >= SampleCount
       THEN [g EXCEPT !.samples = @ + 1, !.state = "STREAM", !.heading = 0]
       ELSE [g EXCEPT !.samples = @ + 1]

Saturated(x) ==
  IF x > MaxHeading THEN MaxHeading ELSE IF x < -MaxHeading THEN -MaxHeading ELSE x

\* Faulty variant: one miss too many is tolerated.
HandleStreamPatient(g, ok, turned) ==
  IF ok THEN [g EXCEPT !.misses = 0, !.heading = Saturated(@ + turned),
                       !.online = TRUE, !.locked = TRUE]
  ELSE IF g.misses + 1 > MissLimit THEN SetRetry(g)
  ELSE [g EXCEPT !.misses = @ + 1]

\* DeviceGyro_HandleStream, with DeviceGyro_UpdateStreamData.
HandleStream(g, ok, turned) ==
  IF ok THEN [g EXCEPT !.misses = 0, !.heading = Saturated(@ + turned),
                       !.online = TRUE, !.locked = TRUE]
  ELSE IF g.misses + 1 >= MissLimit THEN SetRetry(g)
  ELSE [g EXCEPT !.misses = @ + 1]

\* The switch of DeviceGyro_Tick10ms.
Handle(g, ok, chip, turned) ==
  CASE g.state \in DOMAIN Probed -> Probe(g, ok, chip)
    [] g.state \in DOMAIN AfterWrite -> WriteRegister(g, ok)
    [] g.state = "LOAD_CFG" -> LoadConfigChunk(g, ok)
    [] g.state = "CHECK_STATUS" -> CheckStatus(g, ok)
    [] g.state = "CALIBRATE" -> HandleCalibrate(g, ok)
    [] g.state = "STREAM" -> HandleStream(g, ok, turned)

\* What is left of wait after the time since the last tick.
Left(n, elapsed) == IF n > elapsed THEN n - elapsed ELSE 0

\* DeviceGyro_IsReady
IsReady(g, elapsed) == Left(g.wait, elapsed) = 0

\* DeviceGyro_Tick10ms
Ticked(g, ok, chip, turned, elapsed) ==
  IF IsReady(g, elapsed) THEN Handle([g EXCEPT !.wait = 0], ok, chip, turned)
  ELSE [g EXCEPT !.wait = Left(@, elapsed)]

\* DeviceGyro_ResetHeading
ResetHeading(g) == [g EXCEPT !.heading = 0]

=============================================================================
