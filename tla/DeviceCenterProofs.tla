--------------------------- MODULE DeviceCenterProofs ---------------------------
(***************************************************************************)
(* Theorems about the shared measurements, for any number of chunks and    *)
(* samples, any waits and any time of the automatic zero.                  *)
(***************************************************************************)
EXTENDS DeviceCenter, TLAPS

\* What holds of the driver's record between two ticks: its flags follow its state, a
\* heading needs a lock, and no counter is at its limit while it still counts.
GyroInv(g, c) ==
  /\ g \in Gyros
  /\ g.online <=> g.state \in {"CALIBRATE", "STREAM"}
  /\ g.locked => g.state = "STREAM"
  /\ g.sensor \in {"none", c}
  /\ g.sensor = "none" <=> g.state \in DOMAIN Probed
  /\ ~g.locked => g.heading = 0
  /\ g.online => g.wait = 0
  /\ g.misses < MissLimit
  /\ g.state = "LOAD_CFG" => g.offset < ChunkCount
  /\ g.state = "CALIBRATE" => g.samples < SampleCount

\* What the histories say of the record, and that a run that measures a distance has
\* done with the automatic zero.
HistoryInv ==
  /\ sampled \in 0 .. SampleCount + 1 /\ missed \in 0 .. MissLimit + 1
  /\ gyro.state = "CALIBRATE" => sampled >= gyro.samples
  /\ gyro.state = "STREAM" => sampled >= SampleCount
  /\ gyro.locked => missed = gyro.misses
  /\ run = "distance" => ~pending

\* The rest of the type invariant.
FrameInv ==
  /\ chip \in Chips /\ bus \in {"good", "noisy"} /\ applying \in 0 .. ApplyTicks
  /\ imu = Copied(gyro)
  /\ distance \in 0 .. MaxDistance /\ odomReady \in BOOLEAN /\ pending \in BOOLEAN
  /\ uptime \in 0 .. AutoZeroTicks /\ run \in Runs

CenterInv == GyroInv(gyro, chip) /\ HistoryInv /\ FrameInv

-----------------------------------------------------------------------------
(* The driver's operators *)

\* The tables of the driver, spelt out.
LEMMA Tables ==
  /\ DOMAIN Probed = {"PROBE_IMU660RA", "PROBE_MPU6050_68", "PROBE_MPU6050_69"}
  /\ DOMAIN NextProbe = {"PROBE_IMU660RA", "PROBE_MPU6050_68"}
  /\ \A s \in DOMAIN NextProbe : NextProbe[s] \in DOMAIN Probed
  /\ DOMAIN AfterWrite = {"PWR_CONF", "INIT_CTRL", "ENABLE_CFG", "PWR_CTRL", "GYR_CONF",
                          "GYR_RANGE", "MPU_PWR", "MPU_GYRO_CFG"}
  /\ \A s \in DOMAIN AfterWrite :
       /\ AfterWrite[s] \in {"INIT_CTRL", "LOAD_CFG", "CHECK_STATUS", "GYR_CONF",
                             "GYR_RANGE", "MPU_GYRO_CFG", "CALIBRATE"}
       /\ AfterWrite[s] = "LOAD_CFG" => s = "INIT_CTRL"
  BY DEF Probed, NextProbe, AfterWrite

\* The states, spelt out.
LEMMA StateNames ==
  States = {"PROBE_IMU660RA", "PROBE_MPU6050_68", "PROBE_MPU6050_69",
            "PWR_CONF", "INIT_CTRL", "ENABLE_CFG", "PWR_CTRL", "GYR_CONF", "GYR_RANGE",
            "MPU_PWR", "MPU_GYRO_CFG", "LOAD_CFG", "CHECK_STATUS", "CALIBRATE", "STREAM"}
  BY Tables DEF States

\* The record at power-up is sound.
LEMMA PoweredIsSound == ASSUME NEW c PROVE GyroInv(Powered, c)
<1>1. Powered \in Gyros
  BY GyroAssumption, StateNames DEF Powered, Gyros, MissLimit
<1>2. QED BY <1>1, Tables DEF Powered, GyroInv, MissLimit

\* Everything forgotten is a sound record.
LEMMA RetryKeeps == ASSUME NEW g, NEW c PROVE GyroInv(SetRetry(g), c)
<1> DEFINE r == SetRetry(g)
<1>1. GyroInv(Powered, c) /\ ~Powered.online
  BY PoweredIsSound DEF Powered
<1>2. r = [Powered EXCEPT !.wait = RetryTicks]
  BY DEF SetRetry
<1>3. RetryTicks \in 0 .. RetryTicks + ApplyTicks
  BY GyroAssumption
<1> HIDE DEF r
<1>4. /\ r \in Gyros
      /\ r.state = Powered.state /\ r.sensor = Powered.sensor /\ r.offset = Powered.offset
      /\ r.samples = Powered.samples /\ r.misses = Powered.misses
      /\ r.heading = Powered.heading /\ r.online = Powered.online
      /\ r.locked = Powered.locked
  BY <1>1, <1>2, <1>3 DEF GyroInv, Gyros
<1>5. GyroInv(r, c)
  BY <1>1, <1>4 DEF GyroInv
<1>6. QED BY <1>5 DEF r

\* So is one that has just entered the calibration.
LEMMA EnterKeeps ==
  ASSUME NEW c, NEW g, GyroInv(g, c), g.sensor # "none"
  PROVE  GyroInv(EnterCalibrate(g), c)
<1> DEFINE r == EnterCalibrate(g)
<1>1. g \in Gyros
  BY DEF GyroInv
<1>2. "CALIBRATE" \in States /\ 0 \in 0 .. SampleCount /\ 0 \in 0 .. MissLimit
      /\ 0 \in 0 .. RetryTicks + ApplyTicks /\ 0 \in -MaxHeading .. MaxHeading
  BY GyroAssumption, StateNames DEF MissLimit
<1>3. r \in Gyros
  BY <1>1, <1>2 DEF EnterCalibrate, Gyros
<1>4. /\ r.state = "CALIBRATE" /\ r.sensor = g.sensor /\ r.samples = 0 /\ r.misses = 0
      /\ r.wait = 0 /\ r.heading = 0 /\ r.online = TRUE /\ r.locked = FALSE
  BY <1>1 DEF EnterCalibrate, Gyros
<1> HIDE DEF r
<1>5. GyroInv(r, c)
  BY <1>3, <1>4, GyroAssumption, Tables DEF GyroInv, MissLimit
<1>6. QED BY <1>5 DEF r

\* A saturated heading is in range, and no further from the old one than the turn.
LEMMA SaturatedHeading ==
  \A h \in -MaxHeading .. MaxHeading, turned \in -1 .. 1 :
    /\ Saturated(h + turned) \in -MaxHeading .. MaxHeading
    /\ Saturated(h + turned) - h \in -1 .. 1
  BY GyroAssumption DEF Saturated

\* A register written takes the driver on to the next of its list.
LEMMA WriteKeeps ==
  ASSUME NEW c, NEW g, GyroInv(g, c), g.state \in DOMAIN AfterWrite,
         AfterWrite[g.state] # "CALIBRATE"
  PROVE  GyroInv([g EXCEPT !.state = AfterWrite[g.state],
                           !.offset = IF g.state = "INIT_CTRL" THEN 0 ELSE @,
                           !.wait = IF g.state = "ENABLE_CFG" THEN ApplyTicks ELSE @], c)
<1> DEFINE s == AfterWrite[g.state]
           o == IF g.state = "INIT_CTRL" THEN 0 ELSE g.offset
           t == IF g.state = "ENABLE_CFG" THEN ApplyTicks ELSE g.wait
           r == [g EXCEPT !.state = s, !.offset = o, !.wait = t]
<1>1. g \in Gyros
  BY DEF GyroInv
<1>2. /\ s \in States \ DOMAIN Probed /\ s \notin {"CALIBRATE", "STREAM"}
      /\ s = "LOAD_CFG" => o = 0
  BY Tables, StateNames
<1>3. o \in 0 .. ChunkCount /\ t \in 0 .. RetryTicks + ApplyTicks
  BY <1>1, GyroAssumption DEF Gyros
<1> HIDE DEF s, o, t
<1>4. r \in Gyros
  BY <1>1, <1>2, <1>3 DEF Gyros
<1>5. /\ r.state = s /\ r.offset = o
      /\ r.sensor = g.sensor /\ r.samples = g.samples /\ r.misses = g.misses
      /\ r.heading = g.heading /\ r.online = g.online /\ r.locked = g.locked
  BY <1>1 DEF Gyros
<1> HIDE DEF r
<1>6. GyroInv(r, c)
  BY <1>2, <1>4, <1>5, GyroAssumption, Tables DEF GyroInv
<1>7. QED BY <1>6 DEF r, s, o, t

\* A chunk loaded is counted.
LEMMA ChunkKeeps ==
  ASSUME NEW c, NEW g, GyroInv(g, c), g.state = "LOAD_CFG"
  PROVE  GyroInv([g EXCEPT !.offset = @ + 1,
                           !.state = IF g.offset + 1 >= ChunkCount THEN "ENABLE_CFG" ELSE @], c)
<1> DEFINE s == IF g.offset + 1 >= ChunkCount THEN "ENABLE_CFG" ELSE g.state
           o == g.offset + 1
           r == [g EXCEPT !.offset = o, !.state = s]
<1>1. g \in Gyros /\ g.offset \in 0 .. ChunkCount /\ g.offset < ChunkCount
  BY DEF GyroInv, Gyros
<1>2. /\ s \in States \ DOMAIN Probed /\ s \notin {"CALIBRATE", "STREAM"}
      /\ s = "LOAD_CFG" => o < ChunkCount
      /\ o \in 0 .. ChunkCount
  BY <1>1, GyroAssumption, Tables, StateNames
<1> HIDE DEF s, o
<1>3. r \in Gyros
  BY <1>1, <1>2 DEF Gyros
<1>4. /\ r.state = s /\ r.offset = o
      /\ r.sensor = g.sensor /\ r.samples = g.samples /\ r.misses = g.misses
      /\ r.heading = g.heading /\ r.online = g.online /\ r.locked = g.locked
  BY <1>1 DEF Gyros
<1> HIDE DEF r
<1>5. GyroInv(r, c)
  BY <1>2, <1>3, <1>4, Tables DEF GyroInv
<1>6. QED BY <1>5 DEF r, s, o

\* A sample summed up is counted, and the last one begins the stream.
LEMMA SampleKeeps ==
  ASSUME NEW c, NEW g, GyroInv(g, c), g.state = "CALIBRATE"
  PROVE  GyroInv(IF g.samples + 1 >= SampleCount
                 THEN [g EXCEPT !.samples = @ + 1, !.state = "STREAM", !.heading = 0]
                 ELSE [g EXCEPT !.samples = @ + 1], c)
<1> DEFINE n == g.samples + 1
           s == [g EXCEPT !.samples = n, !.state = "STREAM", !.heading = 0]
           r == [g EXCEPT !.samples = n]
<1>1. g \in Gyros /\ g.samples \in 0 .. SampleCount /\ g.samples < SampleCount
  BY DEF GyroInv, Gyros
<1>2. n \in 0 .. SampleCount /\ "STREAM" \in States /\ 0 \in -MaxHeading .. MaxHeading
  BY <1>1, GyroAssumption, StateNames
<1> HIDE DEF n
<1>3. s \in Gyros /\ r \in Gyros
  BY <1>1, <1>2 DEF Gyros
<1>4. /\ s.state = "STREAM" /\ s.heading = 0 /\ s.wait = g.wait
      /\ s.sensor = g.sensor /\ s.samples = n /\ s.misses = g.misses
      /\ s.online = g.online /\ s.locked = g.locked
  BY <1>1 DEF Gyros
<1>5. /\ r.state = g.state /\ r.heading = g.heading /\ r.wait = g.wait
      /\ r.sensor = g.sensor /\ r.samples = n /\ r.misses = g.misses
      /\ r.online = g.online /\ r.locked = g.locked
  BY <1>1 DEF Gyros
<1> HIDE DEF s, r
<1>6. n >= SampleCount => GyroInv(s, c)
  BY <1>3, <1>4, Tables DEF GyroInv
<1>7. ~(n >= SampleCount) => GyroInv(r, c)
  BY <1>2, <1>3, <1>5, GyroAssumption, Tables DEF GyroInv
<1>8. QED BY <1>6, <1>7 DEF s, r, n

\* A sample of the stream turns the heading and locks the gyro.
LEMMA TurnKeeps ==
  ASSUME NEW c, NEW g, GyroInv(g, c), g.state = "STREAM",
         NEW heading \in -MaxHeading .. MaxHeading
  PROVE  GyroInv([g EXCEPT !.misses = 0, !.heading = heading,
                           !.online = TRUE, !.locked = TRUE], c)
<1> DEFINE r == [g EXCEPT !.misses = 0, !.heading = heading, !.online = TRUE, !.locked = TRUE]
<1>1. g \in Gyros
  BY DEF GyroInv
<1>2. 0 \in 0 .. MissLimit
  BY DEF MissLimit
<1>3. r \in Gyros
  BY <1>1, <1>2 DEF Gyros
<1>4. /\ r.state = "STREAM" /\ r.misses = 0 /\ r.online = TRUE /\ r.locked = TRUE
      /\ r.sensor = g.sensor /\ r.wait = g.wait
  BY <1>1 DEF Gyros
<1> HIDE DEF r
<1>5. GyroInv(r, c)
  BY <1>3, <1>4, Tables DEF GyroInv, MissLimit
<1>6. QED BY <1>5 DEF r

\* Every handler leaves a sound record.
LEMMA HandleKeeps ==
  ASSUME NEW c \in Chips, NEW g, GyroInv(g, c), g.wait = 0,
         NEW ok \in BOOLEAN, NEW turned \in -1 .. 1
  PROVE  GyroInv(Handle(g, ok, c, turned), c)
<1>1. g.state \in States
  BY DEF GyroInv, Gyros
<1>2. CASE g.state \in DOMAIN Probed
  <2>1. Handle(g, ok, c, turned) = Probe(g, ok, c)
    BY <1>2, Tables DEF Handle
  <2>2. GyroInv(Probe(g, ok, c), c)
    <3>1. CASE ok /\ c = Probed[g.state]
      BY <1>2, <3>1, Tables, StateNames DEF Probe, GyroInv, Gyros, Chips
    <3>2. CASE ~(ok /\ c = Probed[g.state]) /\ g.state \in DOMAIN NextProbe
      BY <1>2, <3>2, Tables, StateNames DEF Probe, GyroInv, Gyros
    <3>3. CASE ~(ok /\ c = Probed[g.state]) /\ g.state \notin DOMAIN NextProbe
      BY <3>3, RetryKeeps DEF Probe
    <3>4. QED BY <3>1, <3>2, <3>3
  <2>3. QED BY <2>1, <2>2
<1>3. CASE g.state \in DOMAIN AfterWrite
  <2>1. Handle(g, ok, c, turned) = WriteRegister(g, ok)
    BY <1>3, Tables DEF Handle
  <2>2. g.sensor # "none"
    BY <1>3, Tables DEF GyroInv
  <2>3. GyroInv(WriteRegister(g, ok), c)
    <3>1. CASE ~ok
      BY <3>1, RetryKeeps DEF WriteRegister
    <3>2. CASE ok /\ AfterWrite[g.state] = "CALIBRATE"
      BY <2>2, <3>2, EnterKeeps DEF WriteRegister
    <3>3. CASE ok /\ AfterWrite[g.state] # "CALIBRATE"
      BY <1>3, <2>2, <3>3, WriteKeeps DEF WriteRegister
    <3>4. QED BY <3>1, <3>2, <3>3
  <2>4. QED BY <2>1, <2>3
<1>4. CASE g.state = "LOAD_CFG"
  <2>1. Handle(g, ok, c, turned) = LoadConfigChunk(g, ok)
    BY <1>4, Tables DEF Handle
  <2>2. GyroInv(LoadConfigChunk(g, ok), c)
    BY <1>4, RetryKeeps, ChunkKeeps DEF LoadConfigChunk
  <2>3. QED BY <2>1, <2>2
<1>5. CASE g.state = "CHECK_STATUS"
  <2>1. Handle(g, ok, c, turned) = CheckStatus(g, ok)
    BY <1>5, Tables DEF Handle
  <2>2. GyroInv(CheckStatus(g, ok), c)
    BY <1>5, RetryKeeps, Tables, StateNames DEF CheckStatus, GyroInv, Gyros
  <2>3. QED BY <2>1, <2>2
<1>6. CASE g.state = "CALIBRATE"
  <2>1. Handle(g, ok, c, turned) = HandleCalibrate(g, ok)
    BY <1>6, Tables DEF Handle
  <2>2. GyroInv(HandleCalibrate(g, ok), c)
    BY <1>6, RetryKeeps, SampleKeeps DEF HandleCalibrate
  <2>3. QED BY <2>1, <2>2
<1>7. CASE g.state = "STREAM"
  <2>1. Handle(g, ok, c, turned) = HandleStream(g, ok, turned)
    BY <1>7, Tables DEF Handle
  <2>2. Saturated(g.heading + turned) \in -MaxHeading .. MaxHeading
    BY SaturatedHeading DEF GyroInv, Gyros
  <2>3. GyroInv(HandleStream(g, ok, turned), c)
    <3>1. CASE ok
      BY <1>7, <2>2, <3>1, TurnKeeps DEF HandleStream
    <3>2. CASE ~ok /\ g.misses + 1 >= MissLimit
      BY <3>2, RetryKeeps DEF HandleStream
    <3>3. CASE ~ok /\ g.misses + 1 < MissLimit
      BY <1>7, <3>3, StateNames, Tables DEF HandleStream, GyroInv, Gyros, MissLimit
    <3>4. g.misses \in Int
      BY DEF GyroInv, Gyros
    <3>5. QED BY <3>1, <3>2, <3>3, <3>4 DEF MissLimit
  <2>4. QED BY <2>1, <2>3
<1>8. QED BY <1>1, <1>2, <1>3, <1>4, <1>5, <1>6, <1>7, Tables, StateNames

\* A tick of the driver leaves a sound record, whether it waits or handles its state.
LEMMA TickedKeeps ==
  ASSUME NEW c \in Chips, NEW g, GyroInv(g, c),
         NEW ok \in BOOLEAN, NEW turned \in -1 .. 1, NEW elapsed \in 1 .. RetryTicks
  PROVE  GyroInv(Ticked(g, ok, c, turned, elapsed), c)
<1>1. g \in Gyros /\ g.wait \in 0 .. RetryTicks + ApplyTicks
  BY DEF GyroInv, Gyros
<1>2. ASSUME NEW w \in 0 .. RetryTicks + ApplyTicks, g.online => w = 0
      PROVE  GyroInv([g EXCEPT !.wait = w], c)
  <2> DEFINE r == [g EXCEPT !.wait = w]
  <2>1. r \in Gyros
    BY <1>1 DEF Gyros
  <2>2. /\ r.state = g.state /\ r.sensor = g.sensor /\ r.offset = g.offset
        /\ r.samples = g.samples /\ r.misses = g.misses /\ r.heading = g.heading
        /\ r.online = g.online /\ r.locked = g.locked /\ r.wait = w
    BY <1>1 DEF Gyros
  <2> HIDE DEF r
  <2>3. GyroInv(r, c)
    BY <1>2, <2>1, <2>2 DEF GyroInv
  <2>4. QED BY <2>3 DEF r
<1>3. CASE IsReady(g, elapsed)
  <2>1. GyroInv([g EXCEPT !.wait = 0], c) /\ [g EXCEPT !.wait = 0].wait = 0
    BY <1>1, <1>2, GyroAssumption DEF Gyros
  <2>2. QED BY <1>3, <2>1, HandleKeeps DEF Ticked
<1>4. CASE ~IsReady(g, elapsed)
  <2>1. Left(g.wait, elapsed) \in 0 .. RetryTicks + ApplyTicks
    BY <1>1, GyroAssumption DEF Left
  <2>2. g.online => Left(g.wait, elapsed) = 0
    BY GyroAssumption DEF GyroInv, Left
  <2>3. GyroInv([g EXCEPT !.wait = Left(g.wait, elapsed)], c)
    BY <1>2, <2>1, <2>2
  <2>4. QED BY <1>4, <2>3 DEF Ticked
<1>5. QED BY <1>3, <1>4

\* Zeroing the heading leaves a sound record.
LEMMA ResetKeeps ==
  ASSUME NEW c, NEW g, GyroInv(g, c)
  PROVE  /\ GyroInv(ResetHeading(g), c)
         /\ ResetHeading(g).state = g.state /\ ResetHeading(g).samples = g.samples
         /\ ResetHeading(g).misses = g.misses /\ ResetHeading(g).locked = g.locked
<1> DEFINE r == ResetHeading(g)
<1>1. g \in Gyros /\ 0 \in -MaxHeading .. MaxHeading
  BY GyroAssumption DEF GyroInv
<1>2. r \in Gyros
  BY <1>1 DEF ResetHeading, Gyros
<1>3. /\ r.state = g.state /\ r.sensor = g.sensor /\ r.offset = g.offset
      /\ r.samples = g.samples /\ r.misses = g.misses /\ r.heading = 0
      /\ r.online = g.online /\ r.locked = g.locked /\ r.wait = g.wait
  BY <1>1 DEF ResetHeading, Gyros
<1> HIDE DEF r
<1>4. GyroInv(r, c)
  BY <1>2, <1>3 DEF GyroInv
<1>5. QED BY <1>3, <1>4 DEF r

\* What a tick does to a driver that calibrates or streams: it is ready, and handles that.
LEMMA TickedOnline ==
  ASSUME NEW c, NEW g, GyroInv(g, c), g.online,
         NEW ok, NEW turned, NEW elapsed \in 1 .. RetryTicks
  PROVE  /\ IsReady(g, elapsed)
         /\ g.state = "CALIBRATE" =>
              Ticked(g, ok, c, turned, elapsed) = HandleCalibrate(g, ok)
         /\ g.state = "STREAM" =>
              Ticked(g, ok, c, turned, elapsed) = HandleStream(g, ok, turned)
<1>1. g \in Gyros /\ g.wait = 0
  BY DEF GyroInv
<1>2. IsReady(g, elapsed)
  BY <1>1, GyroAssumption DEF IsReady, Left
<1>3. [g EXCEPT !.wait = 0] = g
  BY <1>1 DEF Gyros
<1>4. Ticked(g, ok, c, turned, elapsed) = Handle(g, ok, c, turned)
  BY <1>2, <1>3 DEF Ticked
<1>5. QED BY <1>2, <1>4, Tables DEF Handle

\* A driver that is not online only gets as far as the begin of the calibration.
LEMMA TickedOffline ==
  ASSUME NEW c \in Chips, NEW g, GyroInv(g, c), ~g.online,
         NEW ok \in BOOLEAN, NEW turned \in -1 .. 1, NEW elapsed \in 1 .. RetryTicks
  PROVE  LET h == Ticked(g, ok, c, turned, elapsed)
         IN  ~h.locked /\ h.state # "STREAM" /\ (h.state = "CALIBRATE" => h.samples = 0)
<1> DEFINE z == [g EXCEPT !.wait = 0]
           h == Ticked(g, ok, c, turned, elapsed)
<1>1. g \in Gyros /\ ~g.locked /\ g.state \in States \ {"CALIBRATE", "STREAM"}
  BY DEF GyroInv, Gyros
<1>2. z \in Gyros /\ z.state = g.state /\ ~z.locked
  BY <1>1, GyroAssumption DEF Gyros
<1>3. CASE ~IsReady(g, elapsed)
  BY <1>1, <1>3 DEF Ticked, Gyros
<1>4. CASE IsReady(g, elapsed)
  <2>1. h = Handle(z, ok, c, turned)
    BY <1>4 DEF Ticked
  <2> SUFFICES ~h.locked /\ h.state # "STREAM" /\ (h.state = "CALIBRATE" => h.samples = 0)
    OBVIOUS
  <2> HIDE DEF z, h
  <2>2. SetRetry(z).state = "PROBE_IMU660RA" /\ ~SetRetry(z).locked
    BY DEF SetRetry, Powered
  <2>3. CASE z.state \in DOMAIN Probed
    <3>1. h = Probe(z, ok, c)
      BY <2>1, <2>3, Tables DEF Handle
    <3>2. ~h.locked /\ h.state \notin {"CALIBRATE", "STREAM"}
      BY <1>2, <2>2, <2>3, <3>1, Tables DEF Probe, Gyros
    <3>3. QED BY <3>2
  <2>4. CASE z.state \in DOMAIN AfterWrite
    <3>1. h = WriteRegister(z, ok)
      BY <2>1, <2>4, Tables DEF Handle
    <3>2. CASE ok /\ AfterWrite[z.state] = "CALIBRATE"
      BY <1>2, <3>1, <3>2 DEF WriteRegister, EnterCalibrate, Gyros
    <3>3. CASE ~(ok /\ AfterWrite[z.state] = "CALIBRATE")
      <4>1. ~h.locked /\ h.state \notin {"CALIBRATE", "STREAM"}
        BY <1>2, <2>2, <2>4, <3>1, <3>3, Tables DEF WriteRegister, Gyros
      <4>2. QED BY <4>1
    <3>4. QED BY <3>2, <3>3
  <2>5. CASE z.state = "LOAD_CFG"
    <3>1. h = LoadConfigChunk(z, ok)
      BY <2>1, <2>5, Tables DEF Handle
    <3>2. ~h.locked /\ h.state \notin {"CALIBRATE", "STREAM"}
      BY <1>2, <2>2, <2>5, <3>1 DEF LoadConfigChunk, Gyros
    <3>3. QED BY <3>2
  <2>6. CASE z.state = "CHECK_STATUS"
    <3>1. h = CheckStatus(z, ok)
      BY <2>1, <2>6, Tables DEF Handle
    <3>2. ~h.locked /\ h.state \notin {"CALIBRATE", "STREAM"}
      BY <1>2, <2>2, <2>6, <3>1 DEF CheckStatus, Gyros
    <3>3. QED BY <3>2
  <2>7. QED BY <1>1, <1>2, <2>3, <2>4, <2>5, <2>6, Tables, StateNames
<1>5. QED BY <1>3, <1>4

-----------------------------------------------------------------------------
(* The invariant *)

\* The histories after a tick agree with the record after it: while the driver calibrates
\* every tick read a sample, once it is locked every miss has been counted, and a tick of
\* a locked gyro that stays locked adds at most one turn to the heading.
LEMMA TickHistory ==
  ASSUME GyroInv(gyro, chip), HistoryInv, chip \in Chips,
         NEW ok \in BOOLEAN, NEW done \in BOOLEAN, gyro.online => done = ok,
         NEW turned \in -1 .. 1, NEW elapsed \in 1 .. RetryTicks,
         Note(ok, elapsed)
  PROVE  LET h == Ticked(gyro, done, chip, turned, elapsed)
         IN  /\ sampled' \in 0 .. SampleCount + 1 /\ missed' \in 0 .. MissLimit + 1
             /\ h.state = "CALIBRATE" => sampled' >= h.samples
             /\ h.state = "STREAM" => sampled' >= SampleCount
             /\ h.locked => missed' = h.misses
             /\ ~gyro.locked /\ h.locked => sampled' > SampleCount
             /\ gyro.locked /\ h.locked => h.heading - gyro.heading \in -1 .. 1
<1> DEFINE h == Ticked(gyro, done, chip, turned, elapsed)
<1> SUFFICES /\ sampled' \in 0 .. SampleCount + 1 /\ missed' \in 0 .. MissLimit + 1
             /\ h.state = "CALIBRATE" => sampled' >= h.samples
             /\ h.state = "STREAM" => sampled' >= SampleCount
             /\ h.locked => missed' = h.misses
             /\ ~gyro.locked /\ h.locked => sampled' > SampleCount
             /\ gyro.locked /\ h.locked => h.heading - gyro.heading \in -1 .. 1
  OBVIOUS
<1>1. /\ gyro \in Gyros /\ gyro.samples \in 0 .. SampleCount /\ gyro.misses \in 0 .. MissLimit
      /\ gyro.heading \in -MaxHeading .. MaxHeading
  BY DEF GyroInv, Gyros
<1>2. sampled' \in 0 .. SampleCount + 1 /\ missed' \in 0 .. MissLimit + 1
  BY GyroAssumption DEF Note, HistoryInv, MissLimit
<1>3. CASE ~gyro.online
  <2>1. ~h.locked /\ h.state # "STREAM" /\ (h.state = "CALIBRATE" => h.samples = 0)
    BY <1>3, TickedOffline
  <2> HIDE DEF h
  <2>2. QED BY <1>2, <2>1
<1>4. CASE gyro.state = "CALIBRATE"
  <2>1. gyro.online /\ ~gyro.locked
    BY <1>4 DEF GyroInv
  <2>2. IsReady(gyro, elapsed) /\ h = HandleCalibrate(gyro, ok)
    BY <1>4, <2>1, TickedOnline
  <2> HIDE DEF h
  <2>3. CASE ~ok
    <3>1. h.state = "PROBE_IMU660RA" /\ ~h.locked
      BY <2>2, <2>3 DEF HandleCalibrate, SetRetry, Powered
    <3>2. QED BY <1>2, <3>1
  <2>4. CASE ok
    <3>1. sampled' = IF sampled > SampleCount THEN sampled ELSE sampled + 1
      BY <1>4, <2>2, <2>4 DEF Note
    <3>2. sampled' >= gyro.samples + 1
      BY <1>1, <1>4, <3>1, GyroAssumption DEF HistoryInv
    <3>3. ~h.locked /\ h.samples = gyro.samples + 1
          /\ (h.state = "STREAM" => gyro.samples + 1 >= SampleCount)
      BY <1>1, <1>4, <2>1, <2>2, <2>4 DEF HandleCalibrate, Gyros
    <3>4. QED BY <1>1, <1>2, <3>2, <3>3, GyroAssumption
  <2>5. QED BY <2>3, <2>4
<1>5. CASE gyro.state = "STREAM"
  <2>1. gyro.online
    BY <1>5 DEF GyroInv
  <2>2. IsReady(gyro, elapsed) /\ h = HandleStream(gyro, ok, turned)
    BY <1>5, <2>1, TickedOnline
  <2> HIDE DEF h
  <2>3. CASE ok
    <3>1. missed' = 0 /\ sampled' = IF sampled > SampleCount THEN sampled ELSE sampled + 1
      BY <1>5, <2>2, <2>3 DEF Note
    <3>2. sampled' > SampleCount
      BY <1>5, <3>1, GyroAssumption DEF HistoryInv
    <3>3. /\ h.state = "STREAM" /\ h.misses = 0
          /\ h.heading = Saturated(gyro.heading + turned)
      BY <1>1, <1>5, <2>2, <2>3 DEF HandleStream, Gyros
    <3>4. h.heading - gyro.heading \in -1 .. 1
      BY <1>1, <3>3, SaturatedHeading
    <3>5. QED BY <1>2, <3>1, <3>2, <3>3, <3>4, GyroAssumption
  <2>4. CASE ~ok
    <3>1. sampled' = sampled /\ missed' = IF missed > MissLimit THEN missed ELSE missed + 1
      BY <1>5, <2>2, <2>4 DEF Note
    <3>2. CASE gyro.misses + 1 >= MissLimit
      <4>1. h.state = "PROBE_IMU660RA" /\ ~h.locked
        BY <2>2, <2>4, <3>2 DEF HandleStream, SetRetry, Powered
      <4>2. QED BY <1>2, <4>1
    <3>3. CASE ~(gyro.misses + 1 >= MissLimit)
      <4>1. h.state = "STREAM" /\ h.misses = gyro.misses + 1
            /\ h.locked = gyro.locked /\ h.heading = gyro.heading
        BY <1>1, <1>5, <2>2, <2>4, <3>3 DEF HandleStream, Gyros
      <4>2. QED BY <1>1, <1>2, <1>5, <3>1, <3>3, <4>1 DEF HistoryInv, MissLimit
    <3>4. QED BY <3>2, <3>3
  <2>5. QED BY <2>3, <2>4
<1>6. QED BY <1>3, <1>4, <1>5 DEF GyroInv

\* The power-up states satisfy the invariant.
LEMMA CenterInitInv == Init => CenterInv
<1> SUFFICES ASSUME Init PROVE CenterInv
  OBVIOUS
<1>1. GyroInv(gyro, chip)
  BY PoweredIsSound DEF Init
<1>2. HistoryInv
  BY GyroAssumption DEF Init, HistoryInv, Powered, MissLimit
<1>3. FrameInv
  <2>1. applying \in 0 .. ApplyTicks /\ distance \in 0 .. MaxDistance
        /\ uptime \in 0 .. AutoZeroTicks
    BY GyroAssumption, CenterAssumption DEF Init
  <2>2. odomReady \in BOOLEAN /\ pending \in BOOLEAN
    BY Zenon DEF Init
  <2>3. QED BY <2>1, <2>2 DEF Init, FrameInv, Runs
<1>4. QED BY <1>1, <1>2, <1>3 DEF CenterInv

\* A zero between two ticks keeps it.
LEMMA ZeroInv ==
  ASSUME CenterInv, ResetOdometry, run' \in Runs,
         UNCHANGED <<chip, bus, applying, odomReady, uptime, history>>
  PROVE  CenterInv'
<1>1. /\ GyroInv(gyro', chip)
      /\ gyro'.state = gyro.state /\ gyro'.samples = gyro.samples
      /\ gyro'.misses = gyro.misses /\ gyro'.locked = gyro.locked
  BY ResetKeeps DEF CenterInv, ResetOdometry
<1>2. HistoryInv'
  BY <1>1 DEF CenterInv, HistoryInv, ResetOdometry, history
<1>3. imu' = Copied(gyro')
  <2>1. gyro \in Gyros /\ imu = Copied(gyro)
    BY DEF CenterInv, GyroInv, FrameInv
  <2>2. QED BY <2>1 DEF ResetOdometry, ResetHeading, Copied, Gyros
<1>4. distance' \in 0 .. MaxDistance
  BY CenterAssumption DEF ResetOdometry
<1>5. pending' \in BOOLEAN /\ odomReady' \in BOOLEAN
  BY Zenon DEF CenterInv, FrameInv, ResetOdometry
<1>6. FrameInv'
  BY <1>3, <1>4, <1>5 DEF CenterInv, FrameInv, ResetOdometry
<1>7. QED BY <1>1, <1>2, <1>6 DEF CenterInv

\* What a tick does, with the record it computes.
LEMMA TickStep ==
  ASSUME CenterInv, Tick10ms
  PROVE  /\ CenterInv'
         /\ ~imu.locked /\ imu'.locked => sampled' > SampleCount
         /\ run = "distance" =>
              /\ distance' \in {distance, distance + 1}
              /\ imu.locked /\ imu'.locked => imu'.heading - imu.heading \in -1 .. 1
<1>1. PICK ok \in Outcomes, turned \in -1 .. 1, moved \in 0 .. 1, elapsed \in 1 .. RetryTicks :
        LET done == ok /\ (gyro.state = "CHECK_STATUS" => Left(applying, elapsed) = 0)
            g == Ticked(gyro, done, chip, turned, elapsed)
        IN /\ uptime' = IF uptime + elapsed > AutoZeroTicks THEN AutoZeroTicks
                        ELSE uptime + elapsed
           /\ applying' = IF g.state = "CHECK_STATUS" /\ gyro.state = "ENABLE_CFG"
                          THEN ApplyTicks ELSE Left(applying, elapsed)
           /\ odomReady' = TRUE
           /\ distance + moved <= MaxDistance
           /\ IF AutoZeroDue(g)
              THEN gyro' = ResetHeading(g) /\ distance' = 0 /\ pending' = FALSE
              ELSE /\ gyro' = g
                   /\ distance' = IF odomReady THEN distance + moved ELSE distance
                   /\ UNCHANGED pending
           /\ imu' = Copied(gyro')
           /\ Note(ok, elapsed)
           /\ UNCHANGED <<chip, bus, run>>
  BY DEF Tick10ms
<1> DEFINE done == ok /\ (gyro.state = "CHECK_STATUS" => Left(applying, elapsed) = 0)
           g == Ticked(gyro, done, chip, turned, elapsed)
<1>2. ok \in BOOLEAN /\ done \in BOOLEAN
  BY DEF Outcomes
<1>3. gyro.online => done = ok
  BY <1>2 DEF CenterInv, GyroInv
<1>4. GyroInv(g, chip)
  BY <1>2, TickedKeeps DEF CenterInv, FrameInv
<1>5. /\ sampled' \in 0 .. SampleCount + 1 /\ missed' \in 0 .. MissLimit + 1
      /\ g.state = "CALIBRATE" => sampled' >= g.samples
      /\ g.state = "STREAM" => sampled' >= SampleCount
      /\ g.locked => missed' = g.misses
      /\ ~gyro.locked /\ g.locked => sampled' > SampleCount
      /\ gyro.locked /\ g.locked => g.heading - gyro.heading \in -1 .. 1
  <2>1. GyroInv(gyro, chip) /\ HistoryInv /\ chip \in Chips /\ Note(ok, elapsed)
    BY <1>1 DEF CenterInv, FrameInv
  <2> HIDE DEF done
  <2>2. QED BY <1>2, <1>3, <2>1, TickHistory
<1>6. /\ uptime' \in 0 .. AutoZeroTicks /\ applying' \in 0 .. ApplyTicks
      /\ odomReady' = TRUE /\ imu' = Copied(gyro')
      /\ chip' = chip /\ bus' = bus /\ run' = run
  BY <1>1, GyroAssumption, CenterAssumption DEF CenterInv, FrameInv, Left
<1>7. \/ pending /\ gyro' = ResetHeading(g) /\ distance' = 0 /\ pending' = FALSE
      \/ gyro' = g /\ distance' \in {distance, distance + moved} /\ pending' = pending
  BY <1>1 DEF AutoZeroDue
<1>8. distance + moved <= MaxDistance
  BY <1>1
<1> HIDE DEF g, done
<1>9. /\ GyroInv(gyro', chip) /\ gyro'.state = g.state /\ gyro'.samples = g.samples
      /\ gyro'.misses = g.misses /\ gyro'.locked = g.locked
  BY <1>4, <1>7, ResetKeeps
<1>10. HistoryInv'
  BY <1>5, <1>6, <1>7, <1>9 DEF CenterInv, HistoryInv
<1>11. FrameInv'
  <2>1. distance' \in 0 .. MaxDistance
    BY <1>7, <1>8, CenterAssumption DEF CenterInv, FrameInv
  <2>2. pending' \in BOOLEAN /\ odomReady' \in BOOLEAN
    BY <1>6, <1>7, Zenon DEF CenterInv, FrameInv
  <2>3. chip' \in Chips /\ bus' \in {"good", "noisy"} /\ run' \in Runs
    BY <1>6 DEF CenterInv, FrameInv
  <2>4. QED BY <1>6, <2>1, <2>2, <2>3 DEF FrameInv
<1>12. CenterInv'
  BY <1>6, <1>9, <1>10, <1>11 DEF CenterInv
<1>13. imu.locked = gyro.locked /\ imu.heading = gyro.heading
  BY DEF CenterInv, FrameInv, Copied
<1>14. imu'.locked = gyro'.locked /\ imu'.heading = gyro'.heading
  BY <1>6 DEF Copied
<1>15. ASSUME run = "distance"
       PROVE  gyro' = g /\ distance' \in {distance, distance + 1}
  <2>1. ~pending /\ distance \in Int
    BY <1>15 DEF CenterInv, HistoryInv, FrameInv
  <2>2. QED BY <1>7, <2>1
<1>16. QED BY <1>5, <1>9, <1>12, <1>13, <1>14, <1>15

\* Every step keeps the invariant.
LEMMA CenterNextInv == CenterInv /\ [Next]_vars => CenterInv'
<1> SUFFICES ASSUME CenterInv, [Next]_vars PROVE CenterInv'
  OBVIOUS
<1>1. CASE Tick10ms
  BY <1>1, TickStep
<1>2. CASE StartDistanceRun
  BY <1>2, ZeroInv DEF StartDistanceRun, Runs
<1>3. CASE ZeroOnPage
  BY <1>3, ZeroInv DEF ZeroOnPage, CenterInv, FrameInv
<1>4. CASE StartOtherRun
  BY <1>4 DEF StartOtherRun, CenterInv, HistoryInv, FrameInv, history, Runs
<1>5. CASE EndRun
  BY <1>5 DEF EndRun, CenterInv, HistoryInv, FrameInv, history, Runs
<1>6. CASE BusChanges
  BY <1>6 DEF BusChanges, CenterInv, HistoryInv, FrameInv, history
<1>7. CASE UNCHANGED vars
  BY <1>7 DEF vars, CenterInv, HistoryInv, FrameInv, history
<1>8. QED BY <1>1, <1>2, <1>3, <1>4, <1>5, <1>6, <1>7 DEF Next

\* The invariant holds of every behaviour.
LEMMA CenterSound == Spec => []CenterInv
<1>1. QED BY CenterInitInv, CenterNextInv, PTL DEF Spec

-----------------------------------------------------------------------------
(* The properties *)

\* Outside the lock the heading served is zero, whatever chip is fitted, however long its
\* configuration and calibration are, and whatever fails (device_gyro.c, device_center.c).
THEOREM HeadingZeroUnlocked == Spec => []HeadingNeedsLock
<1>1. CenterInv => HeadingNeedsLock
  BY DEF CenterInv, GyroInv, FrameInv, Copied, HeadingNeedsLock
<1>2. QED BY <1>1, CenterSound, PTL

\* A locked heading is at most two lost samples old (DeviceGyro_HandleStream).
THEOREM LockedIsFresh == Spec => []ServedNotStale
<1>1. CenterInv => ServedNotStale
  BY DEF CenterInv, GyroInv, HistoryInv, FrameInv, Copied, ServedNotStale
<1>2. QED BY <1>1, CenterSound, PTL

\* The gyro locks only after a whole calibration (DeviceGyro_HandleCalibrate), for every
\* number of samples.
THEOREM WholeCalibration == Spec => LockedAfterCalibration
<1>1. ASSUME CenterInv, [Next]_vars
      PROVE  [~imu.locked /\ imu'.locked => sampled' > SampleCount]_vars
  <2>1. CASE Tick10ms
    BY <1>1, <2>1, TickStep
  <2>2. ASSUME ResetOdometry
        PROVE  imu'.locked = imu.locked
    BY <1>1, <2>2 DEF ResetOdometry, CenterInv, FrameInv, Copied
  <2>3. QED
    BY <1>1, <2>1, <2>2
    DEF Next, StartDistanceRun, StartOtherRun, EndRun, ZeroOnPage, BusChanges
<1>2. QED BY <1>1, CenterSound, PTL DEF Spec, LockedAfterCalibration

\* No zero moves the frame under a run that measures a distance: the run has taken the
\* automatic one with its own (DeviceCenter_ResetOdometry), whenever it was due.
THEOREM FrameIsKept == Spec => FrameHolds
<1> DEFINE Kept == /\ distance' \in {distance, distance + 1}
                   /\ imu.locked /\ imu'.locked => imu'.heading - imu.heading \in -1 .. 1
<1>1. ASSUME CenterInv, [Next]_vars
      PROVE  [run = "distance" /\ run' = "distance" => Kept]_vars
  <2>1. CASE Tick10ms
    BY <1>1, <2>1, TickStep
  <2>2. ASSUME UNCHANGED <<distance, imu>>
        PROVE  Kept
    <3>1. imu.heading \in Int
      BY <1>1, GyroAssumption DEF CenterInv, FrameInv, Copied, GyroInv, Gyros
    <3>2. QED BY <2>2, <3>1
  <2>3. QED
    BY <1>1, <2>1, <2>2
    DEF Next, StartDistanceRun, StartOtherRun, EndRun, ZeroOnPage, BusChanges
<1>2. QED BY <1>1, CenterSound, PTL DEF Spec, FrameHolds

=============================================================================
