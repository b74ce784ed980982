----------------------------- MODULE WheelProofs -----------------------------
(***************************************************************************)
(* Theorems about the wheels: the motor outputs of the chassis driver, for *)
(* any number of wheels, any duty limit and any slew; the wheel encoder;   *)
(* a turn on the spot, for any windows, duties and angles; and the         *)
(* counting of the heading in it, for any car, filter and thresholds.      *)
(***************************************************************************)
EXTENDS HalChassis, TurnLoop, TLAPS

\* The pins that the 595 holds can differ from the shadow only while it is dirty, and it
\* is dirty only within a call.
PinsInv ==
  /\ duty \in [Wheels -> Int]
  /\ shadow = [w \in Wheels |-> Sign(duty[w])]
  /\ dirty \in BOOLEAN
  /\ ~dirty => latched = shadow
  /\ applied \in 0 .. WheelCount
  /\ applied = 0 => ~dirty

\* A slewed duty is a number.
LEMMA SlewIsInt == \A current, asked \in Int : SlewDuty(current, asked) \in Int
  BY ChassisAssumption DEF SlewDuty, StepToward, Sign

\* So is every duty that can be asked for.
LEMMA DutiesAreInts == Duties \subseteq Int
  BY ChassisAssumption DEF Duties

\* One wheel's turn of the loop writes its duty and its direction together, and leaves the
\* 595 behind only with the dirty flag set.
LEMMA ApplyPins == ASSUME PinsInv, ApplyWheelDuty PROVE PinsInv'
<1> DEFINE w == applied + 1
<1>1. PICK asked \in Duties :
        LET new == SlewDuty(duty[w], asked)
        IN /\ duty' = [duty EXCEPT ![w] = new]
           /\ shadow' = IF new = duty[w] THEN shadow ELSE [shadow EXCEPT ![w] = Sign(new)]
           /\ dirty' = (dirty \/ new # duty[w])
  BY DEF ApplyWheelDuty
<1>2. applied \in 0 .. WheelCount /\ applied < WheelCount /\ applied' = w /\ latched' = latched
  BY DEF ApplyWheelDuty, PinsInv
<1>3. w \in Wheels /\ w # 0
  BY <1>2, ChassisAssumption DEF Wheels
<1> DEFINE new == SlewDuty(duty[w], asked)
<1>4. new \in Int
  BY <1>3, SlewIsInt, DutiesAreInts DEF PinsInv
<1>5. applied' \in 0 .. WheelCount /\ applied' # 0
  BY <1>2, <1>3 DEF Wheels
<1>6. /\ duty' = [duty EXCEPT ![w] = new]
      /\ shadow' = IF new = duty[w] THEN shadow ELSE [shadow EXCEPT ![w] = Sign(new)]
      /\ dirty' = (dirty \/ new # duty[w])
  BY <1>1
<1> HIDE DEF w, new
<1>7. duty' \in [Wheels -> Int]
  BY <1>3, <1>4, <1>6 DEF PinsInv
<1>8. CASE new = duty[w]
  <2>1. duty' = duty /\ shadow' = shadow /\ dirty' = dirty
    BY <1>3, <1>6, <1>8 DEF PinsInv
  <2>2. QED BY <1>2, <1>5, <1>7, <2>1 DEF PinsInv
<1>9. CASE new # duty[w]
  <2>1. shadow' = [shadow EXCEPT ![w] = Sign(new)] /\ dirty' = TRUE
    BY <1>6, <1>9 DEF PinsInv
  <2>2. shadow' = [v \in Wheels |-> Sign(duty'[v])]
    BY <1>3, <1>6, <2>1 DEF PinsInv
  <2>3. QED BY <1>5, <1>7, <2>1, <2>2 DEF PinsInv
<1>10. QED BY <1>8, <1>9

\* Every step keeps the invariant; the interrupt handler and the wheels touch none of it.
LEMMA NextPins == ASSUME PinsInv, [Next]_vars PROVE PinsInv'
<1>1. CASE ApplyWheelDuty
  BY <1>1, ApplyPins
<1>2. CASE ShiftOut595 \/ Tick10ms
  <2>1. /\ applied' = 0 /\ dirty' = FALSE /\ UNCHANGED <<duty, shadow>>
        /\ latched' = IF dirty THEN shadow ELSE latched
    BY <1>2 DEF ShiftOut595, Tick10ms
  <2>2. latched' = shadow'
    BY <2>1 DEF PinsInv
  <2>3. applied' \in 0 .. WheelCount
    BY <2>1, ChassisAssumption
  <2>4. duty' \in [Wheels -> Int] /\ shadow' = [w \in Wheels |-> Sign(duty'[w])]
    BY <2>1, Zenon DEF PinsInv
  <2>5. QED BY <2>1, <2>2, <2>3, <2>4, Zenon DEF PinsInv
<1>3. CASE UNCHANGED motorVars
  BY <1>3 DEF motorVars, PinsInv
<1>4. GROUP1_IRQHandler \/ Turn \/ OtherWheelTurns \/ UNCHANGED vars => UNCHANGED motorVars
  BY DEF GROUP1_IRQHandler, EnterIsr, ClearStatus, RefreshLevel, UpdateWheelTicks, Turn,
         OtherWheelTurns, vars
<1>5. QED BY <1>1, <1>2, <1>3, <1>4 DEF Next, Motors

\* The wheels at rest satisfy it.
LEMMA InitPins == Init => PinsInv
<1> SUFFICES ASSUME Init PROVE PinsInv
  OBVIOUS
<1>1. /\ duty = [w \in Wheels |-> 0] /\ shadow = [w \in Wheels |-> 0]
      /\ latched = shadow /\ dirty = FALSE /\ applied = 0
  BY DEF Init
<1>2. applied \in 0 .. WheelCount
  BY <1>1, ChassisAssumption
<1>3. Sign(0) = 0
  BY DEF Sign
<1>4. \A w \in Wheels : Sign(duty[w]) = 0
  BY <1>1, <1>3, Zenon
<1>5. shadow = [w \in Wheels |-> Sign(duty[w])]
  BY <1>1, <1>4, Zenon
<1>6. duty \in [Wheels -> Int]
  BY <1>1
<1>7. QED BY <1>1, <1>2, <1>5, <1>6, Zenon DEF PinsInv

\* However the calls, the ticks and the interrupts interleave: outside a call every wheel
\* is driven the way its duty says.
THEOREM PinsFollowDuties == Spec => []PinsAgree
<1>1. Init => PinsInv
  BY InitPins
<1>2. PinsInv /\ [Next]_vars => PinsInv'
  BY NextPins
<1>3. PinsInv => PinsAgree
  BY DEF PinsInv, PinsAgree
<1>4. QED BY <1>1, <1>2, <1>3, PTL DEF Spec

-----------------------------------------------------------------------------
(* Stops *)

Abs(n) == IF n >= 0 THEN n ELSE -n

\* Every call that told a wheel to stop has taken a step off what its duty can still be.
Slowed(w) == duty[w] = 0 \/ Abs(duty[w]) + stopping[w] * SlewStep <= DutyLimit

StopInv ==
  /\ stopping \in [Wheels -> 0 .. StopCalls]
  /\ \A w \in Wheels : Abs(duty[w]) <= DutyLimit /\ Slowed(w)

\* A slewed duty is no larger than the larger of the two it lies between, and a step to
\* a standstill takes SlewStep off.
LEMMA SlewBounds ==
  ASSUME NEW current \in Int, Abs(current) <= DutyLimit, NEW asked \in Duties
  PROVE  /\ SlewDuty(current, asked) \in Int
         /\ Abs(SlewDuty(current, asked)) <= DutyLimit
         /\ asked = 0 => \/ SlewDuty(current, 0) = 0
                          \/ Abs(SlewDuty(current, 0)) = Abs(current) - SlewStep
<1>1. asked \in Int /\ Abs(asked) <= DutyLimit
  BY ChassisAssumption DEF Duties, Abs
<1>2. StepToward(current, asked) \in Nat \ {0}
  BY ChassisAssumption DEF StepToward
<1>3. asked = 0 => StepToward(current, asked) = SlewStep
  BY ChassisAssumption DEF StepToward, Sign
<1> DEFINE s == StepToward(current, asked)
<1> HIDE DEF s
<1>4. \/ SlewDuty(current, asked) = asked
      \/ asked > current /\ asked - current > s /\ SlewDuty(current, asked) = current + s
      \/ asked < current /\ current - asked > s /\ SlewDuty(current, asked) = current - s
  <2>1. CASE asked > current
    BY <1>1, <1>2, <2>1 DEF SlewDuty, Sign, s
  <2>2. CASE asked < current
    BY <1>1, <1>2, <2>2 DEF SlewDuty, Sign, s
  <2>3. CASE asked = current
    BY <1>1, <1>2, <2>3 DEF SlewDuty, Sign, s
  <2>4. QED BY <1>1, <2>1, <2>2, <2>3
<1>5. s \in Nat \ {0} /\ (asked = 0 => s = SlewStep)
  BY <1>2, <1>3 DEF s
<1>6. QED BY <1>1, <1>4, <1>5, ChassisAssumption DEF Abs

\* StopCalls steps take a wheel from full speed to a standstill.
LEMMA StopCallsSuffice == StopCalls \in Nat /\ StopCalls * SlewStep >= DutyLimit
  BY ChassisAssumption DEF StopCalls

\* One turn of the loop.
LEMMA ApplyStops ==
  ASSUME PinsInv, StopInv, ApplyWheelDuty
  PROVE  StopInv'
<1> DEFINE w == applied + 1
<1>1. PICK asked \in Duties :
        /\ duty' = [duty EXCEPT ![w] = SlewDuty(duty[w], asked)]
        /\ stopping' = [stopping EXCEPT ![w] = StopCount(w, asked)]
  BY DEF ApplyWheelDuty
<1>2. w \in Wheels
  BY ChassisAssumption DEF ApplyWheelDuty, PinsInv, Wheels
<1> HIDE DEF w
<1>3. /\ duty \in [Wheels -> Int] /\ stopping \in [Wheels -> 0 .. StopCalls]
      /\ Abs(duty[w]) <= DutyLimit /\ Slowed(w)
  BY <1>2 DEF PinsInv, StopInv
<1> DEFINE new == SlewDuty(duty[w], asked)
           count == StopCount(w, asked)
<1>4. /\ new \in Int /\ Abs(new) <= DutyLimit
      /\ asked = 0 => new = 0 \/ Abs(new) = Abs(duty[w]) - SlewStep
  BY <1>2, <1>3, SlewBounds
<1>5. count \in 0 .. StopCalls
  BY <1>2, <1>3, StopCallsSuffice DEF StopCount
<1>6. new = 0 \/ Abs(new) + count * SlewStep <= DutyLimit
  <2>1. CASE asked # 0
    <3>1. count = 0
      BY <2>1 DEF StopCount
    <3>2. count * SlewStep = 0
      BY <3>1, ChassisAssumption
    <3>3. Abs(new) \in Int
      BY <1>4 DEF Abs
    <3>4. QED BY <1>4, <3>2, <3>3, ChassisAssumption
  <2>2. CASE asked = 0 /\ new # 0
    <3>1. Abs(new) = Abs(duty[w]) - SlewStep /\ duty[w] # 0 /\ Abs(duty[w]) \in Int
      <4>1. new = SlewDuty(duty[w], 0) /\ Abs(new) = Abs(duty[w]) - SlewStep
        BY <1>4, <2>2
      <4>2. duty[w] \in Int /\ new \in Int
        BY <1>2, <1>3, <1>4
      <4> HIDE DEF new
      <4>3. QED BY <2>2, <4>1, <4>2, ChassisAssumption DEF Abs
    <3>2. Abs(duty[w]) + stopping[w] * SlewStep <= DutyLimit
      BY <1>3, <3>1 DEF Slowed
    <3>3. stopping[w] \in Nat /\ count \in {stopping[w], stopping[w] + 1}
      BY <1>2, <1>3, <2>2, StopCallsSuffice DEF StopCount
    <3>4. count * SlewStep <= stopping[w] * SlewStep + SlewStep
      BY <3>3, ChassisAssumption
    <3> DEFINE c == count * SlewStep
               t == stopping[w] * SlewStep
    <3>5. c \in Int /\ t \in Int
      BY <1>5, <3>3, StopCallsSuffice, ChassisAssumption
    <3> HIDE DEF c, t
    <3>6. Abs(new) + c <= DutyLimit
      BY <3>1, <3>2, <3>4, <3>5, ChassisAssumption DEF c, t
    <3>7. QED BY <3>6 DEF c
  <2>3. QED BY <2>1, <2>2
<1> HIDE DEF new, count
<1>7. /\ stopping' \in [Wheels -> 0 .. StopCalls]
      /\ \A v \in Wheels : duty'[v] = (IF v = w THEN new ELSE duty[v])
      /\ \A v \in Wheels : stopping'[v] = (IF v = w THEN count ELSE stopping[v])
  BY <1>1, <1>3, <1>5 DEF new, count
<1>8. \A v \in Wheels : Abs(duty'[v]) <= DutyLimit /\ Slowed(v)'
  <2> TAKE v \in Wheels
  <2>1. CASE v = w
    BY <1>4, <1>6, <1>7, <2>1 DEF Slowed
  <2>2. CASE v # w
    BY <1>7, <2>2 DEF StopInv, Slowed
  <2>3. QED BY <2>1, <2>2
<1>9. QED BY <1>7, <1>8 DEF StopInv

\* Told to stop, a wheel stands still after StopCalls calls of HalChassis_SetWheelDuty, for
\* every duty limit and every slew, whatever it was told before.
THEOREM StopsAreBounded == Spec => []StopsInTime
<1>1. Init => PinsInv /\ StopInv
  <2> SUFFICES ASSUME Init PROVE PinsInv /\ StopInv
    OBVIOUS
  <2>1. PinsInv
    BY InitPins
  <2>2. stopping \in [Wheels -> 0 .. StopCalls]
    BY StopCallsSuffice DEF Init
  <2>3. \A w \in Wheels : duty[w] = 0
    BY DEF Init
  <2>4. QED BY <2>1, <2>2, <2>3, ChassisAssumption DEF StopInv, Slowed, Abs
<1>2. PinsInv /\ StopInv /\ [Next]_vars => (PinsInv /\ StopInv)'
  <2> SUFFICES ASSUME PinsInv, StopInv, [Next]_vars PROVE StopInv'
    BY NextPins
  <2>1. CASE ApplyWheelDuty
    BY <2>1, ApplyStops
  <2>2. CASE UNCHANGED <<duty, stopping>>
    BY <2>2 DEF StopInv, Slowed
  <2>3. ~ApplyWheelDuty => UNCHANGED <<duty, stopping>>
    BY DEF Next, Motors, ShiftOut595, Tick10ms, GROUP1_IRQHandler, EnterIsr, ClearStatus,
           RefreshLevel, UpdateWheelTicks, Turn, OtherWheelTurns, vars, motorVars
  <2>4. QED BY <2>1, <2>2, <2>3
<1>3. PinsInv /\ StopInv => StopsInTime
  <2> SUFFICES ASSUME PinsInv, StopInv, NEW w \in Wheels, applied = 0, stopping[w] = StopCalls
               PROVE  duty[w] = 0 /\ latched[w] = 0
    BY DEF StopsInTime
  <2>1. duty[w] = 0
    <3>1. duty[w] \in Int /\ Slowed(w)
      BY DEF PinsInv, StopInv
    <3> DEFINE t == StopCalls * SlewStep
    <3>2. t \in Int /\ t >= DutyLimit
      BY StopCallsSuffice, ChassisAssumption
    <3>3. duty[w] = 0 \/ Abs(duty[w]) + t <= DutyLimit
      BY <3>1 DEF Slowed
    <3> HIDE DEF t
    <3>4. QED BY <3>1, <3>2, <3>3, ChassisAssumption DEF Abs
  <2>2. latched[w] = Sign(duty[w])
    BY DEF PinsInv
  <2>3. QED BY <2>1, <2>2 DEF Sign
<1>4. QED BY <1>1, <1>2, <1>3, PTL DEF Spec

-----------------------------------------------------------------------------
(* The encoder: the interrupt handler against a wheel that turns at any of its steps *)

Levels == [A : BOOLEAN, B : BOOLEAN]

\* The four positions of a cycle.
LEMMA PinsTable ==
  ASSUME NEW p \in Int
  PROVE  /\ PinsAt(p) \in Levels
         /\ PinsAt(p).A <=> p % 4 \in {1, 2}
         /\ PinsAt(p).B <=> p % 4 \in {2, 3}
         /\ p % 4 \in 0 .. 3
<1>1. p % 4 \in 0 .. 3
  OBVIOUS
<1>2. (p % 4 \in {1, 2}) \in BOOLEAN /\ (p % 4 \in {2, 3}) \in BOOLEAN
  OBVIOUS
<1>3. PinsAt(p) \in Levels
  <2>1. \A a, b \in BOOLEAN : [A |-> a, B |-> b] \in Levels
    BY DEF Levels
  <2>2. [A |-> p % 4 \in {1, 2}, B |-> p % 4 \in {2, 3}] \in Levels
    BY <1>2, <2>1, Zenon
  <2>3. QED BY <2>2, Zenon DEF PinsAt
<1>4. /\ PinsAt(p).A <=> p % 4 \in {1, 2}
      /\ PinsAt(p).B <=> p % 4 \in {2, 3}
  BY DEF PinsAt
<1>5. QED BY <1>1, <1>3, <1>4

\* Levels are equal if their pins are.
LEMMA LevelsEqual ==
  ASSUME NEW x \in Levels, NEW y \in Levels, x.A <=> y.A, x.B <=> y.B
  PROVE  x = y
  BY DEF Levels

\* Two positions look the same if and only if they are whole cycles apart.
LEMMA PinsEqual ==
  ASSUME NEW p \in Int, NEW q \in Int
  PROVE  PinsAt(p) = PinsAt(q) <=> p % 4 = q % 4
<1>1. ASSUME p % 4 = q % 4 PROVE PinsAt(p) = PinsAt(q)
  BY <1>1, PinsTable, LevelsEqual
<1>2. ASSUME PinsAt(p) = PinsAt(q) PROVE p % 4 = q % 4
  <2>1. p % 4 \in {1, 2} <=> q % 4 \in {1, 2}
    BY <1>2, PinsTable
  <2>2. p % 4 \in {2, 3} <=> q % 4 \in {2, 3}
    BY <1>2, PinsTable
  <2>3. p % 4 \in 0 .. 3 /\ q % 4 \in 0 .. 3
    OBVIOUS
  <2>4. QED BY <2>1, <2>2, <2>3
<1>3. QED BY <1>1, <1>2

\* Whatever the levels are, they are those of some position.
LEMMA SomePosition ==
  ASSUME NEW x \in Levels
  PROVE  \E i \in 0 .. 3 : x = PinsAt(i)
<1>1. CASE ~x.A /\ ~x.B
  <2>1. x = PinsAt(0)
    BY <1>1, PinsTable, LevelsEqual
  <2>2. QED BY <2>1
<1>2. CASE x.A /\ ~x.B
  <2>1. x = PinsAt(1)
    BY <1>2, PinsTable, LevelsEqual
  <2>2. QED BY <2>1
<1>3. CASE x.A /\ x.B
  <2>1. x = PinsAt(2)
    BY <1>3, PinsTable, LevelsEqual
  <2>2. QED BY <2>1
<1>4. CASE ~x.A /\ x.B
  <2>1. x = PinsAt(3)
    BY <1>4, PinsTable, LevelsEqual
  <2>2. QED BY <2>1
<1>5. QED BY <1>1, <1>2, <1>3, <1>4

\* What the decoder's table says of two positions.
LEMMA StepOf ==
  ASSUME NEW p \in Int, NEW q \in Int
  PROVE  Step(PinsAt(p), PinsAt(q)) =
           IF (p + 1) % 4 = q % 4 THEN 1 ELSE IF (q + 1) % 4 = p % 4 THEN -1 ELSE 0
<1>1. ASSUME NEW a \in Int, NEW b \in Int
      PROVE  (\E i \in 0 .. 3 : PinsAt(a) = PinsAt(i) /\ PinsAt(b) = PinsAt(i + 1))
               <=> (a + 1) % 4 = b % 4
  <2>1. \A i \in 0 .. 3 : /\ PinsAt(a) = PinsAt(i) <=> a % 4 = i % 4
                          /\ PinsAt(b) = PinsAt(i + 1) <=> b % 4 = (i + 1) % 4
    BY PinsEqual
  <2>2. ASSUME (a + 1) % 4 = b % 4
        PROVE  \E i \in 0 .. 3 : a % 4 = i % 4 /\ b % 4 = (i + 1) % 4
    <3>1. a % 4 \in 0 .. 3 /\ a % 4 = (a % 4) % 4 /\ (a + 1) % 4 = ((a % 4) + 1) % 4
      OBVIOUS
    <3>2. QED BY <2>2, <3>1
  <2>3. ASSUME NEW i \in 0 .. 3, a % 4 = i % 4, b % 4 = (i + 1) % 4
        PROVE  (a + 1) % 4 = b % 4
    BY <2>3
  <2>4. QED BY <2>1, <2>2, <2>3
<1>2. /\ (\E i \in 0 .. 3 : PinsAt(p) = PinsAt(i) /\ PinsAt(q) = PinsAt(i + 1))
          <=> (p + 1) % 4 = q % 4
      /\ (\E i \in 0 .. 3 : PinsAt(q) = PinsAt(i) /\ PinsAt(p) = PinsAt(i + 1))
          <=> (q + 1) % 4 = p % 4
  BY <1>1
<1>3. QED BY <1>2 DEF Step

\* A turn by one edge changes one pin.
LEMMA OnePinChanges ==
  ASSUME NEW p \in Int, NEW d \in {-1, 1}
  PROVE  \/ PinsAt(p + d).A = PinsAt(p).A
         \/ PinsAt(p + d).B = PinsAt(p).B
<1>1. /\ PinsAt(p) \in Levels /\ PinsAt(p + d) \in Levels
      /\ PinsAt(p).A <=> p % 4 \in {1, 2}
      /\ PinsAt(p).B <=> p % 4 \in {2, 3}
      /\ PinsAt(p + d).A <=> (p + d) % 4 \in {1, 2}
      /\ PinsAt(p + d).B <=> (p + d) % 4 \in {2, 3}
  BY PinsTable
<1>2. \/ (p % 4 \in {1, 2} <=> (p + d) % 4 \in {1, 2})
      \/ (p % 4 \in {2, 3} <=> (p + d) % 4 \in {2, 3})
  OBVIOUS
<1>3. QED BY <1>1, <1>2 DEF Levels

-----------------------------------------------------------------------------
(* The invariant *)

\* The handler is going to read this pin's level again.
WillRefresh(pin) == pin \in mask /\ (isr \in {"clear", "A"} \/ (isr = "B" /\ pin = "B"))

\* The state kept by the decoder is that of the count, whatever else happens.
CountInv ==
  /\ position \in Int /\ ticks \in Int /\ level \in Levels
  /\ isr \in {"off", "clear", "A", "B", "decode"}
  /\ prev = PinsAt(ticks)

\* A level that is not the pin's has an interrupt pending or is about to be read.
LevelInv ==
  /\ level.A # PinsAt(position).A => "A" \in pending \/ WillRefresh("A")
  /\ level.B # PinsAt(position).B => "B" \in pending \/ WillRefresh("B")

\* As long as no edge has outrun the decoder, the count is one edge behind at most, and
\* the levels are those before or after this edge.
BehindInv ==
  ~outrun =>
    /\ position - ticks \in -1 .. 1
    /\ level = PinsAt(ticks) \/ level = PinsAt(position)
    /\ isr \in {"off", "clear", "A"} => level = PinsAt(ticks)

EncoderInv == CountInv /\ LevelInv /\ BehindInv

\* The wheel at rest.
LEMMA EncoderInit == Init => EncoderInv
<1> SUFFICES ASSUME Init PROVE EncoderInv
  OBVIOUS
<1>1. PinsAt(0) \in Levels
  BY PinsTable
<1>2. QED BY <1>1 DEF Init, EncoderInv, CountInv, LevelInv, BehindInv

\* An edge leaves an interrupt pending at the pin that it changes.
LEMMA TurnInv == ASSUME EncoderInv, Turn PROVE EncoderInv'
<1>1. PICK d \in {-1, 1} :
        /\ position' = position + d
        /\ pending' = pending \union
             {pin \in {"A", "B"} : PinsAt(position)[pin] # PinsAt(position')[pin]}
        /\ outrun' = (outrun \/ ticks # position)
        /\ UNCHANGED <<isr, mask, level, prev, ticks>>
  BY DEF Turn
<1>2. CountInv'
  BY <1>1 DEF EncoderInv, CountInv
<1>3. LevelInv'
  <2>1. level.A # PinsAt(position').A => "A" \in pending' \/ WillRefresh("A")'
    BY <1>1 DEF EncoderInv, LevelInv, WillRefresh
  <2>2. level.B # PinsAt(position').B => "B" \in pending' \/ WillRefresh("B")'
    BY <1>1 DEF EncoderInv, LevelInv, WillRefresh
  <2>3. QED BY <1>1, <2>1, <2>2 DEF LevelInv
<1>4. BehindInv'
  <2> SUFFICES ASSUME ~outrun'
               PROVE  /\ position' - ticks' \in -1 .. 1
                      /\ level' = PinsAt(ticks')
    BY DEF BehindInv
  <2>1. ~outrun /\ ticks = position
    BY <1>1, Zenon
  <2>2. QED BY <1>1, <2>1 DEF EncoderInv, BehindInv, CountInv
<1>5. QED BY <1>2, <1>3, <1>4 DEF EncoderInv

\* The handler reads one pin.
LEMMA RefreshInv == ASSUME EncoderInv, RefreshLevel PROVE EncoderInv'
<1> DEFINE here == PinsAt(position)
<1>1. /\ level \in Levels /\ here \in Levels /\ position \in Int /\ ticks \in Int
      /\ prev = PinsAt(ticks) /\ PinsAt(ticks) \in Levels
  BY PinsTable DEF EncoderInv, CountInv
<1>2. /\ isr \in {"A", "B"}
      /\ level' = IF isr \in mask THEN [level EXCEPT ![isr] = here[isr]] ELSE level
      /\ isr' = IF isr = "A" THEN "B" ELSE "decode"
      /\ UNCHANGED <<position, pending, mask, prev, ticks, outrun>>
  BY DEF RefreshLevel
<1> HIDE DEF here
<1>3. /\ level' \in Levels
      /\ level'.A = IF isr = "A" /\ "A" \in mask THEN here.A ELSE level.A
      /\ level'.B = IF isr = "B" /\ "B" \in mask THEN here.B ELSE level.B
  <2>1. CASE isr = "A" /\ "A" \in mask
    BY <1>1, <1>2, <2>1 DEF Levels
  <2>2. CASE isr = "B" /\ "B" \in mask
    BY <1>1, <1>2, <2>2 DEF Levels
  <2>3. CASE isr \notin mask
    BY <1>1, <1>2, <2>3
  <2>4. QED BY <1>2, <2>1, <2>2, <2>3
<1>4. CountInv'
  BY <1>2, <1>3 DEF EncoderInv, CountInv
<1>5. LevelInv'
  <2>1. level'.A # here.A => "A" \in pending' \/ WillRefresh("A")'
    BY <1>2, <1>3 DEF EncoderInv, LevelInv, WillRefresh, here
  <2>2. level'.B # here.B => "B" \in pending' \/ WillRefresh("B")'
    BY <1>2, <1>3 DEF EncoderInv, LevelInv, WillRefresh, here
  <2>3. QED BY <1>2, <2>1, <2>2 DEF LevelInv, here
<1>6. BehindInv'
  <2> SUFFICES ASSUME ~outrun
               PROVE  /\ position - ticks \in -1 .. 1
                      /\ level' = PinsAt(ticks) \/ level' = here
    BY <1>2 DEF BehindInv, here
  <2>1. /\ position - ticks \in -1 .. 1
        /\ level = PinsAt(ticks) \/ level = here
    BY DEF EncoderInv, BehindInv, here
  <2>2. PinsAt(ticks).A = here.A \/ PinsAt(ticks).B = here.B
    <3>1. CASE position = ticks
      BY <3>1 DEF here
    <3>2. CASE position # ticks
      <4>1. PICK d \in {-1, 1} : position = ticks + d
        <5>1. position - ticks \in {-1, 1} /\ position = ticks + (position - ticks)
          BY <1>1, <2>1, <3>2
        <5>2. QED BY <5>1
      <4>2. QED BY <1>1, <4>1, OnePinChanges DEF here
    <3>3. QED BY <3>1, <3>2
  <2>3. level' = PinsAt(ticks) \/ level' = here
    <3>1. level'.A \in {level.A, here.A} /\ level'.B \in {level.B, here.B}
      BY <1>3
    <3>2. CASE level = here
      BY <1>1, <1>3, <3>1, <3>2, LevelsEqual
    <3>3. CASE level = PinsAt(ticks)
      <4>1. \/ level'.A = level.A /\ level'.B = level.B
            \/ level'.A = here.A /\ level'.B = here.B
        BY <1>2, <1>3, <2>2, <3>3
      <4>2. QED BY <1>1, <1>3, <3>3, <4>1, LevelsEqual
    <3>4. QED BY <2>1, <3>2, <3>3
  <2>4. QED BY <2>1, <2>3
<1>7. QED BY <1>4, <1>5, <1>6 DEF EncoderInv

\* The handler decodes what it has read.
LEMMA DecodeInv == ASSUME EncoderInv, UpdateWheelTicks PROVE EncoderInv'
<1>1. /\ isr = "decode" /\ isr' = "off"
      /\ ticks' = ticks + Step(prev, level)
      /\ prev' = IF Step(prev, level) # 0 THEN level ELSE prev
      /\ UNCHANGED <<position, pending, mask, level, outrun>>
  BY DEF UpdateWheelTicks
<1>2. position \in Int /\ ticks \in Int /\ level \in Levels /\ prev = PinsAt(ticks)
  BY DEF EncoderInv, CountInv
<1>3. PICK i \in 0 .. 3 : level = PinsAt(i)
  BY <1>2, SomePosition
<1> DEFINE s == Step(prev, level)
<1>4. s = IF (ticks + 1) % 4 = i % 4 THEN 1 ELSE IF (i + 1) % 4 = ticks % 4 THEN -1 ELSE 0
  BY <1>2, <1>3, StepOf
<1>5. s \in -1 .. 1 /\ ticks' = ticks + s /\ ticks' \in Int
  BY <1>1, <1>2, <1>4
<1>6. prev' = PinsAt(ticks')
  <2>1. CASE s = 0
    BY <1>1, <1>2, <2>1
  <2>2. CASE s # 0
    <3>1. ticks' % 4 = i % 4
      BY <1>2, <1>4, <1>5, <2>2
    <3>2. PinsAt(ticks') = PinsAt(i)
      BY <1>5, <3>1, PinsEqual
    <3>3. QED BY <1>1, <1>3, <2>2, <3>2
  <2>3. QED BY <2>1, <2>2
<1>7. CountInv'
  BY <1>1, <1>2, <1>5, <1>6 DEF CountInv
<1>8. LevelInv'
  <2>1. level.A # PinsAt(position).A => "A" \in pending
    BY <1>1 DEF EncoderInv, LevelInv, WillRefresh
  <2>2. level.B # PinsAt(position).B => "B" \in pending
    BY <1>1 DEF EncoderInv, LevelInv, WillRefresh
  <2>3. QED BY <1>1, <2>1, <2>2 DEF LevelInv
<1>9. BehindInv'
  <2> SUFFICES ASSUME ~outrun
               PROVE  position - ticks' \in -1 .. 1 /\ level = PinsAt(ticks')
    BY <1>1 DEF BehindInv
  <2>1. position - ticks \in -1 .. 1 /\ (level = PinsAt(ticks) \/ level = PinsAt(position))
    BY DEF EncoderInv, BehindInv
  <2>2. CASE level = PinsAt(ticks)
    <3>1. s = 0
      <4>1. s = IF (ticks + 1) % 4 = ticks % 4 THEN 1
                ELSE IF (ticks + 1) % 4 = ticks % 4 THEN -1 ELSE 0
        BY <1>2, <2>2, StepOf
      <4>2. (ticks + 1) % 4 # ticks % 4
        BY <1>2
      <4>3. QED BY <4>1, <4>2
    <3>2. ticks' = ticks
      BY <1>2, <1>5, <3>1
    <3>3. QED BY <2>1, <2>2, <3>2
  <2>3. CASE level = PinsAt(position)
    <3>1. s = IF (ticks + 1) % 4 = position % 4 THEN 1
              ELSE IF (position + 1) % 4 = ticks % 4 THEN -1 ELSE 0
      BY <1>2, <2>3, StepOf
    <3>2. s = position - ticks
      <4>1. CASE position = ticks
        BY <1>2, <3>1, <4>1
      <4>2. CASE position = ticks + 1
        BY <1>2, <3>1, <4>2
      <4>3. CASE position = ticks - 1
        BY <1>2, <3>1, <4>3
      <4>4. QED BY <1>2, <2>1, <4>1, <4>2, <4>3
    <3>3. ticks' = position
      BY <1>2, <1>5, <3>2
    <3>4. QED BY <1>2, <2>3, <3>3
  <2>4. QED BY <2>1, <2>2, <2>3
<1>10. QED BY <1>7, <1>8, <1>9 DEF EncoderInv

\* Every step keeps the invariant.
LEMMA EncoderNext == EncoderInv /\ [Next]_vars => EncoderInv'
<1> SUFFICES ASSUME EncoderInv, [Next]_vars PROVE EncoderInv'
  OBVIOUS
<1>1. CASE Turn
  BY <1>1, TurnInv
<1>2. CASE EnterIsr
  BY <1>2 DEF EnterIsr, EncoderInv, CountInv, LevelInv, BehindInv, WillRefresh
<1>3. CASE ClearStatus
  BY <1>3 DEF ClearStatus, EncoderInv, CountInv, LevelInv, BehindInv, WillRefresh
<1>4. CASE RefreshLevel
  BY <1>4, RefreshInv
<1>5. CASE UpdateWheelTicks
  BY <1>5, DecodeInv
<1>6. CASE OtherWheelTurns
  BY <1>6 DEF OtherWheelTurns, EncoderInv, CountInv, LevelInv, BehindInv, WillRefresh
<1>7. CASE UNCHANGED encoderVars
  BY <1>7 DEF encoderVars, EncoderInv, CountInv, LevelInv, BehindInv, WillRefresh
<1>8. Motors \/ UNCHANGED vars => UNCHANGED encoderVars
  BY DEF Motors, ApplyWheelDuty, ShiftOut595, Tick10ms, vars
<1>9. QED
  BY <1>1, <1>2, <1>3, <1>4, <1>5, <1>6, <1>7, <1>8 DEF Next, GROUP1_IRQHandler

\* No edge is lost between the reading, the clearing and the sampling of the handler
\* (GROUP1_IRQHandler), however long the wheel turns and whenever its edges come.
THEOREM NoEdgeIsLost == Spec => []TicksFollowTheWheel
<1>1. EncoderInv => TicksFollowTheWheel
  <2> SUFFICES ASSUME EncoderInv, isr = "off", pending = {}
               PROVE  /\ level = PinsAt(position)
                      /\ ~outrun => ticks = position
                      /\ prev = level => (ticks - position) % 4 = 0
    BY DEF TicksFollowTheWheel
  <2>1. /\ position \in Int /\ ticks \in Int /\ level \in Levels
        /\ prev = PinsAt(ticks) /\ PinsAt(position) \in Levels
    BY PinsTable DEF EncoderInv, CountInv
  <2>2. level.A = PinsAt(position).A /\ level.B = PinsAt(position).B
    BY DEF EncoderInv, LevelInv, WillRefresh
  <2>3. level = PinsAt(position)
    BY <2>1, <2>2, LevelsEqual
  <2>4. ASSUME PinsAt(ticks) = PinsAt(position)
        PROVE  ticks % 4 = position % 4 /\ (ticks - position) % 4 = 0
    <3>1. ticks % 4 = position % 4
      BY <2>1, <2>4, PinsEqual
    <3>2. QED BY <2>1, <3>1
  <2>5. ~outrun => ticks = position
    <3> SUFFICES ASSUME ~outrun PROVE ticks = position
      OBVIOUS
    <3>1. position - ticks \in -1 .. 1 /\ level = PinsAt(ticks)
      BY DEF EncoderInv, BehindInv
    <3>2. (ticks - position) % 4 = 0
      BY <2>3, <2>4, <3>1
    <3>3. QED BY <2>1, <3>1, <3>2
  <2>6. QED BY <2>1, <2>3, <2>4, <2>5
<1>2. QED BY <1>1, EncoderInit, EncoderNext, PTL DEF Spec

-----------------------------------------------------------------------------
(* A turn: sixteen bits, duties and signs *)

LEMMA MagnitudeIs ==
  ASSUME NEW n \in Int
  PROVE  Magnitude(n) = (IF n >= 0 THEN n ELSE -n) /\ Magnitude(n) \in Nat
  BY DEF Magnitude, Side

\* A number in range is its own cast.
LEMMA Int16Is ==
  ASSUME NEW n \in Int, -Half <= n, n < Half
  PROVE  Int16(n) = n
<1>1. Half \in Nat \ {0}
  BY AngleAssumption
<1>2. n + Half \in Nat /\ n + Half < 2 * Half /\ 2 * Half \in Nat \ {0}
  BY <1>1
<1>3. (n + Half) % (2 * Half) = n + Half
  BY <1>2
<1>4. QED BY <1>1, <1>3 DEF Int16

LEMMA Abs16Is ==
  ASSUME NEW n \in Int, -Half < n, n < Half
  PROVE  Abs16(n) = (IF n >= 0 THEN n ELSE -n)
<1>1. Half \in Nat
  BY AngleAssumption
<1>2. CASE n >= 0
  BY <1>1, <1>2, Int16Is DEF Abs16
<1>3. CASE ~(n >= 0)
  <2>1. -n \in Int /\ -Half <= -n /\ -n < Half
    BY <1>1
  <2>2. Int16(-n) = -n
    BY <2>1, Int16Is
  <2>3. QED BY <1>3, <2>2 DEF Abs16
<1>4. QED BY <1>2, <1>3

LEMMA DivisionIs ==
  ASSUME NEW n \in Nat, NEW d \in Nat \ {0}
  PROVE  n \div d \in Nat /\ d * (n \div d) <= n /\ n < d * (n \div d) + d
  OBVIOUS

\* Outside the window in which the wheels are let go the turn has a duty.
LEMMA AssistIs ==
  ASSUME NEW error \in Int, -Half < error, error < Half,
         ~(-MinError <= error /\ error <= MinError)
  PROVE  AssistDuty(error) \in Nat /\ AssistDuty(error) > 0 /\ AssistDuty(error) <= MinDuty
<1> DEFINE span == SoftError - MinError
           size == Abs16(error)
<1>1. /\ {SoftDuty, MinDuty, MinError, SoftError} \subseteq Nat /\ MinError < SoftError
      /\ 0 < SoftDuty /\ SoftDuty <= MinDuty
  BY DutyAssumption
<1>2. size = (IF error >= 0 THEN error ELSE -error)
  BY Abs16Is
<1>3. size \in Nat /\ size > MinError
  BY <1>1, <1>2
<1>4. CASE size >= SoftError
  BY <1>1, <1>3, <1>4 DEF AssistDuty
<1>5. CASE size < SoftError
  <2>1. /\ span \in Nat \ {0} /\ MinDuty - SoftDuty \in Nat
        /\ size - MinError \in Nat /\ size - MinError <= span - 1
    BY <1>1, <1>3, <1>5
  <2>2. span \div 2 \in Nat /\ 2 * (span \div 2) <= span
    BY <2>1
  <2> DEFINE gap == MinDuty - SoftDuty
             past == size - MinError
             half == span \div 2
  <2>3. gap \in Nat /\ past \in Nat /\ half \in Nat /\ 2 * half <= span /\ past + 1 <= span
    BY <2>1, <2>2
  <2>4. AssistDuty(error) = SoftDuty + (gap * past + half) \div span
    <3>1. ~(Abs16(error) <= MinError) /\ ~(Abs16(error) >= SoftError)
      BY <1>1, <1>3, <1>5
    <3>2. QED BY <3>1, Zenon DEF AssistDuty
  <2> HIDE DEF span, size, gap, past, half
  <2>5. gap * past + half \in Nat
    BY <2>3
  <2> DEFINE q == (gap * past + half) \div span
  <2>6. q \in Nat /\ span * q <= gap * past + half
    BY <2>1, <2>5, DivisionIs
  <2>7. q <= gap
    <3> HIDE DEF q
    <3> SUFFICES ASSUME q > gap PROVE FALSE
      BY <2>3, <2>6
    <3>1. PICK more \in Nat : q = gap + 1 + more
      <4>1. q - (gap + 1) \in Nat /\ q = gap + 1 + (q - (gap + 1))
        BY <2>3, <2>6
      <4>2. QED BY <4>1
    <3>2. PICK less \in Nat : span = past + 1 + less
      <4>1. span - (past + 1) \in Nat /\ span = past + 1 + (span - (past + 1))
        BY <2>1, <2>3
      <4>2. QED BY <4>1
    <3>3. span * q = span * gap + span + span * more
      BY <2>1, <2>3, <3>1
    <3>4. span * gap = gap * past + gap + gap * less
      BY <2>3, <3>2
    <3>5. span * more \in Nat /\ gap * less \in Nat /\ gap * past \in Nat
      BY <2>1, <2>3, <3>1, <3>2
    <3>6. QED BY <2>1, <2>3, <2>6, <3>3, <3>4, <3>5
  <2> HIDE DEF q
  <2>8. SoftDuty + q \in Nat /\ SoftDuty + q > 0 /\ SoftDuty + q <= MinDuty
    BY <1>1, <2>3, <2>6, <2>7 DEF gap
  <2>9. QED BY <2>4, <2>8 DEF q
<1>6. QED BY <1>1, <1>3, <1>4, <1>5

\* The duty of a turn drives the car towards its target, unless it is let go.
LEMMA DutyIs ==
  ASSUME NEW error \in Int, -Half < error, error < Half, NEW yaw \in Int
  PROVE  /\ TurnDuty(error, yaw) \in Int
         /\ -MinError <= error /\ error <= MinError => TurnDuty(error, yaw) = 0
         /\ error > MinError => TurnDuty(error, yaw) > 0
         /\ error < -MinError => TurnDuty(error, yaw) < 0
<1>1. MinError \in Nat /\ MaxDuty \in Nat /\ MinDuty <= MaxDuty /\ MinDuty \in Nat
      /\ DutyKp \in Nat /\ YawDamp \in Nat
  BY DutyAssumption
<1>2. Abs16(error) = (IF error >= 0 THEN error ELSE -error)
  BY Abs16Is
<1>3. CASE -MinError <= error /\ error <= MinError
  <2>1. TurnDuty(error, yaw) = 0
    BY <1>1, <1>2, <1>3 DEF TurnDuty
  <2>2. QED BY <1>1, <1>3, <2>1
<1>4. CASE ~(-MinError <= error /\ error <= MinError)
  <2> DEFINE a == AssistDuty(error)
             wanted == DutyKp * Abs16(error) + 100 * a - YawDamp * Magnitude(yaw)
             kept == IF wanted < 100 * a THEN 100 * a
                     ELSE IF wanted > 100 * MaxDuty THEN 100 * MaxDuty ELSE wanted
  <2>1. a \in Nat /\ a > 0 /\ a <= MinDuty
    BY <1>4, AssistIs
  <2>2. wanted \in Int
    <3>1. Abs16(error) \in Int /\ Magnitude(yaw) \in Int
      BY <1>2, MagnitudeIs
    <3>2. QED BY <1>1, <2>1, <3>1
  <2>3. DutyFor(error, yaw) = kept \div 100
    BY DEF DutyFor
  <2> HIDE DEF a, wanted
  <2>4. kept \in Nat /\ kept >= 100
    BY <1>1, <2>1, <2>2
  <2> HIDE DEF kept
  <2>5. DutyFor(error, yaw) \in Nat /\ DutyFor(error, yaw) > 0
    BY <2>3, <2>4
  <2>6. CASE error > MinError
    <3>1. TurnDuty(error, yaw) = DutyFor(error, yaw)
      BY <1>1, <1>2, <2>6 DEF TurnDuty
    <3>2. QED BY <1>1, <2>5, <2>6, <3>1
  <2>7. CASE error < -MinError
    <3>1. TurnDuty(error, yaw) = -DutyFor(error, yaw)
      BY <1>1, <1>2, <2>7 DEF TurnDuty
    <3>2. QED BY <1>1, <2>5, <2>7, <3>1
  <2>8. QED BY <1>1, <1>4, <2>6, <2>7
<1>5. QED BY <1>3, <1>4

\* A division leaves less than its divisor, to either side.
LEMMA QuotientIs ==
  ASSUME NEW n \in Int, NEW d \in Nat \ {0}
  PROVE  /\ Quotient(n, d) \in Int
         /\ n - d * Quotient(n, d) <= d - 1 /\ d * Quotient(n, d) - n <= d - 1
<1> DEFINE size == Magnitude(n)
           q == size \div d
<1>1. size \in Nat /\ size = (IF n >= 0 THEN n ELSE -n)
  BY MagnitudeIs
<1> HIDE DEF size
<1>2. q \in Nat /\ d * q <= size /\ size < d * q + d
  BY <1>1
<1>3. Quotient(n, d) = Side(n) * q
  BY DEF Quotient, size
<1> HIDE DEF q
<1>4. CASE n > 0
  <2>1. Quotient(n, d) = q
    BY <1>2, <1>3, <1>4 DEF Side
  <2>2. d * q \in Int
    BY <1>2
  <2>3. QED BY <1>1, <1>2, <1>4, <2>1, <2>2
<1>5. CASE n = 0
  <2>1. Quotient(n, d) = 0
    BY <1>2, <1>3, <1>5 DEF Side
  <2>2. QED BY <1>5, <2>1
<1>6. CASE n < 0
  <2>1. Quotient(n, d) = -q
    BY <1>2, <1>3, <1>6 DEF Side
  <2>2. d * q \in Int /\ d * (-q) = -(d * q)
    BY <1>2
  <2>3. QED BY <1>1, <1>2, <1>6, <2>1, <2>2
<1>7. QED BY <1>4, <1>5, <1>6

-----------------------------------------------------------------------------
(* A turn: what holds of it *)

TurnTypes ==
  /\ accum \in Int /\ filter \in Int /\ target \in Int /\ began \in Int
  /\ told \in Turns \union {0} /\ settle \in Nat /\ stall \in Nat

\* Where the last turn began: the heading has been zeroed, as near to where it is straight as
\* a turn swings, and each turn before the last has taken it no further than reach.
PlaceInv(reach) ==
  /\ turns \in Nat /\ turns <= MaxTurns
  /\ turns = 0 => told = 0 /\ began = 0 /\ turning \notin Kinds
  /\ turns > 0 =>
       /\ told # 0
       /\ began <= Swing + (turns - 1) * reach
       /\ -began <= Swing + (turns - 1) * reach
  /\ turning \in Kinds => target = began + told

TurnLoopInv(reach) == TurnTypes /\ PlaceInv(reach) /\ TurnsAsTold

-----------------------------------------------------------------------------
(* How far the heading gets *)

\* No turn takes the heading further than reach, nor do all of them leave an int16.
IsReach(reach) ==
  /\ reach \in Nat /\ Swing + MaxTurns * reach < Half
  /\ \A angle \in Turns : Magnitude(angle) + Swing <= reach

LEMMA NumbersAre ==
  /\ Half \in Nat \ {0} /\ Scale \in Nat \ {0} /\ MinError \in Nat /\ Swing \in Nat
  /\ MaxTurns \in Nat \ {0} /\ Turns \subseteq Int \ {0} /\ FilterDiv \in Nat \ {0}
  BY AngleAssumption, DutyAssumption, FilterAssumption

LEMMA ReachExists ==
  ASSUME HeadingHolds(MaxTurns)
  PROVE  \E reach : IsReach(reach)
<1>1. Half - 1 - Swing \in Int /\ MaxTurns \in Nat \ {0} /\ Half \in Nat /\ Swing \in Nat
      /\ Turns \subseteq Int
  BY NumbersAre
<1> DEFINE room == Half - 1 - Swing
           reach == room \div MaxTurns
<1>2. ASSUME NEW angle \in Turns
      PROVE  /\ Magnitude(angle) + Swing \in Nat
             /\ MaxTurns * (Magnitude(angle) + Swing) \in Nat
             /\ MaxTurns * (Magnitude(angle) + Swing) <= room
  <2> DEFINE far == Magnitude(angle) + Swing
  <2>1. far \in Nat /\ MaxTurns * far + Swing < Half
    BY <1>1, MagnitudeIs DEF HeadingHolds
  <2>2. MaxTurns * far \in Nat
    BY <1>1, <2>1
  <2> DEFINE all == MaxTurns * far
  <2>3. all \in Nat /\ all + Swing < Half
    BY <2>1, <2>2
  <2> HIDE DEF all
  <2>4. all <= room
    BY <1>1, <2>3
  <2>5. QED BY <2>1, <2>2, <2>4 DEF all
<1>3. room \in Nat
  <2>1. PICK angle : angle \in Turns
    BY AngleAssumption
  <2> DEFINE all == MaxTurns * (Magnitude(angle) + Swing)
  <2>2. all \in Nat /\ all <= room /\ room \in Int
    BY <1>1, <1>2, <2>1
  <2> HIDE DEF all, room
  <2>3. QED BY <2>2
<1> HIDE DEF room
<1>4. reach \in Nat /\ MaxTurns * reach <= room /\ room < MaxTurns * reach + MaxTurns
  BY <1>1, <1>3, DivisionIs
<1> HIDE DEF reach
<1>5. ASSUME NEW angle \in Turns PROVE Magnitude(angle) + Swing <= reach
  <2> DEFINE far == Magnitude(angle) + Swing
  <2>1. far \in Nat /\ MaxTurns * far <= room
    BY <1>2
  <2> HIDE DEF far
  <2>2. far <= reach
    <3> SUFFICES ASSUME far > reach PROVE FALSE
      BY <1>4, <2>1
    <3>1. PICK more \in Nat : far = reach + 1 + more
      <4>1. far - (reach + 1) \in Nat /\ far = reach + 1 + (far - (reach + 1))
        BY <1>4, <2>1
      <4>2. QED BY <4>1
    <3>2. MaxTurns * far = MaxTurns * reach + MaxTurns + MaxTurns * more
      BY <1>1, <1>4, <3>1
    <3>3. MaxTurns * more \in Nat /\ MaxTurns * reach \in Nat
      BY <1>1, <1>4, <3>1
    <3>4. QED BY <1>1, <1>3, <1>4, <2>1, <3>2, <3>3
  <2>3. QED BY <2>2 DEF far
<1>6. Swing + MaxTurns * reach < Half
  <2> DEFINE all == MaxTurns * reach
  <2>1. all \in Nat /\ all <= room
    BY <1>1, <1>4
  <2> HIDE DEF all
  <2>2. Swing + all < Half
    BY <1>1, <2>1 DEF room
  <2>3. QED BY <2>2 DEF all
<1>7. QED BY <1>4, <1>5, <1>6 DEF IsReach

\* How far the last turn has come and has to go, for a car that does not swing far.
LEMMA SwingBounds ==
  ASSUME NEW reach, IsReach(reach), TurnTypes, SwingIsSmall, told # 0
  PROVE  /\ Done \in Int /\ -reach <= Done /\ Done <= reach
         /\ Left \in Int /\ -reach <= Left /\ Left <= reach
<1>1. told \in Turns /\ told \in Int /\ Swing \in Nat /\ reach \in Nat
  BY NumbersAre DEF TurnTypes, IsReach
<1>2. Done \in Int /\ Left = told - Done
  BY <1>1, NumbersAre, QuotientIs DEF TurnTypes, Done, Left, Whole
<1>3. (IF told >= 0 THEN told ELSE -told) + Swing <= reach
  BY <1>1, MagnitudeIs DEF IsReach
<1> DEFINE done == Done
<1>4. done \in Int /\ \/ told >= 0 /\ -Swing <= done /\ done <= told + Swing
                      \/ told <= 0 /\ told - Swing <= done /\ done <= Swing
  BY <1>2 DEF SwingIsSmall
<1> HIDE DEF done
<1>5. -reach <= done /\ done <= reach /\ -reach <= told - done /\ told - done <= reach
  BY <1>1, <1>3, <1>4
<1>6. QED BY <1>1, <1>2, <1>4, <1>5 DEF done

\* Where the heading is between the turns and in one: far enough from the ends of an int16.
LEMMA PlaceIs ==
  ASSUME NEW reach, IsReach(reach), TurnLoopInv(reach), SwingIsSmall
  PROVE  /\ Whole(accum) \in Int /\ turns * reach \in Nat
         /\ Whole(accum) <= Swing + turns * reach /\ -Whole(accum) <= Swing + turns * reach
         /\ Heading = Whole(accum)
         /\ turning \in Kinds =>
              Left \in Int /\ -Half < Left /\ Left < Half /\ Error = Left
<1> DEFINE whole == Whole(accum)
<1>1. /\ whole \in Int /\ told \in Int /\ began \in Int /\ turns \in Nat /\ target \in Int
      /\ Half \in Nat /\ Swing \in Nat /\ MaxTurns \in Nat /\ reach \in Nat
      /\ turns <= MaxTurns /\ Swing + MaxTurns * reach < Half
  BY NumbersAre, QuotientIs DEF TurnLoopInv, TurnTypes, PlaceInv, IsReach, Whole
<1>2. Done = whole - began /\ Left = told - (whole - began)
  BY DEF Done, Left
<1> HIDE DEF whole
<1> DEFINE all == turns * reach
           most == MaxTurns * reach
<1>3. all \in Nat /\ most \in Nat /\ all <= most
  <2>1. PICK more \in Nat : MaxTurns = turns + more
    <3>1. MaxTurns - turns \in Nat /\ MaxTurns = turns + (MaxTurns - turns)
      BY <1>1
    <3>2. QED BY <3>1
  <2>2. most = all + more * reach
    BY <1>1, <2>1
  <2>3. all \in Nat /\ more * reach \in Nat
    BY <1>1, <2>1
  <2>4. QED BY <2>2, <2>3
<1>4. whole <= Swing + all /\ -whole <= Swing + all
  <2>1. CASE turns = 0
    <3>1. told = 0 /\ began = 0
      BY <2>1 DEF TurnLoopInv, PlaceInv
    <3>2. -Swing <= whole /\ whole <= Swing
      BY <1>1, <1>2, <3>1 DEF SwingIsSmall
    <3> HIDE DEF all
    <3>3. QED BY <1>1, <1>3, <3>2
  <2>2. CASE turns > 0
    <3>1. told # 0 /\ began <= Swing + (turns - 1) * reach /\ -began <= Swing + (turns - 1) * reach
      BY <2>2 DEF TurnLoopInv, PlaceInv
    <3>2. (turns - 1) * reach = all - reach
      BY <1>1
    <3>3. -reach <= whole - began /\ whole - began <= reach
      BY <1>2, <3>1, SwingBounds DEF TurnLoopInv
    <3> HIDE DEF all
    <3>4. began <= Swing + all - reach /\ -began <= Swing + all - reach
      BY <1>1, <1>3, <3>1, <3>2
    <3>5. QED BY <1>1, <1>3, <3>3, <3>4
  <2>3. QED BY <1>1, <2>1, <2>2
<1>5. Swing + most < Half
  BY <1>1
<1> HIDE DEF most
<1>6. -Half < whole /\ whole < Half
  <2> HIDE DEF all
  <2>1. QED BY <1>1, <1>3, <1>4, <1>5
<1>7. Heading = whole
  BY <1>1, <1>6 DEF Heading, Clamp16, whole
<1>8. ASSUME turning \in Kinds
      PROVE  Left \in Int /\ -Half < Left /\ Left < Half /\ Error = Left
  <2>1. turns # 0 /\ target = began + told
    BY <1>8 DEF TurnLoopInv, PlaceInv
  <2>2. told # 0 /\ reach <= all
    <3>1. PICK less \in Nat : turns = 1 + less
      <4>1. turns - 1 \in Nat /\ turns = 1 + (turns - 1)
        BY <1>1, <2>1
      <4>2. QED BY <4>1
    <3>2. all = reach + less * reach /\ less * reach \in Nat
      BY <1>1, <3>1
    <3>3. QED BY <1>1, <2>1, <3>2 DEF TurnLoopInv, PlaceInv
  <2> DEFINE left == told - (whole - began)
  <2>3. left \in Int /\ -reach <= left /\ left <= reach
    BY <1>2, <2>2, SwingBounds DEF TurnLoopInv
  <2>4. target - Heading = left
    BY <1>1, <1>7, <2>1
  <2> HIDE DEF left, all
  <2>5. -Half < left /\ left < Half
    BY <1>1, <1>3, <1>5, <2>2, <2>3
  <2>6. Error = left
    <3>1. Int16(left) = left
      BY <1>1, <2>3, <2>5, Int16Is
    <3>2. QED BY <2>4, <3>1, Zenon DEF Error
  <2>7. Left = left
    BY <1>2 DEF left
  <2>8. QED BY <2>3, <2>5, <2>6, <2>7
<1>9. QED BY <1>1, <1>3, <1>4, <1>7, <1>8 DEF whole

-----------------------------------------------------------------------------
(* The ticks *)

LEMMA StartTurnInv ==
  ASSUME NEW reach, IsReach(reach), TurnLoopInv(reach), SwingIsSmall,
         NEW kind \in Kinds, NEW angle \in Turns, StartTurn(kind, angle), now' = "device"
  PROVE  TurnLoopInv(reach)'
<1> DEFINE whole == Whole(accum)
           all == turns * reach
<1>1. /\ turns < MaxTurns /\ turning' = kind
      /\ target' = TargetOf(angle) /\ settle' = 0 /\ stall' = 0
      /\ told' = angle /\ began' = whole /\ turns' = turns + 1 /\ ended' = FALSE
      /\ accum' = accum /\ filter' = filter
  BY DEF StartTurn, gyroVars
<1>2. /\ whole \in Int /\ all \in Nat /\ whole <= Swing + all /\ -whole <= Swing + all
      /\ Heading = whole
  BY PlaceIs
<1>3. /\ accum \in Int /\ filter \in Int /\ turns \in Nat /\ angle \in Int \ {0} /\ reach \in Nat
      /\ Half \in Nat /\ Swing \in Nat /\ MaxTurns \in Nat
  BY NumbersAre DEF TurnLoopInv, TurnTypes, PlaceInv, IsReach
<1>4. -reach <= angle /\ angle <= reach
  <2>1. (IF angle >= 0 THEN angle ELSE -angle) + Swing <= reach
    BY <1>3, MagnitudeIs DEF IsReach
  <2>2. QED BY <1>3, <2>1
<1>5. (turns + 1 - 1) * reach = all
  BY <1>3
<1> HIDE DEF whole
<1>6. target' = whole + angle
  <2> DEFINE most == MaxTurns * reach
  <2>1. PICK more \in Nat : MaxTurns = turns + 1 + more
    <3>1. MaxTurns - (turns + 1) \in Nat /\ MaxTurns = turns + 1 + (MaxTurns - (turns + 1))
      BY <1>1, <1>3
    <3>2. QED BY <3>1
  <2> DEFINE rest == more * reach
  <2>2. most = all + reach + rest /\ rest \in Nat
    BY <1>3, <2>1
  <2>3. Swing + most < Half
    BY DEF IsReach
  <2> HIDE DEF all, most, rest
  <2>4. whole + angle \in Int /\ -Half <= whole + angle /\ whole + angle < Half
    BY <1>2, <1>3, <1>4, <2>2, <2>3
  <2>5. QED BY <1>1, <1>2, <2>4, Int16Is DEF TargetOf
<1>7. TurnTypes'
  BY <1>1, <1>2, <1>3, <1>6 DEF TurnTypes
<1>8. PlaceInv(reach)'
  <2>1. turns' \in Nat /\ turns' <= MaxTurns /\ turns' # 0 /\ told' # 0
    BY <1>1, <1>3
  <2>2. began' <= Swing + (turns' - 1) * reach /\ -began' <= Swing + (turns' - 1) * reach
    <3>1. turns' - 1 = turns + 1 - 1 /\ began' = whole
      BY <1>1, <1>3
    <3>2. (turns' - 1) * reach = all
      BY <1>5, <3>1
    <3> HIDE DEF all
    <3> DEFINE bound == Swing + (turns' - 1) * reach
    <3>3. bound = Swing + all
      BY <3>2
    <3> HIDE DEF bound
    <3>4. began' <= bound /\ -began' <= bound
      BY <1>2, <3>1, <3>3
    <3>5. QED BY <3>4 DEF bound
  <2>3. target' = began' + told'
    BY <1>1, <1>6
  <2>4. QED BY <2>1, <2>2, <2>3 DEF PlaceInv
<1>9. TurnsAsTold'
  BY <1>1 DEF TurnsAsTold
<1>10. QED BY <1>7, <1>8, <1>9 DEF TurnLoopInv

LEMMA ResetHeadingInv ==
  ASSUME NEW reach, TurnLoopInv(reach), ResetHeading, turning' \notin Kinds, target' \in Int,
         UNCHANGED <<settle, stall>>
  PROVE  TurnLoopInv(reach)'
<1>1. accum' = 0 /\ filter' = 0 /\ told' = 0 /\ began' = 0 /\ turns' = 0 /\ ended' = FALSE
  BY DEF ResetHeading, ResetCount
<1>2. QED
  BY <1>1, NumbersAre DEF TurnLoopInv, TurnTypes, PlaceInv, TurnsAsTold

\* A task tick that leaves the turn as it is, or ends it.
LEMMA TurnStays ==
  ASSUME NEW reach, TurnLoopInv(reach), now' # "task",
         UNCHANGED <<accum, filter, told, began, turns>>,
         turning' \notin Kinds \/ (turning' = turning /\ target' = target),
         target' \in Int, settle' \in Nat, stall' \in Nat,
         ended' => \E e \in Short : Magnitude(Left) <= e
  PROVE  TurnLoopInv(reach)'
<1>1. TurnTypes'
  BY DEF TurnLoopInv, TurnTypes
<1>2. PlaceInv(reach)'
  BY DEF TurnLoopInv, PlaceInv
<1>3. TurnsAsTold'
  <2>1. Left' = Left
    BY DEF Left, Done, Whole
  <2>2. Short' = Short /\ (Magnitude(Left))' = Magnitude(Left)
    BY <2>1 DEF Short, Magnitude, Side
  <2>3. QED BY <2>1, <2>2 DEF TurnsAsTold
<1>4. QED BY <1>1, <1>2, <1>3 DEF TurnLoopInv

LEMMA CheckTurnInv ==
  ASSUME NEW reach, IsReach(reach), TurnLoopInv(reach), SwingIsSmall, CheckTurn, now' = "device"
  PROVE  TurnLoopInv(reach)'
<1>1. /\ turning \in Kinds
      /\ settle' = IF Settling(turning) THEN settle + 1 ELSE 0
      /\ stall' = IF turning # "test" /\ ~Settling(turning) /\ Stalled THEN stall + 1 ELSE 0
      /\ ended' = (settle' >= DoneHold[turning] \/ stall' >= StallHold)
      /\ turning' \in {"none", "straight"} \/ turning' = turning
      /\ UNCHANGED <<accum, filter, target, told, began, turns>>
  BY DEF CheckTurn, gyroVars
<1>2. settle \in Nat /\ stall \in Nat /\ target \in Int
  BY DEF TurnLoopInv, TurnTypes
<1>3. Left \in Int /\ -Half < Left /\ Left < Half /\ Error = Left
  BY <1>1, PlaceIs
<1>4. settle' \in Nat /\ stall' \in Nat
  BY <1>1, <1>2
<1>5. ASSUME ended' PROVE \E e \in Short : Magnitude(Left) <= e
  <2>1. DoneHold[turning] \in Nat \ {0} /\ StallHold \in Nat \ {0} /\ StallError \in Nat
        /\ DoneError[turning] \in Nat
    BY <1>1, TestAssumption
  <2>2. Settling(turning) \/ Stalled
    <3> SUFFICES ASSUME ~Settling(turning), ~Stalled PROVE FALSE
      OBVIOUS
    <3>1. settle' = 0 /\ stall' = 0
      BY <1>1
    <3>2. settle' >= DoneHold[turning] \/ stall' >= StallHold
      BY <1>1, <1>5
    <3>3. QED BY <2>1, <3>1, <3>2
  <2>3. PICK e \in Short : Abs16(Error) <= e
    <3>1. StallError \in Short /\ DoneError[turning] \in Short
      BY <1>1 DEF Short
    <3>2. QED BY <2>1, <2>2, <3>1 DEF Settling, Stalled
  <2>4. Abs16(Left) = Magnitude(Left)
    BY <1>3, Abs16Is, MagnitudeIs
  <2>5. QED BY <1>3, <2>3, <2>4
<1>6. turning' \notin Kinds \/ (turning' = turning /\ target' = target)
  BY <1>1 DEF Kinds
<1>7. QED BY <1>1, <1>2, <1>4, <1>5, <1>6, TurnStays

LEMMA TaskTickTurnInv ==
  ASSUME NEW reach, IsReach(reach), TurnLoopInv(reach), SwingIsSmall, TaskTick
  PROVE  TurnLoopInv(reach)'
<1>1. now' = "device"
  BY DEF TaskTick
<1>2. target \in Int /\ settle \in Nat /\ stall \in Nat
  BY DEF TurnLoopInv, TurnTypes
<1>3. CASE \E kind \in Kinds, angle \in Turns : StartTurn(kind, angle)
  BY <1>1, <1>3, StartTurnInv
<1>4. CASE StartProgram
  <2>1. ResetHeading /\ turning' \notin Kinds /\ target' \in Int /\ UNCHANGED <<settle, stall>>
    BY <1>4 DEF StartProgram, Kinds
  <2>2. QED BY <2>1, ResetHeadingInv
<1>5. CASE ZeroHeading
  <2>1. ResetHeading /\ turning' \notin Kinds /\ target' \in Int /\ UNCHANGED <<settle, stall>>
    BY <1>2, <1>5 DEF ZeroHeading, Kinds, testVars
  <2>2. QED BY <2>1, ResetHeadingInv
<1>6. CASE CheckTurn
  BY <1>1, <1>6, CheckTurnInv
<1>7. CASE CancelTurn
  <2>1. /\ turning' \notin Kinds /\ target' = 0 /\ settle' = 0 /\ ended' = FALSE
        /\ UNCHANGED <<accum, filter, stall, told, began, turns>>
    BY <1>7 DEF CancelTurn, gyroVars, Kinds
  <2>2. QED BY <1>1, <1>2, <2>1, TurnStays
<1>8. CASE FinishProgram \/ Rest
  <2>1. /\ turning' \notin Kinds
        /\ UNCHANGED <<accum, filter, target, settle, stall, told, began, turns, ended>>
    BY <1>8 DEF FinishProgram, Rest, gyroVars, testVars, history, Kinds
  <2>2. ended' => \E e \in Short : Magnitude(Left) <= e
    BY <2>1 DEF TurnLoopInv, TurnsAsTold
  <2>3. QED BY <1>1, <1>2, <2>1, <2>2, TurnStays
<1>9. QED BY <1>3, <1>4, <1>5, <1>6, <1>7, <1>8 DEF TaskTick

LEMMA DeviceTickTurnInv ==
  ASSUME NEW reach, TurnLoopInv(reach), DeviceTick
  PROVE  TurnLoopInv(reach)'
<1>1. /\ now' = "control" /\ rate' \in Rates /\ filter' = Smoothed(filter, rate')
      /\ accum' = accum + Counted(active', filter') /\ ended' = FALSE
      /\ UNCHANGED <<turning, target, settle, stall, told, began, turns>>
  BY DEF DeviceTick, Sample, testVars
<1>2. rate' \in Int /\ filter \in Int /\ accum \in Int
  BY <1>1, MotionAssumption DEF TurnLoopInv, TurnTypes
<1>3. filter' \in Int
  <2>1. Quotient(rate' - filter, FilterDiv) \in Int
    BY <1>2, NumbersAre, QuotientIs
  <2>2. QED BY <1>1, <1>2, <2>1 DEF Smoothed
<1>4. accum' \in Int
  BY <1>1, <1>2, <1>3 DEF Counted
<1>5. TurnTypes'
  BY <1>1, <1>3, <1>4 DEF TurnLoopInv, TurnTypes
<1>6. PlaceInv(reach)'
  BY <1>1 DEF TurnLoopInv, PlaceInv
<1>7. TurnsAsTold'
  BY <1>1 DEF TurnsAsTold
<1>8. QED BY <1>5, <1>6, <1>7 DEF TurnLoopInv

LEMMA ControlTickTurnInv ==
  ASSUME NEW reach, IsReach(reach), TurnLoopInv(reach), SwingIsSmall, ControlTick
  PROVE  TurnLoopInv(reach)'
<1>1. /\ turning \in Kinds => wheels' = TurnDuty(Error, Yaw)
      /\ UNCHANGED <<accum, filter, turning, target, settle, stall, told, began, turns, ended>>
  BY DEF ControlTick, gyroVars, testVars, history
<1>2. TurnTypes'
  BY <1>1 DEF TurnLoopInv, TurnTypes
<1>3. PlaceInv(reach)'
  BY <1>1 DEF TurnLoopInv, PlaceInv
<1>4. Left' = Left /\ Short' = Short /\ (Magnitude(Left))' = Magnitude(Left)
  BY <1>1 DEF Left, Done, Whole, Short, Magnitude, Side
<1>5. ASSUME turning \in Kinds
      PROVE  (wheels' > 0 <=> Left > MinError) /\ (wheels' < 0 <=> Left < -MinError)
  <2>1. Left \in Int /\ -Half < Left /\ Left < Half /\ Error = Left
    BY <1>5, PlaceIs
  <2>2. Yaw \in Int /\ MinError \in Nat
    BY NumbersAre DEF TurnLoopInv, TurnTypes, Yaw
  <2> DEFINE left == Left
             push == TurnDuty(left, Yaw)
  <2>3. /\ push \in Int
        /\ -MinError <= left /\ left <= MinError => push = 0
        /\ left > MinError => push > 0
        /\ left < -MinError => push < 0
    BY <2>1, <2>2, DutyIs
  <2>4. wheels' = push /\ left \in Int
    BY <1>1, <1>5, <2>1
  <2> HIDE DEF left, push
  <2>5. (push > 0 <=> left > MinError) /\ (push < 0 <=> left < -MinError)
    BY <2>2, <2>3, <2>4
  <2>6. QED BY <2>4, <2>5 DEF left
<1>6. TurnsAsTold'
  BY <1>1, <1>4, <1>5 DEF TurnLoopInv, TurnsAsTold
<1>7. QED BY <1>2, <1>3, <1>6 DEF TurnLoopInv

\* Every turn goes to its angle from where it began (task_service.c, the start and the tests
\* of a turn, motion_control.c, MotionControl_RunTurnHeadingDutyPath), whatever the windows,
\* duties and angles and however the car moves, as long as it does not swing further than
\* Swing past its turns and the turns since the heading was zeroed stay in an int16.
THEOREM TurnsDoAsTold ==
  ASSUME HeadingHolds(MaxTurns)
  PROVE  TurnSpec /\ []SwingIsSmall => []TurnsAsTold
<1>1. PICK reach : IsReach(reach)
  BY ReachExists
<1>2. TurnInit => TurnLoopInv(reach)
  BY NumbersAre DEF TurnInit, TrailInit, TurnLoopInv, TurnTypes, PlaceInv, TurnsAsTold, Kinds
<1>3. TurnLoopInv(reach) /\ SwingIsSmall /\ [TurnNext]_turnVars => TurnLoopInv(reach)'
  <2> SUFFICES ASSUME TurnLoopInv(reach), SwingIsSmall, [TurnNext]_turnVars
               PROVE  TurnLoopInv(reach)'
    OBVIOUS
  <2>1. CASE TaskTick
    BY <1>1, <2>1, TaskTickTurnInv
  <2>2. CASE DeviceTick
    BY <2>2, DeviceTickTurnInv
  <2>3. CASE ControlTick
    BY <1>1, <2>3, ControlTickTurnInv
  <2>4. CASE UNCHANGED turnVars
    <3>1. UNCHANGED <<accum, filter, wheels, turning, target, settle, stall, now, told, began,
                      turns, ended>>
      BY <2>4 DEF turnVars, gyroVars, testVars, history
    <3>2. TurnTypes' /\ PlaceInv(reach)'
      BY <3>1 DEF TurnLoopInv, TurnTypes, PlaceInv
    <3>3. Left' = Left /\ Short' = Short /\ (Magnitude(Left))' = Magnitude(Left)
      BY <3>1 DEF Left, Done, Whole, Short, Magnitude, Side
    <3>4. TurnsAsTold'
      BY <3>1, <3>3 DEF TurnLoopInv, TurnsAsTold
    <3>5. QED BY <3>2, <3>4 DEF TurnLoopInv
  <2>5. QED BY <2>1, <2>2, <2>3, <2>4 DEF TurnNext
<1>4. TurnLoopInv(reach) => TurnsAsTold
  BY DEF TurnLoopInv
<1>5. QED BY <1>2, <1>3, <1>4, PTL DEF TurnSpec

-----------------------------------------------------------------------------
(* The counting of the heading *)

\* A sample that is counted is one that the dead band leaves alone.
LEMMA CountedSample ==
  ASSUME NEW was \in Int, NEW v \in Int, NEW before,
         ActiveAfter(before, Smoothed(was, v)) = ActiveCount
  PROVE  Smoothed(was, v) = was + Quotient(v - was, FilterDiv)
<1> DEFINE next == was + Quotient(v - was, FilterDiv)
<1>1. Smoothed(was, v) = IF Magnitude(next) <= Deadband THEN 0 ELSE next
  BY DEF Smoothed
<1> HIDE DEF next
<1>2. ~(Magnitude(Smoothed(was, v)) < IntegrateFrom)
  BY FilterAssumption DEF ActiveAfter
<1>3. Magnitude(0) = 0
  BY DEF Magnitude, Side
<1>4. Smoothed(was, v) = next
  BY <1>1, <1>2, <1>3, FilterAssumption
<1>5. QED BY <1>4 DEF next

TrailInv ==
  /\ accum \in Int /\ filter \in Int /\ owed \in Int /\ entered \in Int /\ samples \in Nat
  /\ HeadingTrails

LEMMA SampleTrails == ASSUME TrailInv, rate' \in Int, Sample PROVE TrailInv'
<1> DEFINE v == rate'
           lag == FilterDiv - 1
           q == Quotient(v - filter, FilterDiv)
<1>1. /\ v \in Int /\ filter \in Int /\ owed \in Int /\ entered \in Int
      /\ samples \in Nat /\ accum \in Int
      /\ FilterDiv \in Nat \ {0} /\ lag \in Nat
  BY FilterAssumption DEF TrailInv
<1>2. /\ q \in Int
      /\ (v - filter) - FilterDiv * q <= lag /\ FilterDiv * q - (v - filter) <= lag
  BY <1>1, QuotientIs
<1>3. filter' = Smoothed(filter, v)
  BY DEF Sample
<1>4. filter' \in Int /\ accum' \in Int
  <2>1. filter' \in Int
    BY <1>1, <1>2, <1>3 DEF Smoothed
  <2>2. QED BY <1>1, <2>1 DEF Sample, Counted
<1>5. CASE active' = ActiveCount /\ samples < MaxSamples
  <2>0. accum' - accum = filter'
    <3>1. accum' = accum + filter'
      <4>1. ~(active' < ActiveCount)
        BY <1>5, FilterAssumption
      <4>2. accum' = accum + Counted(active', filter')
        BY DEF Sample
      <4>3. Counted(active', filter') = filter'
        BY <4>1 DEF Counted
      <4>4. QED BY <4>2, <4>3
    <3>2. \A m, n \in Int : (m + n) - m = n
      OBVIOUS
    <3>3. accum \in Int /\ filter' \in Int
      BY <1>1, <1>4
    <3>4. (accum + filter') - accum = filter'
      BY <3>2, <3>3
    <3>5. QED BY <3>1, <3>4
  <2>1. /\ owed' = owed + v - filter' /\ samples' = samples + 1 /\ entered' = entered
    BY <1>5, <2>0 DEF Sample
  <2>2. filter' = filter + q
    <3>1. ActiveAfter(active, Smoothed(filter, v)) = ActiveCount
      BY <1>3, <1>5 DEF Sample
    <3>2. QED BY <1>1, <1>3, <3>1, CountedSample
  <2> DEFINE far == lag * (filter - entered)
             most == lag * samples
             gain == (v - filter) - FilterDiv * q
  <2>3. far \in Int /\ most \in Nat /\ gain \in Int /\ -lag <= gain /\ gain <= lag
    BY <1>1, <1>2
  <2>4. -most <= owed - far /\ owed - far <= most
    <3>1. Magnitude(owed - far) <= most
      BY DEF TrailInv, HeadingTrails
    <3> HIDE DEF far, most
    <3>2. QED BY <1>1, <2>3, <3>1, MagnitudeIs
  <2>5. lag * (filter' - entered') = far + lag * q /\ lag * samples' = most + lag
    BY <1>1, <1>2, <2>1, <2>2
  <2>6. FilterDiv * q = lag * q + q
    BY <1>1, <1>2
  <2> DEFINE step == lag * q
  <2>7. step \in Int /\ FilterDiv * q = step + q
    BY <1>1, <1>2, <2>6
  <2>8. gain = v - filter - step - q
    BY <1>1, <1>2, <2>7
  <2>9. owed' - (far + step) = (owed - far) + gain
    <3>1. q \in Int /\ step \in Int /\ far \in Int
      BY <1>2, <2>3, <2>7
    <3> HIDE DEF far, gain, step, q
    <3>2. owed' = owed + v - (filter + q) /\ gain = v - filter - step - q
      BY <2>1, <2>2, <2>8
    <3>3. QED BY <1>1, <3>1, <3>2
  <2>10. owed' \in Int /\ samples' \in Nat /\ entered' \in Int
    BY <1>1, <1>4, <2>1
  <2>11. Magnitude(owed' - (far + step)) <= most + lag
    <3> HIDE DEF far, gain, step, most, lag
    <3>1. (owed - far) + gain <= most + lag /\ -((owed - far) + gain) <= most + lag
      BY <1>1, <2>3, <2>4
    <3>2. owed' - (far + step) \in Int
      BY <2>3, <2>7, <2>10
    <3>3. QED BY <2>9, <3>1, <3>2, MagnitudeIs
  <2>12. HeadingTrails'
    <3>1. (Magnitude(owed - lag * (filter - entered)))'
            = Magnitude(owed' - lag * (filter' - entered'))
      BY DEF Magnitude, Side
    <3>2. QED BY <2>5, <2>11, <3>1 DEF HeadingTrails
  <2>13. QED BY <1>1, <1>3, <1>4, <2>10, <2>12 DEF TrailInv
<1>6. CASE ~(active' = ActiveCount /\ samples < MaxSamples)
  <2>1. owed' = 0 /\ samples' = 0 /\ entered' = filter'
    BY <1>6 DEF Sample
  <2>2. HeadingTrails'
    <3>1. filter' - entered' = 0
      <4>1. \A m \in Int : m - m = 0
        OBVIOUS
      <4>2. QED BY <1>4, <2>1, <4>1
    <3>2. lag * 0 = 0
      <4> HIDE DEF lag
      <4>1. QED BY <1>1
    <3>3. owed' - lag * (filter' - entered') = 0 /\ lag * samples' = 0
      BY <2>1, <3>1, <3>2
    <3>4. QED BY <3>3 DEF HeadingTrails, Magnitude, Side
  <2>3. QED BY <1>1, <1>3, <1>4, <2>1, <2>2 DEF TrailInv
<1>7. QED BY <1>5, <1>6

\* What does not sample leaves the balance alone or zeroes it.
LEMMA CountStays == ASSUME TrailInv, ResetCount \/ UNCHANGED gyroVars PROVE TrailInv'
<1>1. (FilterDiv - 1) * (0 - 0) = 0 /\ (FilterDiv - 1) * 0 = 0
  BY FilterAssumption
<1>2. CASE ResetCount
  BY <1>1, <1>2 DEF ResetCount, TrailInv, HeadingTrails, Magnitude, Side
<1>3. CASE UNCHANGED gyroVars
  BY <1>3 DEF gyroVars, TrailInv, HeadingTrails, Magnitude, Side
<1>4. QED BY <1>2, <1>3

\* The heading is behind the car by what the filter delays and what the divisions cut off,
\* and by nothing else while it is counted (DeviceGyro_UpdateStreamData): for all divisors,
\* dead bands, thresholds and rates, over stretches of any length.
THEOREM HeadingTrailsTheCar == TurnSpec => []HeadingTrails
<1>1. TurnInit => TrailInv
  <2> SUFFICES ASSUME TurnInit PROVE TrailInv
    OBVIOUS
  <2>1. (FilterDiv - 1) * (0 - 0) = 0 /\ (FilterDiv - 1) * 0 = 0
    BY FilterAssumption
  <2>2. QED BY <2>1 DEF TurnInit, TrailInit, TrailInv, HeadingTrails, Magnitude, Side
<1>2. TrailInv /\ [TurnNext]_turnVars => TrailInv'
  <2> SUFFICES ASSUME TrailInv, [TurnNext]_turnVars PROVE TrailInv'
    OBVIOUS
  <2>1. CASE TaskTick
    <3>1. ResetCount \/ UNCHANGED gyroVars
      BY <2>1 DEF TaskTick, StartTurn, StartProgram, ZeroHeading, ResetHeading, CheckTurn,
                  CancelTurn, FinishProgram, Rest
    <3>2. QED BY <3>1, CountStays
  <2>2. CASE DeviceTick
    <3>1. rate' \in Int /\ Sample
      BY <2>2, MotionAssumption DEF DeviceTick
    <3>2. QED BY <3>1, SampleTrails
  <2>3. CASE ControlTick \/ UNCHANGED turnVars
    <3>1. UNCHANGED gyroVars
      BY <2>3 DEF ControlTick, turnVars
    <3>2. QED BY <3>1, CountStays
  <2>4. QED BY <2>1, <2>2, <2>3 DEF TurnNext
<1>3. TrailInv => HeadingTrails
  BY DEF TrailInv
<1>4. QED BY <1>1, <1>2, <1>3, PTL DEF TurnSpec

=============================================================================
