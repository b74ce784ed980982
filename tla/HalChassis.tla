------------------------------ MODULE HalChassis ------------------------------
(***************************************************************************)
(* The chassis driver (hal_chassis.c): motor outputs and wheel encoders.   *)
(*                                                                         *)
(* A motor turns as its PWM compare value and two direction pins say.  The *)
(* pins hang on a 595 shift register shared by all wheels, so              *)
(* SetWheelDuty writes the compare value and a shadow of the pins wheel by *)
(* wheel and shifts the shadow out at the end.                             *)
(*                                                                         *)
(* An encoder has two pins, A and B, whose edges raise one interrupt.  Its *)
(* handler reads and clears the pending mask, reads the levels of the pins *)
(* in it and decodes one step of the wheel; pins go on changing while it   *)
(* runs.  The driver's wheel here is one with direction sign 1.            *)
(*                                                                         *)
(* Duties are taken after compensation, whose scales are within 1 % and    *)
(* whose trims and start duties are 0.                                     *)
(***************************************************************************)
EXTENDS Integers, FiniteSets

CONSTANTS WheelCount,   \* APP_BOARD_WHEEL_COUNT: 4
          DutyLimit,    \* APP_MOTOR_DUTY_LIMIT: 1000
          SlewStep,     \* APP_MOTOR_OUTPUT_SLEW_STEP: 140
          ReverseStep,  \* APP_MOTOR_OUTPUT_SLEW_REVERSE_STEP: 320
          MaxTurn       \* bound of the model: how far the wheel and its count go

Wheels == 1 .. WheelCount
Duties == -DutyLimit .. DutyLimit

ASSUME ChassisAssumption ==
  /\ WheelCount \in Nat \ {0} /\ DutyLimit \in Nat /\ MaxTurn \in Nat
  /\ SlewStep \in Nat \ {0} /\ ReverseStep \in Nat \ {0}

VARIABLES
  duty,      \* g_last_wheel_duty, which is also what the compare registers hold
  shadow,    \* g_shift595_shadow: the direction of each wheel
  latched,   \* the outputs of the 595
  dirty,     \* g_shift595_dirty
  applied,   \* wheels that the call in progress has been through, 0 between calls
  stopping,  \* history: calls in a row that told each wheel to stop
  position,  \* the true position of the encoder's wheel, in edges
  pending,   \* interrupt status: its two pins, and those of the other wheels as one
  isr,       \* where GROUP1_IRQHandler is
  mask,      \* pending_mask
  level,     \* raw_level
  prev,      \* g_prev_quad_state
  ticks,     \* wheel_ticks
  outrun     \* history: once, an edge came before the one before it was decoded

motorVars == <<duty, shadow, latched, dirty, applied, stopping>>
encoderVars == <<position, pending, isr, mask, level, prev, ticks, outrun>>
vars == <<motorVars, encoderVars>>

Sign(n) == IF n > 0 THEN 1 ELSE IF n < 0 THEN -1 ELSE 0

\* The calls a wheel needs from full speed to a standstill, rounded up: 8.
StopCalls == (DutyLimit + SlewStep - 1) \div SlewStep

-----------------------------------------------------------------------------
(* Motors *)

\* A reversal is slewed faster.
StepToward(current, target) ==
  IF Sign(current) * Sign(target) < 0 THEN ReverseStep ELSE SlewStep

\* Faulty variant: a step may go past its target.
SlewDutyPast(current, target) ==
  current + Sign(target - current) * StepToward(current, target)

\* HalChassis_SlewDuty
SlewDuty(current, target) ==
  IF (target - current) * Sign(target - current) <= StepToward(current, target) THEN target
  ELSE current + Sign(target - current) * StepToward(current, target)

\* How often in a row a wheel has been told to stop.
StopCount(w, target) ==
  IF target # 0 THEN 0 ELSE IF stopping[w] = StopCalls THEN StopCalls ELSE stopping[w] + 1

\* Faulty variant: the pins are shifted out only when a wheel starts or stops.
ApplyWheelDutyLazily ==
  /\ applied < WheelCount
  /\ applied' = applied + 1
  /\ \E target \in Duties :
       LET w == applied'
           new == SlewDuty(duty[w], target)
       IN /\ duty' = [duty EXCEPT ![w] = new]
          /\ shadow' = [shadow EXCEPT ![w] = Sign(new)]
          /\ dirty' = (dirty \/ (new = 0) # (duty[w] = 0))
          /\ stopping' = [stopping EXCEPT ![w] = StopCount(w, target)]
  /\ UNCHANGED <<latched, encoderVars>>

\* HalChassis_SetWheelDuty, one turn of the loop, with HalChassis_ApplyWheelDuty, which
\* skips a wheel whose duty stays.
ApplyWheelDuty ==
  /\ applied < WheelCount
  /\ applied' = applied + 1
  /\ \E target \in Duties :
       LET w == applied'
           new == SlewDuty(duty[w], target)
       IN /\ duty' = [duty EXCEPT ![w] = new]
          /\ shadow' = IF new = duty[w] THEN shadow ELSE [shadow EXCEPT ![w] = Sign(new)]
          /\ dirty' = (dirty \/ new # duty[w])
          /\ stopping' = [stopping EXCEPT ![w] = StopCount(w, target)]
  /\ UNCHANGED <<latched, encoderVars>>

\* The end of the call: HalChassis_ShiftOut595 if the shadow is dirty.
ShiftOut595 ==
  /\ applied = WheelCount
  /\ applied' = 0
  /\ latched' = IF dirty THEN shadow ELSE latched
  /\ dirty' = FALSE
  /\ UNCHANGED <<duty, shadow, stopping, encoderVars>>

\* HalChassis_Tick10ms
Tick10ms ==
  /\ applied = 0
  /\ latched' = IF dirty THEN shadow ELSE latched
  /\ dirty' = FALSE
  /\ UNCHANGED <<duty, shadow, applied, stopping, encoderVars>>

-----------------------------------------------------------------------------
(* The encoder *)

\* The levels of the two pins as the wheel turns: A leads B when it turns forwards.
PinsAt(p) == [A |-> p % 4 \in {1, 2}, B |-> p % 4 \in {2, 3}]

\* quad_table: a step forwards or backwards, 0 for the two-bit jumps.
Step(old, new) ==
  IF \E i \in 0 .. 3 : old = PinsAt(i) /\ new = PinsAt(i + 1) THEN 1
  ELSE IF \E i \in 0 .. 3 : new = PinsAt(i) /\ old = PinsAt(i + 1) THEN -1
  ELSE 0

\* The wheel turns by one edge, at any point of the handler.
Turn ==
  \E d \in {-1, 1} :
    /\ {position + d, ticks} \subseteq -MaxTurn .. MaxTurn
    /\ position' = position + d
    /\ pending' = pending \union
         {pin \in {"A", "B"} : PinsAt(position)[pin] # PinsAt(position')[pin]}
    /\ outrun' = (outrun \/ ticks # position)
    /\ UNCHANGED <<motorVars, isr, mask, level, prev, ticks>>

\* An edge of another wheel, which runs the same handler.
OtherWheelTurns ==
  /\ pending' = pending \union {"other"}
  /\ UNCHANGED <<motorVars, position, isr, mask, level, prev, ticks, outrun>>

\* GROUP1_IRQHandler reads the pending mask,
EnterIsr ==
  /\ isr = "off" /\ pending # {}
  /\ mask' = pending
  /\ isr' = "clear"
  /\ UNCHANGED <<motorVars, position, pending, level, prev, ticks, outrun>>

\* Faulty variant: the status of every pin is cleared.
ClearStatusOfAll ==
  /\ isr = "clear"
  /\ pending' = {}
  /\ isr' = "A"
  /\ UNCHANGED <<motorVars, position, mask, level, prev, ticks, outrun>>

\* clears it,
ClearStatus ==
  /\ isr = "clear"
  /\ pending' = pending \ mask
  /\ isr' = "A"
  /\ UNCHANGED <<motorVars, position, mask, level, prev, ticks, outrun>>

\* reads the level of one pin after the other (HalChassis_RefreshEncoderLevel)
RefreshLevel ==
  /\ isr \in {"A", "B"}
  /\ level' = IF isr \in mask THEN [level EXCEPT ![isr] = PinsAt(position)[isr]] ELSE level
  /\ isr' = IF isr = "A" THEN "B" ELSE "decode"
  /\ UNCHANGED <<motorVars, position, pending, mask, prev, ticks, outrun>>

\* and decodes them; a two-bit jump keeps the old state (HalChassis_UpdateWheelTicks).
UpdateWheelTicks ==
  /\ isr = "decode"
  /\ ticks' = ticks + Step(prev, level)
  /\ prev' = IF Step(prev, level) # 0 THEN level ELSE prev
  /\ isr' = "off"
  /\ UNCHANGED <<motorVars, position, pending, mask, level, outrun>>

-----------------------------------------------------------------------------
\* HalChassis_Init, with the wheels at rest.
Init ==
  /\ duty = [w \in Wheels |-> 0] /\ shadow = [w \in Wheels |-> 0]
  /\ latched = [w \in Wheels |-> 0] /\ dirty = FALSE
  /\ applied = 0 /\ stopping = [w \in Wheels |-> 0]
  /\ position = 0 /\ pending = {} /\ isr = "off" /\ mask = {}
  /\ level = PinsAt(0) /\ prev = PinsAt(0) /\ ticks = 0 /\ outrun = FALSE

Motors == ApplyWheelDuty \/ ShiftOut595 \/ Tick10ms

GROUP1_IRQHandler == EnterIsr \/ ClearStatus \/ RefreshLevel \/ UpdateWheelTicks

\* The handler interrupts the main loop and returns before it goes on.
Next ==
  \/ isr = "off" /\ Motors
  \/ GROUP1_IRQHandler
  \/ Turn
  \/ OtherWheelTurns

Spec == Init /\ [][Next]_vars

-----------------------------------------------------------------------------
(* Properties *)

\* Outside a call every wheel is driven the way its duty says: the compare values written
\* at once and the pins shifted out later never stay apart.
PinsAgree == applied = 0 => ~dirty /\ \A w \in Wheels : latched[w] = Sign(duty[w])

\* Whatever was commanded before and however often the direction changed, a wheel that is
\* told to stop stands still after StopCalls control ticks (80 ms), and stays so.
StopsInTime ==
  \A w \in Wheels : applied = 0 /\ stopping[w] = StopCalls => duty[w] = 0 /\ latched[w] = 0

\* No edge is lost between the handler's reading, clearing and sampling, whatever else the
\* other wheels make it do: when it has nothing left to do, the levels are those of the
\* pins, and the count is the wheel's position as long as each edge was decoded before the
\* wheel's next.  Beyond that the count is still right modulo a full cycle of four once
\* the decoder has caught up.
TicksFollowTheWheel ==
  isr = "off" /\ pending = {} =>
    /\ level = PinsAt(position)
    /\ ~outrun => ticks = position
    /\ prev = level => (ticks - position) % 4 = 0

=============================================================================
