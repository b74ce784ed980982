------------------------------ MODULE KeyPanel ------------------------------
(***************************************************************************)
(* The keys and the buzzer: a key event that opens a page or zeroes the    *)
(* sensors is confirmed by a tone, and the SysTick handler is the clock of *)
(* both.                                                                   *)
(***************************************************************************)
EXTENDS KeyDebounce, Buzzer

CONSTANTS StartupTone, ConfirmTone

ASSUME ToneAssumption == {StartupTone, ConfirmTone} \subseteq Patterns

panelVars == <<vars, tone>>

PanelPoll == Polls /\ UNCHANGED tone

\* The event opened a page, with DeviceCenter_PlayConfirm, or closed one.
PageChanges == Suppress /\ (LoadSequence(ConfirmTone) \/ UNCHANGED tone)

\* KEY_UP on the Sensor page.
SensorZero ==
  /\ event # NoKey
  /\ event' = NoKey
  /\ UNCHANGED <<pins, keyState, history>>
  /\ LoadSequence(ConfirmTone)

Contacts == (\E k \in Key : Bounce(k)) /\ UNCHANGED tone

\* SysTick_Handler; the polls tell times only up to the debounce time.
SysTickHandler ==
  /\ BuzzerTick
  /\ \/ Time
     \/ {sinceChange, steady, quiet} = {DebounceMs} /\ UNCHANGED vars

PanelInit == Init /\ BuzzerInit(StartupTone)

PanelNext == PanelPoll \/ PageChanges \/ SensorZero \/ Contacts \/ SysTickHandler

PanelSpec ==
  /\ PanelInit
  /\ [][PanelNext]_panelVars
  /\ WF_panelVars(PanelPoll) /\ WF_panelVars(SysTickHandler)

=============================================================================
