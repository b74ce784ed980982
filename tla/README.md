# Verification of the H-304 car firmware

This directory holds TLA+ models of the firmware in `src/app` (an MSPM0 car with four
wheels, a gyro, a menu on an OLED and a handful of driving tasks) and of the program of its
camera board, `src/K230/k230_route_planner.py`, the TLC
configurations that check them and the TLAPS proofs about them. `PROJECT.json` lists the
runs, the theorems, the hazards and, for every definition, the lines of C it stands for.

## The system

One main loop (`src/empty.c`) alternates a pass of a cooperative scheduler with one tick of
the UI and sleeps until the next interrupt. Two interrupts matter: the SysTick (the
millisecond counter and the buzzer) and GROUP1 (the wheel encoders). The scheduler calls, in
this order of registration (`app_system.c:113`), HAL 1 ms, HAL chassis 10 ms, task service
10 ms (+1), device center 10 ms (+2), motion control 10 ms (+3), interaction 50 ms and debug.
Nothing preempts a tick but the interrupts; what makes the order of ticks vary is a pass that
comes late, above all because a redraw of the OLED takes 30 to 45 ms.

```
 keys -> MenuPort -> MenuApp -> InteractionService --Enqueue/Cancel--> TaskService
                       |  ^lines        |settings                          | BehaviorMotion
                      OLED              v AppConfig --read every tick-->   v g_motion_command
 encoders -> HalChassis (ISR) -> DeviceCenter --snapshot--> TaskService, MotionControl
 gyro bus -> DeviceGyro ------------^                                      |
 motors   <- HalChassis <-----------------SetWheelDuty--------------------'
 debug node --printf--> Serial (ring) --1 ms HAL node--> UART      opened pages --> Buzzer (SysTick)
```

The K230 board runs a program of its own: it looks at a field of black and white pillars, votes
over a number of frames, chooses the cheapest of sixteen routes that passes between no two black
pillars and sends its number over a serial line for as long as it runs. The firmware of this
revision reads nothing from that line.

| component | state | operations | what is hard | what makes it correct |
|---|---|---|---|---|
| Scheduler, `app_scheduler.c`, `AppTick.c` | due times, the wrapping counter | register, run, SysTick | late passes, wrap, interrupt inside a pass | no drift, no call early, twice or never, no starvation |
| Task service, `task_service.c` | ring of requests, status, phase, counters, origins | enqueue, cancel, tick: start, run a phase, finish | shared static counters, thirty phases, cancel at any point | no double booking, order, the command follows the phase, holds are respected, actions end |
| Behavior layer, `behavior_motion.c` | the command in force | one setter per behaviour | | a command is complete each time it is set |
| Motion control, `motion_control.c` | last command, references, exit windows, PIDs | 10 ms tick | it sees a change of command only by comparison | it works on the segment in force |
| Device center, `device_center.c` | snapshot, zero of the frame | tick, reset | zero at any time, gyro lost at any time | no stale heading, no frame moved under a run |
| Gyro, `device_gyro.c` | 16-state driver | tick, reset heading | every transfer may fail | it recovers, and only a whole calibration locks it |
| Chassis, `hal_chassis.c` | duties, 595 shadow, levels, ticks | set duty, tick, ISR | pins behind a shift register, edges during the handler | pins agree, stops are bounded, no edge lost |
| Interaction, `interaction_service.c` | open page, lines, dirty flag, tuned values | open, close, tick, adjust | polled through two layers | the car runs for the open page only, no update lost |
| Menu, `menu.c`, `menu_app.c` | cursor, window, page | key handling | wrap-around of lists | cursor visible |
| Keys, `menu_port.c` | debouncer | poll, suppress | bounces, two readings per poll | one event per press |
| Serial port, `Serial.c` | transmit ring | printf, 1 ms tick | the ring is full when a pass is late | bytes leave in order, unmixed, and all that are in the ring leave |
| Buzzer, `Buzzer.c` | pattern, index, remaining time | load, 1 ms tick | loaded from the main loop over a pattern that plays | a tone is its pattern |
| K230 script | votes, route, send time | set up, a frame, a turn of the sending loop | misread frames, ties, the timeout | no route between black pillars, noise outvoted, the number is sent |
| OLED, board pins, PID, track sensor | | | | not modelled, see below |

The full list, with the status of each, is `components` in `PROJECT.json`.

## Modules

Each module names the functions of its definitions; a `Faulty variant` is a plausible bug
that a property has been seen to catch and is used nowhere in the specification.

- `BehaviorMotion`: the command record and its setters. Arguments are kept only where a
  module above needs them.
- `TaskPrograms`: the Run functions as data. Each is a switch over `phase_index`; a phase is a
  record of its command, its exit test (`until`), how long the test must hold (`limit`), whether a
  stall also ends it and its successor. `TaskProgram` has all fifteen actions.
- `TaskService`: `Enqueue`, `CancelCurrent` and the tick (`RestIdle`, `StartNext`, `RunPhase`) on the
  ring `g_queue` as an array with `head`, `tail`, `size`. The sensors are one variable `reading`: does
  the test of the current phase hold on this tick. `ActionQueue` is its abstract specification
  (a queue of distinct actions and a runner). `TaskHistory` adds a history variable.
  `TaskServiceProofs` has the proofs of its invariants and of the refinement.
- `MenuTree`, `SettingsPages`: the menu and the tuning pages as operators on records.
- `UiSession`: menu, interaction layer and task service together. `UiTick` is `MenuApp_Tick` or
  `MenuPort_Tick`; the task tick, the 50 ms tick and time interleave with it. `UiSessionProofs` has
  the proofs.
- `KeyDebounce`: `MenuPort_GetKey` over contacts that change at any time, including between its
  two readings. `Buzzer` is the pattern player; `KeyPanel` composes the two under the SysTick, with the
  pages that an event opens and the tones that confirm it. `KeyProofs` has the proofs.
- `AppScheduler`: `AppScheduler_Run`, one node per step, with the SysTick at any step. `SerialPort` is
  the transmit ring with its printing, its draining and the UART behind it; `DebugLink` composes the two:
  the scheduler's calls of the HAL and the debug node drain and fill the ring. `LineFifo` is
  the abstract specification of the port, a queue that appends what fits of a line and sends from
  its front. `DebugLinkProofs` has the proof of the refinement and those about the scheduler.
- `DeviceGyro`: the driver as operators on a record, one per handler. `DeviceCenter` calls them
  in its tick, with runs, the Sensor page and a bus that may turn noisy and good again.
  `DeviceCenterProofs` has the proofs about both.
- `MotionControl`: change detection, latches, freeze, boost and release of the control tick, as
  operators and variables. `DriveLoop` composes it with the task tick for one run and with the
  device tick, under the scheduler's order: `Mark` makes the next tick due, `BeginPass` takes what is
  due, and marks during a pass wait, so control ticks can be missed between two task ticks.
  `DriveLoopProofs` has the proofs.
- `HeadingFilter`: what the gyro driver makes of the rate that the chip measures, as operators: the
  filter, whose division lags and cuts off, the dead band, which resets it, and the threshold
  and the count of samples from which on the heading is counted. `HeadingTrail` counts the heading with them
  and keeps account of what it owes to the angle that the car has turned.
- `TurnLoop`: a turn on the spot in the arithmetic of the code: the heading is counted by
  `HeadingTrail`, target and errors wrap at 16 bits, the reported heading saturates, the duty falls
  with the error and rises again with the floor, and the tests of the three kinds of turns and
  the rule for stalls end it. A turn begins as `TaskService_StartTurnPhase` does, without looking at
  the car: out of a straight that still steers, at rest, or in the motion of the turn that was
  cancelled the tick before. How the car moves under a duty is the parameter `Moves`.
- `HalChassis`: `SetWheelDuty` one wheel per step, the 595, and `GROUP1_IRQHandler` in five steps
  with edges at each. `WheelProofs` has the proofs about the motor outputs, the encoders and
  the turn of `TurnLoop`.
- `RoutePlanner`: the rules of the K230 script as operators (colours from brightnesses by the widest
  gap, lanes, costs, choice, votes). `RouteSender` is the program around them, from set-up over
  the frames, the vote and the timeout to the sending loop, with the failures of camera,
  display and port. `RouteProofs` has the proofs about both.

## Runs

Every run takes under four minutes with two workers (`ui_session` is the longest). Deadlock is checked in every one.

| run | instance and bounds | what it shows |
|---|---|---|
| `task_queue` | SENSOR_SCAN, Q3 and ROUTE_2500, which have between them timed phases, straights with and without an entry lead, arcs and turns with their stall rule; ring of 2: wraps, full while running, refilled over old slots | `NoDoubleBooking`; `ImplementsActionQueue`: the task layer refines `ActionQueue`; `EveryRequestLeavesTheRing`, `EveryActionEnds` |
| `task_programs` | all 15 actions, real phases and hold counts, ring of 1 | `HoldRespected` |
| `ui_session` | the whole menu, a page of each kind, settings of few values around a limit and around zero | `TaskBelongsToPage`, `NeverTurnedDown`, `ScreenIsCoherent`, `ArcStaysAnArc`, `SettingsFrozenWhileBusy` |
| `ui_liveness` | one action page and the settings page | `EndIsShown` |
| `keys` | 3 keys, 4 ticks of the clock per debounce time, two tones longer than that | `ReleasedBetweenEvents`, `SteadyBeforeEvent`, `PressIsHeard`, `ToneIsThePattern` |
| `scheduler` | 3 nodes (HAL every tick, a slower one behind it, debug last), counter modulo 16, passes up to 3 ms late; ring of 3 bytes, of which 2 can wait, a UART of 1, a line of 1 and one of 2 bytes | `KeepsItsGrid`, `CalledWhenOwed`, `EveryNodeIsServed`; `ImplementsLineFifo`: the port refines `LineFifo`; `EveryByteLeaves` |
| `device_center` | 3 chips, 2 chunks, 2 samples, retry of 3 ticks, zero due after 8: before, during or after the first lock | `HeadingNeedsLock`, `ServedNotStale`, `LockedAfterCalibration`, `FrameHolds`, `GyroComesBack` |
| `drive` | a run straight - turn - straight - arc - straight; one unit is 10 mm or so, up to 9 units from the origin; windows 1, 3 and 3 units | `TargetIsThisPhases`, `NeverFrozenShortOfExit`, `ExitWindowsBelong`, `BoostEndsFirst`, `StartsAtRest` |
| `turn` | turns of 8 degrees to both sides, an int16 that ends at 36: two turns in a row, tests or a program's; the tests' windows of the code in whole degrees, shorter holds and filter; duties around what moves the car; a filter that divides by 2; stretches of 2 counted samples | `TurnsAsTold`, `SwingIsSmall`, `HeadingTrails`, `EveryTurnEnds` |
| `turn_spin` | the same with an int16 that ends at 20 and three left tests; expects a violation | see Findings |
| `chassis` | 2 motors of 3 steps, wheel up to 3 edges either way | `PinsAgree`, `StopsInTime`, `TicksFollowTheWheel` |
| `route` | real thresholds, cells and route library; 32 fields, noise in two adjacent cells or everywhere but in two; 3 votes, at most 4 frames before the timeout | `RouteIsSafe`, `NoiseIsVotedDown`, `RouteIsSent`; the script's own `_self_test` is the assumption `SelfTest` |

Why the bounds are enough: the rings wrap and are full; the counters of `task_programs` are the
real ones; times have as many values as the code can tell apart (not yet, just now, past); the
decoder's cycle of four is exceeded in both directions; in `drive`, each of the pairs of
successive behaviours that opens an exit window or none occurs, and the windows keep the order
and the margins of the real ones; in `turn`, a turn passes through every branch of the duty, is taken
over in motion to either side and overshoots, and the range of the integers holds two turns with all
that they swing, where the real one holds 36; stretches of counted samples adjoin, so that what holds of short ones
adds up; in `route`, a cell may be misread in a minority, in half and in most of
the frames, before and after the timeout. `MaxAway`, `MaxDistance`, `MaxTurn`, `MaxTurns`, `MaxLag`,
`MaxElapsed`, `MaxFrame` and `MaxLoop` are bounds of the models only. Saturating history variables
stop at the value the property asks for.

`VIEW`s identify states that differ in what no step and no property reads: dead slots of the
ring, the action last completed, elapsed time while no timed phase runs (`task_programs`,
`ui_session`), and the absolute position of the car (`drive`; everything is relative to the
phase's origin). `chassis` has a constraint: motors and encoder share no variable, so one half is
left at rest while the other moves. The proofs about it have no such constraint.

### Assumptions about the car

- `WindowAssumption` (`DriveLoop`): the done window and the entry lead exceed the freeze window by
  what the car travels in two device ticks. With the defaults, 28 - 20 = 8 mm is two ticks at
  320 mm/s when no pass is late, and 160 or 120 mm leave ample room. The Settings page lets the
  entry lead go down to 0 (`interaction_service.c:276`), and a redraw can delay a device tick beyond
  10 ms: the firmware does not enforce the assumption, and outside it the car may be held short
  of a turn for ever.
- `SegmentAssumption` (`DriveLoop`): a segment is longer than the freeze window and that travel, and one
  entered from a turn also than the way of the car under the boost, or the boost would carry the car
  through its target. With the code's 20 mm, 12 ticks and 4 mm a tick that is 116 mm, and the
  segments of `app_config.h` have 500 and more. The Settings page lets two of them go down to
  50 mm (`interaction_service.c:267`) and the boost up to 40 ticks: the firmware does not enforce this one either.
- `ProgramAssumption` (`DriveLoop`), `IsRun`: what the programs of `task_service.c` have in common. The
  one that matters is `ToldApart`: the control layer notices a new phase only by a command
  that differs from the last one it saw, so successive steered phases must differ, also across a
  phase it may miss. That the nine programs which measure or turn are such is `CodeAssumption`, which
  TLC evaluates on the programs of `TaskPrograms`.
- `OpenedAssumption`, `SettingsAssumption` (`UiSession`): a page that is opened is one of settings or of the
  version, or requests an action that has a program; a setting that skips zero does not start there.
- `HeadingAssumption` (`TurnLoop`): the turns of one program, all to one side, stay in an int16. Four
  turns of 92 degrees do.
- `KeyAssumption` (`DriveLoop`): two keys are a debounce time apart, which `keys` shows of the
  debouncer.
- `ModulusAssumption` (`AppScheduler`): a pass is late by less than half the counter's range, 24
  days on the car, and no period or start delay is longer than that.
- `HeldAssumption` (`TaskHistory`), about the programs: a phase that waits for several good ticks does not
  lead to itself, and only a turn may end by a stall. Those of `task_service.c` all are so.
- The bus transfers either fail or work as a whole; a chip that works is ready once it has applied
  its configuration. A lost or repeated sample changes values only.
- Wheels turn with the direction sign 1; the others have it reversed and nothing else.
- `MotionAssumption` and `Moves` (`TurnLoop`): `Moves` says which rate of the car can follow which under a
  duty, and the assumption no more than that the rates are numbers and that one of them is rest.
  In the runs the car has inertia and friction: it gains rate under a duty, keeps up a rate that
  depends on it, goes on when the wheels are let go and needs more to start than to go on.
- `StickAssumption` (`TurnLoop`): the car that the constants are tuned for. Where it stands outside the
  windows of all the tests of its turn (`Hung`: 2.6 degrees for a turn of a program and 3.1 for a test) the duty
  is above `StickDuty`, the largest at which it may stand, and turns it fast enough for the gyro to see. With the
  code's constants that duty is 131 for a turn of a program and 139 for a test; a car that sticks at it stays where it is for ever, for no turn
  has a timeout. `调参说明.md` knows such cars: lines 24 and 97 (a turn stuck at its end, where the
  stall windows are to be widened) and 209 (a car that cannot be wrung to its target, where the soft
  duty is to be raised). `EveryTurnEnds` is about cars that are tuned so, not about every car.
- `SwingIsSmall` is the premise under which turns do as they are told (`TurnsDoAsTold`): the car swings at most `Swing`
  past its angle or back from where it began. It does overshoot: `Swing` is 5 degrees in the run,
  wider than the windows of the tests. That a car swings no further depends on duty and damping
  (`调参说明.md:26`, turns that are too fierce and go too far); `turn` shows it of its car.
- `RouteSender`: the pillars do not move while they are looked at; a frame may misread any cells of
  a `Noise`, a different one each time.

### Fairness

Weak fairness of the ticks and of the clock everywhere: the main loop has no path that does not
come back to the scheduler, the scheduler calls what is due (`EveryNodeIsServed` shows that no node
starves) and the SysTick is never masked for longer than a buzzer call. Nothing is assumed of
the driver. What the sensors report is not fair: liveness of actions is stated under the premise
`TargetsAreReached`, that from some time on they report the target of a phase as reached whenever
the command in force drives towards it (`Suits`), for no phase has a timeout; `GyroComesBack` under
the premise that the bus is good from some time on. `EveryTurnEnds` needs no premise besides the assumptions about the car. `EveryByteLeaves` assumes that the UART, once fed, shifts its bytes out, and
`RouteIsSent` that the camera and the display return or raise an exception; both are hardware that
the code has no way to wait for otherwise.

## Findings

- `turn_spin`: `MENU_PAGE_GUIDE.md:179-183` describes the turn test as a turn by 90 degrees that shows
  whether the turn stops as it should. A turn test zeroes nothing (`task_service.c:504`), so tests add up.
  The heading the gyro driver reports saturates at the end of an int16 (`device_gyro.c:589`), 3276.7
  degrees, while the target wraps; after some 36 left tests in a row the target lies where the
  heading never comes, and the car turns until the page is closed. KEY_UP on the Sensor page zeroes the
  heading and starts the count anew, and so does every run of a program, which is why `turn`, with
  the turns a program can have, holds. The run has an int16 that ends at 20 degrees and three turns.

Seen while modelling, without a run:

- `app_config.h:35-36` give the dead band of the yaw rate as 0.3 and the threshold of the heading
  as 0.8 degrees per second. The filter adds a quarter of the difference per sample, cut towards zero, and the
  dead band resets what is at most 0.3 to 0 in the same sample (`device_gyro.c:556-564`). A car that begins
  to turn from rest must reach 4 * (3 + 1) tenths, 1.6 degrees per second, before the filter leaves
  the dead band at all; below it may turn for as long as it likes and neither yaw nor heading shows it.
  `StickAssumption` asks for that rate. A dead band of 0.3 is also the least that lets the filter
  come to zero: with a smaller one the division would stop short of it, and a turn test would
  wait for ever for a car that stands (`EveryTurnEnds` fails without it).
- `MENU_PAGE_GUIDE.md:19-22` says that K3 leaves every function page; on the two settings pages it
  steps to the next setting (`menu_app.c:156`) and the page stays open.
- The comments in `task_service.c:1372` give 75 and 50 mm for magnitudes that are 500 in `app_config.h`.
- `TaskService_Enqueue` returns 1 for an action that is already queued and does not add it.
- `CancelCurrent` leaves `g_turn_stall_count` behind, which is harmless because every start clears it
  (`HoldRespected`).
- `g_arc_settle_count`, two helper functions of `task_service.c`, `MotionControl_ApplyTurnAssistDuty` and
  `MotionControl_RunTurnDutyPath` (`motion_control.c:127`, `:294`) are unused.
- The K230's comment in line 35 says that only the left and the right column are enabled by default;
  `CELL_ENABLED` (37-41) enables the middle one, too. Line 613 says that the 26 s are not waited out;
  they are whenever the votes give no route. If the display cannot be set up (711) the camera that is
  already open is not released.

## Proofs

Eight modules hold proofs; all of them hold for every value of the constants that the named
assumptions of the modules admit. The invariants the theorems speak of are seldom inductive;
each module has the strengthening that is, and a lemma for every step.

`TaskServiceProofs`, for every set of programs, every depth of the ring and every step of the clock:

- `RingConsistent`: `Spec => []IInv`, where `IInv` is `TypeOK`, `RingInv` and `RunInv`. `TypeOK` alone
  is not inductive: a dequeue reads `data[head]`, so the live slots must hold actions and `tail` must
  be `head + size` around the ring (`RingInv`), and a phase change reads the program of `current`, so
  a busy layer must have a current action and a phase of it (`RunInv`). `CommandInv`, that the command in
  force is that of the phase and `Stop` between runs, joins it for the theorems below. The modular arithmetic is
  in the lemmas `WrapIsSlot` to `WrapShift`, each step of `Next` in a lemma of its own.
- `TypeCorrect`: `Spec => []TypeOK`.
- `HoldsRespected`: `HistorySpec => HoldRespected`. `StreakInv` says that in a phase which is held the
  counter its test reads is the true streak: entering such a phase clears that counter, whichever
  others the code leaves standing, and no tick of another phase moves it unseen.
- `NeverBookedTwice`: `Spec => []NoDoubleBooking`. `Enqueue` appends behind the live slots what it did
  not find in them, `StartNext` moves the window; distinctness carries over by `WrapInjective`.
- `ImplementsQueue`: `Spec => ImplementsActionQueue`, the refinement. The abstract queue is the
  sequence of the live slots from `head` on (`PendingIsSequence`, `WaitingInRing`); `Enqueue` appends to
  it (`EnqueueAppends`), `StartNext` takes its head (`StartNextTakes`), every other step leaves it alone
  and is a stutter, a change of command or the end of the action (`NextMaps`). `RingInv` makes the
  slots a sequence, `RunInv` and `CommandInv` the command and the runner agree.

`UiSessionProofs`, for every set of pages that are opened, any tables of settings and all that the proofs
about `TaskService` leave open. Its invariant `UiInv` puts together what is known of the task layer
(`IInv` and `CommandInv`), the ownership of the open page, the cursor of the menu (`OnAnEntry`), that of
a settings page (`SettingsInv`) and what the session knows of the page (`PageInv`). None of
these is inductive without the others: that a cancel leaves nothing behind needs a ring with one
request at most, which needs an open to find it empty, which needs a closed page to have left nothing.

- `PageOwnsTheTask`: `UiSpec => []TaskBelongsToPage`.
- `RequestsAreTaken`: `UiSpec => []NeverTurnedDown`, for the ring is empty when a page is opened.
- `ScreenIsKept`: `UiSpec => []ScreenIsCoherent`; every path that changes the lines marks the page or
  draws it, and the menu's window follows its cursor around both ends.
- `ArcIsKept`: `UiSpec => []ArcStaysAnArc`; a press that would make a magnitude zero
  makes it one step of the press's direction.
- `SettingsAreFrozen`: `UiSpec => SettingsFrozenWhileBusy`.
`DriveLoopProofs`, for any program that `IsRun` admits, any windows, boost, release and travel that
`WindowAssumption` and `SegmentAssumption` admit, and passes that are late in any way. The layers
share an order and look at it at different times, so `DriveSound`, `Spec => []DriveInv`, says

- of the scheduler (`SchedulerInv`) which ticks can be due and left to do at each mark. From it follow
  that a control tick comes before the next task tick but one (`ControlFirst`) and that at most
  two device ticks lie between a control tick and the next (`DeviceTicks`);
- of the task layer (`TaskInv`) that the order is that of the phase;
- of the time between runs (`RestInv`) that the `Stop` is seen within six marks, before
  `KeyGap` lets a key in (`StopArrives`), and that nothing of the control layer is left then;
- of an order that has not been seen (`UnseenInv`) that a control tick is on its way, that the control layer
  still works on a predecessor, which by `ToldApart` differs, and that the car is within the travel of
  `DeviceTicks` of the phase's origin;
- of one that has been seen (`SeenInv`) that the references are latched for it, that boost and release
  belong to it, and how far the car can be while the boost is in force.

From it follow `TargetsBelong` (`TargetIsThisPhases`), `WindowsBelong` (`ExitWindowsBelong`), `FreezeIsSeen`
(`NeverFrozenShortOfExit`), `BoostNeverOvershoots` (`BoostEndsFirst`) and `RunsStartAtRest` (`StartsAtRest`).

`WheelProofs`, of the motor outputs for any number of wheels, any duty limit and any slew that
`ChassisAssumption` admits:

- `PinsFollowDuties`: `Spec => []PinsAgree`. `PinsAgree` speaks of the state between two calls; the
  invariant `PinsInv` carries it through a call: the shadow always shows the signs of the
  duties, and the 595 may lag behind it only while `dirty` is set, which it is only within a call.
- `StopsAreBounded`: `Spec => []StopsInTime`. `StopInv` is a measure that falls: after k calls with a
  stop the magnitude of a duty is at most the limit less k steps (`SlewBounds`), and
  `StopCalls` of these are enough for the limit (`StopCallsSuffice`).

It proves `NoEdgeIsLost`, `Spec => []TicksFollowTheWheel`, for a wheel that turns any
distance. `EncoderInv` ties the count to the position in each of the handler's five steps: the decoder's
state is that of the count (`CountInv`); a level that is not its pin's has an interrupt pending or
is about to be read (`LevelInv`); and as long as no edge has outrun the decoder the count is one edge
behind at most (`BehindInv`).

And it proves of a turn on the spot, for all widths of the integers, angles, windows, gains and duties, for any
filter and for a car that moves in any way, `TurnsDoAsTold`: if `HeadingHolds(MaxTurns)`, then
`TurnSpec /\ []SwingIsSmall => []TurnsAsTold`. The first premise is that the turns since the heading was
zeroed stay in an int16 with all that they swing; `turn_spin` shows what happens without it, and
`HeadingAssumption` is the same for the turns of a program. The second is about the car and
stands for all that is known of its motion. The invariant `TurnLoopInv` has each turn begin at most so
many times the reach of a turn away from zero (`PlaceInv`, `IsReach`), whether the heading was counted up by
turns or by the straights between them; this makes the casts, the clamp and the magnitudes of 16 bits
those of the integers (`PlaceIs`, `Int16Is`, `Abs16Is`), so that the error is what is left of the turn, also
across a cancel and for a turn that takes over motion. That the duty has the sign of the error and is not
zero outside the window is `DutyIs`, through the damping and the rounded division of `AssistDuty`
(`DivisionIs`, `AssistIs`).

`HeadingTrailsTheCar`, `TurnSpec => []HeadingTrails`, is about the same behaviours without a premise, for all
constants of the filter and a car that moves in any way: a sample that is counted is one which the dead
band left alone (`CountedSample`), and there the division cuts off less than its divisor, to either side
(`QuotientIs`), so that the balance of `TrailInv` is kept sample by sample.

`DeviceCenterProofs`, for any number of configuration chunks and calibration samples, any waits
and any time of the automatic zero. The inductive invariant `CenterInv` says of the driver's
record that its flags follow its state and its counters are below their limits while they count
(`GyroInv`), of the histories that they are not behind the counters (`HistoryInv`) and of the snapshot that it
is a copy of the record (`FrameInv`). From it follow `HeadingZeroUnlocked` (`HeadingNeedsLock`),
`LockedIsFresh` (`ServedNotStale`), `WholeCalibration` (`LockedAfterCalibration`) and `FrameIsKept`
(`FrameHolds`). The last needs that a run which measures a distance is done with the automatic
zero: it is a conjunct of `HistoryInv`.

`KeyProofs` proves `OneEventPerPress` (`ReleasedBetweenEvents`) and `EventIsSteady`
(`SteadyBeforeEvent`) of the key panel, for any set of keys, any debounce time and any step of the
clock. `KeyInv` compares the code's one timer with the two quantities it stands for: while a release
is waited for it is never ahead of the time without a key, and afterwards never ahead of the time
for which one key has been read alone. `ToneIsPlayed` (`ToneIsThePattern`) is the same module's
theorem about the buzzer, for all patterns of up to six segments, which is the room of `g_buzzer`:
`ToneInv` ties the index and the remaining time to the time since the pattern was loaded. The
bound is what makes the sum of the segments before one a closed form (`Offset`, `StartIsOffset`); for
patterns of any length it would take an induction over data.

`DebugLinkProofs` proves `ImplementsFifo`, `LinkSpec => ImplementsLineFifo`, for every size of the
ring, every FIFO of the UART and any lines. `PortInv` is the type invariant of the port; the
lemmas turn the wrapped indices into a sequence (`QueuedIsSequence`), a printed line into an
append of what fits and a serial tick into taking a number of bytes off the front. The
module proves of the scheduler, for any table, any even range of the counter and any lag below half
of it:

- `GridIsKept`: `Spec => []KeepsItsGrid`. `SchedulerInv` says of each node how late it was at the latch
  (`Late`), without wrapping: a whole number of periods from its grid (`OnGrid`), and its time come
  if and only if a point of the grid is owed or fresh (`NodeInv`). A tick moves a node one step on the
  grid (`GridTick`), the catch-up takes it to the first time after the latch (`GridCatchUp`), and
  wrapped differences are the true ones as both are in the signed range (`DiffIs`).
- `CalledIsOwed`: `Spec => CalledWhenOwed`, from the same invariant.

`RouteProofs`, for all fields, thresholds, noise, votes and times:

- `RouteSafe`: `SenderSpec => []RouteIsSafe`. A route is chosen among the valid ones, for costs are natural
  numbers and a set of these has a least; in a valid route a lane between two pillars has one that
  the votes do not call black or unknown, hence white by a strict majority over black.
- `NoiseVotedDown`: `SenderSpec => []NoiseIsVotedDown`. The sender's invariant counts the votes: those of
  an enabled cell add up to the number of frames, those of a disabled one are all unknown, and the
  answer is that of the votes as they stand. With fewer bad votes than half the right colour wins.

With these every invariant and every action property of the runs but `SwingIsSmall` is a theorem. What is only
model-checked are the liveness properties, which with ENABLED in their fairness are out of
reach of the proof system: `EveryRequestLeavesTheRing`, `EveryActionEnds`, `EndIsShown`, `PressIsHeard`,
`EveryNodeIsServed`, `EveryByteLeaves`, `GyroComesBack`, `EveryTurnEnds` and
`RouteIsSent`. So is `SwingIsSmall`, which depends on the car and is a premise of
`TurnsDoAsTold`. `SelfTest`,
`CodeAssumption` and the other assumptions about the constants are evaluated by TLC with the values of
the code.

## Not modelled

- `sdk/` and `ti_msp_dl_config.c`: the vendor's SDK and generated pin configuration. They are by far the
  most of the repository's lines (some 97 of a hundred). The car's program and the K230's
  script have about twelve thousand together.
- Of the gyro: the tracking of the bias and the dead band of the raw value, which decide what rate the filter
  gets. `TurnsAsTold` speaks of the heading as the driver counts it; how far the car's angle may be from it is
  what `HeadingTrails` says, for the stretches in which rates are counted. What a car turns too slowly to be counted
  is lost to both.
- Floating-point arithmetic: the PID loops, odometry scaling, speed filters, wheel
  compensation. Only which branch is taken is kept.
- `OLED.c`, `hal_board.c`: pure I/O. The track sensor is never online, its ADC is disabled in
  `board_profile.h`. The bit-banged bus of the gyro is an outcome per transfer, worked or failed.
- The receiving half of `Serial.c`: it fills a mailbox that nothing reads. The formatting of numbers
  in the debug report.
- Of the K230 script: the geometry of the regions, the pictures' contents and the drawing.
- Hazards in `PROJECT.json` without a property: a gyro lost and recalibrated while a run is under way
  (the heading restarts from 0) or during a turn (its duty does not look whether the gyro is
  online), and the automatic zero during a turn test: the code has no provision for them and
  promises nothing. A settings page that lets the entry lead go to 0 (see Assumptions).
  The K230's camera that stays open if the display fails, whose effect is outside the program.
- `HalChassis_GetEncoderState` copies the counters while the handler may change them. Each is an aligned word,
  so a copy mixes counts at most one edge apart, which the next tick evens out.

## Plan

In order of importance for the car's behaviour:

1. Done: task layer with abstract queue, session, keys, buzzer, scheduler, serial port with abstract
   queue, gyro and device center, drive loop, turn loop, chassis, K230 program; the proofs listed above.
2. Done: a theorem for every invariant and action property of the runs but `SwingIsSmall`. Next: that a run of
   `DriveLoop` is one of `TaskService` with the sensors made explicit, so that the theorems about
   phases, counters and cancels meet those about distances in one behaviour; and that the calls which
   `DriveLoop` takes for granted (what a pass takes, the marks that merge) are those of `AppScheduler`.
3. Models: the straight and arc loops of the motion control beyond their branches, if their
   arithmetic is ever made integer.
