# TLA+ models of the CR1 firmware

These modules model the CoastRunner CR1 firmware (`src/grblCR/`), which is derived from Grbl. They cover:

- the realtime core: the main loop, the realtime executor, its suspend loop, and the interrupts that feed them;
- the override arithmetic;
- the spindle driver;
- the homing cycle;
- the X1/X2 trip search of autolevel.

The models are checked with TLC.

## The system

The firmware has one main context and several interrupt producers:

- **Main context** (`protocol_main_loop`, `protocol.c`):
  - reads lines;
  - dispatches `$` commands to `system_execute_line` (`system.c`);
  - dispatches g-code to the parser, `mc_line` and `spindle_sync`.
- **Check points.** The main context reaches `protocol_execute_realtime` from several places:
  - the main loop;
  - `mc_line`'s buffer-full wait;
  - `protocol_buffer_synchronize`;
  - `limits_soft_check`'s wait for IDLE;
  - the inner loops of homing.
- **Realtime executor.** `protocol_execute_realtime` calls the executor, `protocol_exec_rt_system`. If `sys.suspend` is then non-zero, it spins in `protocol_exec_rt_suspend`.
- **Interrupts.** They preempt the main context at any instruction. They only write the realtime flag words (through the helpers of `system.c` lines 312-365), or start and stop the step timer.
- **Producers:**
  - the serial realtime-character peeler: reset, `~`, `!`, jog cancel and the overrides;
  - the hard-limit pin-change ISR (`limits.c` lines 103-116), which calls `mc_reset`;
  - the stepper ISR, which reports `EXEC_CYCLE_STOP` and writes each segment's spindle PWM value with `spindle_set_speed`.
- **Consumer.** The executor copies a flag word, acts on the copy, and then clears the bits it handled. Most of what the properties are about happens in the gaps between those steps.
- **Blocking loops.** Homing (`limits_go_home`) and the `$L` trip search (`limits_find_trip_delta_X1X2`) run in the main context. They plan blocks themselves and spin until the switches or the stepper report.

## Modules

| Module | Models | Sources |
|---|---|---|
| `MachineStates` | The abstract machine state of spec.md sections 4.3 and 6: which `sys.state` changes may happen | spec.md |
| `Protocol` | The main context as a program counter, the realtime executor, the suspend loop, the dispatch of `$J $C $X $SLP $RST`, motion and spindle lines, soft and hard limits, and the producers. It refines `MachineStates` | `protocol.c`, `system.c`, `limits.c`, `spindle_control.c` |
| `Spindle` | The spindle driver: `spindle_compute_pwm_value`, and the pin state that `spindle_set_speed`, `spindle_stop`, `spindle_set_state` and `spindle_sync` leave behind | `spindle_control.c`, `cpu_map.h` |
| `Overrides` | The feed, rapid and spindle override paths, lines 361-407: the copy, the clear, the uint8 arithmetic with its clamps, and the handoff of a spindle override to the driver. It extends `Spindle` | `protocol.c`, `system.c`, `config.h` |
| `Homing` | The main loop's line assembly of a `$H` line, `$H`, `mc_homing_cycle` and `limits_go_home`, with switches that may be open or stuck | `protocol.c`, `limits.c`, `system.c`, `config.h` |
| `TripDelta` | `limits_find_trip_delta_X1X2`, including its int16 latches | `limits.c` |
| `MCProtocol`, `MCOverrides`, `MCHoming` | Constants for TLC | |

### MachineStates and the refinement

`MachineStates` is the promise. Its states are IDLE, CYCLE, HOLD, HOMING, JOG, ALARM, SLEEP and CHECK_MODE. It also has `holdComplete`, which is `SUSPEND_HOLD_COMPLETE` while in HOLD. Its actions are the transitions of the section 4.3 table and the `$`-command list of section 6. `$H` and `$L` enter HOMING from IDLE or ALARM, and a finished homing returns to IDLE.

`Protocol` instantiates it as `MS` with `mstate <- state`, and checks `MS!Spec` as the property `ImplementsMachineStates`.

### Protocol

**State.** The `sys` fields the executor uses are variables:

- `state`, `suspend`, `step_control`, `spindle_stop_ovr`, `soft_limit` and `abort`;
- the flag words `execState`, `execAlarm` and `execAccessory`;
- the planner queue, as block kinds (`feed`/`jog`);
- `running`, whether the step timer is enabled;
- `spindleOn`, the spindle output;
- the g-code modal spindle state.

**The main context** is `pc`:

- `caller` is where a `protocol_execute_realtime` call returns to.
- `rtCtx` says whether `protocol_exec_rt_system` was called from the check point, the suspend loop, or the sleep loop.
- `cmd` is the line whose handler is inside a check point.

**Steps.** Each main-context step is the stretch of code between two points where an interrupt can change what happens next:

- **Executor.** `RtAlarmCheck` (lines 216-227), `AlarmLoop` (228-241), `RtSnapshot` (244) and `RtProcess` (245-423).
- **`RtProcess`.** It applies the code's blocks in order, as functions of a record of `sys`: `ExecHold` (261-299), `ExecCycleStart` (305-327), `ExecCycleStop` (331-355), `ExecAccessory` (388-418) and `StPrepBuffer` (421-423). It then clears the bits the code clears. Line 301 clears all three hold bits, including ones set after the copy.
- **Suspend loop.** One action per branch of lines 444-534.
- **Continuations of each caller.** `McLine*`, `Sync*` and `SoftLimit*`. These model the loops around the check points and the early returns on `sys.abort`.
- **Restart.** `MainAbort` and `Boot` model the return to `main()` and its re-initialisation.
- **System commands.** `$X`, `$C`, `$SLP`, `$RST=` and `$J=` each have an action with the handler's state guard. `$L` followed by anything other than end of line or `S` (`system.c` lines 151-160) takes two steps. In IDLE or ALARM, `ExecLevelInvalid` sets HOMING (line 152), and `ExitLevelMode` sets IDLE (line 159). There is no check point between the two writes, but the interrupts run between them and see HOMING: the limit ISR resets, and a reset raises `HOMING_FAIL_RESET`. `$L` and `$LS` themselves run motions in `motion_control.c`, which is outside `src/`.

**Code outside `src/`.** These parts are modelled from `spec.md` and marked `spec_modelled` in PROJECT.json:

- `mc_reset`: set RESET, stop the spindle, and if motion is active kill the steppers and set `ABORT_CYCLE`;
- `mc_line` and `jog_execute`;
- the stepper ISR;
- the serial peeler's reset and jog-cancel handling.

In Protocol, the spindle is only on or off, and a spindle speed override request is "the value changed". What the value does is modelled in `Spindle`.

### Spindle

**Speeds.** A speed is kept exactly, in hundredths of an rpm: the float `rpm * (0.010 * override)` becomes `rpm * override`. `pwm_gradient` becomes the exact ratio `SPINDLE_PWM_RANGE / (rpm_max - rpm_min)`. `SpindleComputePwm` has the four branches of lines 93-110 in the code's order. Float rounding at an exact boundary is left out.

**Pins.** The variables are:

- the PWM enable bit (`SPINDLE_COMB_BIT`);
- the compare register;
- the direction pin;
- whether Hall_C is driven low.

**Step generator.** It lives in `stepper.c`, outside `src/`, and is modelled from spec.md sections 2 and 4.3:

- the first segment of a cycle writes the PWM value of the block;
- a pending `UPDATE_SPINDLE_PWM` makes the next segment write the recomputed value.

**Reference.** `ReferencePwm` states spec.md's linear model as "the highest PWM step the scaled speed has reached".

### Overrides

The override values are kept exactly, in 0..255. Each `+=`/`-=` result is truncated to uint8, as the assignment to `uint8_t` does. The copy (lines 361, 388) and the clear (lines 363, 390) are separate actions, so the peeler can run between them.

`ApplyAccessoryOverrides` stores a changed spindle override (line 403). Then:

- in IDLE (Spindle's `~moving`), it calls `spindle_set_state` at once with the modal spindle state and speed (line 405);
- otherwise it sets `UPDATE_SPINDLE_PWM` (line 406).

### Homing

The machine is each axis's distance from its switch's trip point, in units of 0.5 mm. A switch is "ok", "open" (never trips) or "stuck" (always tripped).

`limits_go_home` runs its phases (approach, pull-off, and the locate cycles). Each phase plans one block and spins in the inner loop of lines 199-237. That loop locks axes on their switches and leaves on RESET or CYCLE_STOP with the alarms of lines 216-225.

`$H` follows `mc_homing_cycle`'s schedule of cycle masks. It then sets the home position, or stops in the alarm loop.

**Line assembly.** The host's line arrives one character at a time, as in `protocol_main_loop` (`protocol.c` lines 65-150). `line` is the `line[]` buffer, with `char_counter` as its length, and `flags` is `line_flags`.

- `ReadChar` takes one character through the branches of lines 109-150. These handle comments, blanks, the block delete, upper-casing and overflow.
- `LineEnd` runs the realtime check point at the end of line.
- `EolDispatch` bails out on abort, reports an overflowed or empty line, and otherwise hands the line to the `$H` handler.

`LINE_BUFFER_SIZE` is a constant. It is 80 in `protocol.h`, and the run uses 5 (see Bounds).

**The handler.** Every branch of the `$H` handler (`system.c` lines 107-122) is a step, chosen by the assembled line. `HOMING_SINGLE_AXIS_COMMANDS` is defined in `config.h`, so the branches are:

- `$H`, which runs the full schedule;
- `$HX`, `$HY` and `$HZ`, which home one axis;
- `$H` with another letter (`$HQ`), which sets HOMING and then returns an error from the axis switch;
- a longer line (`$HXY`), which is refused before anything changes.

The homing-enable setting check (line 108) is taken as passed.

### TripDelta

The X gantry is the distance of its X2 end from the X2 trip point. The X1 end trips `skew` units earlier. `sys_position[X]` is kept in steps, and each latch is converted to `int16_t` as the code does.

## Runs

| Run | Cfg | Expect | What it shows |
|---|---|---|---|
| protocol_safety | MCProtocolSafety.cfg | pass | `StepperRunsOnlyInMotion`: outside a reset in progress, the stepper only runs in a state `mc_reset` treats as motion. `SpindleOnWhileMoving`: the spindle is on whenever the machine moves with it programmed on. `NoAutoResume`: a hold is only turned into CYCLE by an explicit cycle start. `ImplementsMachineStates`: every state change is one spec.md allows, including the HOMING that a refused `$L` passes through. `HoldRequestNotLostInMotion`: the hold bits line 301 discards never leave the machine moving. `RestoreCycleServed`: a spindle restore re-issues its cycle start. Plus `TypeOK`. |
| protocol_hold_liveness | MCProtocolLive.cfg | pass | `HoldCompletes`: a feed hold begun during motion completes or leaves HOLD. `SoftLimitWaitEnds`: the wait of `limits_soft_check` ends, or gives way to the alarm loop. |
| protocol_jog_as_cycle | MCProtocolJogCycle.cfg | violation | A `$J` in IDLE behind a buffered g-code block, started by `~`, runs as CYCLE, where 0x85 cannot cancel it. |
| protocol_motion_in_alarm | MCProtocolAlarmMotion.cfg | violation | A hard limit during the buffering of a jog from IDLE leaves the machine in ALARM with the stepper running. |
| protocol_idle_suspended | MCProtocolIdleSuspend.cfg | violation | A jog cancel handled in IDLE parks the main loop in the suspend loop until `~`. |
| protocol_alarm_discarded | MCProtocolLostAlarm.cfg | violation | A limit ISR between line 216 and line 244 loses the HARD_LIMIT alarm across the reset. |
| overrides_spindle_output | MCOverrides.cfg | pass | `SpindleOutputMatchesCommand`: the spindle PWM output always equals the linear-model value for the programmed speed at the current override, unless an update for the step generator is still pending. This holds through M3/M4/M5, cycles, and overrides applied in IDLE or mid-cycle. The clamps of lines 371-372 and 399-400 are not a property of their own: they hold whatever the arithmetic before them does, and the wrap they can hide is the `overrides_underflow` finding. |
| overrides_underflow | MCOverridesUnderflow.cfg | violation | At 10%, "-10" and "-1" in one copy wrap to 255 and clamp to 200%, for the feed and the spindle override. |
| homing | MCHoming.cfg | pass | `HomedOnlyWithWorkingSwitch`: a homed axis has a working switch. `WorkingSwitchesHome`: with working switches and no reset, `$H` or `$HX` raises no alarm and homes every scheduled axis. `HomingReturns`: `$H` always ends, even with open or stuck switches. `LineDispatchedWhole`: the handler receives exactly the received text cleaned of blanks and comments and upper-cased, never a truncated line, and every line of at most `LINE_BUFFER_SIZE-1` characters is handed over. Where the limit lies beyond that is deliberately left open (see Known disagreements). |
| trip_delta | MCTripDelta.cfg | pass | `TripDeltaIsSkew`: the returned delta equals the gantry's racking in steps, although `sys_position` overflows int16 during the search. `TripSearchReturns`: without a reset, `$L`'s search returns. |
| trip_delta_reset_hang | MCTripDeltaReset.cfg | violation | A reset during the search kills the stepper. The switch loops never test the reset, so `$L` spins forever. |
| homing_invalid_axis | MCHomingStuck.cfg | violation | `HomingLeftOnReturn`: `$HQ` sets HOMING and returns an error without restoring the state. Sent in ALARM, it leaves the alarm lock: g-code is accepted in HOMING, but no cycle starts, and no `$` command leaves HOMING. Only a reset ends it. |

The findings in PROJECT.json give the trace behind each violation and the source line where it occurs. Every property of a passing run has a mutant in PROJECT.json: a plausible bug in the code it is about, which TLC finds violates it.

## Bounds

- **`MaxBlocks = 2`.** Two blocks are enough for a g-code block and a jog block to share the planner, and for the buffer-full path of `mc_line` to run.
- **`MaxBlocks = 1` for the liveness run.** It also sends only the spindle stop override request, which keeps the behaviour graph small. The hold, the stop override acting during a hold, soft limits and hard-limit resets remain.
- **Overrides.** The values are not bounded beyond uint8, and every reachable value is explored.
  - The spindle-output run's coarse spindle requests reach both clamps of 10% and 200%.
  - Its one feed request, "-10", reaches the feed floor.
  - Both paths interleave freely. With "+10" added to the feed path as well, the state space grows past 7 million states.
- **Spindle.** `$30 = 8500` and `$31 = 1360`, the defaults.h values. The S words are 0, 1000, 5000 and 8000. Across the override range of 10..200%, these reach every branch of `spindle_compute_pwm_value`:
  - S0;
  - below rpm_min;
  - the linear range;
  - past rpm_max at high override.
- **Homing.** Three axes, homed Z first and then X and Y, as config.h schedules them. Travel is 4 units and the pull-off 1 unit. Switches may be ok, open or stuck. The host sends six lines, which together cover every branch of the handler and of the line dispatch:

- `$H`;
- `$h x`, ended by `\r`;
- `$H(Y)q`;
- `$HX/Y`, which is exactly the buffer's length;
- `$HXYZ`, one character too many;
- a line that is all comment.

`$HY` and `$HZ` take the same branch as `$HX`. `LINE_BUFFER_SIZE` is 5 rather than 80. The character loop tests only `char_counter` against `LINE_BUFFER_SIZE-1`, so five characters reach the same boundary cases as eighty: a line that just fits, and one that overflows.
- **TripDelta.** 173 units of travel at 200 steps per unit. The search then covers more than 32767 steps, which is where an `int16_t` latch would overflow. The racking is up to ±2 units.

## Fairness

- **`Protocol`, `Homing` and `TripDelta`.**
  - They assume weak fairness of the main context. It is a `for(;;)` loop that never blocks except in the loops modelled as steps.
  - They also assume weak fairness of the stepper's actions: the step timer keeps firing while it is enabled.
  - The operator, the host and the limit switches get no fairness, so nothing forces a `~` or a reset. That is why `HoldCompletes` allows "or leaves HOLD", and `SoftLimitWaitEnds` allows the alarm loop, which waits for an operator reset.
- **`Overrides`.** It has no liveness property, and no fairness.

## Known disagreements not checked

Two comments disagree with the code at points that no property decides, because the project's twelve runs are taken:

- **The 80-character limit.** The comment of `protocol.c` line 77 reports an overflow only when the data "exceeds 80 characters", and spec.md section 6 allows lines of "up to 80 characters excluding terminator". The code keeps at most `LINE_BUFFER_SIZE-1` = 79 cleaned characters (line 139), because `line[]` also holds the terminator. `LineDispatchedWhole` asserts only what both readings share: lines of at most 79 characters are handed over whole.
- **Where homing leaves an axis.** The comment of `limits.c` line 263 says the homed axes end "positioned right where the limit switch tripped". spec.md section 4.4 item 6 says the switch location becomes the set position. But the last phase of the loop of lines 239-262 is a pull-off, so the axis ends one pull-off away from the trip point. It is at that point that lines 271-284 set `-pulloff` (or `max_travel+pulloff`). `HomedOnlyWithWorkingSwitch` says nothing about the distance.

## Not modelled

- **Reporting.** `report.c` and the status report bit are pure output.
- **Inside the planner and stepper.** Block geometry, velocity planning and segment timing are left out. Only these remain:
  - a block exists;
  - the stepper runs;
  - deceleration finished;
  - a segment writes the spindle PWM.
- **Line assembly for g-code.** `Homing` assembles `$H` lines only. `Protocol` takes a g-code or `$` line as a whole.
- **Settings storage.** EEPROM-backed commands, and the `$30`/`$31` writes that would change `pwm_gradient` are left out.
- **Spindle overrides in HOLD, SLEEP or ALARM.** The suspend loop's handling of `UPDATE_SPINDLE_PWM` in HOLD is in `Protocol` as on/off only.
- **Hall_C when the PWM is off.** `spindle_set_speed` releases Hall_C (`spindle_control.c` line 78) when it writes the off value, as for `M3 S0`. The comment of `spindle_stop` says Hall_C must be held low while the spindle is stopped. This is a reachable state of `Overrides`, but no run checks it; see the hazard list.
- **The reply to a line.** Status codes are not kept. So `$LX` in ALARM, which passes through HOMING to IDLE but replies with an error, cannot be told apart from a finished `$L`; see the hazard list.
- **The homing reset alarm code.** A reset at the start of a pull-off with a switch still engaged is reported as `HOMING_FAIL_PULLOFF` (`limits.c` line 222), not `HOMING_FAIL_RESET`. The overwrite is in `Homing`, but no run checks it; see the hazard list.
