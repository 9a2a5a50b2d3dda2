------------------------------ MODULE Protocol ------------------------------
(***************************************************************************)
(* The realtime executor of the CR1 firmware (src/grblCR/protocol.c) and   *)
(* the producers that feed it.                                             *)
(*                                                                         *)
(* One main context runs protocol_main_loop. It dispatches lines, calls    *)
(* protocol_execute_realtime from its wait loops (mc_line,                 *)
(* protocol_buffer_synchronize, limits_soft_check) and spins in            *)
(* protocol_exec_rt_suspend. Interrupts (the serial realtime-character     *)
(* peeler, the limit pin-change ISR and the stepper ISR) preempt it at any *)
(* step and only set bits in the realtime flag words or move the stepper. *)
(* The main context is a program counter `pc`. Each of its steps is one   *)
(* stretch of code that no other part of the main context can interrupt.   *)
(* Interrupts interleave between those steps.                              *)
(*                                                                         *)
(* Data is abstracted:                                                     *)
(*   - a planner block is only its kind (feed or jog);                     *)
(*   - the spindle is on or off;                                           *)
(*   - an accessory override request is "changes the speed" or "stop";     *)
(*   - an alarm is its name.                                               *)
(***************************************************************************)
EXTENDS Naturals, Sequences

CONSTANTS
    MaxBlocks,          \* planner capacity (BLOCK_BUFFER_SIZE - 1), small
    HardLimitsEnabled,  \* settings.flags BITFLAG_HARD_LIMIT_ENABLE
    SoftLimitsEnabled,  \* settings.flags BITFLAG_SOFT_LIMIT_ENABLE
    HostOverrides       \* the accessory override requests the host sends

ASSUME /\ MaxBlocks \in Nat \ {0}
       /\ HardLimitsEnabled \in BOOLEAN
       /\ SoftLimitsEnabled \in BOOLEAN
       /\ HostOverrides \subseteq {"SPINDLE_OVR_CHANGE", "SPINDLE_OVR_STOP"}

VARIABLES
    state,          \* sys.state
    suspend,        \* sys.suspend
    stepControl,    \* sys.step_control (NORMAL_OP is the empty set)
    spindleStopOvr, \* sys.spindle_stop_ovr (DISABLED is the empty set)
    softLimit,      \* sys.soft_limit
    abort,          \* sys.abort
    execState,      \* sys_rt_exec_state (STATUS_REPORT left out)
    execAlarm,      \* sys_rt_exec_alarm ("NONE" is 0)
    execAccessory,  \* sys_rt_exec_accessory_override
    queue,          \* planner buffer: the kinds of the queued blocks, head first
    running,        \* stepper timer enabled: st_wake_up .. st_go_idle
    spindleOn,      \* spindle output energised
    modalSpindle,   \* gc_state.modal.spindle # SPINDLE_DISABLE
    pc,             \* program counter of the main context
    caller,         \* where protocol_execute_realtime returns to
    rtCtx,          \* where protocol_exec_rt_system returns to
    rtExec,         \* the local rt_exec copy of sys_rt_exec_state
    cmd,            \* the line whose handler is waiting in a realtime call
    startSrc,       \* ghost: who set the pending EXEC_CYCLE_START
    rtSrc           \* ghost: startSrc as of the rt_exec copy

sysVars  == <<state, suspend, stepControl, spindleStopOvr, softLimit, abort>>
flagVars == <<execState, execAlarm, execAccessory, startSrc>>
machVars == <<queue, running, spindleOn, modalSpindle>>
ctlVars  == <<pc, caller, rtCtx, rtExec, cmd, rtSrc>>
vars == <<sysVars, flagVars, machVars, ctlVars>>

States == {"IDLE", "CYCLE", "HOLD", "HOMING", "ALARM", "CHECK_MODE", "JOG", "SLEEP"}
ExecStateBits == {"RESET", "CYCLE_START", "CYCLE_STOP", "FEED_HOLD",
                  "MOTION_CANCEL", "SLEEP"}
HoldBits == {"MOTION_CANCEL", "FEED_HOLD", "SLEEP"}
SuspendBits == {"HOLD_COMPLETE", "RETRACT_COMPLETE", "RESTART_RETRACT",
                "INITIATE_RESTORE", "RESTORE_COMPLETE", "JOG_CANCEL", "MOTION_CANCEL"}
StepControlBits == {"EXECUTE_HOLD", "EXECUTE_SYS_MOTION", "UPDATE_SPINDLE_PWM"}
SpindleStopBits == {"INITIATE", "ENABLED", "RESTORE", "RESTORE_CYCLE"}
AccessoryBits == {"SPINDLE_OVR_CHANGE", "SPINDLE_OVR_STOP"}
Alarms == {"NONE", "HARD_LIMIT", "SOFT_LIMIT", "ABORT_CYCLE", "HOMING_FAIL_RESET"}
BlockKinds == {"feed", "jog"}
Sources == {"user", "auto", "restore"}
Pcs == {"boot", "main", "line", "levelMode", "mcLine", "sync", "softWait",
        "rtAlarm", "alarmLoop", "rtSnap", "rtProc", "suspend", "sleep"}
Callers == {"main", "line", "mcLine", "sync", "softWait"}
Cmds == {"none", "G1", "$J", "M3", "M5"}

\* States in which st_prep_buffer is called at the end of protocol_exec_rt_system.
PrepStates == {"CYCLE", "HOLD", "HOMING", "SLEEP", "JOG"}

-----------------------------------------------------------------------------
(* mc_reset (motion_control.c, outside src/): the only setter of RESET.    *)

\* The test mc_reset uses to decide that motion is in progress.
MotionActive ==
    \/ state \in {"CYCLE", "HOMING", "JOG"}
    \/ stepControl \cap {"EXECUTE_HOLD", "EXECUTE_SYS_MOTION"} # {}

McResetFires == "RESET" \notin execState

\* The alarm mc_reset leaves in sys_rt_exec_alarm.
McResetAlarm ==
    IF McResetFires /\ MotionActive
    THEN IF state = "HOMING"
         THEN IF execAlarm = "NONE" THEN "HOMING_FAIL_RESET" ELSE execAlarm
         ELSE "ABORT_CYCLE"
    ELSE execAlarm

\* Everything mc_reset does except the alarm: set RESET, stop the spindle,
\* and force the steppers idle if motion is in progress.
McResetEffects ==
    /\ execState' = execState \cup {"RESET"}
    /\ spindleOn' = (spindleOn /\ ~McResetFires)
    /\ running' = (running /\ ~(McResetFires /\ MotionActive))

mc_reset == McResetEffects /\ execAlarm' = McResetAlarm

\* spindle_set_state(on): returns early while sys.abort is set.
SpindleSetState(on) == IF abort THEN spindleOn ELSE on

-----------------------------------------------------------------------------
(* Interrupt producers.                                                    *)

\* Serial peeler, CMD_RESET (0x18): mc_reset.
SerialReset ==
    /\ mc_reset
    /\ UNCHANGED <<sysVars, execAccessory, startSrc, queue, modalSpindle, ctlVars>>

\* Serial peeler, CMD_CYCLE_START ('~').
SerialCycleStart ==
    /\ execState' = execState \cup {"CYCLE_START"}
    /\ startSrc' = startSrc \cup {"user"}
    /\ UNCHANGED <<sysVars, execAlarm, execAccessory, machVars, ctlVars>>

\* Serial peeler, CMD_FEED_HOLD ('!').
SerialFeedHold ==
    /\ execState' = execState \cup {"FEED_HOLD"}
    /\ UNCHANGED <<sysVars, execAlarm, execAccessory, startSrc, machVars, ctlVars>>

\* Serial peeler, CMD_JOG_CANCEL (0x85): only while the state is JOG.
SerialJogCancel ==
    /\ state = "JOG"
    /\ execState' = execState \cup {"MOTION_CANCEL"}
    /\ UNCHANGED <<sysVars, execAlarm, execAccessory, startSrc, machVars, ctlVars>>

\* Serial peeler, spindle override requests (0x99..0x9D change the speed
\* override, 0x9E toggles the spindle stop override).
SerialSpindleOverride ==
    /\ \E b \in HostOverrides : execAccessory' = execAccessory \cup {b}
    /\ UNCHANGED <<sysVars, execState, execAlarm, startSrc, machVars, ctlVars>>

\* ISR(LIMIT_INT_vect): ignored in ALARM or while an alarm is pending,
\* otherwise mc_reset followed by the HARD_LIMIT alarm.
LimitPinChange ==
    /\ HardLimitsEnabled
    /\ state # "ALARM"
    /\ execAlarm = "NONE"
    /\ McResetEffects
    /\ execAlarm' = "HARD_LIMIT"
    /\ UNCHANGED <<sysVars, execAccessory, startSrc, queue, modalSpindle, ctlVars>>

\* Stepper ISR: the head block is finished and discarded. When the buffer
\* is empty the segment buffer runs dry: st_go_idle and EXEC_CYCLE_STOP.
StepperBlockDone ==
    /\ running
    /\ queue # <<>>
    /\ queue' = Tail(queue)
    /\ IF Tail(queue) = <<>>
       THEN /\ running' = FALSE
            /\ execState' = execState \cup {"CYCLE_STOP"}
       ELSE UNCHANGED <<running, execState>>
    /\ UNCHANGED <<sysVars, execAlarm, execAccessory, startSrc, spindleOn,
                   modalSpindle, ctlVars>>

\* Stepper ISR: the hold deceleration reached zero speed.
StepperHoldDone ==
    /\ running
    /\ "EXECUTE_HOLD" \in stepControl
    /\ running' = FALSE
    /\ execState' = execState \cup {"CYCLE_STOP"}
    /\ UNCHANGED <<sysVars, execAlarm, execAccessory, startSrc, queue, spindleOn,
                   modalSpindle, ctlVars>>


-----------------------------------------------------------------------------
(* protocol_exec_rt_system: the state-changing blocks of lines 245-423, as *)
(* functions of a record of the sys fields they touch, applied in the     *)
(* order of the code.                                                      *)

SysRecord ==
    [state |-> state, suspend |-> suspend, stepControl |-> stepControl,
     spindleStopOvr |-> spindleStopOvr, queue |-> queue, running |-> running,
     spindleOn |-> spindleOn]

\* Mutant of ExecHold: a hold in CYCLE or JOG changes the state without
\* telling the stepper to decelerate (line 270 dropped).
ExecHoldNoDecel(r, ex) ==
    LET allowed == r.state \notin {"ALARM", "CHECK_MODE"}
        holding == /\ allowed
                   /\ r.state \in {"CYCLE", "JOG"}
                   /\ r.suspend \cap {"MOTION_CANCEL", "JOG_CANCEL"} = {}
        su1 == IF holding /\ r.state = "JOG" /\ "SLEEP" \notin ex
               THEN r.suspend \cup {"JOG_CANCEL"} ELSE r.suspend
        su2 == IF allowed /\ r.state = "IDLE" THEN {"HOLD_COMPLETE"} ELSE su1
        su3 == IF allowed /\ "MOTION_CANCEL" \in ex /\ r.state # "JOG"
               THEN su2 \cup {"MOTION_CANCEL"} ELSE su2
        st1 == IF allowed /\ "FEED_HOLD" \in ex /\ r.state \notin {"JOG", "SLEEP"}
               THEN "HOLD" ELSE r.state
        su4 == IF "SLEEP" \in ex /\ st1 = "ALARM"
               THEN su3 \cup {"RETRACT_COMPLETE", "HOLD_COMPLETE"} ELSE su3
    IN  IF ex \cap HoldBits = {} THEN r
        ELSE [r EXCEPT !.state = IF "SLEEP" \in ex THEN "SLEEP" ELSE st1,
                       !.suspend = su4]

\* Lines 261-299: motion cancel, feed hold and sleep requests.
ExecHold(r, ex) ==
    LET allowed == r.state \notin {"ALARM", "CHECK_MODE"}
        holding == /\ allowed
                   /\ r.state \in {"CYCLE", "JOG"}
                   /\ r.suspend \cap {"MOTION_CANCEL", "JOG_CANCEL"} = {}
        su1 == IF holding /\ r.state = "JOG" /\ "SLEEP" \notin ex
               THEN r.suspend \cup {"JOG_CANCEL"} ELSE r.suspend
        su2 == IF allowed /\ r.state = "IDLE" THEN {"HOLD_COMPLETE"} ELSE su1
        su3 == IF allowed /\ "MOTION_CANCEL" \in ex /\ r.state # "JOG"
               THEN su2 \cup {"MOTION_CANCEL"} ELSE su2
        st1 == IF allowed /\ "FEED_HOLD" \in ex /\ r.state \notin {"JOG", "SLEEP"}
               THEN "HOLD" ELSE r.state
        su4 == IF "SLEEP" \in ex /\ st1 = "ALARM"
               THEN su3 \cup {"RETRACT_COMPLETE", "HOLD_COMPLETE"} ELSE su3
    IN  IF ex \cap HoldBits = {} THEN r
        ELSE [r EXCEPT !.state = IF "SLEEP" \in ex THEN "SLEEP" ELSE st1,
                       !.suspend = su4,
                       !.stepControl = IF holding THEN {"EXECUTE_HOLD"} ELSE @]

\* Mutant of ExecCycleStart: the cycle start is taken even when a hold
\* request is in the same copy (the test of line 307 dropped).
ExecCycleStartNoHoldGuard(r, ex) ==
    LET resumable == \/ r.state = "IDLE"
                     \/ r.state = "HOLD" /\ "HOLD_COMPLETE" \in r.suspend
    IN  IF ~("CYCLE_START" \in ex /\ resumable) THEN r
        ELSE IF r.state = "HOLD" /\ r.spindleStopOvr # {}
        THEN [r EXCEPT !.spindleStopOvr = @ \cup {"RESTORE_CYCLE"}]
        ELSE IF r.queue # <<>> /\ "MOTION_CANCEL" \notin r.suspend
        THEN [r EXCEPT !.stepControl = {}, !.suspend = {}, !.state = "CYCLE",
                       !.running = TRUE]
        ELSE [r EXCEPT !.stepControl = {}, !.suspend = {}, !.state = "IDLE"]

\* Mutant of ExecCycleStart: a hold is resumed at once even while the
\* spindle stop override holds the spindle off (lines 310-311 dropped).
ExecCycleStartNoStopOvr(r, ex) ==
    LET resumable == \/ r.state = "IDLE"
                     \/ r.state = "HOLD" /\ "HOLD_COMPLETE" \in r.suspend
        start == /\ "CYCLE_START" \in ex
                 /\ ex \cap {"FEED_HOLD", "MOTION_CANCEL"} = {}
                 /\ resumable
    IN  IF ~start THEN r
        ELSE IF r.queue # <<>> /\ "MOTION_CANCEL" \notin r.suspend
        THEN [r EXCEPT !.stepControl = {}, !.suspend = {}, !.state = "CYCLE",
                       !.running = TRUE]
        ELSE [r EXCEPT !.stepControl = {}, !.suspend = {}, !.state = "IDLE"]

\* Mutant of ExecCycleStart: a '~' during a hold is taken before the hold
\* has completed (SUSPEND_HOLD_COMPLETE not tested).
ExecCycleStartAnyHold(r, ex) ==
    LET resumable == r.state \in {"IDLE", "HOLD"}
        start == /\ "CYCLE_START" \in ex
                 /\ ex \cap {"FEED_HOLD", "MOTION_CANCEL"} = {}
                 /\ resumable
    IN  IF ~start THEN r
        ELSE IF r.state = "HOLD" /\ r.spindleStopOvr # {}
        THEN [r EXCEPT !.spindleStopOvr = @ \cup {"RESTORE_CYCLE"}]
        ELSE IF r.queue # <<>> /\ "MOTION_CANCEL" \notin r.suspend
        THEN [r EXCEPT !.stepControl = {}, !.suspend = {}, !.state = "CYCLE",
                       !.running = TRUE]
        ELSE [r EXCEPT !.stepControl = {}, !.suspend = {}, !.state = "IDLE"]

\* Lines 305-327: cycle start, refused when a hold request is in the same
\* copy; resumes a completed hold or starts from IDLE.
ExecCycleStart(r, ex) ==
    LET resumable == \/ r.state = "IDLE"
                     \/ r.state = "HOLD" /\ "HOLD_COMPLETE" \in r.suspend
        start == /\ "CYCLE_START" \in ex
                 /\ ex \cap {"FEED_HOLD", "MOTION_CANCEL"} = {}
                 /\ resumable
    IN  IF ~start THEN r
        ELSE IF r.state = "HOLD" /\ r.spindleStopOvr # {}
        THEN [r EXCEPT !.spindleStopOvr = @ \cup {"RESTORE_CYCLE"}]
        ELSE IF r.queue # <<>> /\ "MOTION_CANCEL" \notin r.suspend
        THEN [r EXCEPT !.stepControl = {}, !.suspend = {}, !.state = "CYCLE",
                       !.running = TRUE]
        ELSE [r EXCEPT !.stepControl = {}, !.suspend = {}, !.state = "IDLE"]

\* Mutant of ExecCycleStop: EXECUTE_HOLD is cleared before it is tested
\* (lines 340 and 341 swapped), so the hold is never marked complete.
ExecCycleStopClearFirst(r, ex) ==
    LET jogCancel == "JOG_CANCEL" \in r.suspend
    IN  IF "CYCLE_STOP" \notin ex THEN r
        ELSE IF r.state \in {"HOLD", "SLEEP"} /\ ~softLimit /\ ~jogCancel
        THEN [r EXCEPT !.stepControl = @ \ {"EXECUTE_HOLD", "EXECUTE_SYS_MOTION"}]
        ELSE [r EXCEPT !.stepControl = IF jogCancel THEN {} ELSE @,
                       !.queue = IF jogCancel THEN <<>> ELSE @,
                       !.running = @ /\ ~jogCancel,
                       !.suspend = {},
                       !.state = "IDLE"]

\* Mutant of ExecCycleStop: sys.soft_limit is not tested, so a hold forced
\* by a soft limit completes in HOLD like an operator's hold.
ExecCycleStopNoSoftLimit(r, ex) ==
    LET jogCancel == "JOG_CANCEL" \in r.suspend
    IN  IF "CYCLE_STOP" \notin ex THEN r
        ELSE IF r.state \in {"HOLD", "SLEEP"} /\ ~jogCancel
        THEN [r EXCEPT !.suspend = IF "EXECUTE_HOLD" \in r.stepControl
                                   THEN @ \cup {"HOLD_COMPLETE"} ELSE @,
                       !.stepControl = @ \ {"EXECUTE_HOLD", "EXECUTE_SYS_MOTION"}]
        ELSE [r EXCEPT !.stepControl = IF jogCancel THEN {} ELSE @,
                       !.queue = IF jogCancel THEN <<>> ELSE @,
                       !.running = @ /\ ~jogCancel,
                       !.suspend = {},
                       !.state = "IDLE"]

\* Lines 331-355: the stepper reported that motion stopped.
ExecCycleStop(r, ex) ==
    LET jogCancel == "JOG_CANCEL" \in r.suspend
    IN  IF "CYCLE_STOP" \notin ex THEN r
        ELSE IF r.state \in {"HOLD", "SLEEP"} /\ ~softLimit /\ ~jogCancel
        THEN [r EXCEPT !.suspend = IF "EXECUTE_HOLD" \in r.stepControl
                                   THEN @ \cup {"HOLD_COMPLETE"} ELSE @,
                       !.stepControl = @ \ {"EXECUTE_HOLD", "EXECUTE_SYS_MOTION"}]
        ELSE [r EXCEPT !.stepControl = IF jogCancel THEN {} ELSE @,
                       !.queue = IF jogCancel THEN <<>> ELSE @,
                       !.running = @ /\ ~jogCancel,
                       !.suspend = {},
                       !.state = "IDLE"]

\* Lines 388-418: spindle speed override and spindle stop override.
ExecAccessory(r, acc) ==
    LET r1 == IF "SPINDLE_OVR_CHANGE" \notin acc THEN r
              ELSE IF r.state = "IDLE"
              THEN [r EXCEPT !.spindleOn = SpindleSetState(modalSpindle)]
              ELSE [r EXCEPT !.stepControl = @ \cup {"UPDATE_SPINDLE_PWM"}]
        stop == "SPINDLE_OVR_STOP" \in acc /\ r1.state = "HOLD"
    IN  IF stop /\ r1.spindleStopOvr = {}
        THEN [r1 EXCEPT !.spindleStopOvr = {"INITIATE"}]
        ELSE IF stop /\ "ENABLED" \in r1.spindleStopOvr
        THEN [r1 EXCEPT !.spindleStopOvr = @ \cup {"RESTORE"}]
        ELSE r1

\* Lines 421-423, st_prep_buffer: while segments are being generated a
\* pending UPDATE_SPINDLE_PWM is applied from the block's spindle state
\* (the gc modal state) and cleared.
StPrepBuffer(r) ==
    IF /\ r.state \in PrepStates
       /\ r.running
       /\ "UPDATE_SPINDLE_PWM" \in r.stepControl
    THEN [r EXCEPT !.stepControl = @ \ {"UPDATE_SPINDLE_PWM"},
                   !.spindleOn = modalSpindle]
    ELSE r

\* Mutant of ClearedBits: the hold bits are cleared whatever the copy held.
ClearedBitsAlways(ex) ==
    HoldBits \cup (ex \cap {"CYCLE_START", "CYCLE_STOP"})

\* The sys_rt_exec_state bits cleared after the copy `ex` was handled. Line
\* 301 clears all three hold bits, also the ones set after the copy.
ClearedBits(ex) ==
    (IF ex \cap HoldBits # {} THEN HoldBits ELSE {})
        \cup (ex \cap {"CYCLE_START", "CYCLE_STOP"})

SetSys(r) ==
    /\ state' = r.state
    /\ suspend' = r.suspend
    /\ stepControl' = r.stepControl
    /\ spindleStopOvr' = r.spindleStopOvr
    /\ queue' = r.queue
    /\ running' = r.running
    /\ spindleOn' = r.spindleOn

-----------------------------------------------------------------------------
(* Calls and returns of the main context.                                  *)

\* protocol_execute_realtime called by `k`, which continues at pc `k`.
CallRealtime(k) == pc' = "rtAlarm" /\ caller' = k /\ rtCtx' = "exec"

\* protocol_exec_rt_system called from the suspend or the sleep loop.
CallRtSystem(ctx) == pc' = "rtAlarm" /\ rtCtx' = ctx /\ UNCHANGED caller

\* protocol_execute_realtime returns to its caller.
Return == pc' = caller /\ caller' = "main" /\ rtCtx' = "exec"

\* protocol_exec_rt_system returns, leaving sys.suspend = su; called from
\* protocol_execute_realtime it enters protocol_exec_rt_suspend if su # 0.
RtSystemReturn(su) ==
    IF rtCtx = "exec" /\ su = {}
    THEN Return
    ELSE /\ pc' = IF rtCtx = "sleep" THEN "sleep" ELSE "suspend"
         /\ UNCHANGED <<caller, rtCtx>>

\* protocol_auto_cycle_start.
AutoCycleStart ==
    IF queue # <<>>
    THEN /\ execState' = execState \cup {"CYCLE_START"}
         /\ startSrc' = startSrc \cup {"auto"}
    ELSE UNCHANGED <<execState, startSrc>>

-----------------------------------------------------------------------------
(* protocol_exec_rt_system, step by step.                                  *)

\* Lines 216-227: a pending alarm forces ALARM and discards a pending reset.
RtAlarmCheck ==
    /\ pc = "rtAlarm"
    /\ IF execAlarm # "NONE"
       THEN /\ state' = "ALARM"
            /\ execState' = execState \ {"RESET"}
            /\ pc' = "alarmLoop"
       ELSE /\ pc' = "rtSnap"
            /\ UNCHANGED <<state, execState>>
    /\ UNCHANGED <<suspend, stepControl, spindleStopOvr, softLimit, abort,
                   execAlarm, execAccessory, startSrc, machVars,
                   caller, rtCtx, rtExec, cmd, rtSrc>>

\* Lines 228-241: wait for a new reset, then clear the alarm.
AlarmLoop ==
    /\ pc = "alarmLoop"
    /\ "RESET" \in execState
    /\ execAlarm' = "NONE"
    /\ pc' = "rtSnap"
    /\ UNCHANGED <<sysVars, execState, execAccessory, startSrc, machVars,
                   caller, rtCtx, rtExec, cmd, rtSrc>>

\* Line 244: rt_exec = sys_rt_exec_state.
RtSnapshot ==
    /\ pc = "rtSnap"
    /\ rtExec' = execState
    /\ rtSrc' = startSrc
    /\ pc' = "rtProc"
    /\ UNCHANGED <<sysVars, flagVars, machVars, caller, rtCtx, cmd>>

\* Lines 245-423: handle the copy. A reset sets sys.abort and returns at
\* once; otherwise hold, cycle start, cycle stop, the accessory overrides
\* (read and cleared at lines 388-390) and the segment preparation.
RtProcess ==
    /\ pc = "rtProc"
    /\ IF "RESET" \in rtExec
       THEN /\ abort' = TRUE
            /\ RtSystemReturn(suspend)
            /\ UNCHANGED <<state, suspend, stepControl, spindleStopOvr,
                           softLimit, flagVars, machVars>>
       ELSE LET r == StPrepBuffer(
                       ExecAccessory(
                         ExecCycleStop(
                           ExecCycleStart(ExecHold(SysRecord, rtExec), rtExec),
                           rtExec),
                         execAccessory))
            IN  /\ SetSys(r)
                /\ execState' = execState \ ClearedBits(rtExec)
                /\ startSrc' = IF "CYCLE_START" \in rtExec THEN {} ELSE startSrc
                /\ execAccessory' = {}
                /\ RtSystemReturn(r.suspend)
                /\ UNCHANGED <<softLimit, abort, execAlarm, modalSpindle>>
    /\ rtExec' = {}
    /\ rtSrc' = {}
    /\ UNCHANGED cmd

-----------------------------------------------------------------------------
(* protocol_exec_rt_suspend (lines 431-537). restore_condition is the gc  *)
(* modal spindle state: a spindle change syncs the planner first, so every *)
(* queued block carries the modal state (spindle_sync, lines 143-148).     *)

\* Lines 444-446: leave the loop when nothing is suspended or on abort.
SuspendReturn ==
    /\ pc = "suspend"
    /\ suspend = {} \/ abort
    /\ Return
    /\ UNCHANGED <<sysVars, flagVars, machVars, rtExec, cmd, rtSrc>>

\* Line 449: the hold is not complete yet; only rt_system runs (534).
SuspendWaitHold ==
    /\ pc = "suspend"
    /\ suspend # {} /\ ~abort
    /\ "HOLD_COMPLETE" \notin suspend
    /\ CallRtSystem("suspend")
    /\ UNCHANGED <<sysVars, flagVars, machVars, rtExec, cmd, rtSrc>>

\* Lines 452-463: sleep requested, de-energise the spindle first.
SuspendSleepRetract ==
    /\ pc = "suspend"
    /\ suspend # {} /\ ~abort
    /\ "HOLD_COMPLETE" \in suspend /\ state = "SLEEP"
    /\ "RETRACT_COMPLETE" \notin suspend
    /\ spindleStopOvr' = {}
    /\ spindleOn' = FALSE
    /\ suspend' = (suspend \ {"RESTART_RETRACT"}) \cup {"RETRACT_COMPLETE"}
    /\ CallRtSystem("suspend")
    /\ UNCHANGED <<state, stepControl, softLimit, abort, flagVars, queue, running,
                   modalSpindle, rtExec, cmd, rtSrc>>

\* Lines 468-477: sleep: spindle off, steppers idle, then wait for reset.
\* Lines 482-496 are unreachable: the state is SLEEP whenever they are reached.
SuspendSleepEnter ==
    /\ pc = "suspend"
    /\ suspend # {} /\ ~abort
    /\ "HOLD_COMPLETE" \in suspend /\ state = "SLEEP"
    /\ "RETRACT_COMPLETE" \in suspend
    /\ spindleOn' = FALSE
    /\ running' = FALSE
    /\ pc' = "sleep"
    /\ UNCHANGED <<sysVars, flagVars, queue, modalSpindle, caller, rtCtx,
                   rtExec, cmd, rtSrc>>

\* Lines 477-478: while (!sys.abort) protocol_exec_rt_system(); return.
SleepLoop ==
    /\ pc = "sleep"
    /\ IF abort THEN Return ELSE CallRtSystem("sleep")
    /\ UNCHANGED <<sysVars, flagVars, machVars, rtExec, cmd, rtSrc>>

\* Lines 500-529, the feed hold manager, then rt_system (534).
SuspendHoldManager ==
    /\ pc = "suspend"
    /\ suspend # {} /\ ~abort
    /\ "HOLD_COMPLETE" \in suspend /\ state # "SLEEP"
    /\ LET initiate == "INITIATE" \in spindleStopOvr
           restore  == /\ ~initiate
                       /\ spindleStopOvr \cap {"RESTORE", "RESTORE_CYCLE"} # {}
           resume   == restore /\ "RESTORE_CYCLE" \in spindleStopOvr
           pwm      == /\ spindleStopOvr = {}
                       /\ "UPDATE_SPINDLE_PWM" \in stepControl
       IN  /\ spindleOn' = CASE initiate /\ modalSpindle -> FALSE
                             [] restore /\ modalSpindle  -> TRUE
                             [] pwm                      -> modalSpindle
                             [] OTHER                    -> spindleOn
           /\ spindleStopOvr' = CASE initiate /\ modalSpindle -> {"ENABLED"}
                                  [] initiate \/ restore      -> {}
                                  [] OTHER                    -> spindleStopOvr
           /\ stepControl' = IF pwm THEN stepControl \ {"UPDATE_SPINDLE_PWM"}
                             ELSE stepControl
           /\ execState' = IF resume THEN execState \cup {"CYCLE_START"}
                           ELSE execState
           /\ startSrc' = IF resume THEN startSrc \cup {"restore"} ELSE startSrc
    /\ CallRtSystem("suspend")
    /\ UNCHANGED <<state, suspend, softLimit, abort, execAlarm, execAccessory,
                   queue, running, modalSpindle, rtExec, cmd, rtSrc>>

-----------------------------------------------------------------------------
(* The main program: main() re-initialisation and protocol_main_loop.     *)

\* Mutant of Boot: protocol_main_loop locks only ALARM into ALARM.
BootSleepToIdle ==
    /\ pc = "boot"
    /\ state' = IF state = "ALARM" THEN "ALARM" ELSE "IDLE"
    /\ suspend' = {}
    /\ stepControl' = {}
    /\ spindleStopOvr' = {}
    /\ softLimit' = FALSE
    /\ abort' = FALSE
    /\ execState' = {}
    /\ execAlarm' = "NONE"
    /\ execAccessory' = {}
    /\ startSrc' = {}
    /\ queue' = <<>>
    /\ running' = FALSE
    /\ spindleOn' = FALSE
    /\ modalSpindle' = FALSE
    /\ pc' = "main"
    /\ UNCHANGED <<caller, rtCtx, rtExec, cmd, rtSrc>>

\* main() after power-up or an abort: sys is cleared except sys.state, the
\* flag words, planner, stepper and gc state are reset and the spindle is
\* stopped; protocol_main_loop (lines 42-50) then locks an ALARM or SLEEP
\* state into ALARM and enters IDLE otherwise.
Boot ==
    /\ pc = "boot"
    /\ state' = IF state \in {"ALARM", "SLEEP"} THEN "ALARM" ELSE "IDLE"
    /\ suspend' = {}
    /\ stepControl' = {}
    /\ spindleStopOvr' = {}
    /\ softLimit' = FALSE
    /\ abort' = FALSE
    /\ execState' = {}
    /\ execAlarm' = "NONE"
    /\ execAccessory' = {}
    /\ startSrc' = {}
    /\ queue' = <<>>
    /\ running' = FALSE
    /\ spindleOn' = FALSE
    /\ modalSpindle' = FALSE
    /\ pc' = "main"
    /\ UNCHANGED <<caller, rtCtx, rtExec, cmd, rtSrc>>

\* Lines 69 and 158: bail out to main() on abort.
MainAbort ==
    /\ pc \in {"main", "line"}
    /\ abort
    /\ pc' = "boot"
    /\ UNCHANGED <<sysVars, flagVars, machVars, caller, rtCtx, rtExec, cmd, rtSrc>>

\* Lines 65-68: a line ending arrived; the realtime check point comes first.
MainReadLine ==
    /\ pc = "main" /\ ~abort
    /\ CallRealtime("line")
    /\ UNCHANGED <<sysVars, flagVars, machVars, rtExec, cmd, rtSrc>>

\* Lines 155-157: no serial data: auto cycle start, then the check point.
MainIdle ==
    /\ pc = "main" /\ ~abort
    /\ AutoCycleStart
    /\ CallRealtime("main")
    /\ UNCHANGED <<sysVars, execAlarm, execAccessory, machVars, rtExec, cmd, rtSrc>>

-----------------------------------------------------------------------------
(* Lines 76-103: one line is dispatched. `$` lines go to                  *)
(* system_execute_line (system.c); g-code is locked out in ALARM and JOG   *)
(* (line 93) and otherwise goes to gc_execute_line. A refused line only    *)
(* reports a status.                                                       *)

GcodeLocked == state \in {"ALARM", "JOG"}

LineDone == pc' = "main" /\ cmd' = "none" /\ UNCHANGED <<caller, rtCtx>>

\* The parts of the main context a dispatch that changes nothing leaves alone.
LineRefused == LineDone /\ UNCHANGED <<sysVars, flagVars, machVars, rtExec, rtSrc>>

\* $X: unlock ALARM into IDLE (system.c lines 90-96).
ExecUnlock ==
    /\ pc = "line" /\ ~abort
    /\ state' = IF state = "ALARM" THEN "IDLE" ELSE state
    /\ LineDone
    /\ UNCHANGED <<suspend, stepControl, spindleStopOvr, softLimit, abort,
                   flagVars, machVars, rtExec, rtSrc>>

\* $C: leave check mode by mc_reset, or enter it from IDLE (lines 78-89).
ExecCheckMode ==
    /\ pc = "line" /\ ~abort
    /\ \/ /\ state = "CHECK_MODE"
          /\ mc_reset
          /\ LineDone
          /\ UNCHANGED <<sysVars, execAccessory, startSrc, queue, modalSpindle,
                         rtExec, rtSrc>>
       \/ /\ state = "IDLE"
          /\ state' = "CHECK_MODE"
          /\ LineDone
          /\ UNCHANGED <<suspend, stepControl, spindleStopOvr, softLimit, abort,
                         flagVars, machVars, rtExec, rtSrc>>
       \/ /\ state \notin {"IDLE", "CHECK_MODE"}
          /\ LineRefused

\* $SLP in IDLE or ALARM sets EXEC_SLEEP (lines 101 and 169-172).
ExecSleep ==
    /\ pc = "line" /\ ~abort
    /\ IF state \in {"IDLE", "ALARM"}
       THEN execState' = execState \cup {"SLEEP"}
       ELSE UNCHANGED execState
    /\ LineDone
    /\ UNCHANGED <<sysVars, execAlarm, execAccessory, startSrc, machVars, rtExec, rtSrc>>

\* $RST= in IDLE or ALARM restores settings, then mc_reset (lines 208-224).
ExecRestoreSettings ==
    /\ pc = "line" /\ ~abort
    /\ \/ /\ state \in {"IDLE", "ALARM"}
          /\ mc_reset
          /\ LineDone
          /\ UNCHANGED <<sysVars, execAccessory, startSrc, queue, modalSpindle,
                         rtExec, rtSrc>>
       \/ /\ state \notin {"IDLE", "ALARM"}
          /\ LineRefused

\* $L followed by anything but end of line or "S" (system.c lines 100 and
\* 152-161): in IDLE or ALARM the handler first sets HOMING (line 152),
\* then finds neither $L nor $LS. No check point lies between this write
\* and the next, but the interrupts see HOMING: the limit ISR resets and
\* mc_reset finds motion in progress. $L and $LS run the homing and
\* levelling motions, which are not part of this module.
ExecLevelInvalid ==
    /\ pc = "line" /\ ~abort
    /\ \/ /\ state \in {"IDLE", "ALARM"}
          /\ state' = "HOMING"
          /\ pc' = "levelMode"
          /\ UNCHANGED <<suspend, stepControl, spindleStopOvr, softLimit, abort,
                         flagVars, machVars, caller, rtCtx, rtExec, cmd, rtSrc>>
       \/ /\ state \notin {"IDLE", "ALARM"}
          /\ LineRefused

\* ... and leaves the level mode by setting IDLE (line 159) before it
\* reports the invalid statement, whatever a reset meanwhile left pending.
ExitLevelMode ==
    /\ pc = "levelMode"
    /\ state' = "IDLE"
    /\ LineDone
    /\ UNCHANGED <<suspend, stepControl, spindleStopOvr, softLimit, abort,
                   flagVars, machVars, rtExec, rtSrc>>

\* $J=: only in IDLE or JOG (lines 56-61); jog_execute calls mc_line, whose
\* first step is the realtime check point.
ExecJog ==
    /\ pc = "line" /\ ~abort
    /\ \/ /\ state \in {"IDLE", "JOG"}
          /\ CallRealtime("mcLine")
          /\ cmd' = "$J"
          /\ UNCHANGED <<sysVars, flagVars, machVars, rtExec, rtSrc>>
       \/ /\ state \notin {"IDLE", "JOG"}
          /\ LineRefused

\* A motion block within the travel limits: mc_line returns at once in
\* check mode, otherwise enters its buffer-wait loop.
ExecMotion ==
    /\ pc = "line" /\ ~abort
    /\ \/ /\ ~GcodeLocked /\ state # "CHECK_MODE"
          /\ CallRealtime("mcLine")
          /\ cmd' = "G1"
          /\ UNCHANGED <<sysVars, flagVars, machVars, rtExec, rtSrc>>
       \/ /\ GcodeLocked \/ state = "CHECK_MODE"
          /\ LineRefused

\* A motion block beyond the travel limits: limits_soft_check (limits.c
\* lines 293-310) called by mc_line. In CYCLE it forces a feed hold and
\* waits for IDLE; otherwise it resets at once with the SOFT_LIMIT alarm.
ExecMotionBeyondLimits ==
    /\ SoftLimitsEnabled
    /\ pc = "line" /\ ~abort
    /\ \/ /\ ~GcodeLocked /\ state = "CYCLE"
          /\ softLimit' = TRUE
          /\ execState' = execState \cup {"FEED_HOLD"}
          /\ CallRealtime("softWait")
          /\ cmd' = "G1"
          /\ UNCHANGED <<state, suspend, stepControl, spindleStopOvr, abort,
                         execAlarm, execAccessory, startSrc, machVars, rtExec, rtSrc>>
       \/ /\ ~GcodeLocked /\ state # "CYCLE"
          /\ softLimit' = TRUE
          /\ McResetEffects
          /\ execAlarm' = "SOFT_LIMIT"
          /\ CallRealtime("mcLine")
          /\ cmd' = "G1"
          /\ UNCHANGED <<state, suspend, stepControl, spindleStopOvr, abort,
                         execAccessory, startSrc, queue, modalSpindle, rtExec, rtSrc>>
       \/ /\ GcodeLocked
          /\ LineRefused

\* M3 / M5 changing the modal spindle state: spindle_sync returns in check
\* mode (line 145), otherwise synchronises the buffer first (lines 146-147).
ExecSpindle ==
    /\ pc = "line" /\ ~abort
    /\ \E on \in BOOLEAN :
        /\ on # modalSpindle
        /\ \/ /\ ~GcodeLocked /\ state # "CHECK_MODE"
              /\ AutoCycleStart
              /\ CallRealtime("sync")
              /\ cmd' = IF on THEN "M3" ELSE "M5"
              /\ UNCHANGED <<sysVars, execAlarm, execAccessory, machVars, rtExec, rtSrc>>
           \/ /\ state = "CHECK_MODE"
              /\ modalSpindle' = on
              /\ LineDone
              /\ UNCHANGED <<sysVars, flagVars, queue, running, spindleOn, rtExec, rtSrc>>
           \/ /\ GcodeLocked
              /\ LineRefused

-----------------------------------------------------------------------------
(* Continuations after a realtime check point returns.                     *)

\* jog_execute (jog.c) after mc_line returns: a jog from IDLE is started by
\* hand (state JOG, st_wake_up), without the cycle-start path.
JogWake(q) ==
    IF cmd = "$J" /\ state = "IDLE" /\ q # <<>>
    THEN state' = "JOG" /\ running' = TRUE
    ELSE UNCHANGED <<state, running>>

\* mc_line: abort after the check point returns to the caller; jog_execute
\* still runs its state test.
McLineAbort ==
    /\ pc = "mcLine" /\ abort
    /\ JogWake(queue)
    /\ pc' = "boot"
    /\ cmd' = "none"
    /\ UNCHANGED <<suspend, stepControl, spindleStopOvr, softLimit, abort, flagVars,
                   queue, spindleOn, modalSpindle, caller, rtCtx, rtExec, rtSrc>>

\* mc_line: buffer full, auto cycle start and check point again.
McLineFull ==
    /\ pc = "mcLine" /\ ~abort
    /\ Len(queue) >= MaxBlocks
    /\ AutoCycleStart
    /\ CallRealtime("mcLine")
    /\ UNCHANGED <<sysVars, execAlarm, execAccessory, machVars, rtExec, cmd, rtSrc>>

\* Mutant of McLineBuffer: the buffer-full test is off by one.
McLineBufferOffByOne ==
    /\ pc = "mcLine" /\ ~abort
    /\ Len(queue) <= MaxBlocks
    /\ queue' = Append(queue, IF cmd = "$J" THEN "jog" ELSE "feed")
    /\ JogWake(queue')
    /\ LineDone
    /\ UNCHANGED <<suspend, stepControl, spindleStopOvr, softLimit, abort, flagVars,
                   spindleOn, modalSpindle, rtExec, rtSrc>>

\* mc_line: plan_buffer_line appends the block; for a jog, jog_execute's
\* state test follows.
McLineBuffer ==
    /\ pc = "mcLine" /\ ~abort
    /\ Len(queue) < MaxBlocks
    /\ queue' = Append(queue, IF cmd = "$J" THEN "jog" ELSE "feed")
    /\ JogWake(queue')
    /\ LineDone
    /\ UNCHANGED <<suspend, stepControl, spindleStopOvr, softLimit, abort, flagVars,
                   spindleOn, modalSpindle, rtExec, rtSrc>>

\* protocol_buffer_synchronize, line 173: abort. spindle_set_state would
\* return at once and main() re-initialises the gc state.
SyncAbort ==
    /\ pc = "sync" /\ abort
    /\ pc' = "boot"
    /\ cmd' = "none"
    /\ UNCHANGED <<sysVars, flagVars, machVars, caller, rtCtx, rtExec, rtSrc>>

\* protocol_buffer_synchronize, line 174: blocks left or still in CYCLE.
SyncWait ==
    /\ pc = "sync" /\ ~abort
    /\ queue # <<>> \/ state = "CYCLE"
    /\ CallRealtime("sync")
    /\ UNCHANGED <<sysVars, flagVars, machVars, rtExec, cmd, rtSrc>>

\* spindle_sync, line 147, then the gc modal update.
SyncDone ==
    /\ pc = "sync" /\ ~abort
    /\ queue = <<>> /\ state # "CYCLE"
    /\ spindleOn' = SpindleSetState(cmd = "M3")
    /\ modalSpindle' = (cmd = "M3")
    /\ LineDone
    /\ UNCHANGED <<sysVars, flagVars, queue, running, rtExec, rtSrc>>

\* limits_soft_check, line 303: abort returns through mc_line.
SoftLimitAbort ==
    /\ pc = "softWait" /\ abort
    /\ pc' = "boot"
    /\ cmd' = "none"
    /\ UNCHANGED <<sysVars, flagVars, machVars, caller, rtCtx, rtExec, rtSrc>>

\* limits_soft_check, line 304: wait for the forced hold to reach IDLE.
SoftLimitWait ==
    /\ pc = "softWait" /\ ~abort
    /\ state # "IDLE"
    /\ CallRealtime("softWait")
    /\ UNCHANGED <<sysVars, flagVars, machVars, rtExec, cmd, rtSrc>>

\* limits_soft_check, lines 306-308: reset with the SOFT_LIMIT alarm, then
\* the check point that enters the alarm loop; mc_line continues after it.
SoftLimitAlarm ==
    /\ pc = "softWait" /\ ~abort
    /\ state = "IDLE"
    /\ McResetEffects
    /\ execAlarm' = "SOFT_LIMIT"
    /\ CallRealtime("mcLine")
    /\ UNCHANGED <<sysVars, execAccessory, startSrc, queue, modalSpindle,
                   rtExec, cmd, rtSrc>>

-----------------------------------------------------------------------------
(* The specification.                                                      *)

\* Power-up, after main() has initialised with interrupts disabled: sys is
\* zero, so protocol_main_loop enters IDLE (HOMING_INIT_LOCK is not
\* configured).
Init ==
    /\ state = "IDLE"
    /\ suspend = {}
    /\ stepControl = {}
    /\ spindleStopOvr = {}
    /\ softLimit = FALSE
    /\ abort = FALSE
    /\ execState = {}
    /\ execAlarm = "NONE"
    /\ execAccessory = {}
    /\ startSrc = {}
    /\ queue = <<>>
    /\ running = FALSE
    /\ spindleOn = FALSE
    /\ modalSpindle = FALSE
    /\ pc = "main"
    /\ caller = "main"
    /\ rtCtx = "exec"
    /\ rtExec = {}
    /\ cmd = "none"
    /\ rtSrc = {}

Interrupts ==
    \/ SerialReset \/ SerialCycleStart \/ SerialFeedHold \/ SerialJogCancel
    \/ SerialSpindleOverride \/ LimitPinChange

Stepper == StepperBlockDone \/ StepperHoldDone

RtSystem == RtAlarmCheck \/ AlarmLoop \/ RtSnapshot \/ RtProcess

RtSuspend ==
    \/ SuspendReturn \/ SuspendWaitHold \/ SuspendSleepRetract
    \/ SuspendSleepEnter \/ SleepLoop \/ SuspendHoldManager

Dispatch ==
    \/ ExecUnlock \/ ExecCheckMode \/ ExecSleep \/ ExecRestoreSettings
    \/ ExecLevelInvalid \/ ExitLevelMode
    \/ ExecJog \/ ExecMotion \/ ExecMotionBeyondLimits \/ ExecSpindle

Continuations ==
    \/ McLineAbort \/ McLineFull \/ McLineBuffer
    \/ SyncAbort \/ SyncWait \/ SyncDone
    \/ SoftLimitAbort \/ SoftLimitWait \/ SoftLimitAlarm

MainContext ==
    \/ Boot \/ MainAbort \/ MainReadLine \/ MainIdle
    \/ RtSystem \/ RtSuspend \/ Dispatch \/ Continuations

Next == Interrupts \/ Stepper \/ MainContext

\* The main loop never stops running, and the step timer keeps firing while
\* it is enabled. Nothing forces the operator or the host to send anything.
Fairness ==
    /\ WF_vars(MainContext)
    /\ WF_vars(StepperBlockDone)
    /\ WF_vars(StepperHoldDone)

Spec == Init /\ [][Next]_vars /\ Fairness

-----------------------------------------------------------------------------
(* Properties.                                                             *)

TypeOK ==
    /\ state \in States
    /\ suspend \subseteq SuspendBits
    /\ stepControl \subseteq StepControlBits
    /\ spindleStopOvr \subseteq SpindleStopBits
    /\ softLimit \in BOOLEAN
    /\ abort \in BOOLEAN
    /\ execState \subseteq ExecStateBits
    /\ execAlarm \in Alarms
    /\ execAccessory \subseteq AccessoryBits
    /\ startSrc \subseteq Sources
    /\ queue \in Seq(BlockKinds) /\ Len(queue) <= MaxBlocks
    /\ running \in BOOLEAN
    /\ spindleOn \in BOOLEAN
    /\ modalSpindle \in BOOLEAN
    /\ pc \in Pcs
    /\ caller \in Callers
    /\ rtCtx \in {"exec", "suspend", "sleep"}
    /\ rtExec \subseteq ExecStateBits
    /\ cmd \in Cmds
    /\ rtSrc \subseteq Sources

\* A reset is in progress: RESET or an alarm is pending, or sys.abort is set
\* and the main context is unwinding to main().
ResetInProgress == "RESET" \in execState \/ execAlarm # "NONE" \/ abort

\* Outside a reset in progress, whenever the step timer runs, mc_reset's
\* motion test holds: a reset (serial 0x18, a limit switch, $RST, $C) then
\* kills the steppers and raises ABORT_CYCLE, which keeps the machine locked
\* in ALARM after the reboot. Breaking it takes a wake-up (cycle start,
\* jog_execute) and a later state change by the executor that leaves the
\* timer running.
StepperRunsOnlyInMotion == running /\ ~ResetInProgress => MotionActive

\* Outside a reset in progress, the spindle is energised whenever the
\* steppers move with the spindle programmed on: the spindle stop override
\* (0x9E) and the sleep retract only de-energise it while motion is stopped.
SpindleOnWhileMoving ==
    running /\ modalSpindle /\ ~ResetInProgress => spindleOn

\* A feed hold, whether already in force or requested in the same copy of
\* the realtime flags, is only turned into a CYCLE by an explicit cycle
\* start ('~', or the one the spindle-restore path re-issues for it), never
\* by the auto cycle start of the main loop, mc_line or buffer_synchronize
\* pending beside it (the guard of protocol.c line 307 and its comment).
NoAutoResume ==
    [][(/\ state = "HOLD" \/ "FEED_HOLD" \in rtExec
        /\ state # "CYCLE" /\ state' = "CYCLE")
          => rtSrc \cap {"user", "restore"} # {}]_vars

\* A feed hold started during motion completes: the stepper decelerates,
\* reports EXEC_CYCLE_STOP, and the executor marks SUSPEND_HOLD_COMPLETE
\* (protocol.c line 341), unless the hold is left some other way.
HoldCompletes ==
    (state = "HOLD" /\ "EXECUTE_HOLD" \in stepControl)
        ~> ("HOLD_COMPLETE" \in suspend \/ state # "HOLD")

\* limits_soft_check (limits.c lines 300-305) forces a feed hold and spins
\* on the executor until the state is IDLE: the hold decelerates, and the
\* cycle stop that ends it goes to IDLE rather than HOLD because
\* sys.soft_limit is set (protocol.c lines 341-352), so the wait ends. The
\* wait lasts while the main context is in the loop or in an executor call
\* made from it; an alarm raised meanwhile ends it in the alarm loop, which
\* waits for the operator's reset.
SoftLimitWaiting == pc = "softWait" \/ caller = "softWait"
SoftLimitWaitEnds == SoftLimitWaiting ~> (~SoftLimitWaiting \/ pc = "alarmLoop")

\* A jog block never executes as a CYCLE: jogs run in the JOG state, where
\* the jog cancel command (0x85) and a feed hold cancel them (protocol.c
\* lines 271-272) and g-code is locked out (line 93).
JogNeverRunsAsCycle ==
    running /\ queue # <<>> /\ Head(queue) = "jog" => state # "CYCLE"

\* In ALARM the steppers are stopped: an alarm halts motion and only reset
\* and status reports are served until the operator resets.
NoMotionInAlarm == state = "ALARM" => ~running

\* The executor never sits suspended in IDLE: protocol_exec_rt_suspend is
\* for holds and sleep, and in IDLE the main loop must keep reading lines.
IdleNotSuspended == state = "IDLE" => suspend = {}

\* shown by the ALARM state before the reset that clears it.
AlarmNotDiscarded == pc = "boot" => execAlarm = "NONE"

\* A '~' taken while the spindle stop override holds the spindle off is
\* kept as SPINDLE_STOP_OVR_RESTORE_CYCLE, "to restore in suspend routine
\* and cycle start after" (protocol.c line 311): whenever the suspend loop
\* drops that bit, other than by a reset, it raises EXEC_CYCLE_START.
RestoreCycleServed ==
    [][(/\ "RESTORE_CYCLE" \in spindleStopOvr
        /\ "RESTORE_CYCLE" \notin spindleStopOvr'
        /\ ~abort' /\ pc' # "boot")
          => "CYCLE_START" \in execState']_vars

-----------------------------------------------------------------------------
(* Refinement of the documented state machine.                             *)

\* sys.state is the abstract machine state; SUSPEND_HOLD_COMPLETE counts
\* only while the machine is in HOLD.
MS == INSTANCE MachineStates
        WITH InitStates <- {"IDLE"},
             mstate <- state,
             holdComplete <- (state = "HOLD" /\ "HOLD_COMPLETE" \in suspend)

\* Line 301 clears all three hold bits, also one the peeler set after the
\* copy of line 244. Such a request ('!' or 0x85) is lost, but never while
\* the machine keeps moving without decelerating: the copy always held
\* another hold request, and the hold, jog cancel or sleep it starts stops
\* the motion that the lost request asked to stop.
HoldRequestNotLostInMotion ==
    [][LET dropped == (execState \cap HoldBits) \ (rtExec \cup execState')
       IN  pc = "rtProc" /\ dropped # {} =>
             (running' => "EXECUTE_HOLD" \in stepControl')]_vars

\* Every change of sys.state the executor, the suspend loop, the $-command
\* handlers and the restart make is one spec.md section 4.3 allows.
ImplementsMachineStates == MS!Spec

=============================================================================
