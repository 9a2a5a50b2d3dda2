------------------------------ MODULE Spindle ------------------------------
(***************************************************************************)
(* The CR1 spindle driver, src/grblCR/spindle_control.c: the conversion of *)
(* a programmed speed and the speed override into an 8-bit PWM value       *)
(* (spindle_compute_pwm_value), and the pin and timer state that           *)
(* spindle_set_speed, spindle_stop and spindle_set_state leave behind: the *)
(* PWM output enable (SPINDLE_COMB_BIT), the compare register, the         *)
(* direction pin and the Hall_C line that keeps the spindle CPU from        *)
(* starting on noise.                                                       *)
(*                                                                         *)
(* Speeds are whole rpm; the float product rpm * (0.010 * override) is     *)
(* kept exactly as rpm * override, in hundredths of an rpm, and the float  *)
(* pwm_gradient as the exact ratio. Rounding of the float arithmetic at    *)
(* an exact boundary is not modelled.                                       *)
(*                                                                         *)
(* The step generator (stepper.c, outside src/) writes the PWM value of    *)
(* each segment with spindle_set_speed; it is modelled from spec.md        *)
(* sections 2 and 4.3: a new cycle's first segment and the next segment    *)
(* after STEP_CONTROL_UPDATE_SPINDLE_PWM carry the recomputed value.       *)
(***************************************************************************)
EXTENDS Integers

CONSTANTS
    RpmMax,        \* settings.rpm_max ($30)
    RpmMin,        \* settings.rpm_min ($31)
    SpeedValues    \* the S words the g-code program may set

\* cpu_map.h lines 134-139.
SPINDLE_PWM_MAX_VALUE == 255
SPINDLE_PWM_MIN_VALUE == 1
SPINDLE_PWM_OFF_VALUE == 0
SPINDLE_PWM_RANGE == SPINDLE_PWM_MAX_VALUE - SPINDLE_PWM_MIN_VALUE

SpindleStates == {"DISABLE", "CW", "CCW"}

VARIABLES
    sOverride,     \* sys.spindle_speed_ovr, percent
    gcSpindle,     \* gc_state.modal.spindle
    gcSpeed,       \* gc_state.spindle_speed, rpm
    pwmEnabled,    \* SPINDLE_COMB_BIT of SPINDLE_TCCRA_REGISTER
    ocr,           \* SPINDLE_OCR_REGISTER
    dirHigh,       \* SPINDLE_DIRECTION_BIT of the direction port
    hallLow,       \* SPINDLE_HALL_DISABLE_DDR: Hall_C driven low
    spindleSpeed,  \* sys.spindle_speed, in hundredths of an rpm
    pending,       \* STEP_CONTROL_UPDATE_SPINDLE_PWM
    moving         \* a cycle is running: the step generator loads segments

spindleVars == <<sOverride, gcSpindle, gcSpeed, pwmEnabled, ocr, dirHigh,
                 hallLow, spindleSpeed, pending, moving>>
outVars == <<pwmEnabled, ocr, dirHigh, hallLow, spindleSpeed>>

\* Mutant of SpindleComputePwm: S0 is not told apart from a slow speed
\* (the test of line 98 left out).
SpindleComputePwmNoOff(rpm, ovr) ==
    LET x == rpm * ovr
    IN  CASE RpmMin >= RpmMax \/ x >= 100 * RpmMax ->
                 [pwm |-> SPINDLE_PWM_MAX_VALUE, speed |-> 100 * RpmMax]
          [] x <= 100 * RpmMin ->
                 [pwm |-> SPINDLE_PWM_MIN_VALUE, speed |-> 100 * RpmMin]
          [] OTHER ->
                 [pwm |-> ((x - 100 * RpmMin) * SPINDLE_PWM_RANGE)
                            \div (100 * (RpmMax - RpmMin)) + SPINDLE_PWM_MIN_VALUE,
                  speed |-> x]

\* Lines 88-112: scale by the override (line 91), then full PWM at or above
\* rpm_max, off for S0, the minimum PWM up to rpm_min, and the floor of the
\* linear map in between. `speed` is the sys.spindle_speed it sets.
SpindleComputePwm(rpm, ovr) ==
    LET x == rpm * ovr
    IN  CASE RpmMin >= RpmMax \/ x >= 100 * RpmMax ->
                 [pwm |-> SPINDLE_PWM_MAX_VALUE, speed |-> 100 * RpmMax]
          [] x = 0 ->
                 [pwm |-> SPINDLE_PWM_OFF_VALUE, speed |-> 0]
          [] x <= 100 * RpmMin ->
                 [pwm |-> SPINDLE_PWM_MIN_VALUE, speed |-> 100 * RpmMin]
          [] OTHER ->
                 [pwm |-> ((x - 100 * RpmMin) * SPINDLE_PWM_RANGE)
                            \div (100 * (RpmMax - RpmMin)) + SPINDLE_PWM_MIN_VALUE,
                  speed |-> x]

\* Lines 76-85: release Hall_C, load the compare register, and enable the
\* PWM output unless the value is the off value.
SpindleSetSpeed(pwm) ==
    /\ hallLow' = FALSE
    /\ ocr' = pwm
    /\ pwmEnabled' = (pwm # SPINDLE_PWM_OFF_VALUE)

\* Lines 57-72: pulse the direction pin (left low), disable the PWM output
\* and drive Hall_C low.
SpindleStop ==
    /\ dirHigh' = FALSE
    /\ pwmEnabled' = FALSE
    /\ hallLow' = TRUE
    /\ UNCHANGED ocr

\* Lines 117-138 (the sys.abort guard of line 119 is modelled in Protocol):
\* stop for DISABLE, otherwise set the direction and the PWM computed at
\* override `ovr`.
SpindleSetState(st, rpm, ovr) ==
    IF st = "DISABLE"
    THEN /\ spindleSpeed' = 0
         /\ SpindleStop
    ELSE LET c == SpindleComputePwm(rpm, ovr)
         IN  /\ dirHigh' = (st = "CCW")
             /\ spindleSpeed' = c.speed
             /\ SpindleSetSpeed(c.pwm)

\* The PWM value of a segment: the block's speed when its spindle is on,
\* the off value otherwise.
SegmentPwm ==
    IF gcSpindle = "DISABLE" THEN [pwm |-> SPINDLE_PWM_OFF_VALUE, speed |-> 0]
    ELSE SpindleComputePwm(gcSpeed, sOverride)

-----------------------------------------------------------------------------
(* Operations.                                                             *)

\* M3/M4/M5 with an S word: spindle_sync (lines 143-148) waits for the
\* planner to empty, then sets the spindle state.
SpindleSync ==
    /\ ~moving
    /\ \E st \in SpindleStates, rpm \in SpeedValues :
          /\ gcSpindle' = st
          /\ gcSpeed' = rpm
          /\ SpindleSetState(st, rpm, sOverride)
    /\ UNCHANGED <<sOverride, pending, moving>>

\* A cycle starts (protocol.c line 315 sets NORMAL_OP, clearing a pending
\* update) and the step generator loads the first segment, whose PWM value
\* it writes with spindle_set_speed.
SpindleCycleStart ==
    /\ ~moving
    /\ moving' = TRUE
    /\ pending' = FALSE
    /\ spindleSpeed' = SegmentPwm.speed
    /\ SpindleSetSpeed(SegmentPwm.pwm)
    /\ UNCHANGED <<sOverride, gcSpindle, gcSpeed, dirHigh>>

\* The step generator prepares the next segment with the recomputed PWM
\* value after UPDATE_SPINDLE_PWM, clears the flag, and the ISR writes it.
StepperPwmUpdate ==
    /\ moving /\ pending
    /\ pending' = FALSE
    /\ spindleSpeed' = SegmentPwm.speed
    /\ SpindleSetSpeed(SegmentPwm.pwm)
    /\ UNCHANGED <<sOverride, gcSpindle, gcSpeed, dirHigh, moving>>

\* The planner runs dry and the cycle ends in IDLE.
SpindleCycleEnd ==
    /\ moving
    /\ moving' = FALSE
    /\ UNCHANGED <<sOverride, gcSpindle, gcSpeed, pending, outVars>>

\* After spindle_init (lines 26-41): spindle stopped, g-code state M5 S0.
SpindleInit ==
    /\ sOverride = 100
    /\ gcSpindle = "DISABLE"
    /\ gcSpeed = 0
    /\ pwmEnabled = FALSE
    /\ ocr = 0
    /\ dirHigh = FALSE
    /\ hallLow = TRUE
    /\ spindleSpeed = 0
    /\ pending = FALSE
    /\ moving = FALSE

SpindleNext ==
    SpindleSync \/ SpindleCycleStart \/ StepperPwmUpdate \/ SpindleCycleEnd

-----------------------------------------------------------------------------
(* The reference for the PWM conversion.                                   *)

\* spec.md section 1 item 6 and defaults.h: rpm_min..rpm_max is mapped
\* linearly onto SPINDLE_PWM_MIN_VALUE..SPINDLE_PWM_MAX_VALUE, one step of
\* PWM per (rpm_max - rpm_min) / SPINDLE_PWM_RANGE rpm. A PWM step p is
\* reached when the scaled speed x has covered p - MIN such intervals.
StepReached(p, x) ==
    (p - SPINDLE_PWM_MIN_VALUE) * 100 * (RpmMax - RpmMin)
        <= (x - 100 * RpmMin) * SPINDLE_PWM_RANGE

\* The highest PWM step that `x` reaches.
LastStepReached(x) ==
    CHOOSE p \in SPINDLE_PWM_MIN_VALUE..SPINDLE_PWM_MAX_VALUE :
        /\ StepReached(p, x)
        /\ p < SPINDLE_PWM_MAX_VALUE => ~StepReached(p + 1, x)

\* The PWM value the linear model gives for `rpm` at override `ovr`: off
\* for S0, the minimum up to rpm_min, full at or beyond rpm_max.
ReferencePwm(rpm, ovr) ==
    LET x == rpm * ovr
    IN  CASE x = 0                -> SPINDLE_PWM_OFF_VALUE
          [] x <= 100 * RpmMin    -> SPINDLE_PWM_MIN_VALUE
          [] OTHER                -> LastStepReached(x)

=============================================================================
