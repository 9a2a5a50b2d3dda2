----------------------------- MODULE Overrides -----------------------------
(***************************************************************************)
(* The feed, rapid and spindle speed override paths of                   *)
(* protocol_exec_rt_system (src/grblCR/protocol.c lines 361-402).          *)
(*                                                                         *)
(* The serial realtime-character peeler ORs request bits into              *)
(* sys_rt_exec_motion_override. The main loop copies the word (line 361),  *)
(* clears it (line 363), and computes the new overrides in uint8_t         *)
(* arithmetic with clamps (lines 365-377). The copy and the clear are two  *)
(* separate steps, and the peeler may run between them. The spindle speed  *)
(* override word sys_rt_exec_accessory_override is handled the same way    *)
(* (lines 388-400). The two paths touch disjoint state, so the model lets   *)
(* each keep its own place in the loop; the order between them is not      *)
(* visible to any property. A changed spindle speed override then sets   *)
(* the spindle at once in IDLE or flags the step generator (lines 402-407),*)
(* which drives the driver of module Spindle; a cycle is Spindle's         *)
(* `moving`, and IDLE is its absence (the suspend loop's handling of the   *)
(* flag in HOLD is Protocol's).                                            *)
(*                                                                         *)
(* The override values are kept exactly: they are percentages held in     *)
(* uint8_t, and wrap-around is what the properties are about.              *)
(***************************************************************************)
EXTENDS Naturals, Spindle

CONSTANTS
    MotionRequests,    \* the override requests (0x90..0x97) the host may send
    SpindleRequests    \* the spindle speed override requests (0x99..0x9D)

\* config.h lines 148-156.
DEFAULT_FEED_OVERRIDE == 100
MAX_FEED_RATE_OVERRIDE == 200
MIN_FEED_RATE_OVERRIDE == 10
FEED_OVERRIDE_COARSE_INCREMENT == 10
FEED_OVERRIDE_FINE_INCREMENT == 1
DEFAULT_RAPID_OVERRIDE == 100
RAPID_OVERRIDE_MEDIUM == 50
RAPID_OVERRIDE_LOW == 25

\* config.h lines 159-163.
DEFAULT_SPINDLE_SPEED_OVERRIDE == 100
MAX_SPINDLE_SPEED_OVERRIDE == 200
MIN_SPINDLE_SPEED_OVERRIDE == 10
SPINDLE_OVERRIDE_COARSE_INCREMENT == 10
SPINDLE_OVERRIDE_FINE_INCREMENT == 1

FeedRequests == {"FEED_RESET", "FEED_COARSE_PLUS", "FEED_COARSE_MINUS",
                 "FEED_FINE_PLUS", "FEED_FINE_MINUS"}
RapidRequests == {"RAPID_RESET", "RAPID_MEDIUM", "RAPID_LOW"}

SpindleSpeedRequests == {"SPINDLE_RESET", "SPINDLE_COARSE_PLUS",
                         "SPINDLE_COARSE_MINUS", "SPINDLE_FINE_PLUS",
                         "SPINDLE_FINE_MINUS"}

ASSUME MotionRequests \subseteq FeedRequests \cup RapidRequests
ASSUME SpindleRequests \subseteq SpindleSpeedRequests

VARIABLES
    fOverride,    \* sys.f_override
    rOverride,    \* sys.r_override
    motionExec,   \* sys_rt_exec_motion_override
    rtExec,       \* the local copy rt_exec
    pc,           \* "idle": before line 361; "read": between lines 361 and 363
    accExec,      \* sys_rt_exec_accessory_override, its speed request bits
    accCopy,      \* rt_exec, the copy of line 388
    accPc         \* "idle": before line 388; "read": between lines 388 and 390

motionVars == <<fOverride, rOverride, motionExec, rtExec, pc>>
accVars == <<accExec, accCopy, accPc>>
vars == <<motionVars, accVars, spindleVars>>

\* An assignment to a uint8_t keeps the low eight bits.
U8(n) == n % 256

Min(a, b) == IF a <= b THEN a ELSE b
Max(a, b) == IF a >= b THEN a ELSE b

\* The uint8 subtraction a - b, as the assignment truncates it.
U8Sub(a, b) == U8(a + 256 - b)

\* Lines 365-372: the requests in the copy `ex` applied to `cur` in the
\* order of the code, each step truncated to uint8_t, then clamped.
NewFeedOverride(cur, ex) ==
    LET v0 == IF "FEED_RESET" \in ex THEN DEFAULT_FEED_OVERRIDE ELSE cur
        v1 == IF "FEED_COARSE_PLUS" \in ex
              THEN U8(v0 + FEED_OVERRIDE_COARSE_INCREMENT) ELSE v0
        v2 == IF "FEED_COARSE_MINUS" \in ex
              THEN U8Sub(v1, FEED_OVERRIDE_COARSE_INCREMENT) ELSE v1
        v3 == IF "FEED_FINE_PLUS" \in ex
              THEN U8(v2 + FEED_OVERRIDE_FINE_INCREMENT) ELSE v2
        v4 == IF "FEED_FINE_MINUS" \in ex
              THEN U8Sub(v3, FEED_OVERRIDE_FINE_INCREMENT) ELSE v3
    IN  Max(Min(v4, MAX_FEED_RATE_OVERRIDE), MIN_FEED_RATE_OVERRIDE)

\* Lines 374-377: the last rapid request in code order wins.
NewRapidOverride(cur, ex) ==
    CASE "RAPID_LOW" \in ex    -> RAPID_OVERRIDE_LOW
      [] "RAPID_MEDIUM" \in ex -> RAPID_OVERRIDE_MEDIUM
      [] "RAPID_RESET" \in ex  -> DEFAULT_RAPID_OVERRIDE
      [] OTHER                 -> cur

\* system_set_exec_motion_override_flag (system.c lines 340-345), called by
\* the serial peeler for 0x90..0x97.
HostMotionOverride ==
    /\ \E b \in MotionRequests : motionExec' = motionExec \cup {b}
    /\ UNCHANGED <<fOverride, rOverride, rtExec, pc, accVars, spindleVars>>

\* Line 361: rt_exec = sys_rt_exec_motion_override; line 362 skips the
\* rest when it is zero.
ReadMotionOverrides ==
    /\ pc = "idle"
    /\ motionExec # {}
    /\ rtExec' = motionExec
    /\ pc' = "read"
    /\ UNCHANGED <<fOverride, rOverride, motionExec, accVars, spindleVars>>

\* Lines 363-385: clear the whole word, then apply the copy. Only a
\* change of either value replans (lines 379-385), which moves no state
\* modelled here.
ApplyMotionOverrides ==
    /\ pc = "read"
    /\ motionExec' = {}
    /\ fOverride' = NewFeedOverride(fOverride, rtExec)
    /\ rOverride' = NewRapidOverride(rOverride, rtExec)
    /\ rtExec' = {}
    /\ pc' = "idle"
    /\ UNCHANGED <<accVars, spindleVars>>

\* Lines 393-400: the spindle requests of the copy applied to `cur` in
\* code order in uint8_t (last_s_override), then clamped.
NewSpindleOverride(cur, ex) ==
    LET v0 == IF "SPINDLE_RESET" \in ex THEN DEFAULT_SPINDLE_SPEED_OVERRIDE ELSE cur
        v1 == IF "SPINDLE_COARSE_PLUS" \in ex
              THEN U8(v0 + SPINDLE_OVERRIDE_COARSE_INCREMENT) ELSE v0
        v2 == IF "SPINDLE_COARSE_MINUS" \in ex
              THEN U8Sub(v1, SPINDLE_OVERRIDE_COARSE_INCREMENT) ELSE v1
        v3 == IF "SPINDLE_FINE_PLUS" \in ex
              THEN U8(v2 + SPINDLE_OVERRIDE_FINE_INCREMENT) ELSE v2
        v4 == IF "SPINDLE_FINE_MINUS" \in ex
              THEN U8Sub(v3, SPINDLE_OVERRIDE_FINE_INCREMENT) ELSE v3
    IN  Max(Min(v4, MAX_SPINDLE_SPEED_OVERRIDE), MIN_SPINDLE_SPEED_OVERRIDE)

\* system_set_exec_accessory_override_flag (system.c), called by the serial
\* peeler for 0x99..0x9D.
HostSpindleOverride ==
    /\ \E b \in SpindleRequests : accExec' = accExec \cup {b}
    /\ UNCHANGED <<accCopy, accPc, motionVars, spindleVars>>

\* Line 388: rt_exec = sys_rt_exec_accessory_override; line 389 skips the
\* rest when it is zero.
ReadAccessoryOverrides ==
    /\ accPc = "idle"
    /\ accExec # {}
    /\ accCopy' = accExec
    /\ accPc' = "read"
    /\ UNCHANGED <<accExec, motionVars, spindleVars>>

\* Mutant of ApplyAccessoryOverrides: a change outside IDLE is stored but
\* never flagged to the step generator (line 406 left out).
ApplyAccessoryOverridesNoFlag ==
    /\ accPc = "read"
    /\ accExec' = {}
    /\ accCopy' = {}
    /\ accPc' = "idle"
    /\ LET new == NewSpindleOverride(sOverride, accCopy)
       IN  /\ sOverride' = new
           /\ IF new # sOverride /\ ~moving
              THEN SpindleSetState(gcSpindle, gcSpeed, new)
              ELSE UNCHANGED outVars
    /\ UNCHANGED <<gcSpindle, gcSpeed, pending, moving, motionVars>>

\* Lines 390-408: clear the whole word, then apply the copy. A changed
\* value is stored (line 403) and, in IDLE, the spindle is set again at
\* once (line 405); otherwise UPDATE_SPINDLE_PWM hands the change to the
\* step generator (line 406).
ApplyAccessoryOverrides ==
    /\ accPc = "read"
    /\ accExec' = {}
    /\ accCopy' = {}
    /\ accPc' = "idle"
    /\ LET new == NewSpindleOverride(sOverride, accCopy)
       IN  /\ sOverride' = new
           /\ CASE new = sOverride -> UNCHANGED <<pending, outVars>>
                 [] ~moving -> /\ SpindleSetState(gcSpindle, gcSpeed, new)
                               /\ UNCHANGED pending
                 [] OTHER   -> /\ pending' = TRUE
                               /\ UNCHANGED outVars
    /\ UNCHANGED <<gcSpindle, gcSpeed, moving, motionVars>>

\* After main() initialises sys: both overrides at their defaults and no
\* request pending.
Init ==
    /\ fOverride = DEFAULT_FEED_OVERRIDE
    /\ rOverride = DEFAULT_RAPID_OVERRIDE
    /\ motionExec = {}
    /\ rtExec = {}
    /\ pc = "idle"
    /\ SpindleInit
    /\ accExec = {}
    /\ accCopy = {}
    /\ accPc = "idle"

Next == \/ HostMotionOverride \/ ReadMotionOverrides \/ ApplyMotionOverrides
        \/ HostSpindleOverride \/ ReadAccessoryOverrides \/ ApplyAccessoryOverrides
        \/ SpindleNext /\ UNCHANGED <<motionVars, accVars>>

Spec == Init /\ [][Next]_vars

-----------------------------------------------------------------------------
(* Properties.                                                             *)

\* Handling a copy that holds only decrease requests never raises an
\* override: "-10" and "-1" lower the feed override (0x92, 0x94; lines
\* 368, 370 and 372) and the spindle speed override (0x9B, 0x9D; lines
\* 396, 398 and 400), or leave it at the minimum.
DecreaseNeverRaises ==
    [][/\ (rtExec # {} /\ pc' = "idle" /\
           rtExec \subseteq {"FEED_COARSE_MINUS", "FEED_FINE_MINUS"})
             => fOverride' <= fOverride
       /\ (accCopy # {} /\ accPc' = "idle" /\
           accCopy \subseteq {"SPINDLE_COARSE_MINUS", "SPINDLE_FINE_MINUS"})
             => sOverride' <= sOverride]_vars

\* The reference PWM value of every programmed speed at every override the
\* clamps allow, computed once from the linear model of Spindle.
SpindleOverrides == MIN_SPINDLE_SPEED_OVERRIDE..MAX_SPINDLE_SPEED_OVERRIDE
PwmTable == [r \in SpeedValues, o \in SpindleOverrides |-> ReferencePwm(r, o)]

\* Unless an update is still pending for the step generator, the PWM
\* output is what the g-code state and the current override ask for: it
\* is enabled exactly when the spindle is on at a nonzero PWM value, and
\* then carries the reference value. An override applied in IDLE must set
\* the spindle at once (protocol.c line 405), one applied in a cycle must
\* reach the next segment (line 406), and spindle_compute_pwm_value (lines
\* 88-112) must agree with the linear model at both ends of its range.
SpindleOutputMatchesCommand ==
    ~pending =>
        LET want == IF gcSpindle = "DISABLE" THEN SPINDLE_PWM_OFF_VALUE
                    ELSE PwmTable[gcSpeed, sOverride]
        IN  /\ pwmEnabled = (want # SPINDLE_PWM_OFF_VALUE)
            /\ pwmEnabled => ocr = want

=============================================================================
