----------------------------- MODULE TripDelta -----------------------------
(***************************************************************************)
(* The CR1's X1/X2 squaring helper, limits_find_trip_delta_X1X2            *)
(* (src/grblCR/limits.c lines 316-426), called by the $L autolevel command  *)
(* with the system in HOMING and hard limits disabled.                      *)
(*                                                                         *)
(* The X gantry has a switch at each end. The routine (1) moves X away      *)
(* until neither switch reads tripped, (2) moves towards them until both    *)
(* do, latching sys_position[X] into an int16_t when each first trips,      *)
(* (3) pulls away until the block ends or a reset arrives, and returns the  *)
(* difference of the two latched positions.                                 *)
(*                                                                         *)
(* The gantry is kept as the distance of its X2 end from the X2 trip point, *)
(* in units of 0.5 mm; the X1 end trips `skew` units earlier (positive) or  *)
(* later (negative). sys_position[X] is kept in steps, exactly.             *)
(***************************************************************************)
EXTENDS Integers

CONSTANTS
    MaxTravel,     \* settings.max_travel[X] ($130), in units, as a positive value
    StepsPerUnit,  \* settings.steps_per_mm[X] ($100) times the unit, 0.5 mm
    MaxSkew,       \* the largest racking of the gantry, in units
    StartTravel    \* the farthest the gantry may start from the X2 switch, in units

\* config.h line 107 and limits.c line 27, in units of 0.5 mm.
DISTANCE_FIRST_PULLAWAY == 10
SearchTravel == (3 * MaxTravel) \div 2   \* HOMING_AXIS_SEARCH_SCALAR = 1.5

\* The conversion of an int32_t to int16_t: the low 16 bits, two's complement.
Int16(n) == ((n + 32768) % 65536) - 32768

VARIABLES
    pc,           \* where the main context is
    dist,         \* distance of the X2 end from its trip point, in units
    skew,         \* how much earlier the X1 end trips, in units
    sysPos,       \* sys_position[X_AXIS], in steps
    toward,       \* the current block moves towards the switches
    running,      \* the step timer is enabled
    progress,     \* units of the current block already stepped
    blockLen,     \* length of the current block, in units
    sampled,      \* the loop has read the switches since the last step
    helperX1,     \* helper_X1: X1's position not latched yet
    helperX2,     \* helper_X2
    tripX1,       \* trip_position_X1 (int16_t)
    tripX2,       \* trip_position_X2 (int16_t)
    result,       \* the value returned
    execState,    \* sys_rt_exec_state, the RESET and CYCLE_STOP bits
    execAlarm,    \* sys_rt_exec_alarm
    abort         \* sys.abort, set if the Z homing before it failed

vars == <<pc, dist, skew, sysPos, toward, running, progress, blockLen,
          sampled, helperX1, helperX2, tripX1, tripX2, result, execState,
          execAlarm, abort>>

\* limits_X1_get_state() and bit X_AXIS of limits_get_state().
X1Tripped == dist <= skew
X2Tripped == dist <= 0

\* The trip points, in steps from where phase 2 started, that the latches
\* would hold without truncation: the reference for the returned delta.
TrueDelta == skew * StepsPerUnit

-----------------------------------------------------------------------------
(* The main context.                                                       *)

\* Lines 338-349 (and 362-377, 398-408): zero sys_position[X], plan a block
\* of `len` units, set EXECUTE_SYS_MOTION, prep and wake the stepper.
StartBlock(isToward, len, next) ==
    /\ sysPos' = 0
    /\ toward' = isToward
    /\ running' = TRUE
    /\ progress' = 0
    /\ blockLen' = len
    /\ sampled' = FALSE
    /\ pc' = next

\* Line 318: return 0 if sys.abort is set; otherwise lines 338-349: phase
\* 1 moves X away by the first pull-away.
StartPullaway ==
    /\ pc = "start"
    /\ IF abort
       THEN /\ pc' = "done"
            /\ UNCHANGED <<sysPos, toward, running, progress, blockLen, sampled>>
       ELSE StartBlock(FALSE, DISTANCE_FIRST_PULLAWAY, "away")
    /\ UNCHANGED <<dist, skew, helperX1, helperX2, tripX1, tripX2, result,
                   execState, execAlarm, abort>>

\* Lines 350-355: spin while either switch reads tripped; then lines
\* 357-358 (st_reset) and the start of phase 2, lines 362-377.
AwayLoop ==
    /\ pc = "away"
    /\ IF X1Tripped \/ X2Tripped
       THEN /\ sampled' = TRUE
            /\ UNCHANGED <<pc, sysPos, toward, running, progress, blockLen>>
       ELSE StartBlock(TRUE, SearchTravel, "toward")
    /\ UNCHANGED <<dist, skew, helperX1, helperX2, tripX1, tripX2, result,
                   execState, execAlarm, abort>>

\* Mutant of TowardLoop: the helper flags are never cleared, so each
\* latch follows sys_position while its switch reads tripped.
TowardLoopNoHelper ==
    /\ pc = "toward"
    /\ tripX1' = IF X1Tripped THEN Int16(sysPos) ELSE tripX1
    /\ tripX2' = IF X2Tripped THEN Int16(sysPos) ELSE tripX2
    /\ UNCHANGED <<helperX1, helperX2>>
    /\ IF X1Tripped /\ X2Tripped
       THEN StartBlock(FALSE, DISTANCE_FIRST_PULLAWAY, "pull")
       ELSE /\ sampled' = TRUE
            /\ UNCHANGED <<pc, sysPos, toward, running, progress, blockLen>>
    /\ UNCHANGED <<dist, skew, result, execState, execAlarm, abort>>

\* Lines 378-391: latch sys_position[X] into int16_t the first time each
\* switch reads tripped; spin until both do. Then lines 393-408: st_reset
\* and the pull-away block of phase 3.
TowardLoop ==
    /\ pc = "toward"
    /\ tripX1' = IF X1Tripped /\ helperX1 THEN Int16(sysPos) ELSE tripX1
    /\ tripX2' = IF X2Tripped /\ helperX2 THEN Int16(sysPos) ELSE tripX2
    /\ helperX1' = (helperX1 /\ ~X1Tripped)
    /\ helperX2' = (helperX2 /\ ~X2Tripped)
    /\ IF X1Tripped /\ X2Tripped
       THEN StartBlock(FALSE, DISTANCE_FIRST_PULLAWAY, "pull")
       ELSE /\ sampled' = TRUE
            /\ UNCHANGED <<pc, sysPos, toward, running, progress, blockLen>>
    /\ UNCHANGED <<dist, skew, result, execState, execAlarm, abort>>

\* Mutant of PullExitFlags: the pull-away loop leaves on a reset only.
PullExitFlagsResetOnly == {"RESET"}

\* Line 411: the sys_rt_exec_state bits that end the pull-away loop.
PullExitFlags == {"RESET", "CYCLE_STOP"}

\* Lines 409-425: spin until RESET or CYCLE_STOP, clear CYCLE_STOP,
\* st_reset, return step control to normal and return the difference of
\* the latches, converted to the int16_t return type.
PullLoop ==
    /\ pc = "pull"
    /\ execState \cap PullExitFlags # {}
    /\ execState' = execState \ {"CYCLE_STOP"}
    /\ running' = FALSE
    /\ result' = Int16(tripX1 - tripX2)
    /\ pc' = "done"
    /\ UNCHANGED <<dist, skew, sysPos, toward, progress, blockLen, sampled,
                   helperX1, helperX2, tripX1, tripX2, execAlarm, abort>>

\* The routine has returned. What $L does next (mc_autolevel_X) is outside
\* src/, so the behaviour stops here.
Returned ==
    /\ pc = "done"
    /\ UNCHANGED vars

-----------------------------------------------------------------------------
(* The stepper ISR and the serial peeler.                                  *)

\* One unit of the block: towards the switches sys_position[X] falls
\* (homing_dir_mask has X set), away from them it rises. A step towards the
\* switches only follows a read of them.
StepperStep ==
    /\ running
    /\ progress < blockLen
    /\ toward => sampled
    /\ progress' = progress + 1
    /\ dist' = IF toward THEN dist - 1 ELSE dist + 1
    /\ sysPos' = IF toward THEN sysPos - StepsPerUnit ELSE sysPos + StepsPerUnit
    /\ sampled' = FALSE
    /\ UNCHANGED <<pc, skew, toward, running, blockLen, helperX1, helperX2,
                   tripX1, tripX2, result, execState, execAlarm, abort>>

\* The block is exhausted: the stepper goes idle and sets CYCLE_STOP.
StepperBlockDone ==
    /\ running
    /\ progress = blockLen
    /\ running' = FALSE
    /\ execState' = execState \cup {"CYCLE_STOP"}
    /\ UNCHANGED <<pc, dist, skew, sysPos, toward, progress, blockLen,
                   sampled, helperX1, helperX2, tripX1, tripX2, result,
                   execAlarm, abort>>

\* 0x18 from the host: mc_reset (motion_control.c, outside src/) sets
\* RESET and, the state being HOMING, HOMING_FAIL_RESET, and kills the
\* stepper.
HostReset ==
    /\ pc # "done"
    /\ "RESET" \notin execState
    /\ execState' = execState \cup {"RESET"}
    /\ execAlarm' = IF execAlarm = "NONE" THEN "HOMING_FAIL_RESET" ELSE execAlarm
    /\ running' = FALSE
    /\ UNCHANGED <<pc, dist, skew, sysPos, toward, progress, blockLen,
                   sampled, helperX1, helperX2, tripX1, tripX2, result, abort>>

-----------------------------------------------------------------------------

\* $L calls the routine with the steppers idle and no flag pending; the
\* gantry is anywhere up to StartTravel from its switches and racked by at
\* most MaxSkew.
Init ==
    /\ pc = "start"
    /\ dist \in 0..StartTravel
    /\ skew \in -MaxSkew..MaxSkew
    /\ sysPos = 0
    /\ toward = FALSE
    /\ running = FALSE
    /\ progress = 0
    /\ blockLen = 0
    /\ sampled = FALSE
    /\ helperX1 = TRUE
    /\ helperX2 = TRUE
    /\ tripX1 = 0
    /\ tripX2 = 0
    /\ result = 0
    /\ execState = {}
    /\ execAlarm = "NONE"
    /\ abort \in BOOLEAN

MainContext == StartPullaway \/ AwayLoop \/ TowardLoop \/ PullLoop

Stepper == StepperStep \/ StepperBlockDone

Next == MainContext \/ Stepper \/ HostReset \/ Returned

\* The main context and the step timer never stop while enabled; the host
\* need never send a reset.
Spec == Init /\ [][Next]_vars /\ WF_vars(MainContext) /\ WF_vars(Stepper)

-----------------------------------------------------------------------------
(* Properties.                                                             *)

\* The returned delta is the gantry's racking in steps: latching the first
\* trip of each switch (lines 381-388) into int16_t, and subtracting the
\* two (line 425), gives the true difference even when sys_position[X] has
\* run past the int16_t range during the search.
TripDeltaIsSkew ==
    pc = "done" /\ ~abort => result = TrueDelta

\* With working switches and no reset, the routine returns: phase 1 clears
\* both switches, the search distance of line 366 reaches both, and the
\* pull-away block ends.
TripSearchReturns == []("RESET" \notin execState) => <>(pc = "done")

\* A reset ends the routine: spec.md section 5 requires every loop that
\* waits for steps to bail on sys.abort. The loops of lines 350-355 and
\* 378-391 never look at the reset flag, and mc_reset has stopped the
\* stepper that would end them.
ResetEndsTripSearch == "RESET" \in execState ~> pc = "done"

=============================================================================
