--------------------------- MODULE MachineStates ---------------------------
(***************************************************************************)
(* The machine state that the firmware promises, as spec.md section 4.3    *)
(* states it: the state-machine table, the suspend-loop paragraph and the   *)
(* $-command list of section 6. It says which sys.state changes may         *)
(* happen, not how the realtime flags bring them about.                     *)
(*                                                                         *)
(* `holdComplete` is SUSPEND_HOLD_COMPLETE while the machine is in HOLD:   *)
(* the table allows a cycle start to leave HOLD only once it is set.        *)
(***************************************************************************)

CONSTANT InitStates   \* the states the main loop starts in after boot

VARIABLES mstate, holdComplete

States == {"IDLE", "CYCLE", "HOLD", "HOMING", "JOG", "ALARM", "SLEEP", "CHECK_MODE"}

ASSUME InitStates \subseteq States

Init ==
    /\ mstate \in InitStates
    /\ holdComplete = FALSE

\* Move to `s`, outside HOLD.
GoTo(s) == mstate' = s /\ holdComplete' = FALSE

\* "ANY -> RESET -> ALARM (or continue to next reset)", and the hard-limit
\* ISR's "ALARM via RESET": an alarm stops everything in any state.
Alarm == GoTo("ALARM")

\* After a reset with no alarm the main loop starts over: in IDLE, or in
\* ALARM from ALARM and SLEEP ("loop until RESET").
Restart ==
    IF mstate \in {"ALARM", "SLEEP"} THEN GoTo("ALARM") ELSE GoTo("IDLE")

\* "IDLE -> CYCLE_START (with plan block) -> CYCLE" and
\* "HOLD + suspend.HOLD_COMPLETE -> CYCLE_START -> CYCLE".
CycleStart ==
    /\ \/ mstate = "IDLE"
       \/ mstate = "HOLD" /\ holdComplete
    /\ GoTo("CYCLE")

\* "CYCLE -> FEED_HOLD -> HOLD": the hold decelerates first, or is
\* complete at once if the motion has already stopped.
FeedHold ==
    /\ mstate = "CYCLE"
    /\ mstate' = "HOLD"
    /\ holdComplete' \in BOOLEAN

\* A feed hold in IDLE: nothing moves, so the hold is complete at once.
IdleHold ==
    /\ mstate = "IDLE"
    /\ mstate' = "HOLD"
    /\ holdComplete' = TRUE

\* The deceleration of a hold has finished.
HoldComplete ==
    /\ mstate = "HOLD" /\ ~holdComplete
    /\ holdComplete' = TRUE
    /\ UNCHANGED mstate

\* Motion ends: a cycle runs dry, a jog ends or is cancelled ("JOG ->
\* FEED_HOLD -> HOLD (then IDLE)"), a motion cancel returns to IDLE
\* ("CYCLE -> MOTION_CANCEL -> HOLD -> IDLE").
MotionDone ==
    /\ mstate \in {"CYCLE", "JOG", "HOLD"}
    /\ GoTo("IDLE")

\* $J= from IDLE starts a jog.
Jog ==
    /\ mstate = "IDLE"
    /\ GoTo("JOG")

\* "IDLE/ALARM -> SLEEP".
Sleep ==
    /\ mstate \in {"IDLE", "ALARM"}
    /\ GoTo("SLEEP")

\* $X unlocks an alarm; $C toggles check mode from IDLE.
Unlock ==
    /\ mstate = "ALARM"
    /\ GoTo("IDLE")

\* $H and $L (section 6) run in HOMING, entered from rest: IDLE, or
\* ALARM, since homing is one of the two ways out of the alarm lock
\* (section 7). A completed homing returns to IDLE; a reset during it
\* is an Alarm.
Home ==
    /\ mstate \in {"IDLE", "ALARM"}
    /\ GoTo("HOMING")

HomingDone ==
    /\ mstate = "HOMING"
    /\ GoTo("IDLE")

CheckMode ==
    \/ mstate = "IDLE" /\ GoTo("CHECK_MODE")
    \/ mstate = "CHECK_MODE" /\ GoTo("IDLE")

Next ==
    \/ Alarm \/ Restart \/ CycleStart \/ FeedHold \/ IdleHold
    \/ HoldComplete \/ MotionDone \/ Jog \/ Sleep \/ Unlock \/ CheckMode
    \/ Home \/ HomingDone

Spec == Init /\ [][Next]_<<mstate, holdComplete>>

=============================================================================
