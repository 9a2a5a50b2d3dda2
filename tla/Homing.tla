------------------------------ MODULE Homing ------------------------------
(***************************************************************************)
(* The homing cycle: the $H command (src/grblCR/system.c lines 107-128),   *)
(* mc_homing_cycle (motion_control.c, outside src/, modelled from spec.md  *)
(* section 4.4), and limits_go_home (src/grblCR/limits.c lines 126-287).   *)
(*                                                                         *)
(* limits_go_home runs 2*N_HOMING_LOCATE_CYCLE+2 phases, alternately       *)
(* towards the switches (approach) and away from them (pull-off). Each     *)
(* phase plans one block, wakes the stepper and spins in an inner loop     *)
(* that, in approach, locks every axis whose switch reads tripped, and     *)
(* leaves on RESET or CYCLE_STOP with the homing alarms of lines 216-225.  *)
(*                                                                         *)
(* The machine is kept as each axis's distance from its switch's trip      *)
(* point, in units of 0.5 mm (the default $27 pull-off): a switch reads    *)
(* tripped at distance 0 or less. The stepper moves every unlocked axis    *)
(* of the block by one unit per step and sets CYCLE_STOP when the block is *)
(* exhausted. A switch may be faulty: "open" never trips, "stuck" always   *)
(* reads tripped.                                                          *)
(*                                                                         *)
(* The $H line arrives as characters: protocol_main_loop (protocol.c       *)
(* lines 65-150) assembles it into line[], strips blanks and comments,     *)
(* upper-cases it and refuses it on overflow, before the handler runs.     *)
(***************************************************************************)
EXTENDS Integers, Sequences, FiniteSets, TLC

LOCAL INSTANCE SequencesExt

CONSTANTS
    Axes,            \* the axes of the machine
    HomingSchedule,  \* the cycle masks mc_homing_cycle runs, in order
    MaxTravel,       \* settings.max_travel ($130-$132), in units, as a positive value
    Pulloff,         \* settings.homing_pulloff ($27), in units
    SwitchModes,     \* the switch behaviours the environment may have
    HostLines,       \* the lines the host may send, as characters up to the end of line
    LINE_BUFFER_SIZE \* protocol.h line 34

ASSUME HomingSchedule \in Seq(SUBSET Axes) /\ Len(HomingSchedule) > 0
ASSUME SwitchModes \subseteq {"ok", "open", "stuck"} /\ SwitchModes # {}

ASSUME LINE_BUFFER_SIZE \in Nat \ {0}

\* The characters of the received lines. protocol.c line 66 ends a line
\* at '\n' or '\r'; a space stands for every character up to ' '.
Eol == {"\n", "\r"}
Blank == {" "}

\* c-'a'+'A' of protocol.c lines 142-143, for the lower-case letters the host sends.
Upcase == ("h" :> "H") @@ ("q" :> "Q") @@ ("x" :> "X") @@ ("y" :> "Y") @@ ("z" :> "Z")
ToUpper(c) == IF c \in DOMAIN Upcase THEN Upcase[c] ELSE c

\* Mutant of Overflows: the last character is let into the terminator's place.
OverflowsEarly(charCounter) == charCounter >= LINE_BUFFER_SIZE - 2

\* protocol.c lines 139-141: the buffer holds LINE_BUFFER_SIZE-1 characters and
\* the terminator; a character that would take the terminator's place
\* sets the overflow flag instead.
Overflows(charCounter) == charCounter >= LINE_BUFFER_SIZE - 1

\* A $H line as system_execute_line sees it (line[2] is the third
\* character): $H<axis> homes one axis (the single-axis commands of
\* config.h line 113, system.c lines 112-121).
SingleAxis(l) == Len(l) = 3 /\ l[3] \in Axes
HomesAxes(l) == Len(l) = 2 \/ SingleAxis(l)

\* config.h line 102 and 107, limits.c lines 26-31, in units of 0.5 mm.
N_HOMING_LOCATE_CYCLE == 2
DISTANCE_FIRST_PULLAWAY == 10
HOMING_AXIS_LOCATE_SCALAR == 5
SearchTravel == (3 * MaxTravel) \div 2   \* HOMING_AXIS_SEARCH_SCALAR = 1.5

\* An axis that runs into its mechanical end stalls just past the switch.
HardStop == -1

VARIABLES
    pc,           \* where the main context is
    ret,          \* where protocol_execute_realtime returns to
    entry,        \* the Schedule entry being homed
    approach,     \* limits_go_home's `approach`
    nCycle,       \* limits_go_home's `n_cycle`
    travel,       \* limits_go_home's `max_travel`, in units
    axislock,     \* sys.homing_axis_lock: the cycle axes still stepping
    state,        \* sys.state
    abort,        \* sys.abort
    stepControl,  \* sys.step_control
    execState,    \* sys_rt_exec_state, the RESET and CYCLE_STOP bits
    execAlarm,    \* sys_rt_exec_alarm
    running,      \* the step timer is enabled
    progress,     \* units of the current block already stepped
    blockLen,     \* length of the current block, in units
    sampled,      \* the inner loop has read the switches since the last step
    dist,         \* each axis's distance from its switch's trip point
    switch,       \* each switch's behaviour
    homed,        \* axes whose sys_position limits_go_home has set
    raised,       \* history: the alarms the inner loop's exit test has raised
    resetSent,    \* history: the host has sent a reset
    line,         \* protocol.c's line[]: the characters kept so far, then the line executed
    rx,           \* the characters of the host's line not yet read
    flags,        \* line_flags
    host          \* history: the line the host sent

sysVars == <<state, abort, stepControl, execState, execAlarm>>
lineVars == <<line, rx, flags, host>>
ctlVars == <<pc, ret, entry, approach, nCycle, travel, axislock, lineVars>>
machVars == <<running, progress, blockLen, sampled, dist, switch>>
vars == <<ctlVars, sysVars, machVars, homed, raised, resetSent>>

\* The cycle masks mc_homing_cycle runs: the schedule for $H
\* (HOMING_CYCLE_ALL), the one axis for $HX, $HY or $HZ.
Schedule ==
    IF Len(line) = 2 THEN HomingSchedule ELSE << {line[3]} >>

CycleMask == Schedule[entry]

ScheduledAxes == UNION {Schedule[i] : i \in 1..Len(Schedule)}

\* limits_get_state() for one axis.
Tripped(a) == switch[a] = "stuck" \/ (switch[a] = "ok" /\ dist[a] <= 0)

\* Where the main context goes when limits_go_home returns.
AfterGoHome ==
    IF entry < Len(Schedule) THEN "goHome" ELSE "mcEnd"

-----------------------------------------------------------------------------
(* mc_reset (motion_control.c, outside src/), called by the serial peeler  *)
(* for 0x18 and by limits_go_home on a failure.                             *)

McResetFires == "RESET" \notin execState
MotionActive ==
    state = "HOMING" \/ stepControl = "EXECUTE_SYS_MOTION"

\* Set RESET; if motion is in progress, set HOMING_FAIL_RESET in HOMING
\* (unless an alarm is set) or ABORT_CYCLE otherwise, and kill the stepper.
McReset(alarm) ==
    /\ execState' = execState \cup {"RESET"}
    /\ execAlarm' =
         IF McResetFires /\ MotionActive
         THEN IF state = "HOMING"
              THEN IF alarm = "NONE" THEN "HOMING_FAIL_RESET" ELSE alarm
              ELSE "ABORT_CYCLE"
         ELSE alarm
    /\ running' = (running /\ ~(McResetFires /\ MotionActive))

-----------------------------------------------------------------------------
(* The main context.                                                       *)

\* protocol.c lines 109-150: one character that is not an end of line.
\* While a flag is set, characters are thrown away and ')' ends a '('
\* comment; otherwise blanks and '/' are dropped, '(' and ';' start a
\* comment, a character past the buffer sets the overflow flag, and any
\* other is kept, upper-cased.
ReadChar ==
    /\ pc = "rx"
    /\ Head(rx) \notin Eol
    /\ LET c == Head(rx) IN
       \/ /\ flags # {}
          /\ flags' = IF c = ")" THEN flags \ {"COMMENT_PARENTHESES"} ELSE flags
          /\ UNCHANGED line
       \/ /\ flags = {}
          /\ c \in Blank \cup {"/"}
          /\ UNCHANGED <<line, flags>>
       \/ /\ flags = {}
          /\ c \in {"(", ";"}
          /\ flags' = {IF c = "(" THEN "COMMENT_PARENTHESES" ELSE "COMMENT_SEMICOLON"}
          /\ UNCHANGED line
       \/ /\ flags = {}
          /\ c \notin Blank \cup {"/", "(", ";"}
          /\ IF Overflows(Len(line))
             THEN flags' = {"OVERFLOW"} /\ UNCHANGED line
             ELSE line' = Append(line, ToUpper(c)) /\ UNCHANGED flags
    /\ rx' = Tail(rx)
    /\ UNCHANGED <<pc, ret, entry, approach, nCycle, travel, axislock, host,
                   sysVars, machVars, homed, raised, resetSent>>

\* protocol.c lines 66-68: an end of line; the realtime check point first.
LineEnd ==
    /\ pc = "rx"
    /\ Head(rx) \in Eol
    /\ rx' = Tail(rx)
    /\ ret' = "eol"
    /\ pc' = "rtAlarm"
    /\ UNCHANGED <<entry, approach, nCycle, travel, axislock, line, flags, host,
                   sysVars, machVars, homed, raised, resetSent>>

\* protocol.c lines 69-91: bail out on abort; report an overflowed or an
\* empty line; hand a $ line to system_execute_line.
EolDispatch ==
    /\ pc = "eol"
    /\ pc' = IF ~abort /\ "OVERFLOW" \notin flags /\ line # <<>> THEN "cmd" ELSE "done"
    /\ UNCHANGED <<ret, entry, approach, nCycle, travel, axislock, lineVars,
                   sysVars, machVars, homed, raised, resetSent>>

\* system.c lines 107-122: $H in IDLE or ALARM with homing enabled. $H and
\* $H<axis> set HOMING and run mc_homing_cycle. A fourth character makes
\* the line invalid before anything changes (line 122); any other letter
\* than an axis reaches the default of the axis switch only after HOMING
\* has been set (lines 114-119), and the handler returns from there.
HomeCommand ==
    /\ pc = "cmd"
    /\ \/ /\ HomesAxes(line)
          /\ state' = "HOMING"
          /\ pc' = "goHome"
       \/ /\ Len(line) = 3 /\ ~SingleAxis(line)
          /\ state' = "HOMING"
          /\ pc' = "done"
       \/ /\ Len(line) > 3
          /\ pc' = "done"
          /\ UNCHANGED state
    /\ entry' = 1
    /\ UNCHANGED <<ret, approach, nCycle, travel, axislock, abort,
                   stepControl, execState, execAlarm, machVars, homed, raised, resetSent, lineVars>>

\* limits.c lines 129-162: return at once if sys.abort is set; otherwise
\* start with an approach at the search distance.
LimitsGoHome ==
    /\ pc = "goHome"
    /\ IF abort
       THEN /\ pc' = AfterGoHome
            /\ entry' = IF entry < Len(Schedule) THEN entry + 1 ELSE entry
            /\ UNCHANGED <<approach, nCycle, travel>>
       ELSE /\ approach' = TRUE
            /\ nCycle' = 2 * N_HOMING_LOCATE_CYCLE + 1
            /\ travel' = SearchTravel
            /\ pc' = "plan"
            /\ UNCHANGED entry
    /\ UNCHANGED <<ret, axislock, sysVars, machVars, homed, raised, resetSent, lineVars>>

\* Lines 163-198: unlock the cycle axes, plan the block towards (approach)
\* or away from the switches, set EXECUTE_SYS_MOTION, prep and wake.
PlanPhase ==
    /\ pc = "plan"
    /\ axislock' = CycleMask
    /\ stepControl' = "EXECUTE_SYS_MOTION"
    /\ running' = TRUE
    /\ progress' = 0
    /\ blockLen' = travel
    /\ sampled' = FALSE
    /\ pc' = "loop"
    /\ UNCHANGED <<ret, entry, approach, nCycle, travel, state, abort,
                   execState, execAlarm, dist, switch, homed, raised, resetSent, lineVars>>

\* Mutant of ExitAlarm: the test of line 225 is left out.
ExitAlarmNoApproachCheck(ex) ==
    LET a1 == IF "RESET" \in ex THEN "HOMING_FAIL_RESET" ELSE execAlarm
    IN  IF ~approach /\ \E a \in CycleMask : Tripped(a)
        THEN "HOMING_FAIL_PULLOFF" ELSE a1

\* The alarm the exit test of lines 216-225 leaves, in the order the code
\* sets them; each system_set_exec_alarm overwrites the last.
ExitAlarm(ex) ==
    LET a1 == IF "RESET" \in ex THEN "HOMING_FAIL_RESET" ELSE execAlarm
        a2 == IF ~approach /\ \E a \in CycleMask : Tripped(a)
              THEN "HOMING_FAIL_PULLOFF" ELSE a1
    IN  IF approach /\ "CYCLE_STOP" \in ex THEN "HOMING_FAIL_APPROACH" ELSE a2

\* Mutant of ExitFlags: the loop leaves on a reset only.
ExitFlagsResetOnly == {"RESET"}

\* Line 216: the sys_rt_exec_state bits that end the inner loop.
ExitFlags == {"RESET", "CYCLE_STOP"}

\* One pass of the inner loop, lines 199-237: in approach, lock the axes
\* whose switch reads tripped; then, on RESET or CYCLE_STOP, either fail
\* (mc_reset, protocol_execute_realtime, return) or clear CYCLE_STOP and
\* break; otherwise loop while an axis is unlocked.
HomingLoop ==
    LET lock == IF approach THEN {a \in axislock : ~Tripped(a)} ELSE axislock
        ex == execState \cap ExitFlags
    IN
    /\ pc = "loop"
    /\ axislock' = lock
    /\ sampled' = TRUE
    /\ IF ex = {}
       THEN /\ pc' = IF lock = {} THEN "stReset" ELSE "loop"
            /\ UNCHANGED <<ret, execState, execAlarm, running, raised, resetSent>>
       ELSE IF ExitAlarm(ex) # "NONE"
       THEN /\ McReset(ExitAlarm(ex))
            /\ raised' = raised \cup {ExitAlarm(ex)}
            /\ ret' = AfterGoHome
            /\ pc' = "rtAlarm"
       ELSE /\ execState' = execState \ {"CYCLE_STOP"}
            /\ pc' = "stReset"
            /\ UNCHANGED <<ret, execAlarm, running, raised, resetSent>>
    /\ UNCHANGED <<entry, approach, nCycle, travel, state, abort, stepControl,
                   progress, blockLen, dist, switch, homed, resetSent, lineVars>>

\* Mutant of PhaseTravel: the second approach does not make up the first
\* pull-away (line 249 without DISTANCE_FIRST_PULLAWAY).
PhaseTravelNoMakeup(app, n) ==
    IF app
    THEN Pulloff * HOMING_AXIS_LOCATE_SCALAR
    ELSE IF n = 2 * N_HOMING_LOCATE_CYCLE + 1
         THEN DISTANCE_FIRST_PULLAWAY
         ELSE Pulloff

\* Lines 245-261: the distance of the next phase. `app` is the new
\* direction and `n` the value of n_cycle before the decrement.
PhaseTravel(app, n) ==
    IF app
    THEN IF n = 2 * N_HOMING_LOCATE_CYCLE
         THEN Pulloff * HOMING_AXIS_LOCATE_SCALAR + DISTANCE_FIRST_PULLAWAY
         ELSE Pulloff * HOMING_AXIS_LOCATE_SCALAR
    ELSE IF n = 2 * N_HOMING_LOCATE_CYCLE + 1
         THEN DISTANCE_FIRST_PULLAWAY
         ELSE Pulloff

\* Lines 239-262: st_reset, reverse, choose the next distance, and
\* `while (n_cycle-- > 0)`.
PhaseEnd ==
    /\ pc = "stReset"
    /\ running' = FALSE
    /\ approach' = ~approach
    /\ travel' = PhaseTravel(~approach, nCycle)
    /\ IF nCycle > 0
       THEN nCycle' = nCycle - 1 /\ pc' = "plan"
       ELSE UNCHANGED nCycle /\ pc' = "setPos"
    /\ UNCHANGED <<ret, entry, axislock, sysVars, progress, blockLen,
                   sampled, dist, switch, homed, raised, resetSent, lineVars>>

\* Lines 271-286: set sys_position of the cycle axes to the switch
\* location plus the pull-off, and return step control to normal.
SetHomePosition ==
    /\ pc = "setPos"
    /\ homed' = homed \cup CycleMask
    /\ stepControl' = "NORMAL_OP"
    /\ pc' = AfterGoHome
    /\ entry' = IF entry < Len(Schedule) THEN entry + 1 ELSE entry
    /\ UNCHANGED <<ret, approach, nCycle, travel, axislock, state, abort,
                   execState, execAlarm, machVars, raised, resetSent, lineVars>>

\* mc_homing_cycle's protocol_execute_realtime after the last cycle.
McHomingEnd ==
    /\ pc = "mcEnd"
    /\ ret' = "hEnd"
    /\ pc' = "rtAlarm"
    /\ UNCHANGED <<entry, approach, nCycle, travel, axislock, sysVars,
                   machVars, homed, raised, resetSent, lineVars>>

\* protocol_exec_rt_system, protocol.c lines 215-227 and 244-249, and the
\* CYCLE_STOP branch of lines 331-357 in state HOMING: an alarm enters
\* ALARM and drops RESET; a reset sets sys.abort; a cycle stop enters IDLE.
RtExecute ==
    /\ pc = "rtAlarm"
    /\ CASE execAlarm # "NONE" ->
              /\ state' = "ALARM"
              /\ execState' = execState \ {"RESET"}
              /\ pc' = "alarmLoop"
              /\ UNCHANGED abort
         [] "RESET" \in execState ->
              /\ abort' = TRUE
              /\ pc' = ret
              /\ UNCHANGED <<state, execState>>
         [] "CYCLE_STOP" \in execState ->
              /\ state' = "IDLE"
              /\ execState' = execState \ {"CYCLE_STOP"}
              /\ pc' = ret
              /\ UNCHANGED abort
         [] OTHER ->
              /\ pc' = ret
              /\ UNCHANGED <<state, execState, abort>>
    /\ UNCHANGED <<ret, entry, approach, nCycle, travel, axislock,
                   stepControl, execAlarm, machVars, homed, raised, resetSent, lineVars>>

\* Lines 228-249: wait for a new reset, clear the alarm, set sys.abort.
AlarmLoop ==
    /\ pc = "alarmLoop"
    /\ "RESET" \in execState
    /\ execAlarm' = "NONE"
    /\ abort' = TRUE
    /\ pc' = ret
    /\ UNCHANGED <<ret, entry, approach, nCycle, travel, axislock, state,
                   stepControl, execState, machVars, homed, raised, resetSent, lineVars>>

\* system.c lines 122-127: after homing without abort, enter IDLE and put
\* the steppers in the idle state. The startup lines $H then executes
\* (line 126) are g-code blocks, outside this module.
HomeEnd ==
    /\ pc = "hEnd"
    /\ IF ~abort
       THEN state' = "IDLE" /\ running' = FALSE
       ELSE UNCHANGED <<state, running>>
    /\ pc' = "done"
    /\ UNCHANGED <<ret, entry, approach, nCycle, travel, axislock, abort,
                   stepControl, execState, execAlarm, progress, blockLen,
                   sampled, dist, switch, homed, raised, resetSent, lineVars>>

\* The command has returned to the main loop.
Returned ==
    /\ pc = "done"
    /\ UNCHANGED vars

-----------------------------------------------------------------------------
(* The stepper ISR and the serial peeler.                                  *)

\* The step timer moves every unlocked cycle axis one unit along the block:
\* towards the switch in approach, away from it in pull-off. An approach
\* step only follows a read of the switches: one inner-loop pass takes far
\* less than one unit of travel (200 steps).
StepperStep ==
    /\ running
    /\ progress < blockLen
    /\ approach => sampled
    /\ progress' = progress + 1
    /\ dist' = [a \in Axes |->
                  IF a \in axislock
                  THEN IF approach THEN IF dist[a] > HardStop THEN dist[a] - 1
                                                              ELSE dist[a]
                       ELSE dist[a] + 1
                  ELSE dist[a]]
    /\ sampled' = FALSE
    /\ UNCHANGED <<ctlVars, sysVars, running, blockLen, switch, homed, raised, resetSent>>

\* The block is exhausted: the stepper goes idle and sets CYCLE_STOP.
StepperBlockDone ==
    /\ running
    /\ progress = blockLen
    /\ running' = FALSE
    /\ execState' = execState \cup {"CYCLE_STOP"}
    /\ UNCHANGED <<ctlVars, state, abort, stepControl, execAlarm, progress,
                   blockLen, sampled, dist, switch, homed, raised, resetSent>>

\* 0x18 from the host: the serial peeler calls mc_reset.
HostReset ==
    /\ pc # "done"
    /\ McReset(execAlarm)
    /\ resetSent' = TRUE
    /\ UNCHANGED <<ctlVars, state, abort, stepControl, progress, blockLen,
                   sampled, dist, switch, homed, raised>>

-----------------------------------------------------------------------------

\* $H arrives in IDLE or ALARM, with the steppers idle, at any position
\* within travel and with any of the switch behaviours.
Init ==
    /\ pc = "rx"
    /\ ret = "hEnd"
    /\ entry = 1
    /\ approach = TRUE
    /\ nCycle = 0
    /\ travel = 0
    /\ axislock = {}
    /\ state \in {"IDLE", "ALARM"}
    /\ abort = FALSE
    /\ stepControl = "NORMAL_OP"
    /\ execState = {}
    /\ execAlarm = "NONE"
    /\ running = FALSE
    /\ progress = 0
    /\ blockLen = 0
    /\ sampled = FALSE
    /\ dist \in [Axes -> 0..MaxTravel]
    /\ switch \in [Axes -> SwitchModes]
    /\ homed = {}
    /\ raised = {}
    /\ resetSent = FALSE
    /\ host \in HostLines
    /\ rx = host
    /\ line = <<>>
    /\ flags = {}

MainContext ==
    \/ ReadChar \/ LineEnd \/ EolDispatch
    \/ HomeCommand \/ LimitsGoHome \/ PlanPhase \/ HomingLoop \/ PhaseEnd
    \/ SetHomePosition \/ McHomingEnd \/ RtExecute \/ AlarmLoop \/ HomeEnd

Stepper == StepperStep \/ StepperBlockDone

Next == MainContext \/ Stepper \/ HostReset \/ Returned

\* The main context and the step timer never stop while enabled; the host
\* need never send a reset.
Spec == Init /\ [][Next]_vars /\ WF_vars(MainContext) /\ WF_vars(Stepper)

-----------------------------------------------------------------------------
(* Properties.                                                             *)

\* Every axis limits_go_home has given a machine position (lines 271-284)
\* has a working switch: the approach, pull-off and failure tests of lines
\* 199-262 let no switch that never trips or never releases, on either axis
\* of a two-axis cycle, through to line 283.
HomedOnlyWithWorkingSwitch ==
    \A a \in homed : switch[a] = "ok"

\* With working switches and no reset from the host, the distances of
\* lines 245-261 always reach and clear the switches: from any start within
\* travel the exit test of lines 216-225 raises no alarm, and $H or
\* $H<axis> ends in IDLE (system.c line 123) with every scheduled axis homed.
WorkingSwitchesHome ==
    HomesAxes(line) /\ (\A a \in Axes : switch[a] = "ok") /\ ~resetSent =>
        /\ raised = {}
        /\ pc = "done" => state = "IDLE" /\ homed = ScheduledAxes

\* The reference for the filtering of protocol.c lines 63-64 ("removing
\* spaces and comments and capitalizing all letters"), written over the
\* whole text up to the end of line: a '(' comment runs to the next ')',
\* a ';' comment to the end, blanks and the unsupported block delete '/'
\* are dropped, and letters are upper-cased.
RECURSIVE Cleaned(_)
Cleaned(s) ==
    IF s = <<>> \/ Head(s) \in Eol \/ Head(s) = ";" THEN <<>>
    ELSE LET c == Head(s)
             close == SelectInSeq(Tail(s), LAMBDA x : x = ")")
         IN CASE c = "(" -> IF close = 0 THEN <<>>
                            ELSE Cleaned(SubSeq(Tail(s), close + 1, Len(Tail(s))))
              [] c \in Blank \cup {"/"} -> Cleaned(Tail(s))
              [] OTHER -> <<ToUpper(c)>> \o Cleaned(Tail(s))

\* Each host line ends at its only end of line. This module follows $H
\* lines: the others it may send are empty, or too long for the buffer.
ASSUME \A h \in HostLines :
          /\ h # <<>> /\ h[Len(h)] \in Eol
          /\ \A i \in 1..Len(h) - 1 : h[i] \notin Eol
          /\ \/ Cleaned(h) = <<>>
             \/ Len(Cleaned(h)) >= LINE_BUFFER_SIZE
             \/ SubSeq(Cleaned(h), 1, 2) = <<"$", "H">>

\* A received line reaches system_execute_line whole or not at all: the
\* handler gets exactly the cleaned text, never a line cut short (an $HX
\* cut to $H homes every axis), and a line that is neither empty nor cut
\* short by a reset is handed over whenever its cleaned text has at most
\* LINE_BUFFER_SIZE-1 characters. Where the limit lies beyond that is left
\* open: line 139 refuses a LINE_BUFFER_SIZE-character line, which the
\* comment of line 77 and spec.md section 6 would let through.
LineDispatchedWhole ==
    [][pc = "eol" /\ pc' # "eol" =>
         /\ pc' = "cmd" => line = Cleaned(host)
         /\ ~abort /\ Cleaned(host) # <<>> /\ Len(Cleaned(host)) < LINE_BUFFER_SIZE =>
              pc' = "cmd"]_vars

\* The $H handler leaves HOMING before it returns to protocol_main_loop,
\* unless sys.abort sends the main loop back to main(), which sets the state
\* anew. Nothing else leaves HOMING: the main loop refuses every $ command
\* but $$, $G, $C, $X and $J there (system.c lines 58 and 100), none of
\* which leaves it; it accepts g-code (protocol.c line 93), but the
\* executor never starts the cycle (protocol.c line 310). Only a reset ends
\* it.
HomingLeftOnReturn == pc = "done" /\ ~abort => state # "HOMING"

\* Homing always ends: $H reaches the end of its handler, or the firmware
\* waits for a reset in the alarm loop of protocol.c lines 228-241. Every
\* phase's inner loop (lines 199-237) is left, whatever the switches do.
HomingReturns == <>(pc \in {"alarmLoop", "done"})

=============================================================================
