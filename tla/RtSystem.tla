------------------------------ MODULE RtSystem ------------------------------
(***************************************************************************)
(* The real-time executor of gCarvin: the volatile flags the interrupts    *)
(* raise, the sys structure they steer, and protocol_exec_rt_system(),     *)
(* which the main program calls at its check points to turn the flags into *)
(* state changes (protocol.c, system.c, motion_control.c, serial.c,        *)
(* limits.c, carvin.c).                                                    *)
(*                                                                         *)
(* protocol_exec_rt_system() is split where an interrupt matters: at the   *)
(* read of the alarm, the critical-event loop, the clear of the alarm, the *)
(* one copy of sys_rt_exec_state it takes, and each block that acts on     *)
(* that copy and then clears flags of the live variable.  An interrupt     *)
(* handler is one action, since it runs with interrupts disabled; the      *)
(* stepper handler re-enables them but owns what it touches.               *)
(*                                                                         *)
(* Motion is abstract: blocks holds the queued planner blocks, each one    *)
(* the accessories it was planned with, and segs the prepared step         *)
(* segments, each one the spindle output its loading sets.  Speeds and     *)
(* distances only decide when st_prep_buffer() stops, so that choice is    *)
(* left open; it may come too late, and the segments run out.              *)
(***************************************************************************)
EXTENDS Naturals, Sequences

CONSTANTS
  BlockMax,     \* planner blocks that fit (BLOCK_BUFFER_SIZE - 1 = 15)
  SegMax,       \* step segments that fit (SEGMENT_BUFFER_SIZE - 1 = 5)
  Events,       \* the outside events that may happen
  Commands      \* the lines the sender may send

Accessories == {"spindle", "coolant"}

States == {"IDLE", "ALARM", "CHECK", "HOMING", "CYCLE", "HOLD", "JOG", "DOOR", "SLEEP"}

SuspendFlags ==
  {"HOLD_COMPLETE", "RESTART_RETRACT", "RETRACT_COMPLETE", "INITIATE_RESTORE",
   "RESTORE_COMPLETE", "DOOR_AJAR", "MOTION_CANCEL", "JOG_CANCEL"}

\* STEP_CONTROL_UPDATE_SPINDLE_PWM only refreshes an output and is left out.
StepFlags == {"END_MOTION", "EXECUTE_HOLD", "SYS_MOTION"}

StopOvrFlags == {"ENABLED", "INITIATE", "RESTORE", "RESTORE_CYCLE"}

\* Mutant: the hold block clears the cycle stop too.
HoldFlagsClearStop == {"MOTION_CANCEL", "FEED_HOLD", "SAFETY_DOOR", "SLEEP", "CYCLE_STOP"}

\* EXEC_STATUS_REPORT only prints and is left out.
HoldFlags == {"MOTION_CANCEL", "FEED_HOLD", "SAFETY_DOOR", "SLEEP"}
ExecFlags == HoldFlags \union {"CYCLE_START", "CYCLE_STOP", "RESET"}

CriticalAlarms == {"HARD_LIMIT", "SOFT_LIMIT"}
Alarms ==
  CriticalAlarms \union
  {"NONE", "ABORT_CYCLE", "PROBE_FAIL_INITIAL", "PROBE_FAIL_CONTACT", "HOMING_FAIL_RESET",
   "HOMING_FAIL_DOOR", "HOMING_FAIL_PULLOFF", "HOMING_FAIL_APPROACH"}

EventNames ==
  {"reset", "start", "hold", "door", "doorPin", "button", "jogCancel", "spindleStop",
   "limit", "probe", "timeout", "underrun"}
CommandNames ==
  {"move", "moveOut", "program", "spindle", "coolant", "pause", "dwell", "probe", "jog",
   "home", "unlock", "check", "sleep"}

ASSUME ConstantsAssumption ==
  /\ BlockMax \in Nat \ {0}
  /\ SegMax \in Nat \ {0}
  /\ Events \subseteq EventNames
  /\ Commands \subseteq CommandNames

VARIABLES
  state, suspend, stepCtl, abort, softLimit, stopOvr,  \* system_t sys
  rtState, rtAlarm, rtStopOvr,                         \* the volatile rt_exec flags
  pc, rtExec,          \* where protocol_exec_rt_system() is; its copy of the flags
  blocks, segs,        \* planner and segment buffers
  stepping,            \* the stepper interrupt is enabled
  powered, modal,      \* accessories that run; accessories the g-code modes ask for
  doorOpen, buttonDown,\* the control pins
  debounce,            \* control_button_counter > 0
  probing,             \* sys_probe_state = PROBE_ACTIVE
  limitsOn,            \* the limit pin-change interrupt is enabled
  ctx, susp, cmd,      \* main program: return point, suspend-loop point, line at work
  restore,             \* restore_condition of protocol_exec_rt_suspend()
  startAuto, execAuto  \* history: the pending (copied) start is no user's doing

sysVars    == <<state, suspend, stepCtl, abort, softLimit, stopOvr>>
flagVars   == <<rtState, rtAlarm, rtStopOvr, startAuto>>
execVars   == <<pc, rtExec, execAuto>>
motionVars == <<blocks, segs, stepping>>
powerVars  == <<powered, modal>>
pinVars    == <<doorOpen, buttonDown, debounce>>
modeVars   == <<probing, limitsOn>>
mainVars   == <<ctx, susp, cmd, restore>>
vars == <<sysVars, flagVars, execVars, motionVars, powerVars, pinVars, modeVars, mainVars>>

Has(flags, mask) == flags \intersect mask # {}

-----------------------------------------------------------------------------
(***************************************************************************)
(* Stepper module, as the protocol sees it.                                *)
(***************************************************************************)

\* The blocks that n new segments may come from when they use up the first k: in
\* order, at least one segment for each block used up, the rest for the next one.
SegmentSources(n, k) ==
  {f \in [1..n -> 1..Len(blocks)] :
     /\ 1..k \subseteq {f[i] : i \in 1..n}
     /\ \A i \in 1..n : f[i] <= k + 1
     /\ \A i, j \in 1..n : i <= j => f[i] <= f[j]}

\* st_prep_buffer() for the queue under step control c: until the segments are full
\* or the queue is empty, or a forced deceleration ends (which takes a block to end
\* in, but not a segment).
PrepQueue(c) ==
  LET room == SegMax - Len(segs)
  IN \E n \in 0..room, k \in 0..Len(blocks), ended \in BOOLEAN :
       /\ IF ended THEN "EXECUTE_HOLD" \in c /\ room > 0 /\ k < Len(blocks)
                   ELSE n = room \/ k = Len(blocks)
       /\ \E source \in SegmentSources(n, k) :
            segs' = segs \o [i \in 1..n |-> "spindle" \in blocks[source[i]]]
       /\ blocks' = SubSeq(blocks, k + 1, Len(blocks))
       /\ stepCtl' = IF ended THEN c \union {"END_MOTION"} ELSE c

\* st_prep_buffer() for the one block of a system motion (parking, homing), with
\* the spindle on or off: its end, or its forced deceleration's, ends the motion.
PrepSystemMotion(c, spindleOn) ==
  LET room == SegMax - Len(segs)
  IN \E n \in 0..room, ended \in BOOLEAN :
       /\ IF ended THEN room > 0 /\ (n > 0 \/ "EXECUTE_HOLD" \in c) ELSE n = room
       /\ segs' = segs \o [i \in 1..n |-> spindleOn]
       /\ stepCtl' = IF ended THEN c \union {"END_MOTION"} ELSE c
       /\ UNCHANGED blocks

PrepBuffer(c, spindleOn) ==
  IF "END_MOTION" \in c THEN stepCtl' = c /\ UNCHANGED <<blocks, segs>>
  ELSE IF "SYS_MOTION" \in c THEN PrepSystemMotion(c, spindleOn)
  ELSE PrepQueue(c)

\* st_reset(): stop the interrupt and empty the segment buffer.
StReset == stepping' = FALSE /\ segs' = <<>>

\* The states in which protocol_exec_rt_system() prepares segments.
PrepStates == {"CYCLE", "HOLD", "DOOR", "HOMING", "SLEEP", "JOG"}

\* Nothing is left to prepare.  An underrun is an interrupt that finds no segment
\* although there is, the main program being late.
Prepared ==
  \/ state \notin PrepStates
  \/ "END_MOTION" \in stepCtl
  \/ blocks = <<>> /\ "SYS_MOTION" \notin stepCtl

\* Timer 1 compare interrupt: load the next segment and set its spindle output; or,
\* with nothing left, stop the timer and flag the end of the cycle.
StepSegment ==
  /\ stepping /\ segs # <<>>
  /\ segs' = Tail(segs)
  /\ powered' = IF Head(segs) THEN powered \union {"spindle"} ELSE powered \ {"spindle"}
  /\ UNCHANGED <<sysVars, flagVars, execVars, blocks, stepping, modal, pinVars, modeVars,
                 mainVars>>

StepDone ==
  /\ stepping /\ segs = <<>>
  /\ Prepared \/ "underrun" \in Events
  /\ stepping' = FALSE
  /\ rtState' = rtState \union {"CYCLE_STOP"}
  /\ UNCHANGED <<sysVars, rtAlarm, rtStopOvr, startAuto, execVars, blocks, segs, powerVars,
                 pinVars, modeVars, mainVars>>

\* probe_state_monitor(), in the stepper interrupt while a probe motion steps.
ProbeContact ==
  /\ "probe" \in Events
  /\ stepping /\ probing
  /\ probing' = FALSE
  /\ rtState' = rtState \union {"MOTION_CANCEL"}
  /\ UNCHANGED <<sysVars, rtAlarm, rtStopOvr, startAuto, execVars, motionVars, powerVars,
                 pinVars, limitsOn, mainVars>>

-----------------------------------------------------------------------------
(***************************************************************************)
(* mc_reset() and the interrupts that raise flags.                         *)
(***************************************************************************)

\* The motion states in which a reset loses the position.
InMotion(st, sc) ==
  st \in {"CYCLE", "HOMING", "JOG"} \/ Has(sc, {"EXECUTE_HOLD", "SYS_MOTION"})

AbortAlarm == IF state = "HOMING"
              THEN IF rtAlarm = "NONE" THEN "HOMING_FAIL_RESET" ELSE rtAlarm
              ELSE "ABORT_CYCLE"

\* mc_reset() changes these; alarm is what it leaves in sys_rt_exec_alarm.
McResetWith(alarm) ==
  IF "RESET" \in rtState
  THEN UNCHANGED <<rtState, powered, stepping>> /\ rtAlarm' = alarm
  ELSE /\ rtState' = rtState \union {"RESET"}
       /\ powered' = {}
       /\ rtAlarm' = alarm
       /\ stepping' = (stepping /\ ~InMotion(state, stepCtl))

McReset ==
  McResetWith(IF "RESET" \notin rtState /\ InMotion(state, stepCtl) THEN AbortAlarm ELSE rtAlarm)

McResetFrame == <<sysVars, rtStopOvr, startAuto, blocks, segs, modal, pinVars, modeVars>>

RxReset ==
  /\ "reset" \in Events
  /\ McReset
  /\ UNCHANGED <<McResetFrame, execVars, mainVars>>

\* The limit interrupt: ignored in alarm or with an alarm pending, else reset and
\* overwrite the alarm with the critical one.
LimitIsr ==
  /\ "limit" \in Events
  /\ limitsOn /\ state # "ALARM" /\ rtAlarm = "NONE"
  /\ McResetWith("HARD_LIMIT")
  /\ UNCHANGED <<McResetFrame, execVars, mainVars>>

\* system_set_exec_state_flag() from an interrupt.
RaiseFlag(f) ==
  /\ rtState' = rtState \union {f}
  /\ startAuto' = (startAuto /\ f # "CYCLE_START")
  /\ UNCHANGED <<sysVars, rtAlarm, rtStopOvr, execVars, motionVars, powerVars, modeVars,
                 mainVars>>

RxStart == "start" \in Events /\ RaiseFlag("CYCLE_START") /\ UNCHANGED pinVars
RxHold  == "hold" \in Events /\ RaiseFlag("FEED_HOLD") /\ UNCHANGED pinVars

\* The door characters, and the over-current trip of the timer 5 interrupt.
RxDoor  == "door" \in Events /\ RaiseFlag("SAFETY_DOOR") /\ UNCHANGED pinVars

\* A jog cancel is taken only while jogging.
RxJogCancel ==
  "jogCancel" \in Events /\ state = "JOG" /\ RaiseFlag("MOTION_CANCEL") /\ UNCHANGED pinVars

RxSpindleStop ==
  /\ "spindleStop" \in Events
  /\ rtStopOvr' = TRUE
  /\ UNCHANGED <<sysVars, rtState, rtAlarm, startAuto, execVars, motionVars, powerVars,
                 pinVars, modeVars, mainVars>>

\* A control pin changes: its interrupt restarts the debounce count.
PinMoves ==
  /\ \/ "doorPin" \in Events /\ doorOpen' = ~doorOpen /\ UNCHANGED buttonDown
     \/ "button" \in Events /\ buttonDown' = ~buttonDown /\ UNCHANGED doorOpen
  /\ debounce' = TRUE
  /\ UNCHANGED <<sysVars, flagVars, execVars, motionVars, powerVars, modeVars, mainVars>>

\* checkControlPins(), by the timer 5 interrupt when the count is over.  The front
\* button hides the door; it resumes a stop, or stops like the door.
PinsDebounced ==
  /\ debounce
  /\ debounce' = FALSE
  /\ IF buttonDown /\ state # "IDLE"
     THEN RaiseFlag(IF state \in {"DOOR", "HOLD"} THEN "CYCLE_START" ELSE "SAFETY_DOOR")
     ELSE IF ~buttonDown /\ doorOpen THEN RaiseFlag("SAFETY_DOOR")
     ELSE UNCHANGED <<sysVars, flagVars, execVars, motionVars, powerVars, modeVars, mainVars>>
  /\ UNCHANGED <<doorOpen, buttonDown>>

-----------------------------------------------------------------------------
(***************************************************************************)
(* protocol_exec_rt_system(): the hold flags.  Each operator is one of its *)
(* blocks, a change of r = the state, suspend and stepCtl fields of sys    *)
(* under the copied flags ex.                                              *)
(***************************************************************************)

SysRec == [state : States, suspend : SUBSET SuspendFlags, stepCtl : SUBSET StepFlags]

HoldAllowed(r) == r.state \notin {"ALARM", "CHECK"}

\* Mutant: only a jog is decelerated.
BeginHoldJogOnly(r, ex) ==
  IF r.state = "JOG" /\ ~Has(r.suspend, {"MOTION_CANCEL", "JOG_CANCEL"})
  THEN [r EXCEPT !.stepCtl = {"EXECUTE_HOLD"},
                 !.suspend = IF "SLEEP" \notin ex THEN @ \union {"JOG_CANCEL"} ELSE @]
  ELSE IF r.state = "IDLE" THEN [r EXCEPT !.suspend = {"HOLD_COMPLETE"}] ELSE r

\* Mutant: a hold that starts no deceleration counts as complete, whatever the state.
BeginHoldAnywhere(r, ex) ==
  IF r.state \in {"CYCLE", "JOG"} /\ ~Has(r.suspend, {"MOTION_CANCEL", "JOG_CANCEL"})
  THEN [r EXCEPT !.stepCtl = {"EXECUTE_HOLD"},
                 !.suspend = IF r.state = "JOG" /\ "SLEEP" \notin ex
                             THEN @ \union {"JOG_CANCEL"} ELSE @]
  ELSE [r EXCEPT !.suspend = {"HOLD_COMPLETE"}]

\* In motion: start a deceleration, unless one is cancelling the motion already.
BeginHold(r, ex) ==
  IF r.state \in {"CYCLE", "JOG"} /\ ~Has(r.suspend, {"MOTION_CANCEL", "JOG_CANCEL"})
  THEN [r EXCEPT !.stepCtl = {"EXECUTE_HOLD"},
                 !.suspend = IF r.state = "JOG" /\ "SLEEP" \notin ex
                             THEN @ \union {"JOG_CANCEL"} ELSE @]
  ELSE IF r.state = "IDLE" THEN [r EXCEPT !.suspend = {"HOLD_COMPLETE"}] ELSE r

CancelMotion(r, ex) ==
  IF "MOTION_CANCEL" \in ex /\ r.state # "JOG"
  THEN [r EXCEPT !.suspend = @ \union {"MOTION_CANCEL"}] ELSE r

FeedHold(r, ex) ==
  IF "FEED_HOLD" \in ex /\ r.state \notin {"DOOR", "JOG", "SLEEP"}
  THEN [r EXCEPT !.state = "HOLD"] ELSE r

\* The door re-opened while power and position were being restored.
ReopenDoor(r) ==
  IF r.state = "DOOR" /\ "INITIATE_RESTORE" \in r.suspend
  THEN LET moving == "SYS_MOTION" \in r.stepCtl
           restarted == (r.suspend \ {"RETRACT_COMPLETE", "INITIATE_RESTORE", "RESTORE_COMPLETE"})
                          \union {"RESTART_RETRACT"}
       IN [r EXCEPT !.stepCtl = IF moving THEN {"EXECUTE_HOLD", "SYS_MOTION"} ELSE @,
                    !.suspend = IF moving THEN restarted \ {"HOLD_COMPLETE"} ELSE restarted]
  ELSE r

SafetyDoor(r, ex) ==
  IF "SAFETY_DOOR" \notin ex THEN r
  ELSE LET q == IF "JOG_CANCEL" \in r.suspend THEN r
                ELSE [ReopenDoor(r) EXCEPT !.state = IF @ = "SLEEP" THEN @ ELSE "DOOR"]
       IN [q EXCEPT !.suspend = @ \union {"DOOR_AJAR"}]

EnterSleep(r, ex) ==
  IF "SLEEP" \notin ex THEN r
  ELSE [r EXCEPT !.suspend = IF r.state = "ALARM"
                             THEN @ \union {"RETRACT_COMPLETE", "HOLD_COMPLETE"} ELSE @,
                 !.state = "SLEEP"]

AfterHolds(r, ex) ==
  EnterSleep(IF HoldAllowed(r)
             THEN SafetyDoor(FeedHold(CancelMotion(BeginHold(r, ex), ex), ex), ex)
             ELSE r, ex)

-----------------------------------------------------------------------------
(***************************************************************************)
(* protocol_exec_rt_system(), step by step.                                *)
(***************************************************************************)

\* The block that comes after `done` for the copied flags: holds, start, stop, tail.
NextBlock(ex, done) ==
  IF done < 1 /\ Has(ex, HoldFlags) THEN "holds"
  ELSE IF done < 2 /\ "CYCLE_START" \in ex THEN "start"
  ELSE IF done < 3 /\ "CYCLE_STOP" \in ex THEN "stop"
  ELSE "tail"

ExecFrame == <<motionVars, powerVars, pinVars, modeVars, mainVars>>

\* Read the alarm.  A critical one drops a reset that came before it.
RtAlarm ==
  /\ pc = "alarm"
  /\ IF rtAlarm = "NONE"
     THEN pc' = "copy" /\ UNCHANGED <<state, rtState>>
     ELSE /\ state' = "ALARM"
          /\ IF rtAlarm \in CriticalAlarms
             THEN pc' = "critical" /\ rtState' = rtState \ {"RESET"}
             ELSE pc' = "clear" /\ UNCHANGED rtState
  /\ UNCHANGED <<suspend, stepCtl, abort, softLimit, stopOvr, rtAlarm, rtStopOvr, startAuto,
                 rtExec, execAuto, ExecFrame>>

\* The critical-event loop ends at the next reset.
RtCritical ==
  /\ pc = "critical" /\ "RESET" \in rtState
  /\ pc' = "clear"
  /\ UNCHANGED <<sysVars, flagVars, rtExec, execAuto, ExecFrame>>

RtClearAlarm ==
  /\ pc = "clear"
  /\ rtAlarm' = "NONE"
  /\ pc' = "copy"
  /\ UNCHANGED <<sysVars, rtState, rtStopOvr, startAuto, rtExec, execAuto, ExecFrame>>

\* Copy the flags.  A reset aborts at once: the callers all return to main().
RtCopy ==
  /\ pc = "copy"
  /\ IF "RESET" \in rtState
     THEN /\ abort' = TRUE
          /\ pc' = "run" /\ susp' = "none"
          /\ UNCHANGED <<rtExec, execAuto>>
     ELSE /\ rtExec' = rtState /\ execAuto' = startAuto
          /\ pc' = NextBlock(rtState, 0)
          /\ UNCHANGED <<abort, susp>>
  /\ UNCHANGED <<state, suspend, stepCtl, softLimit, stopOvr, flagVars, motionVars, powerVars,
                 pinVars, modeVars, ctx, cmd, restore>>

\* Act on the copied hold flags, then clear the live ones.
RtHolds ==
  /\ pc = "holds"
  /\ LET r == AfterHolds([state |-> state, suspend |-> suspend, stepCtl |-> stepCtl], rtExec)
     IN state' = r.state /\ suspend' = r.suspend /\ stepCtl' = r.stepCtl
  /\ rtState' = rtState \ HoldFlags
  /\ pc' = NextBlock(rtExec, 1)
  /\ UNCHANGED <<abort, softLimit, stopOvr, rtAlarm, rtStopOvr, startAuto, rtExec, execAuto,
                 ExecFrame>>

\* Mutant: a start does not look at the door.
ResumeDoorAjar(r) ==
  IF r.state = "DOOR"
  THEN [r EXCEPT !.state = IF "RESTORE_COMPLETE" \in r.suspend THEN "IDLE" ELSE @,
                 !.suspend = IF Has(@, {"RETRACT_COMPLETE"}) /\ ~Has(@, {"RESTORE_COMPLETE"})
                             THEN @ \union {"INITIATE_RESTORE"} ELSE @]
  ELSE r

\* A door stop resumes only once the door is closed: at the end of the restore into
\* IDLE, to start at once; parked, by restoring first.
ResumeDoor(r) ==
  IF r.state = "DOOR" /\ "DOOR_AJAR" \notin r.suspend
  THEN [r EXCEPT !.state = IF "RESTORE_COMPLETE" \in r.suspend THEN "IDLE" ELSE @,
                 !.suspend = IF Has(@, {"RETRACT_COMPLETE"}) /\ ~Has(@, {"RESTORE_COMPLETE"})
                             THEN @ \union {"INITIATE_RESTORE"} ELSE @]
  ELSE r

\* Mutant: a feed hold in the same copy does not block the start.
StartBlockedNotByHold(ex) == Has(ex, {"MOTION_CANCEL", "SAFETY_DOOR"})

\* A start that comes with a stop is dropped.
StartBlocked(ex) == Has(ex, {"FEED_HOLD", "MOTION_CANCEL", "SAFETY_DOOR"})

MayStart(r) == r.state = "IDLE" \/ (r.state = "HOLD" /\ "HOLD_COMPLETE" \in r.suspend)

\* Start the queue, unless it is empty or its motion was cancelled: then just idle.
StartQueue(r) ==
  /\ suspend' = {}
  /\ IF blocks # <<>> /\ "MOTION_CANCEL" \notin r.suspend
     THEN state' = "CYCLE" /\ stepping' = TRUE /\ PrepBuffer({}, FALSE)
     ELSE state' = "IDLE" /\ stepCtl' = {} /\ UNCHANGED motionVars

\* Act on a copied cycle start, then clear the live one.
RtStart ==
  /\ pc = "start"
  /\ LET r == ResumeDoor([state |-> state, suspend |-> suspend, stepCtl |-> stepCtl])
     IN IF StartBlocked(rtExec)
        THEN UNCHANGED <<state, suspend, stepCtl, stopOvr, motionVars>>
        ELSE IF ~MayStart(r)
        THEN state' = r.state /\ suspend' = r.suspend /\ UNCHANGED <<stepCtl, stopOvr, motionVars>>
        ELSE IF r.state = "HOLD" /\ stopOvr # {}
        THEN stopOvr' = stopOvr \union {"RESTORE_CYCLE"}
             /\ UNCHANGED <<state, suspend, stepCtl, motionVars>>
        ELSE StartQueue(r) /\ UNCHANGED stopOvr
  /\ rtState' = rtState \ {"CYCLE_START"}
  /\ startAuto' = FALSE
  /\ pc' = NextBlock(rtExec, 2)
  /\ UNCHANGED <<abort, softLimit, rtAlarm, rtStopOvr, rtExec, execAuto, powerVars, pinVars,
                 modeVars, mainVars>>

\* Mutant: a door stop does not stay stopped.
HoldStaysNotDoor == state \in {"HOLD", "SLEEP"} /\ ~softLimit /\ "JOG_CANCEL" \notin suspend

HoldStays == state \in {"HOLD", "DOOR", "SLEEP"} /\ ~softLimit /\ "JOG_CANCEL" \notin suspend

\* Act on a copied cycle stop: a hold is complete, or a motion is; then clear the live
\* flag.
RtStop ==
  /\ pc = "stop"
  /\ IF HoldStays
     THEN /\ suspend' = IF "EXECUTE_HOLD" \in stepCtl
                        THEN suspend \union {"HOLD_COMPLETE"} ELSE suspend
          /\ stepCtl' = stepCtl \ {"EXECUTE_HOLD", "SYS_MOTION"}
          /\ UNCHANGED <<state, motionVars>>
     ELSE /\ IF "JOG_CANCEL" \in suspend
             THEN stepCtl' = {} /\ blocks' = <<>> /\ StReset
             ELSE UNCHANGED <<stepCtl, motionVars>>
          /\ IF "DOOR_AJAR" \in suspend
             THEN /\ suspend' = (suspend \ {"JOG_CANCEL"}) \union {"HOLD_COMPLETE"}
                  /\ state' = "DOOR"
             ELSE suspend' = {} /\ state' = "IDLE"
  /\ rtState' = rtState \ {"CYCLE_STOP"}
  /\ pc' = "tail"
  /\ UNCHANGED <<abort, softLimit, stopOvr, rtAlarm, rtStopOvr, startAuto, rtExec, execAuto,
                 powerVars, pinVars, modeVars, mainVars>>

\* A spindle-stop toggle counts only in HOLD.
ToggledStopOvr ==
  IF ~rtStopOvr \/ state # "HOLD" THEN stopOvr
  ELSE IF stopOvr = {} THEN {"INITIATE"}
  ELSE IF "ENABLED" \in stopOvr THEN stopOvr \union {"RESTORE"} ELSE stopOvr

\* The accessories a block asks for, or the modes when none is queued.
QueueAccessories(queue) == IF queue = <<>> THEN modal ELSE Head(queue)

\* The pull-out and the plunge of parking keep the spindle as the work had it; the
\* fast motions between them, and homing, run with it off.
SystemMotionSpindle == susp \in {"retract", "plunged"} /\ "spindle" \in restore

\* Spindle-stop override, prep, return; protocol_execute_realtime() goes on into the
\* suspend loop, which notes what there is to restore.
RtTail ==
  /\ pc = "tail"
  /\ stopOvr' = ToggledStopOvr
  /\ rtStopOvr' = FALSE
  /\ IF state \in PrepStates
     THEN PrepBuffer(stepCtl, SystemMotionSpindle)
     ELSE UNCHANGED <<stepCtl, blocks, segs>>
  /\ rtExec' = {} /\ execAuto' = FALSE
  /\ pc' = "run"
  /\ IF susp = "none" /\ suspend # {}
     THEN susp' = "top" /\ restore' = QueueAccessories(blocks')
     ELSE UNCHANGED <<susp, restore>>
  /\ UNCHANGED <<state, suspend, abort, softLimit, rtState, rtAlarm, startAuto, stepping,
                 powerVars, pinVars, modeVars, ctx, cmd>>

ExecRtSystem ==
  RtAlarm \/ RtCritical \/ RtClearAlarm \/ RtCopy \/ RtHolds \/ RtStart \/ RtStop \/ RtTail

Interrupts ==
  \/ StepSegment \/ StepDone \/ ProbeContact
  \/ RxReset \/ LimitIsr \/ RxStart \/ RxHold \/ RxDoor \/ RxJogCancel \/ RxSpindleStop
  \/ PinMoves \/ PinsDebounced
=============================================================================
