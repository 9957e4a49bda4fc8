----------------------------- MODULE RtSuspend -----------------------------
(***************************************************************************)
(* The suspend loop of gCarvin, protocol_exec_rt_suspend() (protocol.c):   *)
(* what the machine does while a hold, an open door or sleep keeps the     *)
(* main program from its work.  It stops spindle and coolant, parks the    *)
(* tool, waits for the operator, and restores all of it on resume.         *)
(*                                                                         *)
(* susp is the point of the loop the next action starts from.  Wherever    *)
(* the code calls protocol_exec_rt_system() an action sets pc to "alarm",  *)
(* and susp names the code after the call.  An abort leaves the loop from  *)
(* whatever point (RtCopy of RtSystem).                                    *)
(*                                                                         *)
(* Homing is enabled and laser mode off, as the defaults have them.        *)
(* Whether the tool is below the parking position and whether a parking    *)
(* motion has any length depends on where the tool stands: left open.      *)
(***************************************************************************)
EXTENDS RtSystem

SuspLabels ==
  {"none", "top", "tail", "sleepWait", "asleep",
   "retract", "parked", "restoreSpindle", "restoreCoolant", "plunge", "plunged", "restored",
   "overrideEnd"}

\* The loop, or a task of it, runs at label l.
At(l) == pc = "run" /\ susp = l

\* Call protocol_exec_rt_system() and go on at label l.
CallRt(l) == pc' = "alarm" /\ susp' = l

SuspFrame == <<ctx, cmd, restore, rtExec, execAuto, rtAlarm, rtStopOvr, pinVars, modeVars>>

\* spindle_set_state() and coolant_set_state() with what is to be restored.
RestoreAccessory(a) ==
  powered' = IF a \in restore THEN powered \union {a} ELSE powered \ {a}

-----------------------------------------------------------------------------
(* Parking motions: mc_parking_motion(). *)

\* A motion of some length: prepare it, wake the stepper, and call the executor until
\* the motion is over (ParkWait).
ParkStart(l) ==
  /\ PrepBuffer((stepCtl \union {"SYS_MOTION"}) \ {"END_MOTION"},
                l \in {"retract", "plunged"} /\ "spindle" \in restore)
  /\ stepping' = TRUE
  /\ CallRt(l)

\* A motion of no length.
ParkSkip(l) ==
  /\ stepCtl' = stepCtl \ {"SYS_MOTION"}
  /\ UNCHANGED motionVars
  /\ CallRt(l)

ParkMotion(l) == ParkStart(l) \/ ParkSkip(l)

\* The points that follow a parking motion; they are reached when it is over.
AfterPark == {"retract", "parked", "restoreSpindle", "plunged"}

ParkWait ==
  /\ pc = "run" /\ susp \in AfterPark /\ "SYS_MOTION" \in stepCtl
  /\ CallRt(susp)
  /\ UNCHANGED <<sysVars, rtState, startAuto, motionVars, powerVars, SuspFrame>>

Reached(l) == At(l) /\ "SYS_MOTION" \notin stepCtl

-----------------------------------------------------------------------------
(* The head of the loop. *)

\* Mutant: leave the loop whenever no hold is complete.
SuspLeaveEarly ==
  /\ At("top") /\ "HOLD_COMPLETE" \notin suspend
  /\ susp' = "none"
  /\ UNCHANGED <<sysVars, rtState, startAuto, pc, motionVars, powerVars, SuspFrame>>

\* Nothing suspends any more: return to the main program.
SuspLeave ==
  /\ At("top") /\ suspend = {}
  /\ susp' = "none"
  /\ UNCHANGED <<sysVars, rtState, startAuto, pc, motionVars, powerVars, SuspFrame>>

\* The motion is still coming to a stop.
SuspMoving ==
  /\ At("top") /\ suspend # {} /\ "HOLD_COMPLETE" \notin suspend
  /\ susp' = "tail"
  /\ UNCHANGED <<sysVars, rtState, startAuto, pc, motionVars, powerVars, SuspFrame>>

\* Mutant: power goes off and the tool is parked while the motion still stops.
StoppedEarly == At("top") /\ suspend # {}

Stopped == At("top") /\ "HOLD_COMPLETE" \in suspend
Parking == Stopped /\ state \in {"DOOR", "SLEEP"}

-----------------------------------------------------------------------------
(* Parking manager: door and sleep. *)

\* Start to retract: with the pull-out, if parking is possible, else by stopping
\* spindle and coolant where the tool stands.
RetractBegin ==
  /\ Parking /\ "RETRACT_COMPLETE" \notin suspend
  /\ stopOvr' = {}
  /\ \/ /\ ParkMotion("retract")
        /\ UNCHANGED <<powered, suspend>>
     \/ /\ powered' = {}
        /\ suspend' = (suspend \ {"RESTART_RETRACT"}) \union {"RETRACT_COMPLETE"}
        /\ susp' = "tail"
        /\ UNCHANGED <<stepCtl, motionVars, pc>>
  /\ UNCHANGED <<state, abort, softLimit, rtState, startAuto, modal, SuspFrame>>

\* Pulled out: stop spindle and coolant, and go on to the parking position unless the
\* tool is there.
RetractFast ==
  /\ Reached("retract")
  /\ powered' = {}
  /\ \/ ParkMotion("parked")
     \/ susp' = "parked" /\ UNCHANGED <<stepCtl, motionVars, pc>>
  /\ UNCHANGED <<state, suspend, abort, softLimit, stopOvr, rtState, startAuto, modal, SuspFrame>>

RetractEnd ==
  /\ Reached("parked")
  /\ suspend' = (suspend \ {"RESTART_RETRACT"}) \union {"RETRACT_COMPLETE"}
  /\ susp' = "tail"
  /\ UNCHANGED <<state, stepCtl, abort, softLimit, stopOvr, rtState, startAuto, pc, motionVars,
                 powerVars, SuspFrame>>

\* Parked and to sleep: stop everything until a reset.
FallAsleep ==
  /\ Parking /\ "RETRACT_COMPLETE" \in suspend /\ state = "SLEEP"
  /\ powered' = {}
  /\ stepping' = FALSE
  /\ CallRt("asleep")
  /\ UNCHANGED <<sysVars, rtState, startAuto, blocks, segs, modal, SuspFrame>>

StayAsleep ==
  /\ At("asleep")
  /\ CallRt("asleep")
  /\ UNCHANGED <<sysVars, rtState, startAuto, motionVars, powerVars, SuspFrame>>

DoorParked == Parking /\ "RETRACT_COMPLETE" \in suspend /\ state = "DOOR"

\* Parked at the door: forget the door when it is closed; then wait on, or begin to
\* restore with the fast motion back, which may not be due.
DoorCheck ==
  /\ DoorParked
  /\ suspend' = IF doorOpen THEN suspend ELSE suspend \ {"DOOR_AJAR"}
  /\ IF "INITIATE_RESTORE" \in suspend
     THEN \/ ParkMotion("restoreSpindle")
          \/ susp' = "restoreSpindle" /\ UNCHANGED <<stepCtl, motionVars, pc>>
     ELSE susp' = "tail" /\ UNCHANGED <<stepCtl, motionVars, pc>>
  /\ UNCHANGED <<state, abort, softLimit, stopOvr, rtState, startAuto, powerVars, SuspFrame>>

\* Switch an accessory the modes ask for on again and delay, unless the door
\* re-opened; l is the next task.
RestoreStep(a, l) ==
  /\ IF a \in modal /\ "RESTART_RETRACT" \notin suspend
     THEN RestoreAccessory(a) /\ CallRt(l)
     ELSE UNCHANGED <<powered, pc>> /\ susp' = l
  /\ UNCHANGED <<sysVars, rtState, startAuto, motionVars, modal, SuspFrame>>

RestoreSpindle == Reached("restoreSpindle") /\ RestoreStep("spindle", "restoreCoolant")
\* Mutant: the coolant step restores the spindle again.
RestoreCoolantNot == At("restoreCoolant") /\ RestoreStep("spindle", "plunge")

RestoreCoolant == At("restoreCoolant") /\ RestoreStep("coolant", "plunge")

\* delay_sec(), after an accessory was switched on: another of its steps, unless the
\* door re-opened.
Delayed(l) == IF l = "plunge" THEN "coolant" ELSE "spindle"

DelayOn ==
  /\ pc = "run" /\ susp \in {"restoreCoolant", "plunge", "overrideEnd"}
  /\ Delayed(susp) \in modal /\ "RESTART_RETRACT" \notin suspend
  /\ CallRt(susp)
  /\ UNCHANGED <<sysVars, rtState, startAuto, motionVars, powerVars, SuspFrame>>

\* The slow plunge back to the work, unless the door re-opened.
Plunge ==
  /\ At("plunge")
  /\ IF "RESTART_RETRACT" \notin suspend
     THEN ParkMotion("plunged")
     ELSE susp' = "plunged" /\ UNCHANGED <<stepCtl, motionVars, pc>>
  /\ UNCHANGED <<state, suspend, abort, softLimit, stopOvr, rtState, startAuto, powerVars,
                 SuspFrame>>

\* Back at the work: let the program go on, unless the door re-opened.
RestoreEnd ==
  /\ Reached("plunged")
  /\ IF "RESTART_RETRACT" \notin suspend
     THEN /\ suspend' = suspend \union {"RESTORE_COMPLETE"}
          /\ rtState' = rtState \union {"CYCLE_START"}
     ELSE UNCHANGED <<suspend, rtState>>
  /\ susp' = "tail"
  /\ UNCHANGED <<state, stepCtl, abort, softLimit, stopOvr, startAuto, pc, motionVars, powerVars,
                 SuspFrame>>

-----------------------------------------------------------------------------
(* Feed hold manager: the spindle-stop override. *)

Holding == Stopped /\ state \notin {"DOOR", "SLEEP"}

HoldIdle ==
  /\ Holding /\ stopOvr = {}
  /\ susp' = "tail"
  /\ UNCHANGED <<sysVars, rtState, startAuto, pc, motionVars, powerVars, SuspFrame>>

OverrideStop ==
  /\ Holding /\ "INITIATE" \in stopOvr
  /\ IF "spindle" \in modal
     THEN powered' = powered \ {"spindle"} /\ stopOvr' = {"ENABLED"}
     ELSE stopOvr' = {} /\ UNCHANGED powered
  /\ susp' = "tail"
  /\ UNCHANGED <<state, suspend, stepCtl, abort, softLimit, rtState, startAuto, pc, motionVars,
                 modal, SuspFrame>>

\* An override that is merely enabled waits; to restore, switch the spindle on, delay.
OverrideKeep ==
  /\ Holding /\ stopOvr # {} /\ ~Has(stopOvr, {"INITIATE", "RESTORE", "RESTORE_CYCLE"})
  /\ susp' = "tail"
  /\ UNCHANGED <<sysVars, rtState, startAuto, pc, motionVars, powerVars, SuspFrame>>

OverrideRestore ==
  /\ Holding /\ "INITIATE" \notin stopOvr /\ Has(stopOvr, {"RESTORE", "RESTORE_CYCLE"})
  /\ IF "spindle" \in modal
     THEN RestoreAccessory("spindle") /\ CallRt("overrideEnd")
     ELSE UNCHANGED <<powered, pc>> /\ susp' = "overrideEnd"
  /\ UNCHANGED <<sysVars, rtState, startAuto, motionVars, modal, SuspFrame>>

OverrideEnd ==
  /\ At("overrideEnd")
  /\ rtState' = rtState \union (IF "RESTORE_CYCLE" \in stopOvr THEN {"CYCLE_START"} ELSE {})
  /\ stopOvr' = {}
  /\ susp' = "tail"
  /\ UNCHANGED <<state, suspend, stepCtl, abort, softLimit, startAuto, pc, motionVars, powerVars,
                 SuspFrame>>

-----------------------------------------------------------------------------
(* The tail of the loop: sleep_check(), protocol_exec_rt_system(), again. *)

\* sleep_check(): something is on, or is to be, and nothing moves.
SleepArmed ==
  /\ "timeout" \in Events
  /\ modal # {}
  /\ \/ state = "IDLE"
     \/ state = "HOLD" /\ "HOLD_COMPLETE" \in suspend
     \/ state = "DOOR" /\ "RETRACT_COMPLETE" \in suspend

\* Nothing to do: sleep_execute() starts to count.  Otherwise, call the executor.
SuspTail ==
  /\ At("tail")
  /\ IF SleepArmed /\ rtState = {} /\ rtAlarm = "NONE"
     THEN susp' = "sleepWait" /\ UNCHANGED pc
     ELSE CallRt("top")
  /\ UNCHANGED <<sysVars, rtState, startAuto, motionVars, powerVars, SuspFrame>>

\* The count ends by a flag, an alarm or a character, or by its time, which is
\* looked at after them.
SuspWake ==
  /\ At("sleepWait")
  /\ rtState' = rtState \/ rtState' = rtState \union {"SLEEP"}
  /\ CallRt("top")
  /\ UNCHANGED <<sysVars, startAuto, motionVars, powerVars, SuspFrame>>

ExecRtSuspend ==
  \/ SuspLeave \/ SuspMoving \/ ParkWait
  \/ RetractBegin \/ RetractFast \/ RetractEnd \/ FallAsleep \/ StayAsleep
  \/ DoorCheck \/ RestoreSpindle \/ RestoreCoolant \/ DelayOn \/ Plunge \/ RestoreEnd
  \/ HoldIdle \/ OverrideStop \/ OverrideKeep \/ OverrideRestore \/ OverrideEnd
  \/ SuspTail \/ SuspWake
=============================================================================
