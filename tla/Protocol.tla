------------------------------ MODULE Protocol ------------------------------
(***************************************************************************)
(* The main program of gCarvin: the reset loop of main(), the line loop of *)
(* protocol_main_loop(), and what the lines do at their check points:      *)
(* queue a motion, wait for the queue, jog, probe, home, pause, change an  *)
(* accessory, unlock, check, sleep (protocol.c, motion_control.c,          *)
(* limits.c, jog.c, system.c, gcode.c).                                    *)
(*                                                                         *)
(* ctx is the point the main program goes on from; cmd is the line it      *)
(* executes.  A call of protocol_execute_realtime() sets pc to "alarm" and *)
(* ctx to the point after the call.  Interrupts step in between.           *)
(***************************************************************************)
EXTENDS RtSuspend

CtxLabels ==
  {"init", "enter", "loop", "eol", "tick", "sleepWait", "mcline", "jogStart", "softWait",
   "softAlarm", "sync", "synced", "dwell", "probing", "probeEnd", "homeSwitch", "homeBack",
   "nextSwitch", "nextBack", "nextDone", "homeEnd"}

\* The main program runs at point l.
Main(l) == pc = "run" /\ susp = "none" /\ ctx = l

\* protocol_execute_realtime(), to return to point l.
Call(l) == pc' = "alarm" /\ ctx' = l
Goto(l) == UNCHANGED pc /\ ctx' = l

MainFrame == <<susp, restore, rtExec, execAuto, rtStopOvr, pinVars>>
SysFrame == <<suspend, abort, softLimit, stopOvr>>

\* protocol_auto_cycle_start(); a start the operator asked for stays the operator's.
AutoStart ==
  IF blocks # <<>>
  THEN /\ rtState' = rtState \union {"CYCLE_START"}
       /\ startAuto' = (startAuto \/ "CYCLE_START" \notin rtState)
  ELSE UNCHANGED <<rtState, startAuto>>

SystemLines == {"jog", "home", "unlock", "check", "sleep"}

\* system_execute_startup(): a stored g-code line, executed without a check point before
\* it, unless there is an abort.  A second one is like a line the sender sends at once.
StartupLine ==
  \/ ctx' = "loop" /\ UNCHANGED cmd
  \/ ctx' = "eol" /\ cmd' \in Commands \ SystemLines

-----------------------------------------------------------------------------
(* main() and the entry of protocol_main_loop(). *)

Init ==
  /\ state = "ALARM"                     \* HOMING_INIT_LOCK with homing enabled
  /\ suspend = {} /\ stepCtl = {} /\ stopOvr = {}
  /\ abort = FALSE /\ softLimit = FALSE
  /\ rtState = {} /\ rtAlarm = "NONE" /\ rtStopOvr = FALSE /\ startAuto = FALSE
  /\ pc = "run" /\ rtExec = {} /\ execAuto = FALSE
  /\ blocks = <<>> /\ segs = <<>> /\ stepping = FALSE
  /\ powered = {} /\ modal = {}
  /\ doorOpen = FALSE /\ buttonDown = FALSE /\ debounce = FALSE
  /\ probing = FALSE /\ limitsOn = FALSE
  /\ ctx = "init" /\ susp = "none" /\ cmd = "none" /\ restore = {}

\* The reset loop: everything but the state is initialised.
Reinit ==
  /\ Main("init")
  /\ suspend' = {} /\ stepCtl' = {} /\ stopOvr' = {}
  /\ abort' = FALSE /\ softLimit' = FALSE
  /\ rtState' = {} /\ rtAlarm' = "NONE" /\ rtStopOvr' = FALSE /\ startAuto' = FALSE
  /\ blocks' = <<>> /\ StReset
  /\ powered' = {} /\ modal' = {}
  /\ probing' = FALSE /\ limitsOn' = TRUE
  /\ Goto("enter") /\ cmd' = "none"
  /\ UNCHANGED <<state, susp, restore, rtExec, execAuto, pinVars>>

\* An alarm survives a reset, sleep becomes one, and so does a closed limit switch; else
\* the door is looked at.
Enter ==
  /\ Main("enter")
  /\ \/ /\ state \in {"ALARM", "SLEEP"} \/ "limit" \in Events
        /\ state' = "ALARM" /\ Goto("loop") /\ UNCHANGED <<rtState, cmd>>
     \/ /\ state \notin {"ALARM", "SLEEP"}
        /\ state' = "IDLE" /\ StartupLine
        /\ IF doorOpen
           THEN rtState' = rtState \union {"SAFETY_DOOR"} /\ pc' = "alarm"
           ELSE UNCHANGED <<pc, rtState>>
  /\ UNCHANGED <<stepCtl, SysFrame, rtAlarm, startAuto, motionVars, powerVars, modeVars, MainFrame>>

-----------------------------------------------------------------------------
(* protocol_main_loop(). *)

\* The characters run out: start what is queued.
NoData ==
  /\ Main("loop")
  /\ AutoStart
  /\ Call("tick")
  /\ UNCHANGED <<state, stepCtl, SysFrame, rtAlarm, motionVars, powerVars, modeVars, cmd, MainFrame>>

\* Mutant: an abort does not leave the line loop.
TickForgetsAbort ==
  /\ Main("tick")
  /\ Goto(IF SleepArmed /\ rtState = {} /\ rtAlarm = "NONE" THEN "sleepWait" ELSE "loop")
  /\ UNCHANGED <<sysVars, rtState, startAuto, rtAlarm, motionVars, powerVars, modeVars, cmd,
                 MainFrame>>

Tick ==
  /\ Main("tick")
  /\ Goto(IF abort THEN "init"
          ELSE IF SleepArmed /\ rtState = {} /\ rtAlarm = "NONE" THEN "sleepWait" ELSE "loop")
  /\ UNCHANGED <<sysVars, rtState, startAuto, rtAlarm, motionVars, powerVars, modeVars, cmd,
                 MainFrame>>

\* sleep_execute() in the main loop, as SuspWake has it.
MainWake ==
  /\ Main("sleepWait")
  /\ rtState' = rtState \/ rtState' = rtState \union {"SLEEP"}
  /\ Goto("loop")
  /\ UNCHANGED <<sysVars, rtAlarm, startAuto, motionVars, powerVars, modeVars, cmd, MainFrame>>

\* A line is complete.
EndOfLine ==
  /\ Main("loop")
  /\ cmd' \in Commands
  /\ Call("eol")
  /\ UNCHANGED <<sysVars, rtState, startAuto, rtAlarm, motionVars, powerVars, modeVars, MainFrame>>

LineAborted ==
  /\ Main("eol") /\ abort
  /\ Goto("init")
  /\ UNCHANGED <<sysVars, rtState, startAuto, rtAlarm, motionVars, powerVars, modeVars, cmd,
                 MainFrame>>

Execute(c) == Main("eol") /\ ~abort /\ cmd = c

\* Mutant: $C is taken in every state.
RejectedNotCheck ==
  \/ cmd \notin SystemLines /\ state \in {"ALARM", "JOG"}
  \/ cmd = "jog" /\ state \notin {"IDLE", "JOG"}
  \/ cmd = "home" /\ (state \notin {"IDLE", "ALARM"} \/ doorOpen)
  \/ cmd = "sleep" /\ state \notin {"IDLE", "ALARM"}
  \/ cmd = "unlock" /\ (state # "ALARM" \/ doorOpen)

Rejected ==
  \/ cmd \notin SystemLines /\ state \in {"ALARM", "JOG"}
  \/ cmd = "jog" /\ state \notin {"IDLE", "JOG"}
  \/ cmd = "home" /\ (state \notin {"IDLE", "ALARM"} \/ doorOpen)
  \/ cmd = "sleep" /\ state \notin {"IDLE", "ALARM"}
  \/ cmd = "unlock" /\ (state # "ALARM" \/ doorOpen)
  \/ cmd = "check" /\ state \notin {"IDLE", "CHECK"}

\* A line with no effect: an error, or a motion, pause or dwell in check mode.
RejectLine ==
  /\ Main("eol") /\ ~abort
  /\ Rejected \/ (state = "CHECK" /\ cmd \in {"move", "dwell", "probe"})
  /\ Goto("loop")
  /\ UNCHANGED <<sysVars, rtState, startAuto, rtAlarm, motionVars, powerVars, modeVars, cmd,
                 MainFrame>>

ExecUnlock ==
  /\ Execute("unlock") /\ ~Rejected
  /\ state' = "IDLE"
  /\ Goto("loop")
  /\ UNCHANGED <<stepCtl, SysFrame, rtState, startAuto, rtAlarm, motionVars, powerVars, modeVars,
                 cmd, MainFrame>>

\* $C: enter check mode, or leave it by a reset.
ExecCheck ==
  /\ Execute("check") /\ ~Rejected
  /\ Goto("loop")
  /\ IF state = "CHECK" THEN McReset /\ UNCHANGED state
     ELSE state' = "CHECK" /\ UNCHANGED <<rtState, rtAlarm, powered, stepping>>
  /\ UNCHANGED <<stepCtl, SysFrame, startAuto, blocks, segs, modal, modeVars, cmd, MainFrame>>

ExecSleep ==
  /\ Execute("sleep") /\ ~Rejected
  /\ rtState' = rtState \union {"SLEEP"}
  /\ Goto("loop")
  /\ UNCHANGED <<sysVars, startAuto, rtAlarm, motionVars, powerVars, modeVars, cmd, MainFrame>>

-----------------------------------------------------------------------------
(* mc_line() and jogging. *)

\* A motion calls the executor before it is planned.
ExecMove ==
  /\ Execute("move") \/ Execute("jog")
  /\ ~Rejected /\ state # "CHECK"
  /\ Call("mcline")
  /\ UNCHANGED <<sysVars, rtState, startAuto, rtAlarm, motionVars, powerVars, modeVars, cmd,
                 MainFrame>>

\* On with the line: a jog and a probe motion start, whether or not mc_line() bailed out.
AfterLine ==
  IF cmd = "probe"
  THEN /\ probing' = TRUE
       /\ rtState' = rtState \union {"CYCLE_START"}
       /\ startAuto' = (startAuto \/ "CYCLE_START" \notin rtState)
       /\ Call("probing")
  ELSE /\ Goto(IF cmd = "jog" THEN "jogStart" ELSE "loop")
       /\ UNCHANGED <<probing, rtState, startAuto>>

LineFrame == <<sysVars, rtAlarm, segs, stepping, powerVars, limitsOn, cmd, MainFrame>>

LineBailsOut ==
  /\ Main("mcline") /\ abort
  /\ AfterLine
  /\ UNCHANGED <<blocks, LineFrame>>

\* The buffer is full: start it and wait.
LineWaits ==
  /\ Main("mcline") /\ ~abort /\ Len(blocks) = BlockMax
  /\ AutoStart
  /\ Call("mcline")
  /\ UNCHANGED <<blocks, probing, LineFrame>>

\* Mutant: the buffer is not looked at.
LineQueuedUnchecked ==
  /\ Main("mcline") /\ ~abort
  /\ blocks' = Append(blocks, modal)
  /\ AfterLine
  /\ UNCHANGED LineFrame

\* There is room: plan_buffer_line().
LineQueued ==
  /\ Main("mcline") /\ ~abort /\ Len(blocks) < BlockMax
  /\ blocks' = Append(blocks, modal)
  /\ AfterLine
  /\ UNCHANGED LineFrame

\* The end of jog_execute(): idle with a block queued starts to jog.
JogStart ==
  /\ Main("jogStart")
  /\ IF state = "IDLE" /\ blocks # <<>>
     THEN state' = "JOG" /\ stepping' = TRUE /\ PrepBuffer(stepCtl, FALSE)
     ELSE UNCHANGED <<state, stepCtl, motionVars>>
  /\ Goto("loop")
  /\ UNCHANGED <<SysFrame, rtState, startAuto, rtAlarm, powerVars, modeVars, cmd, MainFrame>>

-----------------------------------------------------------------------------
(* limits_soft_check(). *)

\* A target out of range: bring a running cycle to a stop first.
ExecMoveOut ==
  /\ Execute("moveOut") /\ ~Rejected
  /\ softLimit' = TRUE
  /\ IF state = "CYCLE"
     THEN rtState' = rtState \union {"FEED_HOLD"} /\ Call("softWait")
     ELSE Goto("softAlarm") /\ UNCHANGED rtState
  /\ UNCHANGED <<state, suspend, stepCtl, abort, stopOvr, startAuto, rtAlarm, motionVars,
                 powerVars, modeVars, cmd, MainFrame>>

SoftWait ==
  /\ Main("softWait")
  /\ IF abort THEN Goto("loop")
     ELSE IF state = "IDLE" THEN Goto("softAlarm") ELSE Call("softWait")
  /\ UNCHANGED <<sysVars, rtState, startAuto, rtAlarm, motionVars, powerVars, modeVars, cmd,
                 MainFrame>>

\* Reset, and raise the critical alarm: the call returns with an abort.
SoftAlarm ==
  /\ Main("softAlarm")
  /\ McResetWith("SOFT_LIMIT")
  /\ Call("mcline")
  /\ UNCHANGED <<sysVars, startAuto, blocks, segs, modal, modeVars, cmd, MainFrame>>

-----------------------------------------------------------------------------
(* protocol_buffer_synchronize() and the lines that wait for the queue. *)

SyncLines == {"program", "spindle", "coolant", "pause", "dwell", "probe"}

\* A line that changes an accessory does not wait in check mode; one that ends or
\* pauses the program does.
NeedsSync == state # "CHECK" \/ cmd \in {"program", "pause"}

ExecSync ==
  /\ Main("eol") /\ ~abort /\ cmd \in SyncLines /\ ~Rejected
  /\ IF NeedsSync THEN AutoStart /\ Call("sync")
     ELSE cmd \in {"spindle", "coolant"} /\ Goto("synced") /\ UNCHANGED <<rtState, startAuto>>
  /\ UNCHANGED <<sysVars, rtAlarm, motionVars, powerVars, modeVars, cmd, MainFrame>>

\* Mutant: an empty queue is taken for the end of the cycle.
SyncWaitQueueOnly ==
  /\ Main("sync")
  /\ IF ~abort /\ blocks # <<>> THEN Call("sync") ELSE Goto("synced")
  /\ UNCHANGED <<sysVars, rtState, startAuto, rtAlarm, motionVars, powerVars, modeVars, cmd,
                 MainFrame>>

SyncWait ==
  /\ Main("sync")
  /\ IF ~abort /\ (blocks # <<>> \/ state = "CYCLE") THEN Call("sync") ELSE Goto("synced")
  /\ UNCHANGED <<sysVars, rtState, startAuto, rtAlarm, motionVars, powerVars, modeVars, cmd,
                 MainFrame>>

\* spindle_sync() and coolant_sync(): M3 and M5, M8 and M9; an abort keeps the output.
SyncedAccessory ==
  /\ Main("synced") /\ cmd \in Accessories
  /\ modal' = IF cmd \in modal THEN modal \ {cmd} ELSE modal \union {cmd}
  /\ powered' = IF abort \/ state = "CHECK" THEN powered
                ELSE IF cmd \in modal THEN powered \ {cmd} ELSE powered \union {cmd}
  /\ Goto("loop")
  /\ UNCHANGED <<sysVars, rtState, startAuto, rtAlarm, motionVars, modeVars, cmd, MainFrame>>

\* M2 and M30.
SyncedProgram ==
  /\ Main("synced") /\ cmd = "program"
  /\ modal' = {}
  /\ powered' = IF abort \/ state = "CHECK" THEN powered ELSE {}
  /\ Goto("loop")
  /\ UNCHANGED <<sysVars, rtState, startAuto, rtAlarm, motionVars, modeVars, cmd, MainFrame>>

\* M0: pause by a feed hold.
SyncedPause ==
  /\ Main("synced") /\ cmd = "pause"
  /\ IF state # "CHECK"
     THEN rtState' = rtState \union {"FEED_HOLD"} /\ Call("loop")
     ELSE Goto("loop") /\ UNCHANGED rtState
  /\ UNCHANGED <<sysVars, startAuto, rtAlarm, motionVars, powerVars, modeVars, cmd, MainFrame>>

\* G4: delay_sec() calls the executor at each of its steps.
Dwelling ==
  /\ (Main("synced") /\ cmd = "dwell") \/ Main("dwell")
  /\ \/ ~abort /\ Call("dwell")
     \/ Goto("loop")
  /\ UNCHANGED <<sysVars, rtState, startAuto, rtAlarm, motionVars, powerVars, modeVars, cmd,
                 MainFrame>>

-----------------------------------------------------------------------------
(* mc_probe_cycle(). *)

\* The probe may be in contact before the motion: an alarm.
SyncedProbe ==
  /\ Main("synced") /\ cmd = "probe"
  /\ IF abort THEN Goto("loop") /\ UNCHANGED rtAlarm
     ELSE \/ rtAlarm' = "PROBE_FAIL_INITIAL" /\ Call("loop")
          \/ UNCHANGED rtAlarm /\ Call("mcline")
  /\ UNCHANGED <<sysVars, rtState, startAuto, motionVars, powerVars, modeVars, cmd, MainFrame>>

\* The motion is over when the state is idle; G38.2 and G38.4 want a contact.
ProbeWait ==
  /\ Main("probing")
  /\ IF abort THEN Goto("loop") /\ UNCHANGED <<rtAlarm, probing>>
     ELSE IF state # "IDLE" THEN Call("probing") /\ UNCHANGED <<rtAlarm, probing>>
     ELSE /\ rtAlarm' \in (IF probing THEN {rtAlarm, "PROBE_FAIL_CONTACT"} ELSE {rtAlarm})
          /\ probing' = FALSE
          /\ Call("probeEnd")
  /\ UNCHANGED <<sysVars, rtState, startAuto, motionVars, powerVars, limitsOn, cmd, MainFrame>>

ProbeEnd ==
  /\ Main("probeEnd")
  /\ StReset /\ blocks' = <<>>
  /\ Goto("loop")
  /\ UNCHANGED <<sysVars, rtState, startAuto, rtAlarm, powerVars, modeVars, cmd, MainFrame>>

-----------------------------------------------------------------------------
(* $H: mc_homing_cycle() and limits_go_home().  An approach and a pull-off    *)
(* alternate, for each axis set.                                              *)

\* Start an approach ("homeSwitch") or a pull-off ("homeBack").
HomingMotion(l) ==
  /\ PrepBuffer({"SYS_MOTION"}, FALSE)
  /\ stepping' = TRUE
  /\ Goto(l)

ExecHome ==
  /\ Execute("home") /\ ~Rejected
  /\ state' = "HOMING"
  /\ limitsOn' = FALSE
  /\ HomingMotion("homeSwitch")
  /\ UNCHANGED <<SysFrame, rtState, startAuto, rtAlarm, powerVars, probing, cmd, MainFrame>>

HomingFrame == <<SysFrame, state, startAuto, modal, modeVars, cmd, MainFrame>>
HomingExit == {"SAFETY_DOOR", "RESET", "CYCLE_STOP"}

\* The wait loop prepares segments while nothing ends the motion.
HomingPrep ==
  /\ Main("homeSwitch") \/ Main("homeBack")
  /\ ~Has(rtState, HomingExit)
  /\ PrepBuffer(stepCtl, FALSE)
  /\ UNCHANGED <<HomingFrame, rtState, rtAlarm, stepping, powered, pc, ctx>>

\* All switches of the approach are found: stop at once.  The flags were looked at
\* before, so one may just have come.
HomingFound ==
  /\ Main("homeSwitch")
  /\ StReset
  /\ Goto("nextBack")
  /\ UNCHANGED <<HomingFrame, stepCtl, rtState, rtAlarm, powered, blocks>>

\* The alarms of an ended motion, the later over the earlier: reset, door, pull-off
\* with a switch still closed, approach at its end.
HomingAlarms ==
  LET approach == ctx = "homeSwitch"
      early == IF "SAFETY_DOOR" \in rtState THEN "HOMING_FAIL_DOOR"
               ELSE IF "RESET" \in rtState THEN "HOMING_FAIL_RESET" ELSE rtAlarm
  IN IF approach /\ "CYCLE_STOP" \in rtState THEN {"HOMING_FAIL_APPROACH"}
     ELSE IF approach THEN {early} ELSE {early, "HOMING_FAIL_PULLOFF"}

HomingFails ==
  /\ Main("homeSwitch") \/ Main("homeBack")
  /\ Has(rtState, HomingExit)
  /\ \E alarm \in HomingAlarms \ {"NONE"} : McResetWith(alarm)
  /\ Call("homeEnd")
  /\ UNCHANGED <<HomingFrame, stepCtl, blocks, segs>>

\* A pull-off came to its end.
HomingPulledOff ==
  /\ Main("homeBack") /\ Has(rtState, HomingExit)
  /\ "NONE" \in HomingAlarms
  /\ rtState' = rtState \ {"CYCLE_STOP"}
  /\ StReset
  /\ Goto("nextSwitch") \/ Goto("nextDone")
  /\ UNCHANGED <<HomingFrame, stepCtl, rtAlarm, powered, blocks>>

\* After the debounce delay, the next motion of the cycle; or its end, and a call of
\* the executor.
HomingNext ==
  /\ \/ Main("nextSwitch") /\ HomingMotion("homeSwitch")
     \/ Main("nextBack") /\ HomingMotion("homeBack")
     \/ Main("nextDone") /\ stepCtl' = {} /\ Call("homeEnd") /\ UNCHANGED motionVars
  /\ UNCHANGED <<HomingFrame, rtState, rtAlarm, powered>>

\* Mutant: the limit interrupt is not switched on again.
HomingEndDisarmed ==
  /\ Main("homeEnd")
  /\ IF abort THEN Goto("loop") /\ UNCHANGED <<state, stepping, cmd>>
     ELSE state' = "IDLE" /\ stepping' = FALSE /\ StartupLine /\ UNCHANGED pc
  /\ UNCHANGED <<SysFrame, stepCtl, startAuto, powerVars, modeVars, MainFrame, rtState,
                 rtAlarm, blocks, segs>>

\* Back in the system command: idle, with the limit interrupt on again, and a startup line.
HomingEnd ==
  /\ Main("homeEnd")
  /\ IF abort
     THEN Goto("loop") /\ UNCHANGED <<state, stepping, limitsOn, cmd>>
     ELSE state' = "IDLE" /\ stepping' = FALSE /\ limitsOn' = TRUE /\ StartupLine /\ UNCHANGED pc
  /\ UNCHANGED <<SysFrame, stepCtl, startAuto, powerVars, probing, MainFrame, rtState, rtAlarm,
                 blocks, segs>>

-----------------------------------------------------------------------------
MainLines ==
  \/ Reinit \/ Enter \/ NoData \/ Tick \/ MainWake \/ EndOfLine \/ LineAborted \/ RejectLine
  \/ ExecUnlock \/ ExecCheck \/ ExecSleep
  \/ ExecMove \/ LineBailsOut \/ LineWaits \/ LineQueued \/ JogStart
  \/ ExecMoveOut \/ SoftWait \/ SoftAlarm
  \/ ExecSync \/ SyncWait \/ SyncedAccessory \/ SyncedProgram \/ SyncedPause \/ Dwelling
  \/ SyncedProbe \/ ProbeWait \/ ProbeEnd
  \/ ExecHome \/ HomingPrep \/ HomingFound \/ HomingFails \/ HomingPulledOff \/ HomingNext
  \/ HomingEnd

MainProgram == ExecRtSystem \/ ExecRtSuspend \/ MainLines

Next == MainProgram \/ Interrupts

Spec == Init /\ [][Next]_vars
=============================================================================
