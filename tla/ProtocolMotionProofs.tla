------------------------ MODULE ProtocolMotionProofs ------------------------
(***************************************************************************)
(* Proofs about motion, alarms and the limit interrupt in Protocol, for    *)
(* every buffer size.                                                      *)
(***************************************************************************)
EXTENDS ProtocolProofs

-----------------------------------------------------------------------------
(* The limit interrupt. *)

HomingPoints == {"homeSwitch", "homeBack", "nextSwitch", "nextBack", "nextDone", "homeEnd"}

\* A critical alarm comes with the reset it raised, until the critical-event loop drops it.
CriticalInv == rtAlarm \in CriticalAlarms => "RESET" \in rtState \/ pc = "critical"

\* Where the program can be while the limit interrupt is off: in the reset loop, in homing,
\* or on its way from an aborted homing back to the reset loop, with the reset still
\* pending: no critical alarm can drop it there.
DisarmedInv ==
  ~limitsOn =>
    /\ ctx \in HomingPoints \union {"init", "loop", "tick", "eol"}
    /\ ctx \in {"loop", "tick", "eol"} => abort /\ "RESET" \in rtState /\ susp = "none"
    /\ ctx \in (HomingPoints \union {"init"}) \ {"homeEnd"} => pc = "run" /\ susp = "none"
    /\ rtAlarm \in CriticalAlarms => ctx \in {"init", "homeSwitch", "homeBack", "nextBack"}
    /\ pc # "critical"

LimitsInv == CriticalInv /\ DisarmedInv

\* mc_reset() raises the reset, whatever the alarm.
LEMMA McResetRaises ==
  ASSUME NEW alarm, McResetWith(alarm)
  PROVE  "RESET" \in rtState' /\ rtState \subseteq rtState' /\ rtAlarm' = alarm
BY DEF McResetWith

\* The real-time executor acts with the limit interrupt off only at the end of homing or
\* under the abort.
LEMMA LimitsExecutor ==
  ASSUME LimitsInv, ResumeInv, ExecRtSystem
  PROVE  LimitsInv'
<1> USE DEF LimitsInv, CriticalInv, DisarmedInv, HomingPoints, ExecFrame, modeVars, mainVars,
            CriticalAlarms
<1>1. CASE RtAlarm
  BY <1>1 DEF RtAlarm
<1>2. CASE RtCritical
  BY <1>2 DEF RtCritical, sysVars, flagVars
<1>3. CASE RtClearAlarm
  BY <1>3 DEF RtClearAlarm, sysVars
<1>4. CASE RtCopy
  BY <1>4, NextBlockOrder DEF RtCopy, flagVars
<1>5. CASE RtHolds
  BY <1>5, NextBlockOrder DEF RtHolds, HoldFlags
<1>6. CASE RtStart
  BY <1>6, NextBlockOrder DEF RtStart
<1>7. CASE RtStop
  BY <1>7 DEF RtStop
<1>8. CASE RtTail
  BY <1>8 DEF RtTail, ResumeInv, AbortInv
<1> QED
  BY <1>1, <1>2, <1>3, <1>4, <1>5, <1>6, <1>7, <1>8 DEF ExecRtSystem

\* The suspend loop leaves the alarm, the modes, the pins and the line at work alone.
LEMMA SuspendLoopFrame ==
  ASSUME ExecRtSuspend
  PROVE  UNCHANGED <<ctx, cmd, restore, rtAlarm, rtStopOvr, pinVars, modeVars, modal, abort, softLimit,
                     state>>
<1> USE DEF SuspFrame, sysVars, powerVars, RestoreStep
<1>1. CASE SuspLeave
  BY <1>1 DEF SuspLeave
<1>2. CASE SuspMoving
  BY <1>2 DEF SuspMoving
<1>3. CASE ParkWait
  BY <1>3 DEF ParkWait
<1>4. CASE RetractBegin
  BY <1>4 DEF RetractBegin
<1>5. CASE RetractFast
  BY <1>5 DEF RetractFast
<1>6. CASE RetractEnd
  BY <1>6 DEF RetractEnd
<1>7. CASE FallAsleep
  BY <1>7 DEF FallAsleep
<1>8. CASE StayAsleep
  BY <1>8 DEF StayAsleep
<1>9. CASE DoorCheck
  BY <1>9 DEF DoorCheck
<1>10. CASE RestoreSpindle
  BY <1>10 DEF RestoreSpindle
<1>11. CASE RestoreCoolant
  BY <1>11 DEF RestoreCoolant
<1>12. CASE DelayOn
  BY <1>12 DEF DelayOn
<1>13. CASE Plunge
  BY <1>13 DEF Plunge
<1>14. CASE RestoreEnd
  BY <1>14 DEF RestoreEnd
<1>15. CASE HoldIdle
  BY <1>15 DEF HoldIdle
<1>16. CASE OverrideStop
  BY <1>16 DEF OverrideStop
<1>17. CASE OverrideKeep
  BY <1>17 DEF OverrideKeep
<1>18. CASE OverrideRestore
  BY <1>18 DEF OverrideRestore
<1>19. CASE OverrideEnd
  BY <1>19 DEF OverrideEnd
<1>20. CASE SuspTail
  BY <1>20 DEF SuspTail
<1>21. CASE SuspWake
  BY <1>21 DEF SuspWake
<1> QED
  BY <1>1, <1>2, <1>3, <1>4, <1>5, <1>6, <1>7, <1>8, <1>9, <1>10, <1>11, <1>12, <1>13, <1>14,
     <1>15, <1>16, <1>17, <1>18, <1>19, <1>20, <1>21 DEF ExecRtSuspend

\* The suspend loop runs with the limit interrupt off only at the end of homing.
LEMMA LimitsSuspend ==
  ASSUME LimitsInv, ExecRtSuspend
  PROVE  LimitsInv'
<1>1. /\ pc = "run" /\ susp # "none" /\ pc' \in {"run", "alarm"} /\ abort' = abort
      /\ rtState \subseteq rtState'
  BY SuspendLoopFlags
<1>2. rtAlarm' = rtAlarm /\ limitsOn' = limitsOn /\ ctx' = ctx
  BY SuspendLoopFrame DEF modeVars
<1> QED
  BY <1>1, <1>2 DEF LimitsInv, CriticalInv, DisarmedInv, HomingPoints

\* The limit interrupt itself needs to be on; a reset leaves no new critical alarm.
LEMMA LimitsInterrupts ==
  ASSUME LimitsInv, Interrupts
  PROVE  LimitsInv'
<1> USE DEF LimitsInv, CriticalInv, DisarmedInv
<1>1. UNCHANGED <<sysVars, execVars, mainVars>> /\ rtState \subseteq rtState'
  BY InterruptsKeepMain, InterruptsFlags
<1>2. limitsOn' = limitsOn
  BY DEF Interrupts, StepSegment, StepDone, ProbeContact, RxReset, LimitIsr, RxStart, RxHold,
         RxDoor, RxJogCancel, RxSpindleStop, PinMoves, PinsDebounced, RaiseFlag, McResetFrame,
         modeVars
<1>3. CASE RxReset
  <2>1. rtAlarm' \in CriticalAlarms => rtAlarm \in CriticalAlarms
    BY <1>3, McResetRaises DEF RxReset, McReset, AbortAlarm, CriticalAlarms
  <2> QED
    BY <1>1, <1>2, <2>1 DEF sysVars, execVars, mainVars
<1>4. CASE LimitIsr
  BY <1>1, <1>2, <1>4, McResetRaises DEF LimitIsr, sysVars, execVars, mainVars
<1>5. CASE ~RxReset /\ ~LimitIsr
  <2>1. rtAlarm' = rtAlarm
    BY <1>5 DEF Interrupts, StepSegment, StepDone, ProbeContact, RxStart, RxHold, RxDoor,
         RxJogCancel, RxSpindleStop, PinMoves, PinsDebounced, RaiseFlag, flagVars
  <2> QED
    BY <1>1, <1>2, <2>1 DEF sysVars, execVars, mainVars
<1> QED
  BY <1>3, <1>4, <1>5

\* Homing switches the limit interrupt off, and on again unless it is aborted.
LEMMA LimitsLines ==
  ASSUME LimitsInv, ResumeInv, MainLines
  PROVE  LimitsInv'
<1> USE DEF LimitsInv, CriticalInv, DisarmedInv, HomingPoints, CriticalAlarms, ResumeInv, AbortInv,
            Main, Execute, Call, Goto, AutoStart, AfterLine, Has, HomingExit,
            sysVars, flagVars, motionVars, powerVars, pinVars, modeVars,
            MainFrame, SysFrame, LineFrame, HomingFrame
<1>1. CASE Reinit
  BY <1>1 DEF Reinit
<1>2. CASE Enter
  BY <1>2 DEF Enter, StartupLine
<1>3. CASE NoData
  BY <1>3 DEF NoData
<1>4. CASE Tick
  BY <1>4 DEF Tick
<1>5. CASE MainWake
  BY <1>5 DEF MainWake
<1>6. CASE EndOfLine
  BY <1>6 DEF EndOfLine
<1>7. CASE LineAborted
  BY <1>7 DEF LineAborted
<1>8. CASE RejectLine
  BY <1>8 DEF RejectLine
<1>9. CASE ExecUnlock
  BY <1>9 DEF ExecUnlock
<1>10. CASE ExecCheck
  BY <1>10, McResetRaises DEF ExecCheck, McReset, AbortAlarm
<1>11. CASE ExecSleep
  BY <1>11 DEF ExecSleep
<1>12. CASE ExecMove
  BY <1>12 DEF ExecMove
<1>13. CASE LineBailsOut
  BY <1>13 DEF LineBailsOut
<1>14. CASE LineWaits
  BY <1>14 DEF LineWaits
<1>15. CASE LineQueued
  BY <1>15 DEF LineQueued
<1>16. CASE JogStart
  BY <1>16 DEF JogStart
<1>17. CASE ExecMoveOut
  BY <1>17 DEF ExecMoveOut
<1>18. CASE SoftWait
  BY <1>18 DEF SoftWait
<1>19. CASE SoftAlarm
  BY <1>19, McResetRaises DEF SoftAlarm
<1>20. CASE ExecSync
  BY <1>20 DEF ExecSync
<1>21. CASE SyncWait
  BY <1>21 DEF SyncWait
<1>22. CASE SyncedAccessory
  BY <1>22 DEF SyncedAccessory
<1>23. CASE SyncedProgram
  BY <1>23 DEF SyncedProgram
<1>24. CASE SyncedPause
  BY <1>24 DEF SyncedPause
<1>25. CASE Dwelling
  BY <1>25 DEF Dwelling
<1>26. CASE SyncedProbe
  BY <1>26 DEF SyncedProbe
<1>27. CASE ProbeWait
  BY <1>27 DEF ProbeWait
<1>28. CASE ProbeEnd
  BY <1>28 DEF ProbeEnd
<1>29. CASE ExecHome
  BY <1>29 DEF ExecHome, HomingMotion
<1>30. CASE HomingPrep
  BY <1>30 DEF HomingPrep
<1>31. CASE HomingFound
  BY <1>31 DEF HomingFound
<1>32. CASE HomingFails
  BY <1>32, McResetRaises DEF HomingFails, HomingAlarms
<1>33. CASE HomingPulledOff
  BY <1>33 DEF HomingPulledOff, HomingAlarms
<1>34. CASE HomingNext
  BY <1>34 DEF HomingNext, HomingMotion
<1>35. CASE HomingEnd
  BY <1>35 DEF HomingEnd, StartupLine
<1> QED
  BY <1>1, <1>2, <1>3, <1>4, <1>5, <1>6, <1>7, <1>8, <1>9, <1>10, <1>11, <1>12, <1>13, <1>14,
     <1>15, <1>16, <1>17, <1>18, <1>19, <1>20, <1>21, <1>22, <1>23, <1>24, <1>25, <1>26, <1>27,
     <1>28, <1>29, <1>30, <1>31, <1>32, <1>33, <1>34, <1>35 DEF MainLines

\* Power-up comes with the interrupt off, and the reset loop switches it on.
LEMMA LimitsInit == Init => LimitsInv
BY DEF Init, LimitsInv, CriticalInv, DisarmedInv, HomingPoints, CriticalAlarms

\* Every step keeps LimitsInv.
LEMMA LimitsNext == ResumeInv /\ LimitsInv /\ [Next]_vars => LimitsInv'
<1> SUFFICES ASSUME ResumeInv, LimitsInv, [Next]_vars PROVE LimitsInv'
  OBVIOUS
<1>1. CASE UNCHANGED vars
  BY <1>1 DEF vars, sysVars, flagVars, execVars, modeVars, mainVars, LimitsInv, CriticalInv,
     DisarmedInv
<1> QED
  BY <1>1, LimitsExecutor, LimitsSuspend, LimitsLines, LimitsInterrupts DEF Next, MainProgram

\* Whatever goes wrong in homing, and whenever a reset, a door or an alarm comes, the limit
\* interrupt is on again when the program goes on, or a reset that cannot be dropped is
\* pending.
THEOREM LimitsArmedHolds == Spec => []LimitsArmed
<1>1. Init => TypeOK /\ ResumeInv /\ LimitsInv
  BY InitType, ResumeInvInit, LimitsInit
<1>2. TypeOK /\ ResumeInv /\ LimitsInv /\ [Next]_vars => (TypeOK /\ ResumeInv /\ LimitsInv)'
  BY TypeNext, NothingSuspendedNext, ResumeInvNext, LimitsNext DEF ResumeInv
<1>3. LimitsInv => LimitsArmed
  BY DEF LimitsInv, DisarmedInv, LimitsArmed, HomingPoints
<1> QED
  BY <1>1, <1>2, <1>3, PTL DEF Spec

-----------------------------------------------------------------------------
(* The end of a cycle. *)

\* The points of limits_go_home(): the main program is in none of the check points there.
HomingLoop == {"homeSwitch", "homeBack", "nextSwitch", "nextBack", "nextDone"}

\* The step that breaks CycleEnds: a start that comes as the motion a probe contact cancelled
\* ends is served at the check point before the end of the probe cycle, which then resets the
\* stepper.
ProbeCutsCycle ==
  /\ ProbeEnd
  /\ state \in {"CYCLE", "JOG"} /\ stepping /\ ~Has(rtState, {"CYCLE_STOP", "RESET"})

\* CycleEnds with what it rests on: homing, which stops the stepper itself, is not in a cycle;
\* the critical-event loop, which drops a reset, is in alarm.
CycleInv ==
  /\ ctx \in HomingLoop => state = "HOMING" /\ pc = "run" /\ susp = "none"
  /\ pc = "critical" => state = "ALARM"
  /\ CycleEnds

\* A hold block neither starts a cycle or a jog nor begins to home.
LEMMA AfterHoldsState ==
  ASSUME NEW r \in SysRec, NEW ex
  PROVE  AfterHolds(r, ex).state \in {r.state, "HOLD", "DOOR", "SLEEP"}
<1>1. \A q \in SysRec : BeginHold(q, ex) \in SysRec /\ BeginHold(q, ex).state = q.state
  BY DEF BeginHold, SysRec, SuspendFlags, StepFlags
<1>2. \A q \in SysRec : CancelMotion(q, ex) \in SysRec /\ CancelMotion(q, ex).state = q.state
  BY DEF CancelMotion, SysRec, SuspendFlags
<1>3. \A q \in SysRec : FeedHold(q, ex) \in SysRec /\ FeedHold(q, ex).state \in {q.state, "HOLD"}
  BY DEF FeedHold, SysRec, States
<1>4. \A q \in SysRec : ReopenDoor(q) \in SysRec /\ ReopenDoor(q).state = q.state
  BY DEF ReopenDoor, SysRec, SuspendFlags, StepFlags
<1>5. \A q \in SysRec : SafetyDoor(q, ex) \in SysRec /\ SafetyDoor(q, ex).state \in {q.state, "DOOR"}
  BY <1>4 DEF SafetyDoor, SysRec, SuspendFlags, States
<1>6. \A q \in SysRec : EnterSleep(q, ex).state \in {q.state, "SLEEP"}
  BY DEF EnterSleep, SysRec, SuspendFlags, States
<1> DEFINE h == IF HoldAllowed(r)
                THEN SafetyDoor(FeedHold(CancelMotion(BeginHold(r, ex), ex), ex), ex) ELSE r
<1>7. h \in SysRec /\ h.state \in {r.state, "HOLD", "DOOR"}
  BY <1>1, <1>2, <1>3, <1>5
<1>8. AfterHolds(r, ex) = EnterSleep(h, ex)
  BY DEF AfterHolds
<1> HIDE DEF h
<1> QED
  BY <1>6, <1>7, <1>8

\* The executor ends a cycle with the cycle stop it clears, and starts one with the stepper.
LEMMA CycleExecutor ==
  ASSUME TypeOK, CycleInv, ExecRtSystem
  PROVE  CycleInv'
<1> USE DEF CycleInv, CycleEnds, HomingLoop, ExecFrame, motionVars, mainVars, Has
<1>1. CASE RtAlarm
  BY <1>1 DEF RtAlarm
<1>2. CASE RtCritical
  BY <1>2 DEF RtCritical, sysVars, flagVars
<1>3. CASE RtClearAlarm
  BY <1>3 DEF RtClearAlarm, sysVars
<1>4. CASE RtCopy
  BY <1>4, NextBlockOrder DEF RtCopy, flagVars
<1>5. CASE RtHolds
  <2> DEFINE r == [state |-> state, suspend |-> suspend, stepCtl |-> stepCtl]
  <2>1. r \in SysRec
    BY DEF SysRec, TypeOK
  <2>2. state' = AfterHolds(r, rtExec).state
    BY <1>5 DEF RtHolds
  <2>3. state' \in {state, "HOLD", "DOOR", "SLEEP"}
    BY <2>1, <2>2, AfterHoldsState
  <2> QED
    BY <1>5, <2>3, NextBlockOrder DEF RtHolds, HoldFlags
<1>6. CASE RtStart
  <2>1. pc = "start" /\ pc' \in {"stop", "tail"} /\ UNCHANGED <<ctx, cmd, susp>>
        /\ rtState' = rtState \ {"CYCLE_START"}
    BY <1>6, NextBlockOrder DEF RtStart
  <2> DEFINE q == [state |-> state, suspend |-> suspend, stepCtl |-> stepCtl]
             r == ResumeDoor(q)
  <2>2. r.state \in {state, "IDLE"}
    BY DEF ResumeDoor
  <2>3. \/ stepping' = stepping /\ state' \in {state, r.state, "IDLE"}
        \/ stepping' = TRUE /\ state' = "CYCLE"
    <3>1. CASE StartBlocked(rtExec)
      BY <1>6, <3>1 DEF RtStart
    <3>2. CASE ~StartBlocked(rtExec) /\ ~MayStart(r)
      BY <1>6, <3>2 DEF RtStart
    <3>3. CASE ~StartBlocked(rtExec) /\ MayStart(r)
      BY <1>6, <3>3 DEF RtStart, StartQueue
    <3> QED
      BY <3>1, <3>2, <3>3
  <2> HIDE DEF r
  <2> QED
    BY <2>1, <2>2, <2>3
<1>7. CASE RtStop
  <2>1. pc = "stop" /\ pc' = "tail" /\ UNCHANGED <<ctx, cmd, susp>>
    BY <1>7 DEF RtStop
  <2>2. state' \notin {"CYCLE", "JOG"}
    BY <1>7 DEF RtStop, HoldStays
  <2> QED
    BY <2>1, <2>2
<1>8. CASE RtTail
  BY <1>8 DEF RtTail
<1> QED
  BY <1>1, <1>2, <1>3, <1>4, <1>5, <1>6, <1>7, <1>8 DEF ExecRtSystem

\* The suspend loop stops the stepper only to sleep.
LEMMA CycleSuspend ==
  ASSUME CycleInv, ExecRtSuspend
  PROVE  CycleInv'
<1>1. /\ pc = "run" /\ susp # "none" /\ pc' \in {"run", "alarm"} /\ rtState \subseteq rtState'
      /\ UNCHANGED <<ctx, cmd, state>>
  BY SuspendLoopFlags, SuspendLoopFrame
<1>2. stepping' = stepping \/ stepping' \/ state = "SLEEP"
  BY DEF ExecRtSuspend, SuspLeave, SuspMoving, ParkWait, RetractBegin, RetractFast, RetractEnd,
     FallAsleep, StayAsleep, DoorCheck, RestoreSpindle, RestoreCoolant, DelayOn, Plunge, RestoreEnd,
     HoldIdle, OverrideStop, OverrideKeep, OverrideRestore, OverrideEnd, SuspTail, SuspWake,
     ParkMotion, ParkStart, ParkSkip, RestoreStep, motionVars
<1> QED
  BY <1>1, <1>2 DEF CycleInv, CycleEnds, HomingLoop, Has

\* An interrupt stops the stepper with the end of the cycle or a reset flagged.
LEMMA CycleInterrupts ==
  ASSUME CycleInv, Interrupts
  PROVE  CycleInv'
<1>1. UNCHANGED <<sysVars, execVars, mainVars>> /\ rtState \subseteq rtState'
  BY InterruptsKeepMain, InterruptsFlags
<1>2. stepping' = stepping \/ Has(rtState', {"CYCLE_STOP", "RESET"})
  BY McResetRaises DEF Interrupts, StepSegment, StepDone, ProbeContact, RxReset, LimitIsr, RxStart,
     RxHold, RxDoor, RxJogCancel, RxSpindleStop, PinMoves, PinsDebounced, RaiseFlag, McReset, Has,
     motionVars
<1> QED
  BY <1>1, <1>2 DEF CycleInv, CycleEnds, Has, sysVars, execVars, mainVars

\* A line starts a jog with the stepper, and homing stops it outside of a cycle.
LEMMA CycleLines ==
  ASSUME CycleInv, ~ProbeCutsCycle, MainLines
  PROVE  CycleInv'
<1> USE DEF CycleInv, CycleEnds, HomingLoop, Has, Main, Execute, Call, Goto, AutoStart, AfterLine,
            sysVars, flagVars, motionVars, mainVars, MainFrame, SysFrame, LineFrame, HomingFrame
<1>1. CASE Reinit
  BY <1>1 DEF Reinit
<1>2. CASE Enter
  BY <1>2 DEF Enter, StartupLine
<1>3. CASE NoData
  BY <1>3 DEF NoData
<1>4. CASE Tick
  BY <1>4 DEF Tick
<1>5. CASE MainWake
  BY <1>5 DEF MainWake
<1>6. CASE EndOfLine
  BY <1>6 DEF EndOfLine
<1>7. CASE LineAborted
  BY <1>7 DEF LineAborted
<1>8. CASE RejectLine
  BY <1>8 DEF RejectLine
<1>9. CASE ExecUnlock
  BY <1>9 DEF ExecUnlock
<1>10. CASE ExecCheck
  BY <1>10, McResetRaises DEF ExecCheck, McReset
<1>11. CASE ExecSleep
  BY <1>11 DEF ExecSleep
<1>12. CASE ExecMove
  BY <1>12 DEF ExecMove
<1>13. CASE LineBailsOut
  BY <1>13 DEF LineBailsOut
<1>14. CASE LineWaits
  BY <1>14 DEF LineWaits
<1>15. CASE LineQueued
  BY <1>15 DEF LineQueued
<1>16. CASE JogStart
  BY <1>16 DEF JogStart
<1>17. CASE ExecMoveOut
  BY <1>17 DEF ExecMoveOut
<1>18. CASE SoftWait
  BY <1>18 DEF SoftWait
<1>19. CASE SoftAlarm
  BY <1>19, McResetRaises DEF SoftAlarm
<1>20. CASE ExecSync
  BY <1>20 DEF ExecSync
<1>21. CASE SyncWait
  BY <1>21 DEF SyncWait
<1>22. CASE SyncedAccessory
  BY <1>22 DEF SyncedAccessory
<1>23. CASE SyncedProgram
  BY <1>23 DEF SyncedProgram
<1>24. CASE SyncedPause
  BY <1>24 DEF SyncedPause
<1>25. CASE Dwelling
  BY <1>25 DEF Dwelling
<1>26. CASE SyncedProbe
  BY <1>26 DEF SyncedProbe
<1>27. CASE ProbeWait
  BY <1>27 DEF ProbeWait
<1>28. CASE ProbeEnd
  BY <1>28 DEF ProbeEnd, ProbeCutsCycle, StReset
<1>29. CASE ExecHome
  BY <1>29 DEF ExecHome, HomingMotion
<1>30. CASE HomingPrep
  BY <1>30 DEF HomingPrep
<1>31. CASE HomingFound
  BY <1>31 DEF HomingFound, StReset
<1>32. CASE HomingFails
  BY <1>32, McResetRaises DEF HomingFails
<1>33. CASE HomingPulledOff
  BY <1>33 DEF HomingPulledOff, StReset
<1>34. CASE HomingNext
  BY <1>34 DEF HomingNext, HomingMotion
<1>35. CASE HomingEnd
  BY <1>35 DEF HomingEnd, StartupLine
<1> QED
  BY <1>1, <1>2, <1>3, <1>4, <1>5, <1>6, <1>7, <1>8, <1>9, <1>10, <1>11, <1>12, <1>13, <1>14,
     <1>15, <1>16, <1>17, <1>18, <1>19, <1>20, <1>21, <1>22, <1>23, <1>24, <1>25, <1>26,
     <1>27, <1>28, <1>29, <1>30, <1>31, <1>32, <1>33, <1>34, <1>35 DEF MainLines

\* A cycle or a jog has a stepper interrupt that will end it, or its end is flagged, whatever
\* comes at the same time, unless the end of a probe cycle resets the stepper under it.
THEOREM CycleEndsHolds == Spec /\ [][~ProbeCutsCycle]_vars => []CycleEnds
<1>1. Init => TypeOK /\ CycleInv
  BY InitType DEF Init, CycleInv, CycleEnds, HomingLoop
<1>2. TypeOK /\ CycleInv /\ [Next]_vars /\ [~ProbeCutsCycle]_vars => TypeOK' /\ CycleInv'
  <2> SUFFICES ASSUME TypeOK, CycleInv, [Next]_vars, [~ProbeCutsCycle]_vars PROVE CycleInv'
    BY TypeNext
  <2>1. CASE UNCHANGED vars
    BY <2>1 DEF vars, sysVars, flagVars, execVars, motionVars, mainVars, CycleInv, CycleEnds
  <2> QED
    BY <2>1, CycleExecutor, CycleSuspend, CycleInterrupts, CycleLines DEF Next, MainProgram
<1>3. CycleInv => CycleEnds
  BY DEF CycleInv
<1> QED
  BY <1>1, <1>2, <1>3, PTL DEF Spec

-----------------------------------------------------------------------------
(* Motion, rest and alarms. *)

\* The steps that the theorems of this section leave out; each of them is known to break
\* what they say.

\* A feed hold in the copy of the automatic start that ends a restore: the restore runs again.
HoldMeetsRestored ==
  /\ RtHolds
  /\ "RESTORE_COMPLETE" \in suspend /\ "FEED_HOLD" \in rtExec /\ "SAFETY_DOOR" \notin rtExec

\* A door while a soft limit brings the cycle to a stop.
DoorMeetsSoftLimit == RtHolds /\ softLimit /\ "SAFETY_DOOR" \in rtExec

\* A hold ends the wait of a line that probes, though the machine still moves.
SyncEndsMoving ==
  /\ SyncWait
  /\ ctx' = "synced" /\ cmd = "probe" /\ ~abort
  /\ stepping \/ "CYCLE_STOP" \in rtState

\* Where there are limit switches: a motion, other than homing, starts although a reset
\* waits, which came between a check point and the start.
StartMeetsReset ==
  /\ "limit" \in Events /\ "RESET" \in rtState
  /\ ~stepping /\ stepping' /\ state' # "HOMING"

Apart ==
  /\ ~HoldMeetsRestored /\ ~DoorMeetsSoftLimit
  /\ ~SyncEndsMoving /\ ~StartMeetsReset

\* No reset is pending, and no critical event waits for one.
Live == "RESET" \notin rtState /\ pc # "critical"

HoldDone == "HOLD_COMPLETE" \in suspend
SysMotion == "SYS_MOTION" \in stepCtl
Flagged(f) == f \in rtState
Boot == ctx \in {"init", "enter"}

\* The motions that mc_reset() tells (InMotion of RtSystem).
Moves == state \in {"CYCLE", "HOMING", "JOG"} \/ "EXECUTE_HOLD" \in stepCtl \/ SysMotion

\* The points of the suspend loop that belong to parking, and those of its restore.
ParkPoints ==
  {"asleep", "retract", "parked", "restoreSpindle", "restoreCoolant", "plunge", "plunged"}
RestorePoints == {"restoreSpindle", "restoreCoolant", "plunge", "plunged"}

\* A copied cycle stop that is still to be acted on.
StopCopied == pc \in {"holds", "start", "stop"} /\ "CYCLE_STOP" \in rtExec

\* A cycle stop, copied or pending, means that nothing steps; a copied one meets neither
\* rest nor a hold that was complete before, but for parking.
StopInv ==
  /\ pc = "stop" => "CYCLE_STOP" \in rtExec
  /\ StopCopied =>
       /\ ~stepping /\ state \notin {"IDLE", "ALARM", "CHECK"}
       /\ HoldDone => SysMotion
       /\ pc \in {"start", "stop"} /\ Flagged("MOTION_CANCEL") => state = "JOG"
  /\ pc \in {"holds", "start"} /\ Flagged("RESET") => ~stepping
  /\ Flagged("CYCLE_STOP") /\ Live /\ stepping => state = "HOMING"

\* At rest nothing steps, and an alarm ends every suspension; a motion that the alarm
\* finds is one whose reset is under way.
RestInv ==
  /\ state \in {"IDLE", "CHECK"} => ~stepping
  /\ state \in {"IDLE", "CHECK", "ALARM"} /\ Live => ~Flagged("CYCLE_STOP")
  /\ state = "ALARM" /\ (Live \/ pc \in {"holds", "start", "stop", "tail"}) => suspend = {}
  /\ state = "ALARM" /\ stepping => ~Live /\ (abort \/ pc \in {"critical", "clear", "copy"})
  /\ state = "ALARM" /\ susp # "none" => ~Live /\ pc \in {"critical", "clear", "copy"}

\* A motion shows in the state or in the step control; one that a reset did not stop was
\* stopped by mc_reset() only in a state that it can tell.
VisibleInv ==
  /\ stepping => Moves \/ state = "ALARM"
  /\ stepping /\ Flagged("RESET") /\ ~abort =>
       state \in {"CYCLE", "JOG", "HOMING", "ALARM"} \/ susp \in AfterPark

\* A complete hold steps only to park, and its retract is complete only with it.
HoldInv ==
  /\ HoldDone /\ ~abort =>
       /\ stepping \/ (Live /\ Flagged("CYCLE_STOP")) => SysMotion
       /\ state \in {"IDLE", "HOLD", "DOOR", "SLEEP"} \/ (state = "ALARM" /\ ~Live)
  /\ "RETRACT_COMPLETE" \in suspend /\ ~abort => HoldDone
  /\ state = "SLEEP" => HoldDone \/ Boot
  /\ state = "DOOR" => "DOOR_AJAR" \in suspend \/ HoldDone \/ Boot

\* System motions are those of parking and of homing; parking happens in no other state.
ParkInv ==
  /\ SysMotion => \/ abort \/ susp \in AfterPark \/ ctx \in HomingLoop
                  \/ ctx = "homeEnd" /\ ~Live /\ pc \in {"alarm", "critical", "clear", "copy"}
  /\ abort => susp = "none"
  /\ susp \in ParkPoints =>
       /\ state \in {"DOOR", "SLEEP", "ALARM"}
       /\ stepping => SysMotion
  /\ susp \in {"retract", "parked"} => HoldDone /\ "RETRACT_COMPLETE" \notin suspend

\* A jog is cancelled by a deceleration of its own, and only a line that jogs meets it.
JogInv ==
  /\ "JOG_CANCEL" \in suspend /\ ~abort =>
       \/ state = "JOG" /\ "EXECUTE_HOLD" \in stepCtl
       \/ state = "ALARM" /\ ~Live
  /\ state = "JOG" /\ ~abort => "MOTION_CANCEL" \notin suspend
  /\ state = "JOG" => ctx \in {"init", "enter", "loop", "eol", "tick", "mcline", "jogStart"}
  /\ state = "JOG" /\ ctx \in {"mcline", "jogStart"} => cmd = "jog"

\* A motion is cancelled only while it decelerates or steps; the flag of a probe contact
\* waits for nothing that could start.
CancelInv ==
  /\ probing => ctx \in {"probing", "init"} \/ abort
  /\ state = "CYCLE" /\ "MOTION_CANCEL" \in suspend => "EXECUTE_HOLD" \in stepCtl
  /\ state = "CYCLE" /\ Flagged("MOTION_CANCEL") /\ Live => ctx = "probing" \/ Boot \/ abort
  /\ pc = "start" /\ Live /\ Flagged("MOTION_CANCEL") => state # "IDLE" /\ ~(state = "HOLD" /\ HoldDone)
  /\ /\ state = "DOOR" /\ "RETRACT_COMPLETE" \in suspend /\ Live /\ ~abort
     /\ pc \in {"start", "stop", "tail"} \/ (pc = "run" /\ susp # "tail")
     /\ Flagged("MOTION_CANCEL")
     => stepping \/ Flagged("CYCLE_STOP")

\* A soft limit brings the cycle to a stop, and then its own reset.
SoftInv ==
  /\ softLimit /\ ~abort =>
       /\ susp = "none" /\ suspend = {}
       /\ \/ /\ ctx = "softWait"
             /\ \/ state \in {"CYCLE", "HOLD"}
                \/ state = "IDLE" /\ pc \in {"tail", "run"}
                \/ state = "ALARM" /\ ~Live
          \/ ctx = "softAlarm" /\ state # "ALARM"
          \/ ctx = "mcline" /\ pc \in {"alarm", "critical", "clear", "copy"} /\ ~Live
  /\ ctx = "softAlarm" => /\ pc = "run" /\ susp = "none" /\ suspend = {}
                          /\ Flagged("RESET") => ~stepping
  /\ ctx = "softWait" /\ ~abort =>
       /\ Live => ~Flagged("MOTION_CANCEL")
       /\ pc = "holds" => "MOTION_CANCEL" \notin rtExec

\* Alarms without a reset are those of a probe; the critical ones are those of the limits, and
\* they find no motion that mc_reset() did not kill, but that of homing.
AlarmInv ==
  /\ rtAlarm = "SOFT_LIMIT" => /\ ctx = "mcline" /\ pc \in {"alarm", "critical", "clear"}
                               /\ ~stepping /\ susp = "none" /\ suspend = {}
  /\ rtAlarm = "HARD_LIMIT" => "limit" \in Events /\ (~Live \/ ctx = "init")
  /\ pc = "critical" => ~stepping
  /\ rtAlarm = "HARD_LIMIT" \/ ("limit" \in Events /\ limitsOn /\ Flagged("RESET")) =>
       ~stepping \/ ctx \in HomingLoop
  /\ rtAlarm # "NONE" /\ Live =>
       /\ ctx \in {"loop", "probeEnd"} /\ pc \in {"alarm", "clear"}
       /\ susp = "none" /\ suspend = {} /\ ~stepping /\ ~Flagged("CYCLE_STOP")

\* Sleep is asked for at rest, and entered from there.
SleepInv ==
  /\ Flagged("SLEEP") /\ ~abort =>
       /\ \/ susp = "none" /\ ctx = "loop" /\ pc = "run"
          \/ susp = "none" /\ ctx \in {"tick", "eol"}
             /\ pc \in {"alarm", "critical", "clear", "copy", "holds"}
          \/ susp = "top" /\ pc \in {"alarm", "critical", "clear", "copy", "holds"}
       /\ state \in {"IDLE", "ALARM"} \/ HoldDone
  /\ pc = "holds" /\ "SLEEP" \in rtExec =>
       /\ state \in {"IDLE", "ALARM"} \/ HoldDone
       /\ susp = "top" \/ (susp = "none" /\ ctx \in {"tick", "eol"})
  /\ ctx = "sleepWait" => pc = "run" /\ susp = "none" /\ state = "IDLE"
  /\ susp = "sleepWait" => pc = "run" /\ (state = "IDLE" \/ HoldDone)

\* A restore goes on while the door is closed; re-opened, it retracts again.
RestoreInv ==
  /\ state = "DOOR" /\ "INITIATE_RESTORE" \in suspend => "DOOR_AJAR" \notin suspend \/ abort
  /\ "INITIATE_RESTORE" \in suspend /\ ~abort /\ state # "ALARM" =>
       state \in {"DOOR", "SLEEP"} /\ "RETRACT_COMPLETE" \in suspend
  /\ susp \in RestorePoints /\ ~abort /\ state # "ALARM" =>
       /\ state = "DOOR"
       /\ \/ "RESTART_RETRACT" \in suspend
          \/ {"INITIATE_RESTORE", "HOLD_COMPLETE", "RETRACT_COMPLETE"} \subseteq suspend

\* The start that ends a restore is served at the next check point: nothing comes between
\* but a door, and neither a cancel nor sleep is in its copy.
RestoredInv ==
  "RESTORE_COMPLETE" \in suspend /\ ~abort /\ state # "ALARM" =>
    /\ state = "DOOR" /\ "INITIATE_RESTORE" \in suspend /\ Flagged("CYCLE_START")
    /\ \/ susp = "tail" /\ pc = "run"
       \/ susp = "top" /\ pc \in {"alarm", "copy", "holds", "start"}
    /\ Live => ~Flagged("MOTION_CANCEL")
    /\ Live /\ pc \in {"run", "alarm", "copy"} => ~Flagged("SLEEP")
    /\ pc = "holds" => /\ "SAFETY_DOOR" \in rtExec \/ "FEED_HOLD" \in rtExec
                       /\ "SLEEP" \notin rtExec
    /\ pc \in {"holds", "start"} => "CYCLE_START" \in rtExec
    /\ pc = "start" => /\ "FEED_HOLD" \notin rtExec /\ "MOTION_CANCEL" \notin rtExec
                       /\ "SAFETY_DOOR" \notin rtExec

\* A line that probes finds the machine at rest.
SyncInv ==
  ctx = "synced" /\ cmd = "probe" /\ ~abort /\ Live => ~stepping /\ ~Flagged("CYCLE_STOP")

\* Homing runs outside of the check points, and its end is met by nothing that moves.
HomeInv ==
  /\ ctx \in HomingLoop => state = "HOMING" /\ pc = "run" /\ susp = "none" /\ ~limitsOn
  /\ ctx \in {"nextSwitch", "nextBack", "nextDone"} => ~stepping
  /\ ctx \in {"nextSwitch", "nextDone"} /\ Live => ~Flagged("CYCLE_STOP")
  /\ state = "HOMING" => ctx \in HomingLoop \/ ctx = "homeEnd" \/ abort \/ Boot
  /\ ctx = "homeEnd" /\ ~abort =>
       \/ /\ ~Live /\ pc \in {"alarm", "critical", "clear", "copy"}
          /\ susp = "none" /\ suspend = {}
          /\ state = "HOMING" => pc = "alarm" /\ rtAlarm # "NONE"
       \/ /\ ~stepping /\ ~SysMotion /\ "EXECUTE_HOLD" \notin stepCtl /\ ~HoldDone
          /\ susp \in {"none", "top", "tail"} /\ ~StopCopied /\ (Live => ~Flagged("CYCLE_STOP"))
          /\ \/ state \in {"HOMING", "HOLD", "DOOR"}
             \/ state = "ALARM" /\ ~Live /\ pc \in {"critical", "clear", "copy"}

\* The points without a check point in them.
LineInv ==
  /\ cmd \in Commands \union {"none"}
  /\ ctx = "synced" \/ Boot => pc = "run" /\ susp = "none"
  /\ ctx = "enter" => ~stepping /\ ~Flagged("CYCLE_STOP")

MotionInv ==
  /\ StopInv /\ RestInv /\ VisibleInv /\ HoldInv /\ ParkInv /\ JogInv /\ CancelInv /\ SoftInv
  /\ AlarmInv /\ SleepInv /\ RestoreInv /\ RestoredInv /\ SyncInv /\ HomeInv /\ LineInv

-----------------------------------------------------------------------------
(* Steps of motion and alarms. *)

\* st_prep_buffer() changes no more of the step control than the end of the motion.
LEMMA PrepKeepsControl ==
  ASSUME NEW c, NEW on, PrepBuffer(c, on)
  PROVE  /\ "EXECUTE_HOLD" \in stepCtl' <=> "EXECUTE_HOLD" \in c
         /\ "SYS_MOTION" \in stepCtl' <=> "SYS_MOTION" \in c
<1>1. stepCtl' \in {c, c \union {"END_MOTION"}}
  <2>1. CASE "END_MOTION" \in c
    BY <2>1 DEF PrepBuffer
  <2>2. CASE "END_MOTION" \notin c /\ "SYS_MOTION" \in c
    <3>1. PICK ended \in BOOLEAN : stepCtl' = IF ended THEN c \union {"END_MOTION"} ELSE c
      BY <2>2 DEF PrepBuffer, PrepSystemMotion
    <3> QED
      BY <3>1
  <2>3. CASE "END_MOTION" \notin c /\ "SYS_MOTION" \notin c
    <3>1. PICK ended \in BOOLEAN : stepCtl' = IF ended THEN c \union {"END_MOTION"} ELSE c
      BY <2>3 DEF PrepBuffer, PrepQueue
    <3> QED
      BY <3>1
  <2> QED
    BY <2>1, <2>2, <2>3
<1> QED
  BY <1>1

\* A homing motion is a system motion that nothing decelerates.
LEMMA HomingMotionControl ==
  ASSUME NEW l, HomingMotion(l)
  PROVE  "EXECUTE_HOLD" \notin stepCtl' /\ "SYS_MOTION" \in stepCtl'
<1> DEFINE c == {"SYS_MOTION"}
<1>1. PrepBuffer(c, FALSE) /\ "EXECUTE_HOLD" \notin c /\ "SYS_MOTION" \in c
  BY DEF HomingMotion
<1> HIDE DEF c
<1> QED
  BY <1>1, PrepKeepsControl

\* mc_reset() raises the reset, and stops every motion that it can tell.
LEMMA McResetStops ==
  ASSUME stepping \in BOOLEAN, NEW alarm, McResetWith(alarm)
  PROVE  /\ rtState' = rtState \union {"RESET"} /\ rtAlarm' = alarm
         /\ stepping' => stepping /\ ("RESET" \in rtState \/ ~Moves)
<1>1. InMotion(state, stepCtl) <=> Moves
  BY DEF InMotion, Has, Moves, SysMotion
<1>2. CASE "RESET" \in rtState
  BY <1>2 DEF McResetWith
<1>3. CASE "RESET" \notin rtState
  <2>1. /\ rtState' = rtState \union {"RESET"} /\ rtAlarm' = alarm
        /\ stepping' = (stepping /\ ~InMotion(state, stepCtl))
    BY <1>3 DEF McResetWith
  <2> QED
    BY <1>1, <2>1
<1> QED
  BY <1>2, <1>3

\* A reset that mc_reset() raises by itself leaves no critical alarm.
LEMMA McResetAlarms ==
  ASSUME stepping \in BOOLEAN, McReset
  PROVE  /\ rtState' = rtState \union {"RESET"}
         /\ rtAlarm' \in {rtAlarm, "ABORT_CYCLE", "HOMING_FAIL_RESET"}
         /\ stepping' => stepping /\ ("RESET" \in rtState \/ ~Moves)
<1>1. PICK alarm \in {rtAlarm, AbortAlarm} : McResetWith(alarm)
  BY DEF McReset
<1>2. AbortAlarm \in {rtAlarm, "ABORT_CYCLE", "HOMING_FAIL_RESET"}
  BY DEF AbortAlarm
<1> QED
  BY <1>1, <1>2, McResetStops

\* A line keeps MotionInv.
LEMMA MotionLines ==
  ASSUME TypeOK, ResumeInv, MotionInv, Apart, MainLines
  PROVE  MotionInv'
<1> USE DEF Live, HoldDone, SysMotion, Flagged, Boot, Moves,
   ParkPoints, RestorePoints, StopCopied, AfterPark, HomingLoop, MotionInv, StopInv, RestInv,
   VisibleInv, HoldInv, ParkInv, JogInv, CancelInv, SoftInv, AlarmInv, SleepInv,
   RestoreInv, RestoredInv, SyncInv, HomeInv, LineInv, CriticalAlarms, ResumeInv,
   NothingLeftSuspended, AbortInv, Main, Execute, Call, Goto, AutoStart, AfterLine, sysVars,
   flagVars, motionVars, powerVars, pinVars, modeVars, mainVars, MainFrame, SysFrame,
   LineFrame, HomingFrame
<1>0. /\ state \in {"IDLE", "ALARM", "CHECK", "HOMING", "CYCLE", "HOLD", "JOG", "DOOR", "SLEEP"}
      /\ stepping \in BOOLEAN /\ limitsOn \in BOOLEAN
  BY DEF TypeOK, States
<1>start. "limit" \in Events /\ "RESET" \in rtState /\ ~stepping /\ state' # "HOMING" => ~stepping'
  BY DEF Apart, StartMeetsReset
<1>1. CASE Reinit
  BY <1>1 DEF Reinit, StReset
<1>2. CASE Enter
  BY <1>2 DEF Enter, StartupLine
<1>3. CASE NoData
  BY <1>3 DEF NoData
<1>4. CASE Tick
  BY <1>4 DEF Tick, SleepArmed
<1>5. CASE MainWake
  BY <1>5 DEF MainWake
<1>6. CASE EndOfLine
  BY <1>6 DEF EndOfLine
<1>7. CASE LineAborted
  BY <1>7 DEF LineAborted
<1>8. CASE RejectLine
  BY <1>8 DEF RejectLine
<1>9. CASE ExecUnlock
  BY <1>9 DEF ExecUnlock, Rejected
<1>10. CASE ExecCheck
  <2>1. CASE state = "CHECK"
    <3>1. McReset
      BY <1>10, <2>1 DEF ExecCheck
    <3>2. /\ rtState' = rtState \union {"RESET"}
          /\ rtAlarm' \in {rtAlarm, "ABORT_CYCLE", "HOMING_FAIL_RESET"}
          /\ stepping' => stepping
      BY <1>0, <3>1, McResetAlarms
    <3>3. /\ UNCHANGED <<state, stepCtl, SysFrame, startAuto, blocks, segs, modal, modeVars, cmd, MainFrame>>
          /\ Main("eol") /\ Goto("loop") /\ ~abort /\ cmd = "check"
      BY <1>10, <2>1 DEF ExecCheck
    <3> QED
      BY <1>0, <2>1, <3>2, <3>3
  <2>2. CASE state # "CHECK"
    BY <1>10, <2>2 DEF ExecCheck, Rejected
  <2> QED
    BY <2>1, <2>2
<1>11. CASE ExecSleep
  BY <1>11 DEF ExecSleep, Rejected
<1>12. CASE ExecMove
  BY <1>12 DEF ExecMove, Rejected, SystemLines
<1>13. CASE LineBailsOut
  BY <1>13 DEF LineBailsOut
<1>14. CASE LineWaits
  BY <1>14 DEF LineWaits
<1>15. CASE LineQueued
  BY <1>15 DEF LineQueued
<1>16. CASE JogStart
  <2>1. CASE state = "IDLE" /\ blocks # <<>>
    <3>1. /\ "EXECUTE_HOLD" \in stepCtl' <=> "EXECUTE_HOLD" \in stepCtl
          /\ "SYS_MOTION" \in stepCtl' <=> "SYS_MOTION" \in stepCtl
      BY <1>16, <2>1, PrepKeepsControl DEF JogStart
    <3>2. state' = "JOG" /\ stepping' = TRUE /\ Main("jogStart") /\ Goto("loop")
          /\ UNCHANGED <<SysFrame, rtState, startAuto, rtAlarm, powerVars, modeVars, cmd, MainFrame>>
      BY <1>16, <2>1 DEF JogStart
    <3> QED
      BY <1>0, <1>start, <2>1, <3>1, <3>2
  <2>2. CASE ~(state = "IDLE" /\ blocks # <<>>)
    <3>1. /\ UNCHANGED <<state, stepCtl, motionVars>> /\ Main("jogStart") /\ Goto("loop")
          /\ UNCHANGED <<SysFrame, rtState, startAuto, rtAlarm, powerVars, modeVars, cmd, MainFrame>>
      BY <1>16, <2>2 DEF JogStart
    <3> QED
      BY <3>1
  <2> QED
    BY <2>1, <2>2
<1>17. CASE ExecMoveOut
  BY <1>17 DEF ExecMoveOut, Rejected, SystemLines
<1>18. CASE SoftWait
  BY <1>18 DEF SoftWait
<1>19. CASE SoftAlarm
  <2>1. /\ rtState' = rtState \union {"RESET"} /\ rtAlarm' = "SOFT_LIMIT"
        /\ stepping' => stepping /\ ("RESET" \in rtState \/ ~Moves)
    BY <1>0, <1>19, McResetStops DEF SoftAlarm
  <2> QED
    BY <1>0, <1>19, <2>1 DEF SoftAlarm
<1>20. CASE ExecSync
  BY <1>20 DEF ExecSync, SyncLines, NeedsSync, Rejected, SystemLines
<1>21. CASE SyncWait
  <2>1. ctx' = "synced" /\ cmd = "probe" /\ ~abort => ~stepping /\ "CYCLE_STOP" \notin rtState
    BY <1>21 DEF Apart, SyncEndsMoving
  <2> QED
    BY <1>0, <1>21, <2>1 DEF SyncWait
<1>22. CASE SyncedAccessory
  BY <1>22 DEF SyncedAccessory, Accessories
<1>23. CASE SyncedProgram
  BY <1>23 DEF SyncedProgram
<1>24. CASE SyncedPause
  BY <1>24 DEF SyncedPause
<1>25. CASE Dwelling
  BY <1>25 DEF Dwelling
<1>26. CASE SyncedProbe
  BY <1>26 DEF SyncedProbe
<1>27. CASE ProbeWait
  BY <1>27 DEF ProbeWait
<1>28. CASE ProbeEnd
  BY <1>28 DEF ProbeEnd, StReset
<1>29. CASE ExecHome
  BY <1>29, PrepKeepsControl DEF ExecHome, HomingMotion, Rejected, SystemLines
<1>30. CASE HomingPrep
  BY <1>30, PrepKeepsControl DEF HomingPrep, HomingExit, Has
<1>31. CASE HomingFound
  BY <1>31 DEF HomingFound, StReset
<1>32. CASE HomingFails
  <2>1. Main("homeSwitch") \/ Main("homeBack")
    BY <1>32 DEF HomingFails
  <2>2. PICK alarm \in HomingAlarms \ {"NONE"} : McResetWith(alarm)
    BY <1>32 DEF HomingFails
  <2>3. alarm \notin {"NONE", "HARD_LIMIT", "SOFT_LIMIT"}
    BY <2>1, <2>2 DEF HomingAlarms
  <2>4. /\ rtState' = rtState \union {"RESET"} /\ rtAlarm' = alarm
        /\ stepping' => stepping /\ ("RESET" \in rtState \/ ~Moves)
    BY <1>0, <2>2, McResetStops
  <2>5. Call("homeEnd") /\ UNCHANGED <<HomingFrame, stepCtl, blocks, segs>>
    BY <1>32 DEF HomingFails
  <2> QED
    BY <1>0, <2>1, <2>3, <2>4, <2>5
<1>33. CASE HomingPulledOff
  BY <1>33 DEF HomingPulledOff, StReset, HomingAlarms, HomingExit, Has
<1>34. CASE HomingNext
  <2>1. UNCHANGED <<HomingFrame, rtState, rtAlarm, powered>>
    BY <1>34 DEF HomingNext
  <2>2. ASSUME NEW l \in {"homeSwitch", "homeBack"}, Main("nextSwitch") \/ Main("nextBack"),
               HomingMotion(l), l = "homeBack" => Main("nextBack")
        PROVE  MotionInv'
    <3>1. /\ "EXECUTE_HOLD" \notin stepCtl' /\ "SYS_MOTION" \in stepCtl'
      BY <2>2, HomingMotionControl
    <3>2. stepping' = TRUE /\ Goto(l)
      BY <2>2 DEF HomingMotion
    <3> QED
      BY <1>0, <2>1, <2>2, <3>1, <3>2
  <2>3. CASE Main("nextDone") /\ stepCtl' = {} /\ Call("homeEnd") /\ UNCHANGED motionVars
    BY <2>1, <2>3
  <2> QED
    BY <1>34, <2>2, <2>3 DEF HomingNext
<1>35. CASE HomingEnd
  BY <1>35 DEF HomingEnd, StartupLine
<1> QED
  BY <1>1, <1>2, <1>3, <1>4, <1>5, <1>6, <1>7, <1>8, <1>9, <1>10, <1>11, <1>12, <1>13, <1>14,
     <1>15, <1>16, <1>17, <1>18, <1>19, <1>20, <1>21, <1>22, <1>23, <1>24, <1>25, <1>26,
     <1>27, <1>28, <1>29, <1>30, <1>31, <1>32, <1>33, <1>34, <1>35 DEF MainLines

\* The suspend loop keeps MotionInv.
LEMMA MotionSuspend ==
  ASSUME TypeOK, ResumeInv, MotionInv, Apart, ExecRtSuspend
  PROVE  MotionInv'
<1> USE DEF Live, HoldDone, SysMotion, Flagged, Boot, Moves,
   ParkPoints, RestorePoints, StopCopied, AfterPark, HomingLoop, MotionInv, StopInv, RestInv,
   VisibleInv, HoldInv, ParkInv, JogInv, CancelInv, SoftInv, AlarmInv, SleepInv,
   RestoreInv, RestoredInv, SyncInv, HomeInv, LineInv, CriticalAlarms, At, CallRt, Reached,
   Stopped, Parking, DoorParked, Holding, ParkSkip, RestoreStep, SuspFrame, sysVars, flagVars,
   motionVars, powerVars, pinVars, modeVars, mainVars
<1>0. /\ state \in {"IDLE", "ALARM", "CHECK", "HOMING", "CYCLE", "HOLD", "JOG", "DOOR", "SLEEP"}
      /\ stepping \in BOOLEAN /\ limitsOn \in BOOLEAN
  BY DEF TypeOK, States
<1>start. "limit" \in Events /\ "RESET" \in rtState /\ ~stepping /\ state' # "HOMING" => ~stepping'
  BY DEF Apart, StartMeetsReset
<1>1. CASE SuspLeave
  BY <1>1 DEF SuspLeave
<1>2. CASE SuspMoving
  BY <1>2 DEF SuspMoving
<1>3. CASE ParkWait
  BY <1>3 DEF ParkWait
<1>4. CASE RetractBegin
  BY <1>4, <1>0, <1>start, PrepKeepsControl DEF RetractBegin, ParkMotion, ParkStart
<1>5. CASE RetractFast
  BY <1>5, <1>0, <1>start, PrepKeepsControl DEF RetractFast, ParkMotion, ParkStart
<1>6. CASE RetractEnd
  BY <1>6 DEF RetractEnd
<1>7. CASE FallAsleep
  BY <1>7, <1>0 DEF FallAsleep
<1>8. CASE StayAsleep
  BY <1>8 DEF StayAsleep
<1>9. CASE DoorCheck
  BY <1>9, <1>0, <1>start, PrepKeepsControl DEF DoorCheck, ParkMotion, ParkStart
<1>10. CASE RestoreSpindle
  BY <1>10 DEF RestoreSpindle
<1>11. CASE RestoreCoolant
  BY <1>11 DEF RestoreCoolant
<1>12. CASE DelayOn
  BY <1>12 DEF DelayOn
<1>13. CASE Plunge
  BY <1>13, <1>0, <1>start, PrepKeepsControl DEF Plunge, ParkMotion, ParkStart
<1>14. CASE RestoreEnd
  BY <1>14 DEF RestoreEnd
<1>15. CASE HoldIdle
  BY <1>15 DEF HoldIdle
<1>16. CASE OverrideStop
  BY <1>16 DEF OverrideStop
<1>17. CASE OverrideKeep
  BY <1>17 DEF OverrideKeep
<1>18. CASE OverrideRestore
  BY <1>18 DEF OverrideRestore
<1>19. CASE OverrideEnd
  BY <1>19 DEF OverrideEnd
<1>20. CASE SuspTail
  BY <1>20, <1>0 DEF SuspTail, SleepArmed
<1>21. CASE SuspWake
  BY <1>21 DEF SuspWake
<1> QED
  BY <1>1, <1>2, <1>3, <1>4, <1>5, <1>6, <1>7, <1>8, <1>9, <1>10, <1>11, <1>12, <1>13, <1>14,
     <1>15, <1>16, <1>17, <1>18, <1>19, <1>20, <1>21 DEF ExecRtSuspend

\* An interrupt keeps MotionInv.
LEMMA MotionInterrupts ==
  ASSUME TypeOK, ResumeInv, MotionInv, Apart, Interrupts
  PROVE  MotionInv'
<1> USE DEF Live, HoldDone, SysMotion, Flagged, Boot, Moves,
   ParkPoints, RestorePoints, StopCopied, AfterPark, HomingLoop, MotionInv, StopInv, RestInv,
   VisibleInv, HoldInv, ParkInv, JogInv, CancelInv, SoftInv, AlarmInv, SleepInv,
   RestoreInv, RestoredInv, SyncInv, HomeInv, LineInv, CriticalAlarms, RaiseFlag,
   McResetFrame, sysVars, flagVars, execVars, motionVars, powerVars, pinVars, modeVars,
   mainVars
<1>0. /\ state \in {"IDLE", "ALARM", "CHECK", "HOMING", "CYCLE", "HOLD", "JOG", "DOOR", "SLEEP"}
      /\ stepping \in BOOLEAN /\ limitsOn \in BOOLEAN
  BY DEF TypeOK, States
<1>1. CASE StepSegment
  <2>1. UNCHANGED <<sysVars, flagVars, execVars, stepping, pinVars, modeVars, mainVars>>
    BY <1>1 DEF StepSegment
  <2> QED
    BY <2>1
<1>2. CASE StepDone
  BY <1>2, <1>0 DEF StepDone
<1>3. CASE ProbeContact
  BY <1>3, <1>0 DEF ProbeContact, ResumeInv, AbortInv
<1>4. CASE RxReset
  <2>1. /\ rtState' = rtState \union {"RESET"}
        /\ rtAlarm' \in {rtAlarm, "ABORT_CYCLE", "HOMING_FAIL_RESET"}
        /\ stepping' => stepping /\ ("RESET" \in rtState \/ ~Moves)
    BY <1>0, <1>4, McResetAlarms DEF RxReset
  <2> QED
    BY <1>0, <1>4, <2>1 DEF RxReset
<1>5. CASE LimitIsr
  <2>1. /\ rtState' = rtState \union {"RESET"} /\ rtAlarm' = "HARD_LIMIT"
        /\ stepping' => stepping /\ ("RESET" \in rtState \/ ~Moves)
    BY <1>0, <1>5, McResetStops DEF LimitIsr
  <2>2. "limit" \in Events /\ state # "ALARM" /\ rtAlarm = "NONE"
    BY <1>5 DEF LimitIsr
  <2> QED
    BY <1>0, <1>5, <2>1, <2>2 DEF LimitIsr
<1>6. CASE RxStart
  BY <1>6 DEF RxStart
<1>7. CASE RxHold
  BY <1>7 DEF RxHold
<1>8. CASE RxDoor
  BY <1>8 DEF RxDoor
<1>9. CASE RxJogCancel
  BY <1>9 DEF RxJogCancel
<1>10. CASE RxSpindleStop
  BY <1>10 DEF RxSpindleStop
<1>11. CASE PinMoves
  BY <1>11 DEF PinMoves
<1>12. CASE PinsDebounced
  BY <1>12, <1>0 DEF PinsDebounced
<1> QED
  BY <1>1, <1>2, <1>3, <1>4, <1>5, <1>6, <1>7, <1>8, <1>9, <1>10, <1>11, <1>12 DEF Interrupts

\* What the executor knows of a copy at the block it has reached.
LEMMA NextBlockFlags ==
  ASSUME NEW ex
  PROVE  /\ NextBlock(ex, 0) = "holds" <=> Has(ex, HoldFlags)
         /\ \A done \in {0, 1} : NextBlock(ex, done) = "start" <=>
              "CYCLE_START" \in ex /\ NextBlock(ex, done) # "holds"
         /\ \A done \in {0, 1, 2} : NextBlock(ex, done) = "stop" => "CYCLE_STOP" \in ex
BY DEF NextBlock

\* The hold block's deceleration, and what the flags but the door and sleep make of sys.
Decelerates == state \in {"CYCLE", "JOG"} /\ "MOTION_CANCEL" \notin suspend /\ "JOG_CANCEL" \notin suspend
HeldCtl == IF Decelerates THEN {"EXECUTE_HOLD"} ELSE stepCtl
JogHeld == Decelerates /\ state = "JOG" /\ "SLEEP" \notin rtExec
CancelHeld == "MOTION_CANCEL" \in rtExec /\ state # "JOG"
HeldSuspend ==
  (IF state = "IDLE" THEN {"HOLD_COMPLETE"} ELSE suspend)
    \union (IF JogHeld THEN {"JOG_CANCEL"} ELSE {})
    \union (IF CancelHeld THEN {"MOTION_CANCEL"} ELSE {})
HeldState == IF "FEED_HOLD" \in rtExec /\ state \notin {"DOOR", "JOG", "SLEEP"} THEN "HOLD" ELSE state
Reopens == HeldState = "DOOR" /\ "INITIATE_RESTORE" \in HeldSuspend

Asleep(st) == IF "SLEEP" \in rtExec THEN "SLEEP" ELSE st

\* In alarm and in check mode the hold flags do nothing, but sleep.
LEMMA HoldsNotAllowed ==
  ASSUME RtHolds, state \in {"ALARM", "CHECK"}
  PROVE  /\ state' = Asleep(state) /\ stepCtl' = stepCtl
         /\ suspend' = suspend \union (IF "SLEEP" \in rtExec /\ state = "ALARM"
                                       THEN {"RETRACT_COMPLETE", "HOLD_COMPLETE"} ELSE {})
BY DEF RtHolds, AfterHolds, HoldAllowed, EnterSleep, Asleep

\* What the hold block does elsewhere.
LEMMA HoldsEffect ==
  ASSUME RtHolds, state \notin {"ALARM", "CHECK"}
  PROVE  /\ "SAFETY_DOOR" \notin rtExec =>
              state' = Asleep(HeldState) /\ suspend' = HeldSuspend /\ stepCtl' = HeldCtl
         /\ "SAFETY_DOOR" \in rtExec /\ "JOG_CANCEL" \in HeldSuspend =>
              /\ state' = Asleep(HeldState) /\ stepCtl' = HeldCtl
              /\ suspend' = HeldSuspend \union {"DOOR_AJAR"}
         /\ "SAFETY_DOOR" \in rtExec /\ "JOG_CANCEL" \notin HeldSuspend =>
              /\ state' = Asleep(IF HeldState = "SLEEP" THEN "SLEEP" ELSE "DOOR")
              /\ ~Reopens => stepCtl' = HeldCtl /\ suspend' = HeldSuspend \union {"DOOR_AJAR"}
              /\ Reopens =>
                   /\ stepCtl' = IF "SYS_MOTION" \in HeldCtl THEN {"EXECUTE_HOLD", "SYS_MOTION"}
                                                             ELSE HeldCtl
                   /\ suspend' = (HeldSuspend \ ({"RETRACT_COMPLETE", "INITIATE_RESTORE", "RESTORE_COMPLETE"}
                                    \union IF "SYS_MOTION" \in HeldCtl THEN {"HOLD_COMPLETE"} ELSE {}))
                                   \union {"RESTART_RETRACT", "DOOR_AJAR"}
<1> DEFINE r == [state |-> state, suspend |-> suspend, stepCtl |-> stepCtl]
           b == BeginHold(r, rtExec)
           c == CancelMotion(b, rtExec)
           f == FeedHold(c, rtExec)
           d == SafetyDoor(f, rtExec)
           e == EnterSleep(d, rtExec)
<1>1. /\ b = [state |-> state, suspend |-> b.suspend, stepCtl |-> HeldCtl]
      /\ b.suspend = (IF state = "IDLE" THEN {"HOLD_COMPLETE"} ELSE suspend)
                       \union (IF JogHeld THEN {"JOG_CANCEL"} ELSE {})
  BY DEF BeginHold, HeldCtl, JogHeld, Decelerates, Has
<1>2. c = [state |-> state, suspend |-> HeldSuspend, stepCtl |-> HeldCtl]
  BY <1>1 DEF CancelMotion, HeldSuspend, CancelHeld
<1>3. f = [state |-> HeldState, suspend |-> HeldSuspend, stepCtl |-> HeldCtl]
  BY <1>2 DEF FeedHold, HeldState
<1>4. state' = e.state /\ suspend' = e.suspend /\ stepCtl' = e.stepCtl
  BY DEF RtHolds, AfterHolds, HoldAllowed
<1>5. d.state # "ALARM" => /\ state' = Asleep(d.state) /\ suspend' = d.suspend
                           /\ stepCtl' = d.stepCtl
  <2>1. d = [state |-> d.state, suspend |-> d.suspend, stepCtl |-> d.stepCtl]
    BY <1>3 DEF SafetyDoor, ReopenDoor
  <2> HIDE DEF d
  <2> QED
    BY <1>4, <2>1 DEF EnterSleep, Asleep
<1>6. HeldState # "ALARM"
  BY DEF HeldState
<1>7. CASE "SAFETY_DOOR" \notin rtExec
  BY <1>3, <1>5, <1>6, <1>7 DEF SafetyDoor
<1>8. CASE "SAFETY_DOOR" \in rtExec /\ "JOG_CANCEL" \in HeldSuspend
  <2>1. d = [state |-> HeldState, suspend |-> HeldSuspend \union {"DOOR_AJAR"}, stepCtl |-> HeldCtl]
    BY <1>3, <1>8 DEF SafetyDoor
  <2> QED
    BY <1>5, <1>6, <1>8, <2>1
<1>9. CASE "SAFETY_DOOR" \in rtExec /\ "JOG_CANCEL" \notin HeldSuspend
  <2> DEFINE o == ReopenDoor(f)
  <2>1. d = [state |-> IF o.state = "SLEEP" THEN "SLEEP" ELSE "DOOR",
             suspend |-> o.suspend \union {"DOOR_AJAR"}, stepCtl |-> o.stepCtl]
    <3>1. o = [state |-> o.state, suspend |-> o.suspend, stepCtl |-> o.stepCtl]
      BY <1>3 DEF ReopenDoor
    <3>2. "SAFETY_DOOR" \in rtExec /\ "JOG_CANCEL" \notin f.suspend
      BY <1>3, <1>9
    <3> HIDE DEF f
    <3>3. d = [[o EXCEPT !.state = IF @ = "SLEEP" THEN @ ELSE "DOOR"]
                 EXCEPT !.suspend = @ \union {"DOOR_AJAR"}]
      BY <3>2 DEF SafetyDoor
    <3> HIDE DEF d, o
    <3> QED
      BY <3>1, <3>3
  <2>2. o.state = HeldState
    BY <1>3 DEF ReopenDoor
  <2>3. ~Reopens => o.suspend = HeldSuspend /\ o.stepCtl = HeldCtl
    BY <1>3 DEF ReopenDoor, Reopens
  <2>4. Reopens =>
          /\ o.stepCtl = IF "SYS_MOTION" \in HeldCtl THEN {"EXECUTE_HOLD", "SYS_MOTION"} ELSE HeldCtl
          /\ o.suspend = (HeldSuspend \ ({"RETRACT_COMPLETE", "INITIATE_RESTORE", "RESTORE_COMPLETE"}
                              \union IF "SYS_MOTION" \in HeldCtl THEN {"HOLD_COMPLETE"} ELSE {}))
                             \union {"RESTART_RETRACT"}
    BY <1>3 DEF ReopenDoor, Reopens
  <2> HIDE DEF d, o
  <2> QED
    BY <1>5, <1>9, <2>1, <2>2, <2>3, <2>4
<1> QED
  BY <1>7, <1>8, <1>9

\* The executor keeps MotionInv.
LEMMA MotionExecutor ==
  ASSUME TypeOK, ResumeInv, MotionInv, Apart, ExecRtSystem
  PROVE  MotionInv'
<1> USE DEF Live, HoldDone, SysMotion, Flagged, Boot, Moves,
   ParkPoints, RestorePoints, StopCopied, AfterPark, HomingLoop, MotionInv, StopInv, RestInv,
   VisibleInv, HoldInv, ParkInv, JogInv, CancelInv, SoftInv, AlarmInv, SleepInv,
   RestoreInv, RestoredInv, SyncInv, HomeInv, LineInv, CriticalAlarms, ExecFrame, sysVars,
   flagVars, motionVars, powerVars, pinVars, modeVars, mainVars
<1>0. /\ state \in {"IDLE", "ALARM", "CHECK", "HOMING", "CYCLE", "HOLD", "JOG", "DOOR", "SLEEP"}
      /\ stepping \in BOOLEAN /\ limitsOn \in BOOLEAN
      /\ suspend \subseteq SuspendFlags /\ AbortInv /\ NothingLeftSuspended
  BY DEF TypeOK, States, ResumeInv
<1>start. "limit" \in Events /\ "RESET" \in rtState /\ ~stepping /\ state' # "HOMING" => ~stepping'
  BY DEF Apart, StartMeetsReset
<1>1. CASE RtAlarm
  BY <1>1, <1>0 DEF RtAlarm
<1>2. CASE RtCritical
  BY <1>2 DEF RtCritical
<1>3. CASE RtClearAlarm
  BY <1>3, <1>0 DEF RtClearAlarm
<1>4. CASE RtCopy
  <2>1. CASE "RESET" \in rtState
    BY <1>0, <1>4, <2>1 DEF RtCopy, AbortInv
  <2>2. CASE "RESET" \notin rtState
    <3>1. /\ pc = "copy" /\ rtExec' = rtState /\ UNCHANGED <<abort, susp>>
          /\ UNCHANGED <<state, suspend, stepCtl, softLimit, stopOvr, flagVars, motionVars, powerVars,
                         pinVars, modeVars, ctx, cmd, restore>>
      BY <1>4, <2>2 DEF RtCopy
    <3>2. /\ pc' \in {"holds", "start", "stop", "tail"}
          /\ pc' # "holds" => /\ "FEED_HOLD" \notin rtState /\ "MOTION_CANCEL" \notin rtState
                              /\ "SAFETY_DOOR" \notin rtState /\ "SLEEP" \notin rtState
          /\ pc' = "holds" => \/ "FEED_HOLD" \in rtState \/ "MOTION_CANCEL" \in rtState
                              \/ "SAFETY_DOOR" \in rtState \/ "SLEEP" \in rtState
          /\ pc' = "stop" => "CYCLE_STOP" \in rtState
          /\ "CYCLE_START" \in rtState => pc' \in {"holds", "start"}
      <4>1. pc' = NextBlock(rtState, 0)
        BY <1>4, <2>2 DEF RtCopy
      <4> QED
        BY <4>1, NextBlockOrder, NextBlockFlags DEF Has, HoldFlags
    <3>3. ~abort
      BY <1>0, <2>2, <3>1 DEF AbortInv
    <3> QED
      BY <1>0, <2>2, <3>1, <3>2, <3>3
  <2> QED
    BY <2>1, <2>2
<1>5. CASE RtHolds
  <2>1. /\ pc = "holds" /\ rtState' = rtState \ {"MOTION_CANCEL", "FEED_HOLD", "SAFETY_DOOR", "SLEEP"}
        /\ UNCHANGED <<abort, softLimit, stopOvr, rtAlarm, rtStopOvr, startAuto, rtExec, execAuto, ExecFrame>>
    BY <1>5 DEF RtHolds, HoldFlags
  <2>2. /\ pc' \in {"start", "stop", "tail"}
        /\ pc' = "stop" => "CYCLE_STOP" \in rtExec
        /\ pc' = "start" <=> "CYCLE_START" \in rtExec
    <3>1. pc' = NextBlock(rtExec, 1)
      BY <1>5 DEF RtHolds
    <3> QED
      BY <3>1, NextBlockOrder, NextBlockFlags
  <2>3. ~abort
    BY <1>0, <2>1 DEF AbortInv
  <2>4. Has(rtExec, HoldFlags)
    BY <2>1 DEF ResumeInv, AutoStartInv
  <2>5. \/ "MOTION_CANCEL" \in rtExec \/ "FEED_HOLD" \in rtExec \/ "SAFETY_DOOR" \in rtExec
        \/ "SLEEP" \in rtExec
    BY <2>4 DEF Has, HoldFlags
  <2>apart. /\ ~("RESTORE_COMPLETE" \in suspend /\ "FEED_HOLD" \in rtExec /\ "SAFETY_DOOR" \notin rtExec)
         /\ ~(softLimit /\ "SAFETY_DOOR" \in rtExec)
    BY <1>5 DEF Apart, HoldMeetsRestored, DoorMeetsSoftLimit
  <2>6. CASE state \in {"ALARM", "CHECK"}
    <3>1. /\ state' = Asleep(state) /\ stepCtl' = stepCtl
          /\ suspend' = suspend \union (IF "SLEEP" \in rtExec /\ state = "ALARM"
                                        THEN {"RETRACT_COMPLETE", "HOLD_COMPLETE"} ELSE {})
      BY <1>5, <2>6, HoldsNotAllowed
    <3> QED
      BY <1>0, <2>1, <2>2, <2>3, <2>5, <2>apart, <2>6, <3>1 DEF Asleep
  <2>7. CASE state \notin {"ALARM", "CHECK"} /\ "SAFETY_DOOR" \notin rtExec
    <3>1. state' = Asleep(HeldState) /\ suspend' = HeldSuspend /\ stepCtl' = HeldCtl
      BY <1>5, <2>7, HoldsEffect
    <3> QED
      BY <1>0, <2>1, <2>2, <2>3, <2>5, <2>apart, <2>7, <3>1
      DEF Asleep, HeldState, HeldSuspend, HeldCtl, Decelerates, JogHeld, CancelHeld
  <2>8. CASE state \notin {"ALARM", "CHECK"} /\ "SAFETY_DOOR" \in rtExec /\ "JOG_CANCEL" \in HeldSuspend
    <3>1. /\ state' = Asleep(HeldState) /\ stepCtl' = HeldCtl
          /\ suspend' = HeldSuspend \union {"DOOR_AJAR"}
      BY <1>5, <2>8, HoldsEffect
    <3> QED
      BY <1>0, <2>1, <2>2, <2>3, <2>5, <2>apart, <2>8, <3>1
      DEF Asleep, HeldState, HeldSuspend, HeldCtl, Decelerates, JogHeld, CancelHeld
  <2>9. CASE state \notin {"ALARM", "CHECK"} /\ "SAFETY_DOOR" \in rtExec /\ "JOG_CANCEL" \notin HeldSuspend
    <3>1. state' = Asleep(IF HeldState = "SLEEP" THEN "SLEEP" ELSE "DOOR")
      BY <1>5, <2>9, HoldsEffect
    <3>2. CASE ~Reopens
      <4>1. stepCtl' = HeldCtl /\ suspend' = HeldSuspend \union {"DOOR_AJAR"}
        BY <1>5, <2>9, <3>2, HoldsEffect
      <4> QED
        BY <1>0, <2>1, <2>2, <2>3, <2>5, <2>apart, <2>9, <3>1, <3>2, <4>1
        DEF Asleep, HeldState, HeldSuspend, HeldCtl, Decelerates, JogHeld, CancelHeld, Reopens
    <3>3. CASE Reopens
      <4>1. /\ stepCtl' = IF "SYS_MOTION" \in HeldCtl THEN {"EXECUTE_HOLD", "SYS_MOTION"} ELSE HeldCtl
            /\ suspend' = (HeldSuspend \ ({"RETRACT_COMPLETE", "INITIATE_RESTORE", "RESTORE_COMPLETE"}
                             \union IF "SYS_MOTION" \in HeldCtl THEN {"HOLD_COMPLETE"} ELSE {}))
                            \union {"RESTART_RETRACT", "DOOR_AJAR"}
        BY <1>5, <2>9, <3>3, HoldsEffect
      <4> QED
        BY <1>0, <2>1, <2>2, <2>3, <2>5, <2>apart, <2>9, <3>1, <3>3, <4>1
        DEF Asleep, HeldState, HeldSuspend, HeldCtl, Decelerates, JogHeld, CancelHeld, Reopens
    <3> QED
      BY <3>2, <3>3
  <2> QED
    BY <2>6, <2>7, <2>8, <2>9
<1>6. CASE RtStart
  <2>1. /\ pc = "start" /\ rtState' = rtState \ {"CYCLE_START"}
        /\ UNCHANGED <<abort, softLimit, rtAlarm, rtStopOvr, rtExec, execAuto, powerVars, pinVars,
                       modeVars, mainVars>>
    BY <1>6 DEF RtStart
  <2>2. pc' \in {"stop", "tail"} /\ (pc' = "stop" => "CYCLE_STOP" \in rtExec)
    <3>1. pc' = NextBlock(rtExec, 2)
      BY <1>6 DEF RtStart
    <3> QED
      BY <3>1, NextBlockOrder, NextBlockFlags
  <2>3. ~abort
    BY <1>0, <2>1 DEF AbortInv
  <2> DEFINE q == [state |-> state, suspend |-> suspend, stepCtl |-> stepCtl]
             r == ResumeDoor(q)
             resumes == state = "DOOR" /\ "DOOR_AJAR" \notin suspend
  <2>4. /\ r.state = IF resumes /\ "RESTORE_COMPLETE" \in suspend THEN "IDLE" ELSE state
        /\ resumes /\ "RETRACT_COMPLETE" \in suspend /\ "RESTORE_COMPLETE" \notin suspend =>
             r.suspend = suspend \union {"INITIATE_RESTORE"}
        /\ ~(resumes /\ "RETRACT_COMPLETE" \in suspend /\ "RESTORE_COMPLETE" \notin suspend) =>
             r.suspend = suspend
    BY DEF ResumeDoor, Has
  <2>5. CASE StartBlocked(rtExec)
    <3>1. /\ UNCHANGED <<state, suspend, stepCtl, stopOvr, motionVars>>
          /\ \/ "MOTION_CANCEL" \in rtExec \/ "FEED_HOLD" \in rtExec \/ "SAFETY_DOOR" \in rtExec
      BY <1>6, <2>5 DEF RtStart, StartBlocked, Has
    <3> QED
      BY <1>0, <2>1, <2>2, <2>3, <3>1
  <2>6. CASE ~StartBlocked(rtExec) /\ ~MayStart(r)
    <3>1. state' = r.state /\ suspend' = r.suspend /\ UNCHANGED <<stepCtl, stopOvr, motionVars>>
      BY <1>6, <2>6 DEF RtStart
    <3>2. r.state # "IDLE" /\ ~(r.state = "HOLD" /\ "HOLD_COMPLETE" \in r.suspend)
      BY <2>6 DEF MayStart
    <3> HIDE DEF r
    <3> QED
      BY <1>0, <2>1, <2>2, <2>3, <2>4, <3>1, <3>2
  <2>7. CASE ~StartBlocked(rtExec) /\ MayStart(r) /\ r.state = "HOLD" /\ stopOvr # {}
    <3>1. UNCHANGED <<state, suspend, stepCtl, motionVars>>
      BY <1>6, <2>7 DEF RtStart
    <3>2. state = "HOLD"
      BY <2>4, <2>7
    <3> QED
      BY <1>0, <2>1, <2>2, <2>3, <3>1, <3>2
  <2>8. CASE ~StartBlocked(rtExec) /\ MayStart(r) /\ ~(r.state = "HOLD" /\ stopOvr # {})
    <3>1. StartQueue(r)
      BY <1>6, <2>8 DEF RtStart
    <3>2. r.state = "IDLE" \/ (r.state = "HOLD" /\ "HOLD_COMPLETE" \in r.suspend)
      BY <2>8 DEF MayStart
    <3>3. suspend' = {}
      BY <3>1 DEF StartQueue
    <3>4. "EXECUTE_HOLD" \notin stepCtl' /\ "SYS_MOTION" \notin stepCtl'
          /\ \/ state' = "CYCLE" /\ stepping' = TRUE
             \/ state' = "IDLE" /\ stepping' = stepping
      <4>1. CASE blocks # <<>> /\ "MOTION_CANCEL" \notin r.suspend
        <5> DEFINE none == {}
        <5>1. PrepBuffer(none, FALSE) /\ "EXECUTE_HOLD" \notin none /\ "SYS_MOTION" \notin none
          BY <3>1, <4>1 DEF StartQueue
        <5>2. state' = "CYCLE" /\ stepping' = TRUE
          BY <3>1, <4>1 DEF StartQueue
        <5> HIDE DEF none
        <5> QED
          BY <5>1, <5>2, PrepKeepsControl
      <4>2. CASE ~(blocks # <<>> /\ "MOTION_CANCEL" \notin r.suspend)
        BY <3>1, <4>2 DEF StartQueue
      <4> QED
        BY <4>1, <4>2
    <3> HIDE DEF r
    <3> QED
      BY <1>0, <1>start, <2>1, <2>2, <2>3, <2>4, <3>2, <3>3, <3>4
  <2> QED
    BY <2>5, <2>6, <2>7, <2>8
<1>7. CASE RtStop
  <2>1. /\ pc = "stop" /\ pc' = "tail" /\ rtState' = rtState \ {"CYCLE_STOP"}
        /\ UNCHANGED <<abort, softLimit, stopOvr, rtAlarm, rtStopOvr, startAuto, rtExec, execAuto,
                       powerVars, pinVars, modeVars, mainVars>>
    BY <1>7 DEF RtStop
  <2>2. ~abort
    BY <1>0, <2>1 DEF AbortInv
  <2>3. CASE HoldStays
    <3>1. /\ suspend' = IF "EXECUTE_HOLD" \in stepCtl
                        THEN suspend \union {"HOLD_COMPLETE"} ELSE suspend
          /\ stepCtl' = stepCtl \ {"EXECUTE_HOLD", "SYS_MOTION"}
          /\ UNCHANGED <<state, motionVars>>
      BY <1>7, <2>3 DEF RtStop
    <3> QED
      BY <1>0, <2>1, <2>2, <2>3, <3>1 DEF HoldStays
  <2>4. CASE ~HoldStays
    <3>1. \/ stepCtl' = {} /\ stepping' = FALSE
          \/ "JOG_CANCEL" \notin suspend /\ stepCtl' = stepCtl /\ stepping' = stepping
      BY <1>7, <2>4 DEF RtStop, StReset
    <3>2. IF "DOOR_AJAR" \in suspend
          THEN /\ suspend' = (suspend \ {"JOG_CANCEL"}) \union {"HOLD_COMPLETE"}
               /\ state' = "DOOR"
          ELSE suspend' = {} /\ state' = "IDLE"
      BY <1>7, <2>4 DEF RtStop
    <3> QED
      BY <1>0, <2>1, <2>2, <2>4, <3>1, <3>2 DEF HoldStays
  <2> QED
    BY <2>3, <2>4
<1>8. CASE RtTail
  <2>1. /\ pc = "tail" /\ pc' = "run" /\ rtExec' = {}
        /\ susp' = IF susp = "none" /\ suspend # {} THEN "top" ELSE susp
        /\ UNCHANGED <<state, suspend, abort, softLimit, rtState, rtAlarm, startAuto, stepping,
                       powerVars, pinVars, modeVars, ctx, cmd>>
    BY <1>8 DEF RtTail
  <2>2. /\ "EXECUTE_HOLD" \in stepCtl' <=> "EXECUTE_HOLD" \in stepCtl
        /\ "SYS_MOTION" \in stepCtl' <=> "SYS_MOTION" \in stepCtl
    BY <1>8, PrepKeepsControl DEF RtTail
  <2>3. ~abort
    BY <1>0, <2>1 DEF AbortInv
  <2> QED
    BY <1>0, <2>1, <2>2, <2>3 DEF NothingLeftSuspended
<1> QED
  BY <1>1, <1>2, <1>3, <1>4, <1>5, <1>6, <1>7, <1>8 DEF ExecRtSystem

\* Who writes the state: few lines, and no interrupt.
LEMMA LinesKeepState ==
  ASSUME MainLines
  PROVE  state' = state \/ Enter \/ ExecUnlock \/ ExecCheck \/ JogStart \/ ExecHome \/ HomingEnd
BY DEF MainLines, Reinit, NoData, Tick, MainWake, EndOfLine, LineAborted, RejectLine,
   ExecSleep, ExecMove, LineBailsOut, LineWaits, LineQueued, ExecMoveOut, SoftWait, SoftAlarm,
   ExecSync, SyncWait, SyncedAccessory, SyncedProgram, SyncedPause, Dwelling, SyncedProbe,
   ProbeWait, ProbeEnd, HomingPrep, HomingFound, HomingFails, HomingPulledOff, HomingNext,
   sysVars, LineFrame, HomingFrame

\* Power-up: in alarm, at rest, in the reset loop.
LEMMA MotionInit == Init => MotionInv
BY DEF Init, Live, HoldDone, SysMotion, Flagged, Boot, Moves, ParkPoints, RestorePoints,
   StopCopied, AfterPark, HomingLoop, CriticalAlarms, MotionInv, StopInv, RestInv, VisibleInv,
   HoldInv, ParkInv, JogInv, CancelInv, SoftInv, AlarmInv, SleepInv, RestoreInv,
   RestoredInv, SyncInv, HomeInv, LineInv

\* What the four theorems rest on.
MotionState == TypeOK /\ ResumeInv /\ MotionInv

\* Every step keeps MotionInv.
LEMMA MotionNext ==
  ASSUME MotionState, [Next]_vars, [Apart]_vars
  PROVE  MotionState'
<1> USE DEF MotionState
<1>1. TypeOK' /\ ResumeInv'
  BY TypeNext, NothingSuspendedNext, ResumeInvNext DEF ResumeInv
<1>2. CASE UNCHANGED vars
  BY <1>1, <1>2 DEF vars, sysVars, flagVars, execVars, motionVars, powerVars, pinVars, modeVars,
     mainVars, Live, HoldDone, SysMotion, Flagged, Boot, Moves, ParkPoints, RestorePoints,
     StopCopied, AfterPark, HomingLoop, MotionInv, StopInv, RestInv, VisibleInv, HoldInv, ParkInv,
     JogInv, CancelInv, SoftInv, AlarmInv, SleepInv, RestoreInv, RestoredInv, SyncInv,
     HomeInv, LineInv
<1>3. CASE Next /\ Apart
  BY <1>1, <1>3, MotionExecutor, MotionSuspend, MotionLines, MotionInterrupts DEF Next, MainProgram
<1> QED
  BY <1>2, <1>3

\* MotionInv along every behaviour without these steps.
LEMMA MotionHolds == Spec /\ [][Apart]_vars => []MotionState
<1>1. Init => MotionState
  BY InitType, ResumeInvInit, MotionInit DEF MotionState
<1>2. MotionState /\ [Next]_vars /\ [Apart]_vars => MotionState'
  BY MotionNext
<1> QED
  BY <1>1, <1>2, PTL DEF Spec

\* A motion never goes on unseen: while the stepper steps, mc_reset() can tell it by the state
\* or the step control and kills it, and an idle machine stands still.
THEOREM MotionVisibleHolds == Spec /\ [][Apart]_vars => []MotionVisible
<1>1. MotionState => MotionVisible
  <2> SUFFICES ASSUME MotionState PROVE MotionVisible
    OBVIOUS
  <2>1. InMotion(state, stepCtl) <=> Moves
    BY DEF InMotion, Has, Moves, SysMotion
  <2> QED
    BY <2>1 DEF MotionState, MotionInv, MotionVisible, VisibleInv, RestInv, AlarmInv, Flagged, Live
<1> QED
  BY <1>1, MotionHolds, PTL

\* A hold that counts as complete is at rest, however the hold, a door, sleep, homing and a
\* reset come together, but for the parking motion it makes itself.
THEOREM HoldAtRestHolds == Spec /\ [][Apart]_vars => []HoldAtRest
<1>1. MotionState => HoldAtRest
  BY DEF MotionState, ResumeInv, AbortInv, MotionInv, HoldAtRest, HoldInv, AlarmInv, HoldDone,
     SysMotion
<1> QED
  BY <1>1, MotionHolds, PTL

\* The machine stands still in alarm, or a reset is under way.
THEOREM AlarmStillHolds == Spec /\ [][Apart]_vars => []AlarmStill
<1>1. MotionState => AlarmStill
  BY DEF MotionState, MotionInv, AlarmStill, RestInv, AlarmInv, Flagged, Live
<1> QED
  BY <1>1, MotionHolds, PTL

\* Neither a start, nor the end of a hold, of a door stop, of sleep or of homing, nor a reset
\* leaves an alarm or sleep: only $X and $H do.
THEOREM LockKeptHolds == Spec /\ [][Apart]_vars => LockKept
<1>1. MotionState /\ [Next]_vars =>
        [(state \in {"ALARM", "SLEEP"} /\ state' \notin {"ALARM", "SLEEP"})
         => (ctx = "eol" /\ cmd \in {"unlock", "home"})]_vars
  <2> SUFFICES ASSUME MotionState, Next, state \in {"ALARM", "SLEEP"},
                      state' \notin {"ALARM", "SLEEP"}
               PROVE  ctx = "eol" /\ cmd \in {"unlock", "home"}
    BY DEF vars, sysVars
  <2>1. /\ state \in {"ALARM", "SLEEP"} /\ state' \notin {"ALARM", "SLEEP"}
        /\ AbortInv /\ MotionInv
    BY DEF MotionState, ResumeInv
  <2>2. CASE RtAlarm
    BY <2>1, <2>2 DEF RtAlarm
  <2>3. CASE RtCritical \/ RtClearAlarm \/ RtCopy \/ RtTail
    BY <2>1, <2>3 DEF RtCritical, RtClearAlarm, RtCopy, RtTail, sysVars
  <2>4. CASE RtHolds
    <3>1. CASE state = "ALARM"
      BY <2>1, <2>4, <3>1, HoldsNotAllowed DEF Asleep
    <3>2. CASE state = "SLEEP"
      <4>1. HeldState = "SLEEP"
        BY <3>2 DEF HeldState
      <4> QED
        BY <2>1, <2>4, <3>2, <4>1, HoldsEffect DEF Asleep
    <3> QED
      BY <2>1, <3>1, <3>2
  <2>5. CASE RtStart
    <3> DEFINE r == ResumeDoor([state |-> state, suspend |-> suspend, stepCtl |-> stepCtl])
    <3>1. r.state = state
      BY <2>1 DEF ResumeDoor
    <3>2. ~MayStart(r)
      BY <2>1, <3>1 DEF MayStart
    <3>3. state' \in {state, r.state}
      BY <2>5, <3>2 DEF RtStart
    <3> HIDE DEF r
    <3> QED
      BY <2>1, <3>1, <3>3
  <2>6. CASE RtStop
    <3>1. pc = "stop" /\ (HoldStays => state' = state)
      BY <2>6 DEF RtStop
    <3>2. state = "SLEEP" /\ "HOLD_COMPLETE" \in suspend /\ ~abort
      BY <2>1, <3>1 DEF AbortInv, MotionInv, StopInv, StopCopied, HoldInv, HoldDone, Boot, LineInv
    <3>3. ~softLimit /\ "JOG_CANCEL" \notin suspend
      BY <2>1, <3>1, <3>2 DEF MotionInv, SoftInv, JogInv
    <3> QED
      BY <2>1, <3>1, <3>2, <3>3 DEF HoldStays
  <2>7. CASE ExecRtSuspend
    BY <2>1, <2>7, SuspendLoopFrame
  <2>8. CASE Interrupts
    BY <2>1, <2>8, InterruptsKeepMain DEF sysVars
  <2>9. CASE MainLines
    <3>1. CASE Enter \/ ExecUnlock \/ ExecHome
      BY <2>1, <3>1 DEF Enter, ExecUnlock, ExecHome, Execute, Main
    <3>2. CASE ExecCheck \/ JogStart
      BY <2>1, <3>2 DEF ExecCheck, JogStart, Rejected, Execute
    <3>3. CASE HomingEnd
      <4>1. pc = "run" /\ ctx = "homeEnd" /\ (abort => state' = state)
        BY <3>3 DEF HomingEnd, Main
      <4> QED
        BY <2>1, <4>1 DEF MotionInv, HomeInv
    <3> QED
      BY <2>1, <2>9, <3>1, <3>2, <3>3, LinesKeepState
  <2> QED
    BY <2>2, <2>3, <2>4, <2>5, <2>6, <2>7, <2>8, <2>9 DEF Next, MainProgram, ExecRtSystem
<1> QED
  BY <1>1, MotionHolds, PTL DEF Spec, LockKept

-----------------------------------------------------------------------------
(* The door. *)

\* What a start does: nothing, begin the restore of a parked door stop, or start the queue
\* out of rest.
LEMMA StartEffect ==
  ASSUME RtStart
  PROVE  \/ UNCHANGED <<state, suspend, stepCtl, motionVars>>
         \/ /\ state = "DOOR" /\ "DOOR_AJAR" \notin suspend
            /\ "RETRACT_COMPLETE" \in suspend /\ "RESTORE_COMPLETE" \notin suspend
            /\ suspend' = suspend \union {"INITIATE_RESTORE"}
            /\ UNCHANGED <<state, stepCtl, motionVars>>
         \/ /\ ~StartBlocked(rtExec) /\ suspend' = {}
            /\ \/ state = "IDLE"
               \/ state = "HOLD" /\ "HOLD_COMPLETE" \in suspend
               \/ state = "DOOR" /\ "DOOR_AJAR" \notin suspend /\ "RESTORE_COMPLETE" \in suspend
            /\ \/ state' = "CYCLE" /\ stepping' = TRUE /\ blocks # <<>> /\ PrepBuffer({}, FALSE)
               \/ state' = "IDLE" /\ stepCtl' = {} /\ UNCHANGED motionVars
<1> DEFINE q == [state |-> state, suspend |-> suspend, stepCtl |-> stepCtl]
           r == ResumeDoor(q)
           resumes == state = "DOOR" /\ "DOOR_AJAR" \notin suspend
           restores == resumes /\ "RETRACT_COMPLETE" \in suspend /\ "RESTORE_COMPLETE" \notin suspend
<1>1. /\ r.state = IF resumes /\ "RESTORE_COMPLETE" \in suspend THEN "IDLE" ELSE state
      /\ r.suspend = IF restores THEN suspend \union {"INITIATE_RESTORE"} ELSE suspend
  BY DEF ResumeDoor, Has
<1>2. CASE StartBlocked(rtExec)
  BY <1>2 DEF RtStart
<1>3. CASE ~StartBlocked(rtExec) /\ ~MayStart(r)
  <2>1. state' = r.state /\ suspend' = r.suspend /\ UNCHANGED <<stepCtl, motionVars>>
    BY <1>3 DEF RtStart
  <2>2. r.state # "IDLE"
    BY <1>3 DEF MayStart
  <2> HIDE DEF r
  <2> QED
    BY <1>1, <2>1, <2>2
<1>4. CASE ~StartBlocked(rtExec) /\ MayStart(r) /\ r.state = "HOLD" /\ stopOvr # {}
  BY <1>4 DEF RtStart
<1>5. CASE ~StartBlocked(rtExec) /\ MayStart(r) /\ ~(r.state = "HOLD" /\ stopOvr # {})
  <2>1. StartQueue(r)
    BY <1>5 DEF RtStart
  <2>2. r.state = "IDLE" \/ (r.state = "HOLD" /\ "HOLD_COMPLETE" \in r.suspend)
    BY <1>5 DEF MayStart
  <2>3. /\ suspend' = {}
        /\ \/ state' = "CYCLE" /\ stepping' = TRUE /\ blocks # <<>> /\ PrepBuffer({}, FALSE)
           \/ state' = "IDLE" /\ stepCtl' = {} /\ UNCHANGED motionVars
    BY <2>1 DEF StartQueue
  <2> HIDE DEF r
  <2> QED
    BY <1>1, <1>5, <2>2, <2>3
<1> QED
  BY <1>2, <1>3, <1>4, <1>5

\* The step that loses the door: it comes after the flags were copied for a hold, and is
\* cleared with the hold.
DoorLost == RtHolds /\ "SAFETY_DOOR" \in rtState /\ "SAFETY_DOOR" \notin rtExec

\* An open door is hidden by the front button, still being debounced, flagged, copied, noted
\* in the suspend flags, or found in a state that only a reset or a closed door leaves; and
\* the note is gone in every state that can start.
DoorInv ==
  /\ doorOpen =>
       \/ buttonDown \/ debounce \/ Flagged("SAFETY_DOOR")
       \/ pc = "holds" /\ "SAFETY_DOOR" \in rtExec
       \/ "DOOR_AJAR" \in suspend
       \/ state \in {"ALARM", "CHECK", "SLEEP"}
       \/ ctx = "enter"
  /\ "DOOR_AJAR" \in suspend =>
       ctx = "init" \/ (state \in {"DOOR", "JOG", "SLEEP", "ALARM"} /\ ctx # "enter")

\* The executor keeps DoorInv.
LEMMA DoorExecutor ==
  ASSUME MotionState, DoorInv, ~DoorLost, ExecRtSystem
  PROVE  DoorInv'
<1> USE DEF DoorInv, Flagged, ExecFrame, pinVars, mainVars
<1>0. /\ state \in {"IDLE", "ALARM", "CHECK", "HOMING", "CYCLE", "HOLD", "JOG", "DOOR", "SLEEP"}
      /\ AbortInv
  BY DEF MotionState, TypeOK, States, ResumeInv
<1>1. CASE RtAlarm
  BY <1>1 DEF RtAlarm
<1>2. CASE RtCritical
  BY <1>2 DEF RtCritical, sysVars, flagVars
<1>3. CASE RtClearAlarm
  BY <1>3 DEF RtClearAlarm, sysVars
<1>4. CASE RtCopy
  BY <1>4 DEF RtCopy, flagVars
<1>5. CASE RtHolds
  <2>1. /\ pc = "holds" /\ pc' # "holds"
        /\ rtState' = rtState \ {"MOTION_CANCEL", "FEED_HOLD", "SAFETY_DOOR", "SLEEP"}
        /\ UNCHANGED <<doorOpen, buttonDown, debounce, ctx, rtExec>>
    BY <1>5, NextBlockOrder DEF RtHolds, HoldFlags
  <2>2. "SAFETY_DOOR" \in rtState => "SAFETY_DOOR" \in rtExec
    BY <1>5 DEF DoorLost
  <2>3. ctx # "enter" /\ ctx # "init"
    BY <2>1 DEF MotionState, MotionInv, LineInv, Boot
  <2>4. CASE state \in {"ALARM", "CHECK"}
    BY <2>1, <2>3, <2>4, <1>5, HoldsNotAllowed DEF Asleep
  <2>5. CASE state \notin {"ALARM", "CHECK"} /\ "SAFETY_DOOR" \notin rtExec
    <3>1. state' = Asleep(HeldState) /\ suspend' = HeldSuspend
      BY <1>5, <2>5, HoldsEffect
    <3> QED
      BY <1>0, <2>1, <2>2, <2>3, <2>5, <3>1
      DEF Asleep, HeldState, HeldSuspend, JogHeld, CancelHeld
  <2>6. CASE state \notin {"ALARM", "CHECK"} /\ "SAFETY_DOOR" \in rtExec
    <3>1. "DOOR_AJAR" \in suspend'
      BY <1>5, <2>6, HoldsEffect
    <3>2. state' \in {"DOOR", "JOG", "SLEEP"}
      <4>1. CASE "JOG_CANCEL" \notin HeldSuspend
        BY <1>5, <2>6, <4>1, HoldsEffect DEF Asleep
      <4>2. CASE "JOG_CANCEL" \in HeldSuspend
        <5>1. state = "JOG"
          <6>1. ~abort
            BY <1>0, <2>1 DEF AbortInv
          <6> QED
            BY <2>6, <4>2, <6>1 DEF HeldSuspend, JogHeld, CancelHeld, Decelerates, MotionState,
               MotionInv, JogInv
        <5> QED
          BY <1>5, <2>6, <4>2, <5>1, HoldsEffect DEF Asleep, HeldState
      <4> QED
        BY <4>1, <4>2
    <3> QED
      BY <2>1, <2>3, <3>1, <3>2
  <2> QED
    BY <2>4, <2>5, <2>6
<1>6. CASE RtStart
  <2>1. /\ pc = "start" /\ pc' # "holds" /\ rtState' = rtState \ {"CYCLE_START"}
        /\ UNCHANGED <<doorOpen, buttonDown, debounce, ctx>>
    BY <1>6, NextBlockOrder DEF RtStart
  <2>2. ctx # "enter" /\ ctx # "init"
    BY <2>1 DEF MotionState, MotionInv, LineInv, Boot
  <2> QED
    BY <1>6, <2>1, <2>2, StartEffect
<1>7. CASE RtStop
  <2>1. /\ pc = "stop" /\ pc' = "tail" /\ rtState' = rtState \ {"CYCLE_STOP"}
        /\ UNCHANGED <<doorOpen, buttonDown, debounce, ctx>>
    BY <1>7 DEF RtStop
  <2>2. ctx # "enter" /\ ctx # "init" /\ "CYCLE_STOP" \in rtExec
    BY <2>1 DEF MotionState, MotionInv, LineInv, Boot, StopInv
  <2>3. state \notin {"ALARM", "CHECK"}
    BY <2>1, <2>2 DEF MotionState, MotionInv, StopInv, StopCopied
  <2>4. state = "SLEEP" => HoldStays
    <3>1. state = "SLEEP" => "HOLD_COMPLETE" \in suspend /\ ~abort
      BY <1>0, <2>1, <2>2 DEF AbortInv, MotionState, MotionInv, HoldInv, HoldDone, Boot
    <3> QED
      BY <3>1 DEF HoldStays, MotionState, MotionInv, SoftInv, JogInv
  <2>5. CASE HoldStays
    BY <1>7, <2>1, <2>5 DEF RtStop
  <2>6. CASE ~HoldStays
    BY <1>7, <2>1, <2>2, <2>3, <2>4, <2>6 DEF RtStop
  <2> QED
    BY <2>5, <2>6
<1>8. CASE RtTail
  BY <1>8 DEF RtTail
<1> QED
  BY <1>1, <1>2, <1>3, <1>4, <1>5, <1>6, <1>7, <1>8 DEF ExecRtSystem

\* The suspend loop forgets the door only when it is closed.
LEMMA DoorSuspend ==
  ASSUME DoorInv, ExecRtSuspend
  PROVE  DoorInv'
<1>1. /\ pc = "run" /\ pc' \in {"run", "alarm"} /\ rtState \subseteq rtState'
      /\ UNCHANGED <<ctx, state, pinVars>>
  BY SuspendLoopFlags, SuspendLoopFrame
<1>2. /\ "DOOR_AJAR" \in suspend' => "DOOR_AJAR" \in suspend
      /\ "DOOR_AJAR" \in suspend => "DOOR_AJAR" \in suspend' \/ ~doorOpen
  BY DEF ExecRtSuspend, SuspLeave, SuspMoving, ParkWait, RetractBegin, RetractFast, RetractEnd,
     FallAsleep, StayAsleep, DoorCheck, RestoreSpindle, RestoreCoolant, DelayOn, Plunge, RestoreEnd,
     HoldIdle, OverrideStop, OverrideKeep, OverrideRestore, OverrideEnd, SuspTail, SuspWake,
     RestoreStep, sysVars
<1> QED
  BY <1>1, <1>2 DEF DoorInv, Flagged, pinVars

\* A pin that moves is debounced; the end of the debounce flags the door or finds it hidden.
LEMMA DoorInterrupts ==
  ASSUME DoorInv, Interrupts
  PROVE  DoorInv'
<1>1. UNCHANGED <<sysVars, execVars, mainVars>> /\ rtState \subseteq rtState'
  BY InterruptsKeepMain, InterruptsFlags
<1>2. \/ debounce'
      \/ UNCHANGED <<doorOpen, buttonDown>>
         /\ (debounce => debounce' \/ buttonDown \/ ~doorOpen \/ "SAFETY_DOOR" \in rtState')
  BY DEF Interrupts, StepSegment, StepDone, ProbeContact, RxReset, LimitIsr, RxStart, RxHold,
     RxDoor, RxJogCancel, RxSpindleStop, PinMoves, PinsDebounced, RaiseFlag, McResetFrame, pinVars
<1> QED
  BY <1>1, <1>2 DEF DoorInv, Flagged, sysVars, execVars, mainVars

\* A line leaves the alarm only with the door closed, and the reset loop looks at it.
LEMMA DoorLines ==
  ASSUME MotionState, DoorInv, MainLines
  PROVE  DoorInv'
<1> USE DEF DoorInv, Flagged, Main, Execute, Call, Goto, AutoStart, AfterLine,
            sysVars, flagVars, motionVars, powerVars, pinVars, modeVars, mainVars, MainFrame,
            SysFrame, LineFrame, HomingFrame
<1>0. /\ state \in {"IDLE", "ALARM", "CHECK", "HOMING", "CYCLE", "HOLD", "JOG", "DOOR", "SLEEP"}
      /\ NothingLeftSuspended
  BY DEF MotionState, TypeOK, States, ResumeInv
<1>1. CASE Reinit
  BY <1>1 DEF Reinit
<1>2. CASE Enter
  BY <1>2 DEF Enter, StartupLine
<1>3. CASE ExecUnlock \/ ExecHome
  <2>1. pc = "run" /\ susp = "none" /\ ~abort /\ ~doorOpen /\ UNCHANGED <<suspend, pinVars>>
    BY <1>3 DEF ExecUnlock, ExecHome, Rejected
  <2> QED
    BY <1>0, <2>1 DEF NothingLeftSuspended
<1>4. CASE ExecCheck
  <2>1. /\ Main("eol") /\ ~abort /\ Goto("loop") /\ state' = "CHECK"
        /\ UNCHANGED <<suspend, pinVars>>
    BY <1>4 DEF ExecCheck
  <2> QED
    BY <1>0, <2>1 DEF NothingLeftSuspended
<1>5. CASE JogStart
  <2>1. /\ pc = "run" /\ pc' = "run" /\ ctx' = "loop" /\ ctx = "jogStart" /\ state' \in {state, "JOG"}
        /\ state' = "JOG" => state \in {"JOG", "IDLE"}
        /\ UNCHANGED <<suspend, pinVars, rtState>>
    BY <1>5 DEF JogStart
  <2> QED
    BY <2>1
<1>6. CASE HomingEnd
  <2>1. CASE abort
    BY <1>6, <2>1 DEF HomingEnd
  <2>2. CASE ~abort
    <3>1. /\ suspend = {} /\ suspend' = {} /\ ctx = "homeEnd" /\ ctx' \in {"loop", "eol"}
          /\ pc = "run" /\ pc' = "run"
          /\ UNCHANGED <<rtState, pinVars>>
      BY <1>0, <1>6, <2>2 DEF HomingEnd, StartupLine, NothingLeftSuspended
    <3>2. state \notin {"ALARM", "CHECK", "SLEEP"}
      BY <1>0, <1>6, <2>2 DEF HomingEnd, MotionState, MotionInv, HomeInv
    <3> QED
      BY <3>1, <3>2
  <2> QED
    BY <2>1, <2>2
<1>7. CASE ~(Reinit \/ Enter \/ ExecUnlock \/ ExecHome \/ ExecCheck \/ JogStart \/ HomingEnd)
  <2>1. state' = state /\ pc = "run"
    BY <1>7, LinesKeepState, MainLinesKeepSuspend
  <2>2. UNCHANGED <<suspend, pinVars>>
    BY <1>7 DEF MainLines, NoData, Tick, MainWake, EndOfLine, LineAborted, RejectLine,
       ExecSleep, ExecMove, LineBailsOut, LineWaits, LineQueued, ExecMoveOut, SoftWait, SoftAlarm,
       ExecSync, SyncWait, SyncedAccessory, SyncedProgram, SyncedPause, Dwelling, SyncedProbe,
       ProbeWait, ProbeEnd, HomingPrep, HomingFound, HomingFails, HomingPulledOff, HomingNext,
       HomingMotion
  <2>3. ctx' # "enter" /\ (ctx' = "init" \/ ctx # "init")
    BY <1>7 DEF MainLines, NoData, Tick, MainWake, EndOfLine, LineAborted, RejectLine,
       ExecSleep, ExecMove, LineBailsOut, LineWaits, LineQueued, ExecMoveOut, SoftWait, SoftAlarm,
       ExecSync, SyncWait, SyncedAccessory, SyncedProgram, SyncedPause, Dwelling, SyncedProbe,
       ProbeWait, ProbeEnd, HomingPrep, HomingFound, HomingFails, HomingPulledOff, HomingNext,
       HomingMotion
  <2>4. ctx # "enter"
    BY <1>7 DEF MainLines, NoData, Tick, MainWake, EndOfLine, LineAborted, RejectLine,
       ExecSleep, ExecMove, LineBailsOut, LineWaits, LineQueued, ExecMoveOut, SoftWait, SoftAlarm,
       ExecSync, SyncWait, SyncedAccessory, SyncedProgram, SyncedPause, Dwelling, SyncedProbe,
       ProbeWait, ProbeEnd, HomingPrep, HomingFound, HomingFails, HomingPulledOff, HomingNext,
       HomingMotion
  <2>5. "SAFETY_DOOR" \in rtState => "SAFETY_DOOR" \in rtState'
    BY <1>7, MainLinesFlags
  <2> QED
    BY <2>1, <2>2, <2>3, <2>4, <2>5
<1> QED
  BY <1>1, <1>2, <1>3, <1>4, <1>5, <1>6, <1>7

\* Every step but DoorLost keeps DoorInv.
LEMMA DoorNext ==
  ASSUME MotionState, DoorInv, [Next]_vars, [~DoorLost]_vars
  PROVE  DoorInv'
<1>1. CASE UNCHANGED vars
  BY <1>1 DEF vars, sysVars, flagVars, execVars, pinVars, mainVars, DoorInv, Flagged
<1>2. CASE Next /\ ~DoorLost
  BY <1>2, DoorExecutor, DoorSuspend, DoorInterrupts, DoorLines DEF Next, MainProgram
<1> QED
  BY <1>1, <1>2

\* What makes the stepper run: a start, a jog, and the system motions.
LEMMA StepperStarts ==
  ASSUME Next, ~stepping, stepping'
  PROVE  RtStart \/ JogStart \/ "SYS_MOTION" \in stepCtl'
<1> USE DEF ExecFrame, sysVars, motionVars, SysFrame, LineFrame, HomingFrame
<1>1. CASE ExecRtSystem
  BY <1>1 DEF ExecRtSystem, RtAlarm, RtCritical, RtClearAlarm, RtCopy, RtHolds, RtStop, RtTail,
     StReset
<1>2. CASE ExecRtSuspend
  <2>1. ASSUME NEW l, ParkMotion(l) PROVE "SYS_MOTION" \in stepCtl'
    <3>1. CASE ParkStart(l)
      <4> DEFINE c == (stepCtl \union {"SYS_MOTION"}) \ {"END_MOTION"}
                 on == l \in {"retract", "plunged"} /\ "spindle" \in restore
      <4>1. PrepBuffer(c, on) /\ "SYS_MOTION" \in c
        BY <3>1 DEF ParkStart
      <4> HIDE DEF c, on
      <4> QED
        BY <4>1, PrepKeepsControl
    <3>2. CASE ParkSkip(l)
      BY <3>2 DEF ParkSkip
    <3> QED
      BY <2>1, <3>1, <3>2 DEF ParkMotion
  <2> QED
    BY <1>2, <2>1 DEF ExecRtSuspend, SuspLeave, SuspMoving, ParkWait, RetractBegin, RetractFast,
       RetractEnd, FallAsleep, StayAsleep, DoorCheck, RestoreSpindle, RestoreCoolant, DelayOn,
       Plunge, RestoreEnd, HoldIdle, OverrideStop, OverrideKeep, OverrideRestore, OverrideEnd,
       SuspTail, SuspWake, RestoreStep
<1>3. CASE MainLines
  <2>1. ASSUME NEW l, HomingMotion(l) PROVE "SYS_MOTION" \in stepCtl'
    BY <2>1, HomingMotionControl
  <2>2. CASE ExecHome \/ HomingNext
    BY <2>1, <2>2 DEF ExecHome, HomingNext
  <2>3. CASE ExecCheck \/ SoftAlarm \/ HomingFails
    BY <2>3, McResetStops DEF ExecCheck, McReset, SoftAlarm, HomingFails, McResetWith
  <2>4. CASE ~(ExecHome \/ HomingNext \/ ExecCheck \/ SoftAlarm \/ HomingFails)
    BY <1>3, <2>4 DEF MainLines, Reinit, Enter, NoData, Tick, MainWake, EndOfLine, LineAborted,
       RejectLine, ExecUnlock, ExecSleep, ExecMove, LineBailsOut, LineWaits, LineQueued, ExecMoveOut,
       SoftWait, ExecSync, SyncWait, SyncedAccessory, SyncedProgram, SyncedPause, Dwelling,
       SyncedProbe, ProbeWait, ProbeEnd, HomingPrep, HomingFound, HomingPulledOff, HomingEnd,
       StReset
  <2> QED
    BY <2>2, <2>3, <2>4
<1>4. CASE Interrupts
  BY <1>4 DEF Interrupts, StepSegment, StepDone, ProbeContact, RxReset, LimitIsr, RxStart, RxHold,
     RxDoor, RxJogCancel, RxSpindleStop, PinMoves, PinsDebounced, RaiseFlag, McReset, McResetWith
<1> QED
  BY <1>1, <1>2, <1>3, <1>4 DEF Next, MainProgram

\* The program starts no cycle and no jog with an open door that checkControlPins() has looked
\* at, unless the door's flag was cleared with the flags of an earlier hold (DoorLost): a door
\* that the front button hid, an alarm or check mode passed over, or that opened while it was
\* looked at is known again, or on its way to be, before anything moves.
THEOREM OpenDoorStopsHolds == Spec /\ [][Apart /\ ~DoorLost]_vars => OpenDoorStops
<1> DEFINE Starts == ~stepping /\ stepping' /\ "SYS_MOTION" \notin stepCtl'
           Known == ~doorOpen \/ buttonDown \/ debounce \/ "SAFETY_DOOR" \in rtState
<1>1. Init => DoorInv
  BY DEF Init, DoorInv
<1>2. MotionState /\ DoorInv /\ [Next]_vars /\ [Apart /\ ~DoorLost]_vars => DoorInv'
  BY DoorNext
<1>3. MotionState /\ DoorInv /\ [Next]_vars => [Starts => Known]_vars
  <2> SUFFICES ASSUME MotionState, DoorInv, Next, Starts PROVE Known
    BY DEF vars, sysVars, motionVars
  <2>1. CASE RtStart
    <3>1. pc = "start" /\ state \in {"IDLE", "HOLD", "DOOR"} /\ (state = "DOOR" => "DOOR_AJAR" \notin suspend)
      BY <2>1, StartEffect DEF RtStart, motionVars
    <3>2. ctx # "enter" /\ ctx # "init"
      BY <3>1 DEF MotionState, MotionInv, LineInv, Boot
    <3> QED
      BY <3>1, <3>2 DEF DoorInv, Flagged
  <2>2. CASE JogStart
    <3>1. pc = "run" /\ ctx = "jogStart" /\ state = "IDLE"
      BY <2>2 DEF JogStart, Main, motionVars
    <3> QED
      BY <3>1 DEF DoorInv, Flagged
  <2> QED
    BY <2>1, <2>2, StepperStarts
<1> HIDE DEF Starts, Known
<1>4. Spec /\ [][Apart]_vars => []MotionState
  BY MotionHolds
<1>5. [Apart /\ ~DoorLost]_vars => [Apart]_vars
  OBVIOUS
<1>6. Spec /\ [][Apart /\ ~DoorLost]_vars => [][Starts => Known]_vars
  BY <1>1, <1>2, <1>3, <1>4, <1>5, PTL DEF Spec
<1> QED
  BY <1>6 DEF OpenDoorStops, Starts, Known

-----------------------------------------------------------------------------
(* The coolant. *)

\* The step that breaks CoolantRestored: a reset, which switches the outputs off, comes between
\* a check point and the start it serves there, and the cycle starts all the same.
CycleMeetsReset == "RESET" \in rtState /\ ~stepping /\ stepping' /\ state' = "CYCLE"

Quiet == ~abort /\ Live
CoolantAsked == "coolant" \in modal
CoolantRuns == "coolant" \in powered

\* Every queued block was planned with the coolant of the modes.
CoolantPlanned == \A i \in 1..Len(blocks) : "coolant" \in blocks[i] <=> CoolantAsked

\* Where the coolant runs: with no reset about, never unasked for; off a door stop and sleep,
\* always when asked for; in a door stop, from the restore on.  A reset leaves no moving
\* cycle; check mode, which only notes the modes, ends by a reset; and what was on before a
\* door stop is what the modes ask for, since no line changes them while blocks are queued.
CoolInv ==
  /\ state = "CYCLE" /\ stepping => Quiet
  /\ Quiet /\ state # "CHECK" =>
       /\ CoolantRuns => CoolantAsked
       /\ CoolantPlanned
       /\ susp # "none" => ("coolant" \in restore <=> CoolantAsked)
  /\ Quiet /\ state \notin {"CHECK", "DOOR", "SLEEP"} => (CoolantAsked => CoolantRuns)
  /\ /\ Quiet /\ state = "DOOR"
     /\ \/ "RESTORE_COMPLETE" \in suspend
        \/ susp \in {"plunge", "plunged"} /\ "RESTART_RETRACT" \notin suspend
     => (CoolantAsked => CoolantRuns)
  /\ Quiet /\ rtAlarm # "NONE" => state # "CHECK"
  /\ ctx = "enter" => ~CoolantRuns /\ ~CoolantAsked /\ blocks = <<>>
  /\ ctx \in {"sync", "synced"} /\ state = "CHECK" => cmd # "probe"
  /\ ctx = "synced" /\ ~abort /\ state # "CHECK" => blocks = <<>>

\* st_prep_buffer() takes blocks from the queue, and adds none.
LEMMA PrepTakesBlocks ==
  ASSUME Buffers, NEW c, NEW on, PrepBuffer(c, on)
  PROVE  /\ \A i \in 1..Len(blocks') : \E j \in 1..Len(blocks) : blocks'[i] = blocks[j]
         /\ blocks = <<>> => blocks' = <<>>
<1>1. CASE blocks' = blocks
  BY <1>1
<1>2. CASE blocks' # blocks
  <2>1. PICK k \in 0..Len(blocks) : blocks' = SubSeq(blocks, k + 1, Len(blocks))
    BY <1>2 DEF PrepBuffer, PrepSystemMotion, PrepQueue
  <2>2. Len(blocks) \in Nat /\ k \in Nat /\ k <= Len(blocks)
    BY LenProperties DEF Buffers
  <2>3. \A i \in (k + 1)..Len(blocks) : blocks[i] \in SUBSET Accessories
    BY <2>2, ElementOfSeq DEF Buffers
  <2>4. /\ Len(blocks') = (IF k + 1 <= Len(blocks) THEN Len(blocks) - (k + 1) + 1 ELSE 0)
        /\ \A i \in 1..(Len(blocks) - (k + 1) + 1) : blocks'[i] = blocks[k + 1 + i - 1]
    BY <2>1, <2>2, <2>3, SubSeqProperties
  <2>5. ASSUME NEW i \in 1..Len(blocks')
        PROVE  k + i \in 1..Len(blocks) /\ blocks'[i] = blocks[k + i]
    BY <2>2, <2>4, <2>5
  <2>6. ASSUME blocks = <<>> PROVE blocks' = <<>>
    BY <2>1, <2>2, <2>6
  <2> QED
    BY <2>5, <2>6
<1> QED
  BY <1>1, <1>2

LEMMA PlannedKept ==
  ASSUME Buffers, NEW c, NEW on, PrepBuffer(c, on), CoolantPlanned, modal' = modal
  PROVE  CoolantPlanned'
BY PrepTakesBlocks DEF CoolantPlanned, CoolantAsked

LEMMA PlannedSame ==
  CoolantPlanned /\ blocks' = blocks /\ modal' = modal => CoolantPlanned'
BY DEF CoolantPlanned, CoolantAsked

LEMMA PlannedEmpty == blocks' = <<>> => CoolantPlanned'
BY DEF CoolantPlanned

\* A door stop notes the coolant that the modes ask for.
LEMMA NotedCoolant ==
  ASSUME Buffers', CoolantPlanned', modal' = modal
  PROVE  "coolant" \in QueueAccessories(blocks') <=> CoolantAsked
<1>1. CASE blocks' = <<>>
  BY <1>1 DEF QueueAccessories, CoolantAsked
<1>2. CASE blocks' # <<>>
  <2>1. Len(blocks') >= 1 /\ Len(blocks') \in Nat
    BY <1>2, EmptySeq, LenProperties DEF Buffers
  <2>2. Head(blocks') = blocks'[1]
    BY <1>2, HeadTailProperties DEF Buffers
  <2> QED
    BY <1>2, <2>1, <2>2 DEF QueueAccessories, CoolantPlanned, CoolantAsked
<1> QED
  BY <1>1, <1>2

\* The suspend loop switches the coolant off when it parks or sleeps, and on again in a restore.
LEMMA CoolSuspend ==
  ASSUME MotionState, CoolInv, ExecRtSuspend
  PROVE  CoolInv'
<1> USE DEF CoolInv, Quiet, Live, CoolantAsked, CoolantRuns, At, CallRt, Reached, Stopped, Parking,
            DoorParked, Holding, ParkSkip, RestoreStep, RestoreAccessory, SuspFrame, sysVars,
            motionVars, powerVars
<1>0. /\ pc = "run" /\ susp # "none" /\ pc' \in {"run", "alarm"} /\ rtState \subseteq rtState'
      /\ UNCHANGED <<ctx, cmd, restore, rtAlarm, pinVars, modeVars, modal, abort, softLimit,
                     state>>
      /\ Buffers
  BY SuspendLoopFlags, SuspendLoopFrame, TypeBuffers DEF MotionState
<1>1. /\ ctx # "enter" /\ ctx # "synced"
      /\ susp \in {"retract", "plunge"} => state # "CYCLE"
  BY <1>0 DEF MotionState, MotionInv, LineInv, Boot, ParkInv, ParkPoints
<1>rest. /\ Quiet /\ state = "DOOR" /\ "RESTORE_COMPLETE" \in suspend => "RETRACT_COMPLETE" \in suspend
         /\ susp = "retract" => "RETRACT_COMPLETE" \notin suspend
  BY DEF MotionState, MotionInv, RestoredInv, RestoreInv, ParkInv
<1>park. ASSUME NEW l, ParkMotion(l)
         PROVE  pc' = "alarm" /\ susp' = l
  BY <1>park DEF ParkMotion, ParkStart
<1>2. CoolantPlanned => CoolantPlanned'
  <2>1. CASE blocks' = blocks
    BY <1>0, <2>1, PlannedSame
  <2>2. CASE blocks' # blocks
    <3>1. PICK c, on : PrepBuffer(c, on)
      BY <2>2 DEF ExecRtSuspend, SuspLeave, SuspMoving, ParkWait, RetractBegin, RetractFast,
         RetractEnd, FallAsleep, StayAsleep, DoorCheck, RestoreSpindle, RestoreCoolant, DelayOn,
         Plunge, RestoreEnd, HoldIdle, OverrideStop, OverrideKeep, OverrideRestore, OverrideEnd,
         SuspTail, SuspWake, ParkMotion, ParkStart
    <3> QED
      BY <1>0, <3>1, PlannedKept
  <2> QED
    BY <2>1, <2>2
<1>3. CASE SuspLeave \/ SuspMoving \/ ParkWait
  BY <1>0, <1>1, <1>2, <1>3 DEF SuspLeave, SuspMoving, ParkWait, AfterPark
<1>4. CASE RetractBegin
  <2>1. /\ state \in {"DOOR", "SLEEP"} /\ rtState' = rtState
        /\ "RETRACT_COMPLETE" \notin suspend
        /\ \/ susp' = "retract" /\ UNCHANGED <<powered, suspend>>
           \/ /\ susp' = "tail" /\ powered' = {}
              /\ suspend' = (suspend \ {"RESTART_RETRACT"}) \union {"RETRACT_COMPLETE"}
    BY <1>4, <1>park DEF RetractBegin
  <2> QED
    BY <1>0, <1>1, <1>2, <1>rest, <2>1
<1>5. CASE RetractFast
  <2>1. susp = "retract" /\ susp' = "parked" /\ powered' = {} /\ UNCHANGED <<rtState, suspend>>
    BY <1>5, <1>park DEF RetractFast
  <2>2. state \in {"DOOR", "SLEEP", "ALARM"} /\ (state = "ALARM" => ~Quiet)
    BY <1>0, <2>1 DEF MotionState, MotionInv, ParkInv, ParkPoints, RestInv
  <2> QED
    BY <1>0, <1>1, <1>2, <1>rest, <2>1, <2>2
<1>6. CASE RetractEnd
  BY <1>0, <1>1, <1>2, <1>6 DEF RetractEnd
<1>7. CASE FallAsleep \/ StayAsleep
  BY <1>0, <1>1, <1>2, <1>7 DEF FallAsleep, StayAsleep
<1>8. CASE DoorCheck
  <2>1. /\ state = "DOOR" /\ susp' \in {"restoreSpindle", "tail"} /\ UNCHANGED <<powered, rtState>>
        /\ "RESTORE_COMPLETE" \in suspend' => "RESTORE_COMPLETE" \in suspend
    BY <1>8, <1>park DEF DoorCheck
  <2> QED
    BY <1>0, <1>1, <1>2, <2>1
<1>9. CASE RestoreSpindle
  BY <1>0, <1>1, <1>2, <1>9 DEF RestoreSpindle
<1>10. CASE RestoreCoolant
  BY <1>0, <1>1, <1>2, <1>10 DEF RestoreCoolant, MotionState, MotionInv, RestoreInv, RestorePoints,
     RestInv
<1>11. CASE DelayOn
  BY <1>0, <1>1, <1>2, <1>11 DEF DelayOn
<1>12. CASE Plunge
  <2>1. susp = "plunge" /\ susp' = "plunged" /\ UNCHANGED <<powered, suspend, rtState>>
    BY <1>12, <1>park DEF Plunge
  <2> QED
    BY <1>0, <1>1, <1>2, <2>1
<1>13. CASE RestoreEnd
  BY <1>0, <1>1, <1>2, <1>13 DEF RestoreEnd
<1>14. CASE HoldIdle \/ OverrideKeep \/ OverrideEnd
  BY <1>0, <1>1, <1>2, <1>14 DEF HoldIdle, OverrideKeep, OverrideEnd
<1>15. CASE OverrideStop
  BY <1>0, <1>1, <1>2, <1>15 DEF OverrideStop
<1>16. CASE OverrideRestore
  BY <1>0, <1>1, <1>2, <1>16 DEF OverrideRestore
<1>17. CASE SuspTail \/ SuspWake
  BY <1>0, <1>1, <1>2, <1>17 DEF SuspTail, SuspWake
<1> QED
  BY <1>3, <1>4, <1>5, <1>6, <1>7, <1>8, <1>9, <1>10, <1>11, <1>12, <1>13, <1>14, <1>15, <1>16,
     <1>17 DEF ExecRtSuspend

\* A reset switches the coolant off; the segments set the spindle only.
LEMMA CoolInterrupts ==
  ASSUME MotionState, CoolInv, Interrupts
  PROVE  CoolInv'
<1> USE DEF CoolInv, Quiet, Live, CoolantAsked, CoolantRuns
<1>0. /\ UNCHANGED <<state, suspend, abort, pc, ctx, susp, cmd, restore, blocks, modal>>
      /\ rtState \subseteq rtState' /\ stepping \in BOOLEAN
  <2>1. UNCHANGED <<blocks, modal>>
    BY DEF Interrupts, StepSegment, StepDone, ProbeContact, RxReset, LimitIsr, RxStart, RxHold,
       RxDoor, RxJogCancel, RxSpindleStop, PinMoves, PinsDebounced, RaiseFlag, McResetFrame,
       motionVars, powerVars
  <2> QED
    BY <2>1, InterruptsKeepMain, InterruptsFlags
    DEF sysVars, execVars, mainVars, MotionState, TypeOK
<1>1. CoolantPlanned => CoolantPlanned'
  BY <1>0, PlannedSame
<1>2. CASE RxReset
  <2>1. /\ rtState' = rtState \union {"RESET"}
        /\ stepping' => stepping /\ ("RESET" \in rtState \/ ~Moves)
    BY <1>0, <1>2, McResetAlarms DEF RxReset
  <2>2. powered' = powered \/ powered' = {}
    BY <1>2 DEF RxReset, McReset, McResetWith
  <2> QED
    BY <1>0, <1>1, <2>1, <2>2 DEF Moves
<1>3. CASE LimitIsr
  <2>1. /\ rtState' = rtState \union {"RESET"}
        /\ stepping' => stepping /\ ("RESET" \in rtState \/ ~Moves)
    BY <1>0, <1>3, McResetStops DEF LimitIsr
  <2>2. powered' = powered \/ powered' = {}
    BY <1>3 DEF LimitIsr, McResetWith
  <2> QED
    BY <1>0, <1>1, <2>1, <2>2 DEF Moves
<1>4. CASE StepSegment
  <2>1. CoolantRuns' <=> CoolantRuns
    BY <1>4 DEF StepSegment
  <2>2. UNCHANGED <<stepping, rtState, rtAlarm>>
    BY <1>4 DEF StepSegment, flagVars
  <2> QED
    BY <1>0, <1>1, <2>1, <2>2
<1>5. CASE ~(RxReset \/ LimitIsr \/ StepSegment)
  <2>1. /\ powered' = powered /\ rtAlarm' = rtAlarm /\ (stepping' => stepping)
        /\ "RESET" \in rtState' => "RESET" \in rtState
    BY <1>5 DEF Interrupts, StepDone, ProbeContact, RxStart, RxHold, RxDoor, RxJogCancel,
       RxSpindleStop, PinMoves, PinsDebounced, RaiseFlag, powerVars, motionVars, flagVars
  <2> QED
    BY <1>0, <1>1, <2>1
<1> QED
  BY <1>2, <1>3, <1>4, <1>5

\* A line changes the coolant with nothing queued; a reset takes everything back.
LEMMA CoolLines ==
  ASSUME MotionState, CoolInv, MainLines
  PROVE  CoolInv'
<1> USE DEF CoolInv, Quiet, Live, CoolantAsked, CoolantRuns, Main, Execute, Call, Goto, AutoStart,
            AfterLine, sysVars, flagVars, motionVars, powerVars, pinVars, modeVars, mainVars,
            MainFrame, SysFrame, LineFrame, HomingFrame
<1>0. /\ state \in {"IDLE", "ALARM", "CHECK", "HOMING", "CYCLE", "HOLD", "JOG", "DOOR", "SLEEP"}
      /\ stepping \in BOOLEAN /\ Buffers
      /\ pc = "run" /\ susp = "none" /\ susp' = "none"
  BY TypeBuffers, MainLinesKeepSuspend DEF MotionState, TypeOK, States
<1>1. ~abort => suspend = {}
  BY <1>0 DEF MotionState, ResumeInv, NothingLeftSuspended
<1>2. blocks' = blocks /\ modal' = modal => (CoolantPlanned => CoolantPlanned')
  BY PlannedSame
<1>3. CASE Reinit
  <2>1. CoolantPlanned'
    BY <1>3, PlannedEmpty DEF Reinit
  <2> QED
    BY <1>0, <1>3, <2>1 DEF Reinit
<1>4. CASE Enter
  <2>1. blocks = <<>> => CoolantPlanned'
    BY <1>4, PlannedEmpty DEF Enter
  <2> QED
    BY <1>0, <1>1, <1>4, <2>1 DEF Enter
<1>5. CASE NoData \/ Tick \/ MainWake
  BY <1>0, <1>2, <1>5 DEF NoData, Tick, MainWake
<1>6. CASE EndOfLine \/ LineAborted \/ RejectLine
  BY <1>0, <1>2, <1>6 DEF EndOfLine, LineAborted, RejectLine
<1>7. CASE ExecUnlock
  BY <1>0, <1>1, <1>2, <1>7 DEF ExecUnlock, Rejected
<1>8. CASE ExecCheck
  <2>1. CASE state = "CHECK"
    <3>1. McReset /\ UNCHANGED <<state, abort, suspend, blocks, modal, cmd>> /\ ctx' = "loop" /\ pc' = "run"
      BY <1>8, <2>1 DEF ExecCheck
    <3>2. rtState' = rtState \union {"RESET"}
      BY <1>0, <3>1, McResetAlarms
    <3> QED
      BY <1>0, <2>1, <3>1, <3>2
  <2>2. CASE state # "CHECK"
    <3>1. /\ state = "IDLE" /\ state' = "CHECK" /\ ctx' = "loop" /\ pc' = "run"
          /\ UNCHANGED <<rtState, rtAlarm, powered, stepping, abort, suspend, blocks, modal, cmd>>
      BY <1>8, <2>2 DEF ExecCheck, Rejected
    <3>2. Quiet => rtAlarm = "NONE"
      <4>1. pc = "run"
        BY <1>0
      <4> QED
        BY <4>1 DEF MotionState, MotionInv, AlarmInv
    <3> QED
      BY <1>0, <1>2, <3>1, <3>2
  <2> QED
    BY <2>1, <2>2
<1>9. CASE ExecSleep \/ ExecMove \/ LineBailsOut \/ LineWaits
  BY <1>0, <1>2, <1>9 DEF ExecSleep, ExecMove, LineBailsOut, LineWaits
<1>10. CASE LineQueued
  <2>1. CoolantPlanned => CoolantPlanned'
    <3>1. blocks' = Append(blocks, modal) /\ modal' = modal
      BY <1>10 DEF LineQueued
    <3>2. Len(blocks) \in Nat /\ Len(blocks') = Len(blocks) + 1 /\ blocks'[Len(blocks) + 1] = modal
          /\ \A i \in 1..Len(blocks) : blocks'[i] = blocks[i]
      <4>1. modal \in SUBSET Accessories /\ blocks \in Seq(SUBSET Accessories)
        BY DEF MotionState, TypeOK
      <4> QED
        BY <3>1, <4>1, AppendProperties, LenProperties
    <3> QED
      BY <3>1, <3>2 DEF CoolantPlanned
  <2>2. ctx = "mcline" /\ ctx' \in {"probing", "jogStart", "loop"}
        /\ pc' \in {"run", "alarm"} /\ ("RESET" \in rtState <=> "RESET" \in rtState')
        /\ UNCHANGED <<state, abort, suspend, stepping, rtAlarm, powered, modal, cmd>>
    BY <1>0, <1>10 DEF LineQueued
  <2> QED
    BY <1>0, <2>1, <2>2
<1>11. CASE JogStart
  <2>1. CoolantPlanned => CoolantPlanned'
    BY <1>0, <1>2, <1>11, PlannedKept DEF JogStart
  <2>2. /\ ctx' = "loop" /\ pc' = "run"
        /\ UNCHANGED <<abort, suspend, rtState, rtAlarm, powered, modal, cmd>>
    BY <1>11 DEF JogStart
  <2>3. \/ state' = state /\ stepping' = stepping
        \/ state = "IDLE" /\ state' = "JOG"
    BY <1>11 DEF JogStart
  <2> QED
    BY <1>0, <2>1, <2>2, <2>3
<1>12. CASE ExecMoveOut \/ SoftWait
  BY <1>0, <1>2, <1>12 DEF ExecMoveOut, SoftWait
<1>13. CASE SoftAlarm
  <2>1. /\ rtState' = rtState \union {"RESET"}
        /\ stepping' => stepping /\ ("RESET" \in rtState \/ ~Moves)
    BY <1>0, <1>13, McResetStops DEF SoftAlarm
  <2>2. ctx' = "mcline" /\ UNCHANGED <<state, abort>>
    BY <1>13 DEF SoftAlarm
  <2> QED
    BY <1>0, <2>1, <2>2 DEF Moves
<1>14. CASE ExecSync
  <2>1. /\ ctx = "eol" /\ ~abort /\ ctx' \in {"sync", "synced"}
        /\ state = "CHECK" /\ cmd = "probe" => ctx' = "eol"
        /\ ctx' = "synced" => state = "CHECK"
        /\ pc' \in {"run", "alarm"} /\ ("RESET" \in rtState <=> "RESET" \in rtState')
        /\ UNCHANGED <<state, abort, suspend, stepping, rtAlarm, powered, modal, blocks, cmd>>
    BY <1>0, <1>14 DEF ExecSync, NeedsSync
  <2> QED
    BY <1>0, <1>2, <2>1
<1>15. CASE SyncWait
  BY <1>0, <1>2, <1>15 DEF SyncWait
<1>16. CASE SyncedAccessory
  <2>1. /\ ctx = "synced" /\ ctx' = "loop" /\ pc' = "run"
        /\ UNCHANGED <<state, abort, suspend, stepping, rtState, rtAlarm, blocks, cmd>>
    BY <1>0, <1>16 DEF SyncedAccessory
  <2>2. /\ abort \/ state = "CHECK" => powered' = powered
        /\ ~abort /\ state # "CHECK" =>
             \/ (CoolantAsked' <=> CoolantAsked) /\ (CoolantRuns' <=> CoolantRuns)
             \/ CoolantAsked' <=> CoolantRuns'
    BY <1>16 DEF SyncedAccessory, Accessories
  <2>3. blocks = <<>> => CoolantPlanned'
    BY <2>1, PlannedEmpty
  <2> QED
    BY <1>0, <1>1, <2>1, <2>2, <2>3
<1>17. CASE SyncedProgram
  <2>1. /\ ctx = "synced" /\ ctx' = "loop" /\ pc' = "run"
        /\ UNCHANGED <<state, abort, suspend, stepping, rtState, rtAlarm, blocks, cmd>>
        /\ modal' = {} /\ (abort \/ state = "CHECK" => powered' = powered)
        /\ (~abort /\ state # "CHECK" => powered' = {})
    BY <1>0, <1>17 DEF SyncedProgram
  <2>2. blocks = <<>> => CoolantPlanned'
    BY <2>1, PlannedEmpty
  <2> QED
    BY <1>0, <1>1, <2>1, <2>2
<1>18. CASE SyncedPause \/ Dwelling
  BY <1>0, <1>2, <1>18 DEF SyncedPause, Dwelling
<1>19. CASE SyncedProbe
  BY <1>0, <1>2, <1>19 DEF SyncedProbe
<1>20. CASE ProbeWait
  BY <1>0, <1>2, <1>20 DEF ProbeWait
<1>21. CASE ProbeEnd
  <2>1. CoolantPlanned'
    BY <1>21, PlannedEmpty DEF ProbeEnd
  <2> QED
    BY <1>0, <1>21, <2>1 DEF ProbeEnd, StReset
<1>22. CASE ExecHome
  <2>1. PrepBuffer({"SYS_MOTION"}, FALSE) /\ modal' = modal
    BY <1>22 DEF ExecHome, HomingMotion
  <2>2. CoolantPlanned => CoolantPlanned'
    BY <1>0, <2>1, PlannedKept
  <2>3. state \in {"IDLE", "ALARM"} /\ state' = "HOMING" /\ ctx' = "homeSwitch" /\ pc' = "run"
        /\ UNCHANGED <<abort, suspend, rtState, rtAlarm, powered, modal, cmd>>
    BY <1>22 DEF ExecHome, HomingMotion, Rejected
  <2> QED
    BY <1>0, <2>2, <2>3
<1>23. CASE HomingPrep \/ HomingFound \/ HomingFails \/ HomingPulledOff \/ HomingNext \/ HomingEnd
  <2>1. /\ ctx \in HomingPoints /\ ctx' \in HomingPoints \union {"loop", "eol"}
        /\ pc' \in {"run", "alarm"} /\ UNCHANGED <<suspend, abort, modal>>
    BY <1>0, <1>23 DEF HomingPrep, HomingFound, HomingFails, HomingPulledOff, HomingNext, HomingEnd,
       HomingMotion, HomingPoints, StartupLine
  <2>2. CoolantPlanned => CoolantPlanned'
    <3>1. CASE blocks' = blocks
      BY <1>2, <2>1, <3>1
    <3>2. CASE blocks' # blocks
      <4>1. PICK c, on : PrepBuffer(c, on)
        BY <1>23, <3>2 DEF HomingPrep, HomingFound, HomingFails, HomingPulledOff, HomingNext,
           HomingEnd, HomingMotion
      <4> QED
        BY <1>0, <2>1, <4>1, PlannedKept
    <3> QED
      BY <3>1, <3>2
  <2>3. CASE ctx = "homeEnd"
    <3>1. HomingEnd
      BY <1>23, <2>3 DEF HomingPrep, HomingFound, HomingFails, HomingPulledOff, HomingNext
    <3>2. IF abort THEN UNCHANGED <<state, stepping>> ELSE state' = "IDLE" /\ stepping' = FALSE
      BY <3>1 DEF HomingEnd
    <3>3. ctx' \in {"loop", "eol"} /\ pc' = "run" /\ UNCHANGED <<rtState, rtAlarm, powered>>
      BY <1>0, <3>1 DEF HomingEnd, StartupLine
    <3>4. Quiet => state \notin {"SLEEP", "CHECK"} /\ state # "DOOR"
      BY <1>0, <1>1, <2>3 DEF MotionState, MotionInv, HomeInv, HoldInv, Boot, HoldDone
    <3> QED
      BY <1>0, <2>1, <2>2, <3>2, <3>3, <3>4
  <2>4. CASE ctx # "homeEnd"
    <3>1. state = "HOMING"
      BY <2>1, <2>4 DEF MotionState, MotionInv, HomeInv, HomingLoop, HomingPoints
    <3>2. ~HomingEnd
      BY <2>4 DEF HomingEnd
    <3>3. state' = state
      BY <1>23, <3>2 DEF HomingPrep, HomingFound, HomingFails, HomingPulledOff, HomingNext
    <3>4. /\ powered' = powered \/ powered' = {}
          /\ rtState' \in {rtState, rtState \union {"RESET"}, rtState \ {"CYCLE_STOP"}}
      <4>1. CASE HomingFails
        BY <4>1 DEF HomingFails, McResetWith
      <4>2. CASE ~HomingFails
        BY <1>23, <3>2, <4>2 DEF HomingPrep, HomingFound, HomingPulledOff, HomingNext
      <4> QED
        BY <4>1, <4>2
    <3>5. Quiet' => Quiet /\ powered' = powered
      BY <1>0, <1>23, <2>1, <3>2, <3>4 DEF HomingPrep, HomingFound, HomingFails, McResetWith,
         HomingPulledOff, HomingNext
    <3> QED
      BY <1>0, <2>1, <2>2, <2>4, <3>1, <3>3, <3>5 DEF HomingPoints
  <2> QED
    BY <2>3, <2>4
<1> QED
  BY <1>3, <1>4, <1>5, <1>6, <1>7, <1>8, <1>9, <1>10, <1>11, <1>12, <1>13, <1>14, <1>15, <1>16,
     <1>17, <1>18, <1>19, <1>20, <1>21, <1>22, <1>23 DEF MainLines

\* The executor: nothing that it does switches the coolant, and a start leaves no state in
\* which the coolant may be off.
LEMMA CoolExecutor ==
  ASSUME MotionState, CoolInv, ~CycleMeetsReset, ExecRtSystem
  PROVE  CoolInv'
<1> USE DEF CoolInv, Quiet, Live, CoolantAsked, CoolantRuns, Flagged
<1>0. /\ state \in {"IDLE", "ALARM", "CHECK", "HOMING", "CYCLE", "HOLD", "JOG", "DOOR", "SLEEP"}
      /\ Buffers /\ AbortInv /\ pc # "run"
  BY TypeBuffers DEF MotionState, TypeOK, States, ResumeInv, ExecRtSystem, RtAlarm, RtCritical,
     RtClearAlarm, RtCopy, RtHolds, RtStart, RtStop, RtTail
<1>1. /\ ctx \notin {"enter", "synced", "init"} /\ ctx' = ctx
      /\ UNCHANGED <<modal, powered, cmd>>
  BY <1>0 DEF MotionState, MotionInv, LineInv, Boot, ExecRtSystem, RtAlarm, RtCritical,
     RtClearAlarm, RtCopy, RtHolds, RtStart, RtStop, RtTail, ExecFrame, mainVars, powerVars
<1>2. CoolantPlanned /\ blocks' = blocks => CoolantPlanned'
  BY <1>1, PlannedSame
<1>3. CASE RtAlarm
  <2>1. /\ pc = "alarm" /\ UNCHANGED <<suspend, abort, stepping, blocks, susp, restore, rtAlarm>>
        /\ \/ rtAlarm = "NONE" /\ pc' = "copy" /\ UNCHANGED <<state, rtState>>
           \/ rtAlarm # "NONE" /\ state' = "ALARM" /\ pc' = "critical"
           \/ rtAlarm # "NONE" /\ state' = "ALARM" /\ pc' = "clear" /\ rtState' = rtState
    BY <1>3 DEF RtAlarm, ExecFrame, motionVars, mainVars
  <2>2. rtAlarm # "NONE" /\ Live => susp = "none" /\ suspend = {}
    BY DEF MotionState, MotionInv, AlarmInv
  <2>3. suspend = {} => state \notin {"DOOR", "SLEEP"}
    BY <1>1 DEF MotionState, MotionInv, HoldInv, HoldDone, Boot
  <2> QED
    BY <1>0, <1>1, <1>2, <2>1, <2>2, <2>3
<1>4. CASE RtCritical
  BY <1>0, <1>1, <1>2, <1>4 DEF RtCritical, sysVars, flagVars, ExecFrame, motionVars, mainVars
<1>5. CASE RtClearAlarm
  BY <1>0, <1>1, <1>2, <1>5 DEF RtClearAlarm, sysVars, ExecFrame, motionVars, mainVars
<1>6. CASE RtCopy
  <2>1. /\ pc = "copy" /\ UNCHANGED <<state, suspend, rtState, rtAlarm, stepping, blocks, restore>>
        /\ \/ "RESET" \in rtState
           \/ pc' \in {"holds", "start", "stop", "tail"} /\ UNCHANGED <<abort, susp>>
    BY <1>6, NextBlockOrder DEF RtCopy, flagVars, motionVars
  <2> QED
    BY <1>0, <1>1, <1>2, <2>1
<1>7. CASE RtHolds
  <2>1. /\ pc = "holds" /\ pc' \in {"start", "stop", "tail"}
        /\ "RESET" \in rtState' <=> "RESET" \in rtState
        /\ UNCHANGED <<abort, rtAlarm, stepping, blocks, susp, restore>>
    BY <1>7, NextBlockOrder DEF RtHolds, HoldFlags, ExecFrame, motionVars, mainVars
  <2>2. ~abort
    BY <1>0, <2>1 DEF AbortInv
  <2>3. CASE state \in {"ALARM", "CHECK"}
    <3>1. "SLEEP" \in rtExec => state # "CHECK"
      BY <2>1, <2>2, <2>3 DEF MotionState, MotionInv, SleepInv, HoldInv, HoldDone
    <3>2. state' = Asleep(state)
      BY <1>7, <2>3, HoldsNotAllowed
    <3> QED
      BY <1>0, <1>1, <1>2, <2>1, <2>3, <3>1, <3>2 DEF Asleep
  <2>4. CASE state \notin {"ALARM", "CHECK"}
    <3>1. /\ state' \in {state, "HOLD", "DOOR", "SLEEP"}
          /\ state' = "HOLD" => state \notin {"DOOR", "SLEEP"}
      BY <1>7, <2>4, HoldsEffect DEF Asleep, HeldState
    <3>2. "RESTORE_COMPLETE" \in suspend' => "RESTORE_COMPLETE" \in suspend
      BY <1>7, <2>4, HoldsEffect DEF HeldSuspend
    <3>3. "RESTART_RETRACT" \in suspend /\ state # "IDLE" => "RESTART_RETRACT" \in suspend'
      BY <1>7, <2>4, HoldsEffect DEF HeldSuspend
    <3>4. /\ "RESTORE_COMPLETE" \in suspend => state = "DOOR"
          /\ susp \in {"plunge", "plunged"} => state = "DOOR"
      BY <2>2, <2>4 DEF MotionState, MotionInv, RestoredInv, RestoreInv, RestorePoints
    <3> QED
      BY <1>0, <1>1, <1>2, <2>1, <2>2, <2>4, <3>1, <3>2, <3>3, <3>4
  <2> QED
    BY <2>3, <2>4
<1>8. CASE RtStart
  <2>1. /\ pc = "start" /\ pc' \in {"stop", "tail"}
        /\ "RESET" \in rtState' <=> "RESET" \in rtState
        /\ UNCHANGED <<abort, rtAlarm, susp, restore>>
    BY <1>8, NextBlockOrder DEF RtStart, mainVars
  <2>2. ~abort
    BY <1>0, <2>1 DEF AbortInv
  <2>3. "RESET" \in rtState => ~stepping
    BY <2>1 DEF MotionState, MotionInv, StopInv
  <2>4. CoolantPlanned => CoolantPlanned'
    <3>1. CASE blocks' = blocks
      BY <1>2, <3>1
    <3>2. CASE blocks' # blocks
      <4>1. PrepBuffer({}, FALSE)
        BY <1>8, <3>2, StartEffect DEF motionVars
      <4> QED
        BY <1>0, <1>1, <4>1, PlannedKept
    <3> QED
      BY <3>1, <3>2
  <2>5. CASE /\ UNCHANGED <<state, stepping>>
             /\ "RESTORE_COMPLETE" \in suspend' <=> "RESTORE_COMPLETE" \in suspend
             /\ ("RESTART_RETRACT" \in suspend' <=> "RESTART_RETRACT" \in suspend)
    BY <1>0, <1>1, <2>1, <2>4, <2>5
  <2>6. CASE state' \in {"CYCLE", "IDLE"}
             /\ (state \in {"IDLE", "HOLD"} \/ (state = "DOOR" /\ "RESTORE_COMPLETE" \in suspend))
             /\ (state' = "CYCLE" => stepping')
    <3>1. state' = "CYCLE" => "RESET" \notin rtState
      BY <2>3, <2>6 DEF CycleMeetsReset
    <3> QED
      BY <1>0, <1>1, <2>1, <2>2, <2>4, <2>6, <3>1
  <2>7. CASE UNCHANGED <<state, suspend, stepCtl, motionVars>>
    BY <2>5, <2>7 DEF motionVars
  <2>8. CASE suspend' = suspend \union {"INITIATE_RESTORE"} /\ UNCHANGED <<state, stepCtl, motionVars>>
    BY <2>5, <2>8 DEF motionVars
  <2>9. CASE /\ \/ state \in {"IDLE", "HOLD"}
                \/ state = "DOOR" /\ "RESTORE_COMPLETE" \in suspend
             /\ \/ state' = "CYCLE" /\ stepping' = TRUE
                \/ state' = "IDLE"
    BY <2>6, <2>9
  <2> HIDE DEF CoolInv
  <2> QED
    BY <1>8, <2>7, <2>8, <2>9, StartEffect
<1>9. CASE RtStop
  <2>1. /\ pc = "stop" /\ pc' = "tail"
        /\ "RESET" \in rtState' <=> "RESET" \in rtState
        /\ UNCHANGED <<abort, rtAlarm, susp, restore>>
    BY <1>9 DEF RtStop, mainVars
  <2>2. ~abort /\ "CYCLE_STOP" \in rtExec
    BY <1>0, <2>1 DEF AbortInv, MotionState, MotionInv, StopInv
  <2>3. state \notin {"ALARM", "CHECK", "IDLE"} /\ ~stepping
    BY <2>1, <2>2 DEF MotionState, MotionInv, StopInv, StopCopied
  <2>4. "RESTORE_COMPLETE" \notin suspend
    BY <2>1, <2>2, <2>3 DEF MotionState, MotionInv, RestoredInv
  <2>5. state \in {"DOOR", "SLEEP"} => HoldStays
    <3>1. state \in {"DOOR", "SLEEP"} => suspend # {}
      BY <1>1 DEF MotionState, MotionInv, HoldInv, HoldDone, Boot
    <3> QED
      BY <2>2, <3>1 DEF HoldStays, MotionState, MotionInv, SoftInv, JogInv
  <2>6. susp \in {"plunge", "plunged"} => state = "DOOR"
    BY <2>2, <2>3 DEF MotionState, MotionInv, RestoreInv, RestorePoints
  <2>7. CASE HoldStays
    <3>1. /\ UNCHANGED <<state, stepping, blocks>>
          /\ "RESTORE_COMPLETE" \notin suspend'
          /\ "RESTART_RETRACT" \in suspend' <=> "RESTART_RETRACT" \in suspend
      BY <1>9, <2>4, <2>7 DEF RtStop, motionVars
    <3> QED
      BY <1>0, <1>1, <1>2, <2>1, <3>1
  <2>8. CASE ~HoldStays
    <3>1. state' \in {"DOOR", "IDLE"} /\ "RESTORE_COMPLETE" \notin suspend' /\ blocks' \in {blocks, <<>>}
      BY <1>9, <2>4, <2>8 DEF RtStop, motionVars
    <3>2. CoolantPlanned => CoolantPlanned'
      BY <1>2, <3>1, PlannedEmpty
    <3> QED
      BY <1>0, <1>1, <2>1, <2>3, <2>5, <2>6, <2>8, <3>1, <3>2
  <2> QED
    BY <2>7, <2>8
<1>10. CASE RtTail
  <2>1. /\ pc = "tail" /\ pc' = "run" /\ UNCHANGED <<state, suspend, abort, rtState, rtAlarm, stepping>>
        /\ \/ susp = "none" /\ susp' = "top" /\ restore' = QueueAccessories(blocks')
           \/ UNCHANGED <<susp, restore>>
    BY <1>10 DEF RtTail
  <2>2. CoolantPlanned => CoolantPlanned'
    BY <1>0, <1>1, <1>2, <1>10, PlannedKept DEF RtTail
  <2>3. Buffers'
    <3>1. TypeOK'
      BY ExecRtSystemType DEF MotionState
    <3> QED
      BY <3>1 DEF TypeOK, Buffers
  <2>4. CoolantPlanned => ("coolant" \in QueueAccessories(blocks') <=> CoolantAsked)
    BY <1>1, <2>2, <2>3, NotedCoolant
  <2> HIDE DEF CoolantPlanned
  <2> QED
    BY <1>0, <1>1, <2>1, <2>2, <2>4
<1> QED
  BY <1>3, <1>4, <1>5, <1>6, <1>7, <1>8, <1>9, <1>10 DEF ExecRtSystem

LEMMA CoolNext ==
  ASSUME MotionState, CoolInv, [Next]_vars, [Apart /\ ~CycleMeetsReset]_vars
  PROVE  CoolInv'
<1>1. CASE UNCHANGED vars
  BY <1>1 DEF CoolInv, Quiet, Live, CoolantAsked, CoolantRuns, CoolantPlanned, vars, sysVars,
     flagVars, execVars, motionVars, powerVars, modeVars, mainVars
<1>2. CASE ExecRtSystem /\ ~CycleMeetsReset
  BY <1>2, CoolExecutor
<1>3. CASE ExecRtSuspend
  BY <1>3, CoolSuspend
<1>4. CASE MainLines
  BY <1>4, CoolLines
<1>5. CASE Interrupts
  BY <1>5, CoolInterrupts
<1> QED
  BY <1>1, <1>2, <1>3, <1>4, <1>5 DEF Next, MainProgram

\* While a cycle moves, the coolant runs exactly if the modes ask for it: whatever holds, doors,
\* parking, sleep and resets came before, every way back into the cycle restores it.  The one
\* exception is a reset that comes between a check point and the start it serves there.
THEOREM CoolantRestoredHolds ==
  Spec /\ [][Apart /\ ~CycleMeetsReset]_vars => []CoolantRestored
<1>1. Init => CoolInv
  BY DEF Init, CoolInv, Quiet, Live, CoolantAsked, CoolantRuns, CoolantPlanned
<1>2. MotionState /\ CoolInv /\ [Next]_vars /\ [Apart /\ ~CycleMeetsReset]_vars => CoolInv'
  BY CoolNext
<1>3. CoolInv => CoolantRestored
  BY DEF CoolInv, CoolantRestored, CoolantAsked, CoolantRuns, Quiet
<1>4. Spec /\ [][Apart]_vars => []MotionState
  BY MotionHolds
<1>5. [Apart /\ ~CycleMeetsReset]_vars => [Apart]_vars
  OBVIOUS
<1> QED
  BY <1>1, <1>2, <1>3, <1>4, <1>5, PTL DEF Spec

-----------------------------------------------------------------------------
(* The parked door. *)

\* The steps that may leave the spindle on in a parked door stop.  A late main program lets the
\* fast motion to the parking position end before its segments are prepared, with one of the
\* pull-out still in the buffer that holds the spindle on; and a retract that begins with segments
\* left of a cancelled motion, whose hold flag is left too, ends with them.
ParkUnderruns == StepDone /\ ~Prepared /\ susp = "parked"
LeftoverParks == RetractFast /\ "EXECUTE_HOLD" \in stepCtl /\ segs # <<>>
ParksClean == ~ParkUnderruns /\ ~LeftoverParks

SegsOff == \A i \in 1..Len(segs) : ~segs[i]
AllOff == "spindle" \notin powered /\ SegsOff
EndsOff == IF segs = <<>> THEN "spindle" \notin powered ELSE ~segs[Len(segs)]

\* A parked door has its outputs off and nothing steps; the fast motion to the parking position
\* ends with the spindle off, since its own segments, which have it off, come last.
ParkedInv ==
  /\ state = "DOOR" /\ "RETRACT_COMPLETE" \in suspend /\ "INITIATE_RESTORE" \notin suspend =>
       powered = {} /\ ~stepping
  /\ "RETRACT_COMPLETE" \in suspend /\ ~abort => state \in {"DOOR", "SLEEP", "ALARM"}
  /\ "RESTART_RETRACT" \in suspend => "RETRACT_COMPLETE" \notin suspend
  /\ susp = "parked" =>
       /\ "coolant" \notin powered
       /\ ~SysMotion => powered = {}
       /\ SysMotion => \/ AllOff
                       \/ "EXECUTE_HOLD" \notin stepCtl /\ ("END_MOTION" \in stepCtl => EndsOff)
       /\ SysMotion /\ (StopCopied \/ (Flagged("CYCLE_STOP") /\ Live)) => AllOff

\* What st_prep_buffer() adds for a system motion with the spindle off.
LEMMA PrepParks ==
  ASSUME Buffers, NEW c, PrepBuffer(c, FALSE), "SYS_MOTION" \in c
  PROVE  /\ SegsOff => SegsOff'
         /\ "END_MOTION" \in c => segs' = segs
         /\ "END_MOTION" \notin c /\ "EXECUTE_HOLD" \notin c /\ "END_MOTION" \in stepCtl' =>
              segs' # <<>> /\ ~segs'[Len(segs')]
<1>1. CASE "END_MOTION" \in c
  BY <1>1 DEF PrepBuffer, SegsOff
<1>2. CASE "END_MOTION" \notin c
  <2>1. PICK n \in 0..(SegMax - Len(segs)), ended \in BOOLEAN :
          /\ ended => n > 0 \/ "EXECUTE_HOLD" \in c
          /\ segs' = segs \o [i \in 1..n |-> FALSE]
          /\ stepCtl' = IF ended THEN c \union {"END_MOTION"} ELSE c
    BY <1>2 DEF PrepBuffer, PrepSystemMotion
  <2>2. Len(segs) \in Nat /\ n \in Nat /\ segs \in Seq(BOOLEAN)
    BY <2>1, LenProperties, ConstantsAssumption DEF Buffers
  <2> DEFINE f == [i \in 1..n |-> FALSE]
  <2>3. f \in Seq(BOOLEAN) /\ Len(f) = n /\ \A i \in 1..n : ~f[i]
    <3>1. f \in [1..n -> BOOLEAN]
      OBVIOUS
    <3> QED
      BY <2>2, <3>1, FunctionIsSeq
  <2> HIDE DEF f
  <2>4. /\ Len(segs') = Len(segs) + n
        /\ \A i \in 1..Len(segs') : segs'[i] = IF i <= Len(segs) THEN segs[i] ELSE f[i - Len(segs)]
    <3>1. segs' = segs \o f
      BY <2>1 DEF f
    <3>2. /\ Len(segs \o f) = Len(segs) + Len(f)
          /\ \A i \in 1..(Len(segs) + Len(f)) :
               (segs \o f)[i] = IF i <= Len(segs) THEN segs[i] ELSE f[i - Len(segs)]
      BY <2>2, <2>3, ConcatProperties, Zenon
    <3> HIDE DEF f
    <3> QED
      BY <2>3, <3>1, <3>2
  <2>5. SegsOff => SegsOff'
    BY <2>2, <2>3, <2>4 DEF SegsOff
  <2>6. ASSUME n > 0 PROVE segs' # <<>> /\ ~segs'[Len(segs')]
    <3>1. Len(segs') > 0 /\ Len(segs') \in 1..Len(segs') /\ Len(segs') > Len(segs)
          /\ Len(segs') - Len(segs) = n
      BY <2>2, <2>4, <2>6
    <3> QED
      BY <2>2, <2>3, <2>4, <2>6, <3>1
  <2> QED
    BY <1>2, <2>1, <2>5, <2>6
<1> QED
  BY <1>1, <1>2

\* A segment that the stepper loads sets the spindle as it says.
LEMMA StepParks ==
  ASSUME Buffers, StepSegment
  PROVE  /\ AllOff => AllOff'
         /\ EndsOff => EndsOff'
<1>1. segs \in Seq(BOOLEAN) /\ segs # <<>> /\ segs' = Tail(segs) /\ Len(segs) \in Nat /\ Len(segs) >= 1
  <2>1. segs \in Seq(BOOLEAN) /\ segs # <<>> /\ segs' = Tail(segs)
    BY DEF Buffers, StepSegment
  <2> QED
    BY <2>1, LenProperties, EmptySeq
<1>2. /\ Head(segs) = segs[1] /\ Len(segs') = Len(segs) - 1
      /\ \A i \in 1..Len(segs') : segs'[i] = segs[i + 1]
  BY <1>1, HeadTailProperties
<1>3. /\ "spindle" \in powered' <=> Head(segs)
  BY DEF StepSegment
<1>4. AllOff => AllOff'
  <2>1. SegsOff => ~Head(segs) /\ SegsOff'
    <3>1. ASSUME SegsOff PROVE ~Head(segs)
      <4>1. 1 \in 1..Len(segs)
        BY <1>1
      <4>2. ~segs[1]
        BY <3>1, <4>1, Zenon DEF SegsOff
      <4> QED
        BY <1>2, <4>2, Zenon
    <3>2. ASSUME SegsOff, NEW i \in 1..Len(segs') PROVE ~segs'[i]
      <4>1. i + 1 \in 1..Len(segs)
        BY <1>1, <1>2
      <4> QED
        BY <1>2, <3>2, <4>1 DEF SegsOff
    <3> QED
      BY <3>1, <3>2 DEF SegsOff
  <2> QED
    BY <1>3, <2>1 DEF AllOff
<1>5. EndsOff => EndsOff'
  <2>1. CASE Len(segs) = 1
    <3>1. segs' = <<>>
      BY <1>1, <1>2, <2>1
    <3> QED
      BY <1>1, <1>2, <1>3, <2>1, <3>1 DEF EndsOff
  <2>2. CASE Len(segs) > 1
    <3>1. segs' # <<>> /\ Len(segs') \in 1..Len(segs') /\ segs'[Len(segs')] = segs[Len(segs)]
      BY <1>1, <1>2, <2>2
    <3> QED
      BY <1>1, <3>1 DEF EndsOff
  <2> QED
    BY <1>1, <2>1, <2>2
<1> QED
  BY <1>4, <1>5

\* The interrupts: a reset switches everything off, and a motion to the parking position that
\* ends, ends with its own segments.
LEMMA ParkInterrupts ==
  ASSUME MotionState, ParkedInv, ~ParkUnderruns, Interrupts
  PROVE  ParkedInv'
<1> USE DEF ParkedInv, Live, Flagged, StopCopied, SysMotion
<1>0. /\ UNCHANGED <<state, suspend, stepCtl, abort, pc, susp, rtExec>>
      /\ stepping \in BOOLEAN /\ Buffers
  BY InterruptsKeepMain, TypeBuffers DEF sysVars, execVars, mainVars, MotionState, TypeOK
<1>1. AllOff /\ segs' = segs /\ (powered' = powered \/ powered' = {}) => AllOff'
  BY DEF AllOff, SegsOff
<1>2. EndsOff /\ segs' = segs /\ (powered' = powered \/ powered' = {}) => EndsOff'
  BY DEF EndsOff
<1>3. CASE RxReset \/ LimitIsr
  <2>1. powered' = powered \/ powered' = {}
    BY <1>3 DEF RxReset, LimitIsr, McReset, McResetWith
  <2>2. segs' = segs /\ (stepping' => stepping) /\ rtState' = rtState \union {"RESET"}
    BY <1>0, <1>3, McResetAlarms, McResetStops
    DEF RxReset, LimitIsr, McResetFrame, McReset, McResetWith
  <2> QED
    BY <1>0, <1>1, <1>2, <2>1, <2>2
<1>4. CASE StepSegment
  <2>1. /\ stepping /\ stepping' = stepping /\ rtState' = rtState
        /\ "coolant" \notin powered => "coolant" \notin powered'
    BY <1>4 DEF StepSegment, flagVars
  <2>2. susp = "parked" => SysMotion
    BY <2>1 DEF MotionState, MotionInv, ParkInv, ParkPoints
  <2> QED
    BY <1>0, <1>4, <2>1, <2>2, StepParks
<1>5. CASE StepDone
  <2>1. /\ stepping /\ ~stepping' /\ segs = <<>> /\ segs' = segs /\ powered' = powered
        /\ rtState' = rtState \union {"CYCLE_STOP"}
    BY <1>0, <1>5 DEF StepDone, powerVars
  <2>2. ~StopCopied
    BY <2>1 DEF MotionState, MotionInv, StopInv
  <2>3. ASSUME susp = "parked", SysMotion, Live PROVE AllOff
    <3>1. state # "ALARM" /\ state \in {"DOOR", "SLEEP", "ALARM"}
      BY <2>1, <2>3 DEF MotionState, MotionInv, RestInv, ParkInv, ParkPoints
    <3>2. "END_MOTION" \in stepCtl
      BY <1>5, <2>3, <3>1 DEF ParkUnderruns, Prepared, PrepStates
    <3>3. AllOff \/ EndsOff
      BY <2>3, <3>2
    <3> QED
      BY <2>1, <3>3, EmptySeq DEF AllOff, EndsOff, SegsOff
  <2> QED
    BY <1>0, <1>1, <1>2, <2>1, <2>2, <2>3
<1>6. CASE ~(RxReset \/ LimitIsr \/ StepSegment \/ StepDone)
  <2>1. /\ powered' = powered /\ segs' = segs /\ stepping' = stepping
        /\ "CYCLE_STOP" \in rtState' <=> "CYCLE_STOP" \in rtState
        /\ "RESET" \in rtState' <=> "RESET" \in rtState
    BY <1>6 DEF Interrupts, ProbeContact, RxStart, RxHold, RxDoor, RxJogCancel, RxSpindleStop,
       PinMoves, PinsDebounced, RaiseFlag, flagVars, powerVars, motionVars
  <2> QED
    BY <1>0, <1>1, <1>2, <2>1
<1> QED
  BY <1>3, <1>4, <1>5, <1>6

\* The lines run with nothing suspended; under a reset they start nothing and switch nothing on.
LEMMA ParkLines ==
  ASSUME MotionState, ParkedInv, MainLines
  PROVE  ParkedInv'
<1> USE DEF ParkedInv
<1>0. pc = "run" /\ susp = "none" /\ susp' = "none"
  BY MainLinesKeepSuspend
<1>1. ~abort => suspend = {}
  BY <1>0 DEF MotionState, ResumeInv, NothingLeftSuspended
<1>2. suspend' = suspend \/ suspend' = {}
  BY DEF MainLines, Reinit, Enter, NoData, Tick, MainWake, EndOfLine, LineAborted, RejectLine,
     ExecUnlock, ExecCheck, ExecSleep, ExecMove, LineBailsOut, LineWaits, LineQueued, JogStart,
     ExecMoveOut, SoftWait, SoftAlarm, ExecSync, SyncWait, SyncedAccessory, SyncedProgram,
     SyncedPause, Dwelling, SyncedProbe, ProbeWait, ProbeEnd, ExecHome, HomingPrep, HomingFound,
     HomingFails, HomingPulledOff, HomingNext, HomingEnd, HomingMotion, sysVars, SysFrame,
     LineFrame, HomingFrame
<1>3. CASE ~abort \/ suspend' = {}
  BY <1>0, <1>1, <1>2, <1>3
<1>4. CASE abort /\ suspend' = suspend
  <2>1. CASE Reinit
    BY <1>0, <1>4, <2>1 DEF Reinit
  <2>2. CASE ~Reinit
    <3>1. abort'
      BY <1>4, <2>2 DEF MainLines, Enter, NoData, Tick, MainWake, EndOfLine, LineAborted, RejectLine,
         ExecUnlock, ExecCheck, ExecSleep, ExecMove, LineBailsOut, LineWaits, LineQueued, JogStart,
         ExecMoveOut, SoftWait, SoftAlarm, ExecSync, SyncWait, SyncedAccessory, SyncedProgram,
         SyncedPause, Dwelling, SyncedProbe, ProbeWait, ProbeEnd, ExecHome, HomingPrep, HomingFound,
         HomingFails, HomingPulledOff, HomingNext, HomingEnd, HomingMotion, sysVars, SysFrame,
         LineFrame, HomingFrame
    <3>2. state' = "DOOR" => state = "DOOR"
      BY <2>2, LinesKeepState DEF Enter, ExecUnlock, ExecCheck, JogStart, ExecHome, HomingEnd
    <3>3. ASSUME state' = "DOOR" PROVE (powered' = powered \/ powered' = {}) /\ (stepping' => stepping)
      <4>1. ctx \notin {"homeSwitch", "homeBack", "nextSwitch", "nextBack", "nextDone"}
        BY <3>2, <3>3 DEF MotionState, MotionInv, HomeInv, HomingLoop
      <4>2. CASE SoftAlarm
        BY <1>4, <4>2 DEF SoftAlarm, Main, McReset, McResetWith
      <4>3. CASE ~SoftAlarm
        BY <1>4, <2>2, <3>2, <3>3, <4>1, <4>3 DEF MainLines, Enter, NoData, Tick, MainWake, EndOfLine,
           LineAborted, RejectLine, ExecUnlock, ExecCheck, ExecSleep, ExecMove, LineBailsOut,
           LineWaits, LineQueued, JogStart, ExecMoveOut, SoftWait, ExecSync, SyncWait,
           SyncedAccessory, SyncedProgram, SyncedPause, Dwelling, SyncedProbe, ProbeWait, ProbeEnd,
           ExecHome, HomingPrep, HomingFound, HomingFails, HomingPulledOff, HomingNext, HomingEnd,
           Main, Execute, StReset, sysVars, motionVars, powerVars, LineFrame
      <4> QED
        BY <4>2, <4>3
    <3> QED
      BY <1>0, <1>4, <3>1, <3>2, <3>3
  <2> QED
    BY <2>1, <2>2
<1> QED
  BY <1>2, <1>3, <1>4

\* The suspend loop switches everything off before it is parked, and the spindle on only after
\* a start has begun the restore.
LEMMA ParkSuspend ==
  ASSUME MotionState, ParkedInv, ~LeftoverParks, ExecRtSuspend
  PROVE  ParkedInv'
<1> USE DEF ParkedInv, At, CallRt, Reached, Stopped, Parking, DoorParked, Holding, ParkSkip,
            SuspFrame, sysVars, motionVars, powerVars, SysMotion
<1>0. /\ pc = "run" /\ susp # "none" /\ pc' \in {"run", "alarm"}
      /\ rtState \subseteq rtState' /\ Buffers /\ stepping \in BOOLEAN
      /\ UNCHANGED <<ctx, cmd, restore, rtAlarm, rtExec, abort, state>>
  BY SuspendLoopFlags, SuspendLoopFrame, TypeBuffers DEF MotionState, TypeOK, SuspFrame
<1>1. ~abort
  BY <1>0 DEF MotionState, MotionInv, ParkInv
<1>2. ~StopCopied'
  BY <1>0 DEF StopCopied
<1>3. stepping => SysMotion \/ susp \notin ParkPoints
  BY DEF MotionState, MotionInv, ParkInv
<1>4. HoldDone /\ ~SysMotion => ~stepping
  BY <1>1 DEF MotionState, MotionInv, HoldInv
<1>5. "RETRACT_COMPLETE" \in suspend => HoldDone
  BY <1>1 DEF MotionState, MotionInv, HoldInv
<1>6. CASE SuspLeave \/ SuspMoving \/ HoldIdle \/ OverrideKeep \/ OverrideEnd \/ SuspTail \/ SuspWake
  BY <1>0, <1>6 DEF SuspLeave, SuspMoving, HoldIdle, OverrideKeep, OverrideEnd, SuspTail, SuspWake
<1>7. CASE ParkWait \/ StayAsleep
  <2>1. UNCHANGED <<suspend, stepCtl, powered, segs, stepping, rtState, susp>>
    BY <1>7 DEF ParkWait, StayAsleep
  <2>2. Live' => Live
    BY <1>0, <2>1 DEF Live
  <2> QED
    BY <1>0, <1>2, <2>1, <2>2 DEF AllOff, EndsOff, SegsOff, Flagged
<1>8. CASE RetractBegin
  <2>1. CASE ParkMotion("retract") /\ suspend' = suspend
    <3>1. susp' = "retract"
      BY <2>1 DEF ParkMotion, ParkStart
    <3> QED
      BY <1>0, <1>8, <2>1, <3>1 DEF RetractBegin
  <2>2. CASE ~(ParkMotion("retract") /\ suspend' = suspend)
    <3>1. /\ powered' = {} /\ susp' = "tail" /\ stepping' = stepping
          /\ suspend' = (suspend \ {"RESTART_RETRACT"}) \union {"RETRACT_COMPLETE"}
          /\ HoldDone /\ state \in {"DOOR", "SLEEP"} /\ susp = "top"
      BY <1>8, <2>2 DEF RetractBegin, HoldDone
    <3>2. ~SysMotion
      BY <1>0, <1>1, <3>1 DEF MotionState, MotionInv, ParkInv, AfterPark, HomeInv
    <3> QED
      BY <1>0, <1>4, <3>1, <3>2
  <2> QED
    BY <2>1, <2>2
<1>9. CASE RetractFast
  <2>1. /\ susp = "retract" /\ susp' = "parked" /\ powered' = {} /\ UNCHANGED <<suspend, rtState>>
        /\ ~SysMotion
    BY <1>9 DEF RetractFast, ParkMotion, ParkStart
  <2>2. HoldDone /\ "RETRACT_COMPLETE" \notin suspend
    BY <2>1 DEF MotionState, MotionInv, ParkInv
  <2>3. Live /\ Flagged("CYCLE_STOP") => SysMotion
    BY <1>1, <2>2 DEF MotionState, MotionInv, HoldInv
  <2>4. ~(Flagged("CYCLE_STOP") /\ Live)'
    BY <1>0, <2>1, <2>3 DEF Flagged, Live
  <2>5. CASE ParkStart("parked")
    <3> DEFINE c == (stepCtl \union {"SYS_MOTION"}) \ {"END_MOTION"}
    <3>1. PrepBuffer(c, FALSE) /\ "SYS_MOTION" \in c /\ "END_MOTION" \notin c
          /\ ("EXECUTE_HOLD" \in c <=> "EXECUTE_HOLD" \in stepCtl)
      BY <2>5 DEF ParkStart
    <3> HIDE DEF c
    <3>2. /\ SegsOff => SegsOff'
          /\ "EXECUTE_HOLD" \notin c /\ "END_MOTION" \in stepCtl' => segs' # <<>> /\ ~segs'[Len(segs')]
      BY <1>0, <3>1, PrepParks
    <3>3. "EXECUTE_HOLD" \in stepCtl' <=> "EXECUTE_HOLD" \in c
      BY <3>1, PrepKeepsControl
    <3>4. CASE "EXECUTE_HOLD" \in stepCtl
      <4>1. segs = <<>>
        BY <1>9, <3>4 DEF LeftoverParks
      <4>2. SegsOff
        BY <4>1, EmptySeq DEF SegsOff
      <4>3. AllOff'
        BY <2>1, <3>2, <4>2 DEF AllOff
      <4> QED
        BY <1>0, <1>2, <2>1, <2>2, <2>4, <4>3
    <3>5. CASE "EXECUTE_HOLD" \notin stepCtl
      <4>1. "END_MOTION" \in stepCtl' => EndsOff'
        BY <3>1, <3>2, <3>5 DEF EndsOff
      <4> QED
        BY <1>0, <1>2, <2>1, <2>2, <2>4, <3>1, <3>3, <3>5, <4>1
    <3> QED
      BY <3>4, <3>5
  <2>6. CASE ~ParkStart("parked")
    <3>1. "SYS_MOTION" \notin stepCtl'
      BY <1>9, <2>6 DEF RetractFast, ParkMotion
    <3> QED
      BY <1>0, <1>2, <2>1, <2>2, <2>4, <3>1
  <2> QED
    BY <2>5, <2>6
<1>10. CASE RetractEnd
  <2>1. susp = "parked" /\ susp' = "tail" /\ ~SysMotion /\ UNCHANGED <<powered, stepping>>
        /\ suspend' = (suspend \ {"RESTART_RETRACT"}) \union {"RETRACT_COMPLETE"}
    BY <1>10 DEF RetractEnd
  <2>2. ~stepping /\ state \in {"DOOR", "SLEEP", "ALARM"}
    BY <1>3, <2>1 DEF ParkPoints, MotionState, MotionInv, ParkInv
  <2> QED
    BY <1>0, <2>1, <2>2
<1>11. CASE FallAsleep
  BY <1>0, <1>11 DEF FallAsleep
<1>12. CASE DoorCheck
  <2>1. /\ \A f \in {"INITIATE_RESTORE", "RETRACT_COMPLETE", "RESTART_RETRACT"} :
             f \in suspend' <=> f \in suspend
        /\ powered' = powered
        /\ \/ "INITIATE_RESTORE" \in suspend /\ susp' = "restoreSpindle"
           \/ susp' = "tail" /\ stepping' = stepping
    BY <1>12 DEF DoorCheck, ParkMotion, ParkStart
  <2> QED
    BY <1>0, <2>1
<1>13. CASE RestoreSpindle \/ RestoreCoolant \/ DelayOn \/ Plunge \/ RestoreEnd
  <2>1. /\ susp \in RestorePoints \/ (susp = "overrideEnd" /\ UNCHANGED <<powered, stepping>>)
        /\ susp' # "parked"
        /\ suspend' = suspend \/ suspend' = suspend \union {"RESTORE_COMPLETE"}
    <3>1. CASE RestoreSpindle \/ RestoreCoolant
      BY <3>1 DEF RestoreSpindle, RestoreCoolant, RestoreStep, RestorePoints
    <3>2. CASE DelayOn
      BY <3>2 DEF DelayOn, RestorePoints
    <3>3. CASE Plunge
      BY <3>3 DEF Plunge, RestorePoints, ParkMotion, ParkStart
    <3>4. CASE RestoreEnd
      BY <3>4 DEF RestoreEnd, RestorePoints
    <3> QED
      BY <1>13, <3>1, <3>2, <3>3, <3>4
  <2>2. CASE susp \in RestorePoints /\ state = "DOOR"
    <3>1. "RESTART_RETRACT" \in suspend \/ "INITIATE_RESTORE" \in suspend
      BY <1>1, <2>2 DEF MotionState, MotionInv, RestoreInv
    <3> QED
      BY <1>0, <2>1, <2>2, <3>1
  <2>3. CASE ~(susp \in RestorePoints /\ state = "DOOR")
    BY <1>0, <2>1, <2>3
  <2> QED
    BY <2>2, <2>3
<1>14. CASE OverrideStop \/ OverrideRestore
  BY <1>0, <1>14 DEF OverrideStop, OverrideRestore
<1> QED
  BY <1>6, <1>7, <1>8, <1>9, <1>10, <1>11, <1>12, <1>13, <1>14 DEF ExecRtSuspend

\* The executor: a door that re-opens undoes the note that the door stop is parked, and the end
\* of the motion to the parking position is seen with everything off.
LEMMA ParkExecutor ==
  ASSUME MotionState, ParkedInv, ExecRtSystem
  PROVE  ParkedInv'
<1> USE DEF ParkedInv, Live, Flagged, SysMotion
<1>0. /\ state \in {"IDLE", "ALARM", "CHECK", "HOMING", "CYCLE", "HOLD", "JOG", "DOOR", "SLEEP"}
      /\ Buffers /\ AbortInv /\ pc # "run" /\ powered \in SUBSET Accessories
  BY TypeBuffers DEF MotionState, TypeOK, States, ResumeInv, ExecRtSystem, RtAlarm, RtCritical,
     RtClearAlarm, RtCopy, RtHolds, RtStart, RtStop, RtTail
<1>1. powered' = powered
  BY DEF ExecRtSystem, RtAlarm, RtCritical, RtClearAlarm, RtCopy, RtHolds, RtStart, RtStop, RtTail,
     ExecFrame, powerVars
<1>2. segs' = segs => (AllOff => AllOff') /\ (EndsOff => EndsOff')
  BY <1>1 DEF AllOff, EndsOff, SegsOff
<1>3. /\ susp \in {"retract", "parked"} => HoldDone /\ "RETRACT_COMPLETE" \notin suspend
      /\ susp = "parked" => state \in {"DOOR", "SLEEP", "ALARM"}
  BY DEF MotionState, MotionInv, ParkInv, ParkPoints
<1>4. CASE RtAlarm
  <2>1. /\ pc = "alarm" /\ pc' \notin {"holds", "start", "stop"}
        /\ UNCHANGED <<suspend, stepCtl, abort, stepping, segs, susp>>
        /\ state' \in {state, "ALARM"}
        /\ pc' = "critical" \/ rtState' = rtState
    BY <1>4 DEF RtAlarm, ExecFrame, motionVars, mainVars
  <2> QED
    BY <1>0, <1>1, <1>2, <2>1 DEF StopCopied
<1>5. CASE RtCritical \/ RtClearAlarm
  <2>1. /\ pc' \in {"clear", "copy"} /\ rtState' = rtState
        /\ UNCHANGED <<state, suspend, stepCtl, abort, stepping, segs, susp>>
        /\ pc = "critical" => "RESET" \in rtState
    BY <1>5 DEF RtCritical, RtClearAlarm, ExecFrame, sysVars, flagVars, motionVars, mainVars
  <2> QED
    BY <1>0, <1>1, <1>2, <2>1 DEF StopCopied
<1>6. CASE RtCopy
  <2>1. /\ pc = "copy" /\ UNCHANGED <<state, suspend, stepCtl, rtState, stepping, segs>>
        /\ \/ abort' /\ susp' = "none"
           \/ "RESET" \notin rtState /\ rtExec' = rtState /\ UNCHANGED <<abort, susp>>
    BY <1>6 DEF RtCopy, flagVars, motionVars
  <2> QED
    BY <1>0, <1>1, <1>2, <2>1 DEF StopCopied
<1>7. CASE RtHolds
  <2>1. /\ pc = "holds" /\ rtState' = rtState \ {"MOTION_CANCEL", "FEED_HOLD", "SAFETY_DOOR", "SLEEP"}
        /\ UNCHANGED <<abort, stepping, segs, susp, rtExec>>
        /\ pc' \in {"start", "stop", "tail"}
    BY <1>7, NextBlockOrder DEF RtHolds, HoldFlags, ExecFrame, motionVars, mainVars
  <2>2. ~abort
    BY <1>0, <2>1 DEF AbortInv
  <2>3. /\ StopCopied' => StopCopied
        /\ Flagged("CYCLE_STOP")' /\ Live' => Flagged("CYCLE_STOP") /\ Live
    BY <2>1 DEF StopCopied
  <2>4. susp = "parked" => stepCtl' = stepCtl
    <3>1. susp = "parked" => ~Decelerates
      BY <1>3 DEF Decelerates
    <3>2. susp = "parked" /\ state # "ALARM" => "INITIATE_RESTORE" \notin suspend
      BY <1>3, <2>2 DEF MotionState, MotionInv, RestoreInv
    <3>3. susp = "parked" /\ state # "ALARM" => ~Reopens
      BY <1>3, <3>2 DEF Reopens, HeldSuspend
    <3> QED
      BY <1>3, <1>7, <3>1, <3>3, HoldsEffect, HoldsNotAllowed DEF HeldCtl
  <2>5. susp = "parked" => stepCtl' = stepCtl /\ (AllOff => AllOff') /\ (EndsOff => EndsOff')
    BY <1>2, <2>1, <2>4
  <2>6. /\ state' = "DOOR" /\ "RETRACT_COMPLETE" \in suspend' /\ "INITIATE_RESTORE" \notin suspend' =>
             powered = {} /\ ~stepping
        /\ "RETRACT_COMPLETE" \in suspend' => state' \in {"DOOR", "SLEEP", "ALARM"}
        /\ "RESTART_RETRACT" \in suspend' => "RETRACT_COMPLETE" \notin suspend'
    <3>1. CASE state \in {"ALARM", "CHECK"}
      <4>1. state = "ALARM" => suspend = {}
        BY <2>1 DEF MotionState, MotionInv, RestInv
      <4>2. "RETRACT_COMPLETE" \in suspend => state # "CHECK"
        BY <2>2
      <4> QED
        BY <1>7, <3>1, <4>1, <4>2, HoldsNotAllowed DEF Asleep
    <3>2. CASE state \notin {"ALARM", "CHECK"} /\ "SAFETY_DOOR" \notin rtExec
      <4>1. state' = Asleep(HeldState) /\ suspend' = HeldSuspend
        BY <1>7, <3>2, HoldsEffect
      <4>2. "RETRACT_COMPLETE" \in suspend => state \in {"DOOR", "SLEEP"}
        BY <2>2, <3>2
      <4> QED
        BY <1>0, <3>2, <4>1, <4>2 DEF Asleep, HeldState, HeldSuspend
    <3>3. CASE state \notin {"ALARM", "CHECK"} /\ "SAFETY_DOOR" \in rtExec /\ "JOG_CANCEL" \in HeldSuspend
      <4>1. state = "JOG"
        BY <2>2, <3>3 DEF HeldSuspend, JogHeld, Decelerates, MotionState, MotionInv, JogInv
      <4>2. "RETRACT_COMPLETE" \notin suspend
        BY <2>2, <4>1
      <4>3. suspend' = HeldSuspend \union {"DOOR_AJAR"}
        BY <1>7, <3>3, HoldsEffect
      <4> QED
        BY <4>1, <4>2, <4>3 DEF HeldSuspend
    <3>4. CASE state \notin {"ALARM", "CHECK"} /\ "SAFETY_DOOR" \in rtExec /\ "JOG_CANCEL" \notin HeldSuspend
      <4>1. state' \in {"DOOR", "SLEEP"} /\ (state = "SLEEP" => state' = "SLEEP")
        BY <1>7, <3>4, HoldsEffect DEF Asleep, HeldState
      <4>2. CASE Reopens
        <5>1. "RETRACT_COMPLETE" \notin suspend'
          BY <1>7, <3>4, <4>2, HoldsEffect
        <5> QED
          BY <4>1, <5>1
      <4>3. CASE ~Reopens
        <5>1. suspend' = HeldSuspend \union {"DOOR_AJAR"}
          BY <1>7, <3>4, <4>3, HoldsEffect
        <5>2. "RETRACT_COMPLETE" \in suspend => state \in {"DOOR", "SLEEP"}
          BY <2>2, <3>4
        <5> QED
          BY <4>1, <5>1, <5>2 DEF HeldSuspend
      <4> QED
        BY <4>2, <4>3
    <3> QED
      BY <3>1, <3>2, <3>3, <3>4
  <2> QED
    BY <1>1, <2>1, <2>3, <2>5, <2>6
<1>8. CASE RtStart
  <2>1. /\ pc = "start" /\ rtState' = rtState \ {"CYCLE_START"}
        /\ UNCHANGED <<abort, susp, rtExec>>
        /\ pc' \in {"stop", "tail"}
    BY <1>8, NextBlockOrder DEF RtStart, mainVars
  <2>2. /\ StopCopied' => StopCopied
        /\ Flagged("CYCLE_STOP")' /\ Live' => Flagged("CYCLE_STOP") /\ Live
    BY <2>1 DEF StopCopied
  <2>3. ~abort
    BY <1>0, <2>1 DEF AbortInv
  <2>4. CASE /\ UNCHANGED <<state, stepCtl, motionVars>>
             /\ suspend' \in {suspend, suspend \union {"INITIATE_RESTORE"}}
    <3>1. UNCHANGED <<stepping, segs>>
      BY <2>4 DEF motionVars
    <3> QED
      BY <1>1, <1>2, <2>1, <2>2, <2>4, <3>1
  <2>5. CASE /\ suspend' = {}
             /\ \/ state = "IDLE"
                \/ state = "HOLD"
                \/ state = "DOOR" /\ "RESTORE_COMPLETE" \in suspend
    <3>1. susp # "parked"
      BY <1>3, <2>1, <2>3, <2>5 DEF MotionState, MotionInv, RestoredInv
    <3> QED
      BY <2>1, <2>5, <3>1
  <2> HIDE DEF ParkedInv
  <2> QED
    BY <1>8, <2>4, <2>5, StartEffect
<1>9. CASE RtStop
  <2>1. /\ pc = "stop" /\ pc' = "tail" /\ rtState' = rtState \ {"CYCLE_STOP"}
        /\ UNCHANGED <<abort, susp, rtExec>>
    BY <1>9 DEF RtStop, mainVars
  <2>2. ~abort /\ StopCopied
    BY <1>0, <2>1 DEF AbortInv, StopCopied, MotionState, MotionInv, StopInv
  <2>3. state \notin {"ALARM", "CHECK", "IDLE"}
    BY <2>2 DEF MotionState, MotionInv, StopInv
  <2>4. state \in {"DOOR", "SLEEP"} => HoldStays
    <3>1. ctx \notin {"init", "enter"}
      BY <1>0 DEF MotionState, MotionInv, LineInv, Boot
    <3>2. state \in {"DOOR", "SLEEP"} => suspend # {}
      BY <3>1 DEF MotionState, MotionInv, HoldInv, HoldDone, Boot
    <3> QED
      BY <2>2, <3>2 DEF HoldStays, MotionState, MotionInv, SoftInv, JogInv
  <2>5. CASE HoldStays
    <3>1. /\ UNCHANGED <<state, segs, stepping>> /\ suspend' \in {suspend, suspend \union {"HOLD_COMPLETE"}}
          /\ "SYS_MOTION" \notin stepCtl'
      BY <1>9, <2>5 DEF RtStop, motionVars
    <3>2. susp = "parked" => powered = {}
      BY <1>0, <2>2 DEF AllOff, Accessories
    <3> QED
      BY <1>1, <2>1, <3>1, <3>2
  <2>6. CASE ~HoldStays
    <3>1. "RETRACT_COMPLETE" \notin suspend /\ susp # "parked"
      BY <1>3, <2>2, <2>3, <2>4, <2>6
    <3>2. "RETRACT_COMPLETE" \notin suspend'
      BY <1>9, <2>6, <3>1 DEF RtStop
    <3> QED
      BY <2>1, <3>1, <3>2
  <2> QED
    BY <2>5, <2>6
<1>10. CASE RtTail
  <2>1. /\ pc' = "run" /\ UNCHANGED <<state, suspend, abort, rtState, stepping>>
        /\ susp' = susp \/ susp' = "top"
        /\ PrepBuffer(stepCtl, SystemMotionSpindle) \/ UNCHANGED <<stepCtl, segs>>
        /\ pc = "tail"
    BY <1>10 DEF RtTail
  <2>2. CASE UNCHANGED <<stepCtl, segs>>
    BY <1>1, <1>2, <2>1, <2>2 DEF StopCopied
  <2>3. CASE PrepBuffer(stepCtl, SystemMotionSpindle)
    <3>1. /\ "EXECUTE_HOLD" \in stepCtl' <=> "EXECUTE_HOLD" \in stepCtl
          /\ "SYS_MOTION" \in stepCtl' <=> "SYS_MOTION" \in stepCtl
      BY <2>3, PrepKeepsControl
    <3>2. ASSUME susp = "parked", SysMotion
          PROVE  /\ AllOff => AllOff'
                 /\ "EXECUTE_HOLD" \notin stepCtl /\ ("END_MOTION" \in stepCtl => EndsOff) =>
                      ("END_MOTION" \in stepCtl' => EndsOff')
      <4>1. PrepBuffer(stepCtl, FALSE)
        BY <2>3, <3>2 DEF SystemMotionSpindle
      <4>2. /\ SegsOff => SegsOff'
            /\ "END_MOTION" \in stepCtl => segs' = segs
            /\ "END_MOTION" \notin stepCtl /\ "EXECUTE_HOLD" \notin stepCtl /\ "END_MOTION" \in stepCtl' =>
                 segs' # <<>> /\ ~segs'[Len(segs')]
        BY <1>0, <3>2, <4>1, PrepParks
      <4> QED
        BY <1>1, <4>2 DEF AllOff, EndsOff
    <3> QED
      BY <1>1, <2>1, <3>1, <3>2 DEF StopCopied
  <2> QED
    BY <2>1, <2>2, <2>3
<1> QED
  BY <1>4, <1>5, <1>6, <1>7, <1>8, <1>9, <1>10 DEF ExecRtSystem

LEMMA ParkNext ==
  ASSUME MotionState, ParkedInv, [Next]_vars, [Apart /\ ParksClean]_vars
  PROVE  ParkedInv'
<1>1. CASE UNCHANGED vars
  BY <1>1 DEF ParkedInv, AllOff, EndsOff, SegsOff, Live, Flagged, SysMotion, StopCopied, vars,
     sysVars, flagVars, execVars, motionVars, powerVars, mainVars
<1>2. CASE ExecRtSystem
  BY <1>2, ParkExecutor
<1>3. CASE ExecRtSuspend /\ ~LeftoverParks
  BY <1>3, ParkSuspend
<1>4. CASE MainLines
  BY <1>4, ParkLines
<1>5. CASE Interrupts /\ ~ParkUnderruns
  BY <1>5, ParkInterrupts
<1> QED
  BY <1>1, <1>2, <1>3, <1>4, <1>5 DEF Next, MainProgram, ParksClean

\* A door stop that counts as parked has spindle and coolant off until a start begins the
\* restore, however often the door opens again, provided that the motion to the parking position
\* neither begins with segments left of a cancelled motion nor ends by an underrun.
THEOREM ParkedOffHolds == Spec /\ [][Apart /\ ParksClean]_vars => []ParkedOff
<1>1. Init => ParkedInv
  BY DEF Init, ParkedInv
<1>2. MotionState /\ ParkedInv /\ [Next]_vars /\ [Apart /\ ParksClean]_vars => ParkedInv'
  BY ParkNext
<1>3. ParkedInv => ParkedOff
  BY DEF ParkedInv, ParkedOff
<1>4. Spec /\ [][Apart]_vars => []MotionState
  BY MotionHolds
<1>5. [Apart /\ ParksClean]_vars => [Apart]_vars
  OBVIOUS
<1> QED
  BY <1>1, <1>2, <1>3, <1>4, <1>5, PTL DEF Spec
=============================================================================
