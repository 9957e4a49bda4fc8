--------------------------- MODULE ProtocolProofs ---------------------------
(***************************************************************************)
(* Proofs about Protocol, for every buffer size and every choice of events *)
(* and lines.                                                              *)
(***************************************************************************)
EXTENDS ProtocolSafety, SequenceTheorems, TLAPS

-----------------------------------------------------------------------------
(* The planner and segment buffers. *)

Buffers ==
  /\ blocks \in Seq(SUBSET Accessories) /\ Len(blocks) <= BlockMax
  /\ segs \in Seq(BOOLEAN) /\ Len(segs) <= SegMax

\* A function on 1..n is a sequence of length n (the segments st_prep_buffer() adds).
LEMMA FunctionIsSeq ==
  ASSUME NEW S, NEW n \in Nat, NEW f \in [1..n -> S]
  PROVE  f \in Seq(S) /\ Len(f) = n
PROOF OBVIOUS

\* Adding segments that fit keeps the segment buffer in range.
LEMMA SegmentsFit ==
  ASSUME Buffers, NEW n \in 0..(SegMax - Len(segs)), NEW f \in [1..n -> BOOLEAN],
         segs' = segs \o f
  PROVE  segs' \in Seq(BOOLEAN) /\ Len(segs') <= SegMax
<1>1. n \in Nat /\ Len(segs) \in Nat /\ n + Len(segs) <= SegMax
  BY LenProperties, ConstantsAssumption DEF Buffers
<1>2. f \in Seq(BOOLEAN) /\ Len(f) = n
  BY <1>1, FunctionIsSeq
<1> QED
  BY <1>1, <1>2, ConcatProperties, ConstantsAssumption DEF Buffers

\* Using up blocks keeps the planner buffer in range.
LEMMA BlocksLeft ==
  ASSUME Buffers, NEW k \in 0..Len(blocks), blocks' = SubSeq(blocks, k + 1, Len(blocks))
  PROVE  blocks' \in Seq(SUBSET Accessories) /\ Len(blocks') <= BlockMax
<1>1. Len(blocks) \in Nat /\ k \in Nat /\ k <= Len(blocks) /\ Len(blocks) <= BlockMax
  BY LenProperties DEF Buffers
<1>2. \A i \in (k + 1)..Len(blocks) : blocks[i] \in SUBSET Accessories
  BY <1>1, ElementOfSeq DEF Buffers
<1>3. blocks' \in Seq(SUBSET Accessories)
      /\ Len(blocks') = (IF k + 1 <= Len(blocks) THEN Len(blocks) - (k + 1) + 1 ELSE 0)
  BY <1>1, <1>2, SubSeqProperties
<1> QED
  BY <1>1, <1>3, ConstantsAssumption

\* st_prep_buffer() keeps both buffers in range.
LEMMA PrepBufferType ==
  ASSUME Buffers, NEW c \in SUBSET StepFlags, NEW on \in BOOLEAN, PrepBuffer(c, on)
  PROVE  Buffers' /\ stepCtl' \in SUBSET StepFlags
<1>1. CASE "END_MOTION" \in c
  BY <1>1 DEF PrepBuffer, Buffers
<1>2. CASE "END_MOTION" \notin c /\ "SYS_MOTION" \in c
  <2>1. PICK n \in 0..(SegMax - Len(segs)), ended \in BOOLEAN :
          /\ segs' = segs \o [i \in 1..n |-> on]
          /\ stepCtl' = IF ended THEN c \union {"END_MOTION"} ELSE c
          /\ UNCHANGED blocks
    BY <1>2 DEF PrepBuffer, PrepSystemMotion
  <2>2. [i \in 1..n |-> on] \in [1..n -> BOOLEAN]
    OBVIOUS
  <2>3. segs' \in Seq(BOOLEAN) /\ Len(segs') <= SegMax
    BY <2>1, <2>2, SegmentsFit
  <2> QED
    BY <2>1, <2>3 DEF Buffers, StepFlags
<1>3. CASE "END_MOTION" \notin c /\ "SYS_MOTION" \notin c
  <2>1. PICK n \in 0..(SegMax - Len(segs)), k \in 0..Len(blocks), ended \in BOOLEAN :
          /\ \E source \in SegmentSources(n, k) :
               segs' = segs \o [i \in 1..n |-> "spindle" \in blocks[source[i]]]
          /\ blocks' = SubSeq(blocks, k + 1, Len(blocks))
          /\ stepCtl' = IF ended THEN c \union {"END_MOTION"} ELSE c
    BY <1>3 DEF PrepBuffer, PrepQueue
  <2>2. PICK source \in SegmentSources(n, k) :
          segs' = segs \o [i \in 1..n |-> "spindle" \in blocks[source[i]]]
    BY <2>1
  <2>3. [i \in 1..n |-> "spindle" \in blocks[source[i]]] \in [1..n -> BOOLEAN]
    <3>1. \A i \in 1..n : ("spindle" \in blocks[source[i]]) \in BOOLEAN
      OBVIOUS
    <3> QED
      BY <3>1
  <2>4. segs' \in Seq(BOOLEAN) /\ Len(segs') <= SegMax
    BY <2>2, <2>3, SegmentsFit
  <2>5. blocks' \in Seq(SUBSET Accessories) /\ Len(blocks') <= BlockMax
    BY <2>1, BlocksLeft
  <2> QED
    BY <2>1, <2>4, <2>5 DEF Buffers, StepFlags
<1> QED
  BY <1>1, <1>2, <1>3

-----------------------------------------------------------------------------
(* Types of the steps. *)

\* What comes after a block is a point of protocol_exec_rt_system().
LEMMA NextBlockType ==
  ASSUME NEW ex, NEW done
  PROVE  NextBlock(ex, done) \in PcLabels
BY DEF NextBlock, PcLabels

\* mc_reset() changes its flags, alarm and outputs within their types.
LEMMA McResetType ==
  ASSUME TypeOK, NEW alarm \in Alarms, McResetWith(alarm)
  PROVE  /\ rtState' \in SUBSET ExecFlags /\ rtAlarm' \in Alarms
         /\ powered' \in SUBSET Accessories /\ stepping' \in BOOLEAN
BY DEF McResetWith, TypeOK, ExecFlags

\* The alarm of an aborted motion is an alarm.
LEMMA AbortAlarmType ==
  ASSUME TypeOK
  PROVE  AbortAlarm \in Alarms
BY DEF AbortAlarm, TypeOK, Alarms

\* The hold block keeps the fields of sys in their types, whatever was copied.
LEMMA AfterHoldsType ==
  ASSUME NEW r \in SysRec, NEW ex
  PROVE  AfterHolds(r, ex) \in SysRec
<1>1. \A q \in SysRec : BeginHold(q, ex) \in SysRec
  BY DEF BeginHold, SysRec, SuspendFlags, StepFlags
<1>2. \A q \in SysRec : CancelMotion(q, ex) \in SysRec
  BY DEF CancelMotion, SysRec, SuspendFlags
<1>3. \A q \in SysRec : FeedHold(q, ex) \in SysRec
  BY DEF FeedHold, SysRec, States
<1>4. \A q \in SysRec : ReopenDoor(q) \in SysRec
  BY DEF ReopenDoor, SysRec, SuspendFlags, StepFlags
<1>5. \A q \in SysRec : SafetyDoor(q, ex) \in SysRec
  BY <1>4 DEF SafetyDoor, SysRec, SuspendFlags, States
<1>6. \A q \in SysRec : EnterSleep(q, ex) \in SysRec
  BY DEF EnterSleep, SysRec, SuspendFlags, States
<1> QED
  BY <1>1, <1>2, <1>3, <1>5, <1>6 DEF AfterHolds

\* A start at the door keeps the fields of sys in their types.
LEMMA ResumeDoorType ==
  ASSUME NEW r \in SysRec
  PROVE  ResumeDoor(r) \in SysRec
BY DEF ResumeDoor, SysRec, States, SuspendFlags

-----------------------------------------------------------------------------
(* Every step keeps the types. *)

\* Power-up is well typed.
LEMMA InitType == Init => TypeOK
<1> SUFFICES ASSUME Init PROVE TypeOK
  OBVIOUS
<1>1. blocks \in Seq(SUBSET Accessories) /\ Len(blocks) <= BlockMax
  BY EmptySeq, ConstantsAssumption DEF Init
<1>2. segs \in Seq(BOOLEAN) /\ Len(segs) <= SegMax
  BY EmptySeq, ConstantsAssumption DEF Init
<1> QED
  BY <1>1, <1>2 DEF Init, TypeOK, States, Alarms, PcLabels, CtxLabels, SuspLabels

\* Every interrupt keeps the types.
LEMMA InterruptsType ==
  ASSUME TypeOK, Interrupts
  PROVE  TypeOK'
<1> USE DEF sysVars, flagVars, execVars, motionVars, powerVars, pinVars, modeVars, mainVars,
   McResetFrame
<1>1. CASE StepSegment
  <2>1. segs' \in Seq(BOOLEAN) /\ Len(segs') <= SegMax
    <3>1. segs # <<>> /\ segs' = Tail(segs)
      BY <1>1 DEF StepSegment
    <3>2. segs \in Seq(BOOLEAN) /\ Len(segs) \in Nat /\ Len(segs) <= SegMax
      BY LenProperties DEF TypeOK
    <3>3. Tail(segs) \in Seq(BOOLEAN) /\ Len(Tail(segs)) = Len(segs) - 1
      BY <3>1, <3>2, HeadTailProperties
    <3> QED
      BY <3>1, <3>2, <3>3, ConstantsAssumption
  <2>2. powered' \in SUBSET Accessories
    BY <1>1 DEF StepSegment, TypeOK, Accessories
  <2>3. UNCHANGED <<sysVars, flagVars, execVars, blocks, stepping, modal, pinVars, modeVars,
                    mainVars>>
    BY <1>1 DEF StepSegment
  <2> QED
    BY <2>1, <2>2, <2>3 DEF TypeOK
<1>2. CASE StepDone
  <2>1. rtState' \subseteq ExecFlags /\ stepping' \in BOOLEAN
    BY <1>2 DEF StepDone, ExecFlags, TypeOK
  <2>2. UNCHANGED <<sysVars, rtAlarm, rtStopOvr, startAuto, execVars, blocks, segs, powerVars,
                    pinVars, modeVars, mainVars>>
    BY <1>2 DEF StepDone
  <2> QED
    BY <2>1, <2>2 DEF TypeOK
<1>3. CASE ProbeContact
  <2>1. rtState' \subseteq ExecFlags /\ probing' \in BOOLEAN
    BY <1>3 DEF ProbeContact, ExecFlags, HoldFlags, TypeOK
  <2>2. UNCHANGED <<sysVars, rtAlarm, rtStopOvr, startAuto, execVars, motionVars, powerVars,
                    pinVars, limitsOn, mainVars>>
    BY <1>3 DEF ProbeContact
  <2> QED
    BY <2>1, <2>2 DEF TypeOK
<1>4. CASE RxReset
  BY <1>4, AbortAlarmType, McResetType
  DEF RxReset, McReset, TypeOK
<1>5. CASE LimitIsr
  BY <1>5, McResetType
  DEF LimitIsr, Alarms, CriticalAlarms, TypeOK
<1>6. CASE RxStart
  BY <1>6
  DEF RxStart, RaiseFlag, ExecFlags, TypeOK
<1>7. CASE RxHold
  BY <1>7
  DEF RxHold, RaiseFlag, ExecFlags, HoldFlags, TypeOK
<1>8. CASE RxDoor
  BY <1>8
  DEF RxDoor, RaiseFlag, ExecFlags, HoldFlags, TypeOK
<1>9. CASE RxJogCancel
  BY <1>9
  DEF RxJogCancel, RaiseFlag, ExecFlags, HoldFlags, TypeOK
<1>10. CASE RxSpindleStop
  BY <1>10
  DEF RxSpindleStop, TypeOK
<1>11. CASE PinMoves
  <2>1. doorOpen' \in BOOLEAN /\ buttonDown' \in BOOLEAN
    BY <1>11, Zenon DEF PinMoves, TypeOK
  <2> QED
    BY <1>11, <2>1 DEF PinMoves, TypeOK
<1>12. CASE PinsDebounced
  <2>0. debounce' \in BOOLEAN /\ UNCHANGED <<doorOpen, buttonDown>>
    BY <1>12 DEF PinsDebounced
  <2>1. ASSUME NEW f \in {"CYCLE_START", "SAFETY_DOOR"}, RaiseFlag(f)
        PROVE  TypeOK'
    <3>1. rtState' \subseteq ExecFlags /\ startAuto' \in BOOLEAN
      BY <2>1 DEF RaiseFlag, TypeOK, ExecFlags, HoldFlags
    <3>2. UNCHANGED <<sysVars, rtAlarm, rtStopOvr, execVars, motionVars, powerVars, modeVars,
                      mainVars>>
      BY <2>1 DEF RaiseFlag
    <3> QED
      BY <2>0, <3>1, <3>2 DEF TypeOK
  <2>2. CASE buttonDown /\ state # "IDLE"
    BY <1>12, <2>1, <2>2 DEF PinsDebounced
  <2>3. CASE ~(buttonDown /\ state # "IDLE") /\ ~buttonDown /\ doorOpen
    BY <1>12, <2>1, <2>3 DEF PinsDebounced
  <2>4. CASE ~(buttonDown /\ state # "IDLE") /\ ~(~buttonDown /\ doorOpen)
    <3>1. UNCHANGED <<sysVars, flagVars, execVars, motionVars, powerVars, modeVars, mainVars>>
      BY <1>12, <2>4 DEF PinsDebounced
    <3> QED
      BY <2>0, <3>1 DEF TypeOK
  <2> QED
    BY <2>2, <2>3, <2>4
<1> QED
  BY <1>1, <1>2, <1>3, <1>4, <1>5, <1>6, <1>7, <1>8, <1>9, <1>10, <1>11, <1>12 DEF Interrupts

\* Both buffers may be empty.
LEMMA EmptyBuffers ==
  /\ <<>> \in Seq(SUBSET Accessories) /\ Len(<<>>) <= BlockMax
  /\ <<>> \in Seq(BOOLEAN) /\ Len(<<>>) <= SegMax
BY EmptySeq, ConstantsAssumption

\* What a step of the executor leaves to the steps of the buffers.
LEMMA TypeBuffers == TypeOK => Buffers
BY DEF TypeOK, Buffers

\* Every step of protocol_exec_rt_system() keeps the types.
LEMMA ExecRtSystemType ==
  ASSUME TypeOK, ExecRtSystem
  PROVE  TypeOK'
<1> USE DEF sysVars, flagVars, execVars, motionVars, powerVars, pinVars, modeVars, mainVars,
   ExecFrame
<1>1. CASE RtAlarm
  BY <1>1
  DEF RtAlarm, States, PcLabels, TypeOK
<1>2. CASE RtCritical
  BY <1>2
  DEF RtCritical, PcLabels, TypeOK
<1>3. CASE RtClearAlarm
  BY <1>3
  DEF RtClearAlarm, PcLabels, Alarms, TypeOK
<1>4. CASE RtCopy
  <2>1. CASE "RESET" \in rtState
    BY <1>4, <2>1 DEF RtCopy, TypeOK, PcLabels, SuspLabels
  <2>2. CASE "RESET" \notin rtState
    <3>1. pc' \in PcLabels /\ rtExec' = rtState /\ execAuto' = startAuto /\ UNCHANGED <<abort, susp>>
      BY <1>4, <2>2, NextBlockType DEF RtCopy
    <3>2. execAuto' \in BOOLEAN
      BY <3>1, Zenon DEF TypeOK
    <3> QED
      BY <1>4, <3>1, <3>2 DEF RtCopy, TypeOK
  <2> QED
    BY <2>1, <2>2
<1>5. CASE RtHolds
  <2> DEFINE r == [state |-> state, suspend |-> suspend, stepCtl |-> stepCtl]
  <2>1. r \in SysRec
    BY DEF SysRec, TypeOK
  <2>2. AfterHolds(r, rtExec) \in SysRec
    BY <2>1, AfterHoldsType
  <2>3. /\ state' = AfterHolds(r, rtExec).state /\ suspend' = AfterHolds(r, rtExec).suspend
        /\ stepCtl' = AfterHolds(r, rtExec).stepCtl
    BY <1>5 DEF RtHolds
  <2>4. state' \in States /\ suspend' \in SUBSET SuspendFlags /\ stepCtl' \in SUBSET StepFlags
    BY <2>2, <2>3 DEF SysRec
  <2>5. pc' \in PcLabels
    BY <1>5, NextBlockType DEF RtHolds
  <2> QED
    BY <1>5, <2>4, <2>5 DEF RtHolds, TypeOK
<1>6. CASE RtStart
  <2> DEFINE r == ResumeDoor([state |-> state, suspend |-> suspend, stepCtl |-> stepCtl])
  <2>0. /\ rtState' \subseteq ExecFlags /\ startAuto' \in BOOLEAN
        /\ UNCHANGED <<abort, softLimit, rtAlarm, rtStopOvr, rtExec, execAuto, powerVars, pinVars,
                       modeVars, mainVars>>
    BY <1>6 DEF RtStart, TypeOK
  <2>1. r \in SysRec
    BY ResumeDoorType DEF SysRec, TypeOK
  <2>2. pc' \in PcLabels
    BY <1>6, NextBlockType DEF RtStart
  <2>3. CASE StartBlocked(rtExec)
    <3>1. UNCHANGED <<state, suspend, stepCtl, stopOvr, motionVars>>
      BY <1>6, <2>3 DEF RtStart
    <3> QED
      BY <2>0, <2>2, <3>1 DEF TypeOK
  <2>4. CASE ~StartBlocked(rtExec) /\ ~MayStart(r)
    <3>1. /\ state' = r.state /\ suspend' = r.suspend
          /\ UNCHANGED <<stepCtl, stopOvr, motionVars>>
      BY <1>6, <2>4 DEF RtStart
    <3>2. state' \in States /\ suspend' \in SUBSET SuspendFlags
      BY <2>1, <3>1 DEF SysRec
    <3> QED
      BY <2>0, <2>2, <3>1, <3>2 DEF TypeOK
  <2>5. CASE ~StartBlocked(rtExec) /\ MayStart(r) /\ r.state = "HOLD" /\ stopOvr # {}
    <3>1. /\ stopOvr' = stopOvr \union {"RESTORE_CYCLE"}
          /\ UNCHANGED <<state, suspend, stepCtl, motionVars>>
      BY <1>6, <2>5 DEF RtStart
    <3>2. stopOvr' \subseteq StopOvrFlags
      BY <3>1 DEF TypeOK, StopOvrFlags
    <3> QED
      BY <2>0, <2>2, <3>1, <3>2 DEF TypeOK
  <2>6. CASE ~StartBlocked(rtExec) /\ MayStart(r) /\ ~(r.state = "HOLD" /\ stopOvr # {})
    <3>1. StartQueue(r) /\ UNCHANGED stopOvr
      BY <1>6, <2>6 DEF RtStart
    <3>2. Buffers' /\ stepCtl' \in SUBSET StepFlags /\ stepping' \in BOOLEAN
      <4>1. CASE blocks # <<>> /\ "MOTION_CANCEL" \notin r.suspend
        BY <3>1, <4>1, TypeBuffers, PrepBufferType DEF StartQueue
      <4>2. CASE ~(blocks # <<>> /\ "MOTION_CANCEL" \notin r.suspend)
        BY <3>1, <4>2, TypeBuffers DEF StartQueue, Buffers, TypeOK
      <4> QED
        BY <4>1, <4>2
    <3>3. state' \in States /\ suspend' \in SUBSET SuspendFlags
      BY <3>1 DEF StartQueue, States
    <3> QED
      BY <2>0, <2>2, <3>1, <3>2, <3>3 DEF TypeOK, Buffers
  <2> QED
    BY <2>3, <2>4, <2>5, <2>6
<1>7. CASE RtStop
  <2>1. blocks' \in Seq(SUBSET Accessories) /\ Len(blocks') <= BlockMax
    <3>1. blocks' = blocks \/ blocks' = <<>>
      BY <1>7 DEF RtStop
    <3> QED
      BY <3>1, EmptyBuffers DEF TypeOK
  <2>2. segs' \in Seq(BOOLEAN) /\ Len(segs') <= SegMax /\ stepping' \in BOOLEAN
    <3>1. (segs' = segs /\ stepping' = stepping) \/ (segs' = <<>> /\ stepping' = FALSE)
      BY <1>7 DEF RtStop, StReset
    <3> QED
      BY <3>1, EmptyBuffers DEF TypeOK
  <2>3. state' \in States /\ suspend' \in SUBSET SuspendFlags /\ stepCtl' \in SUBSET StepFlags
    BY <1>7 DEF RtStop, TypeOK, States, SuspendFlags
  <2> QED
    BY <1>7, <2>1, <2>2, <2>3 DEF RtStop, TypeOK, PcLabels
<1>8. CASE RtTail
  <2>1. SystemMotionSpindle \in BOOLEAN
    BY DEF SystemMotionSpindle
  <2>2. Buffers' /\ stepCtl' \in SUBSET StepFlags
    <3>1. CASE state \in PrepStates
      BY <1>8, <2>1, <3>1, TypeBuffers, PrepBufferType DEF RtTail, TypeOK
    <3>2. CASE state \notin PrepStates
      BY <1>8, <3>2, TypeBuffers DEF RtTail, TypeOK, Buffers
    <3> QED
      BY <3>1, <3>2
  <2>3. QueueAccessories(blocks') \in SUBSET Accessories
    BY <2>2, HeadTailProperties DEF QueueAccessories, TypeOK, Buffers
  <2>4. ToggledStopOvr \in SUBSET StopOvrFlags
    BY DEF ToggledStopOvr, TypeOK, StopOvrFlags
  <2>5. restore' \in SUBSET Accessories /\ susp' \in SuspLabels
    BY <1>8, <2>3 DEF RtTail, TypeOK, SuspLabels
  <2> QED
    <3>1. /\ stopOvr' \subseteq StopOvrFlags /\ rtStopOvr' \in BOOLEAN /\ rtExec' \subseteq ExecFlags
          /\ execAuto' \in BOOLEAN /\ pc' \in PcLabels
      BY <1>8, <2>4 DEF RtTail, PcLabels
    <3>2. UNCHANGED <<state, suspend, abort, softLimit, rtState, rtAlarm, startAuto, stepping,
                      powerVars, pinVars, modeVars, ctx, cmd>>
      BY <1>8 DEF RtTail
    <3> QED
      BY <2>2, <2>5, <3>1, <3>2 DEF TypeOK, Buffers
<1> QED
  BY <1>1, <1>2, <1>3, <1>4, <1>5, <1>6, <1>7, <1>8 DEF ExecRtSystem

\* A parking motion is prepared like any other.
LEMMA ParkMotionType ==
  ASSUME TypeOK, NEW l, ParkMotion(l)
  PROVE  /\ Buffers' /\ stepCtl' \in SUBSET StepFlags /\ stepping' \in BOOLEAN
         /\ pc' = "alarm" /\ susp' = l
<1> DEFINE c == (stepCtl \union {"SYS_MOTION"}) \ {"END_MOTION"}
<1>1. c \in SUBSET StepFlags
  BY DEF TypeOK, StepFlags
<1>2. CASE ParkStart(l)
  <2>1. (l \in {"retract", "plunged"} /\ "spindle" \in restore) \in BOOLEAN
    OBVIOUS
  <2>2. PrepBuffer(c, l \in {"retract", "plunged"} /\ "spindle" \in restore)
    BY <1>2 DEF ParkStart
  <2>3. Buffers' /\ stepCtl' \in SUBSET StepFlags
    BY <1>1, <2>1, <2>2, TypeBuffers, PrepBufferType
  <2> QED
    BY <1>2, <2>3 DEF ParkStart, CallRt
<1>3. CASE ParkSkip(l)
  BY <1>3, TypeBuffers DEF ParkSkip, CallRt, TypeOK, Buffers, motionVars
<1> QED
  BY <1>2, <1>3 DEF ParkMotion

\* Every step of the suspend loop keeps the types.
LEMMA ExecRtSuspendType ==
  ASSUME TypeOK, ExecRtSuspend
  PROVE  TypeOK'
<1> USE DEF sysVars, flagVars, execVars, motionVars, powerVars, pinVars, modeVars, mainVars,
   SuspFrame
<1>1. CASE SuspLeave
  BY <1>1
  DEF SuspLeave, SuspLabels, TypeOK
<1>2. CASE SuspMoving
  BY <1>2
  DEF SuspMoving, SuspLabels, TypeOK
<1>3. CASE ParkWait
  BY <1>3
  DEF ParkWait, CallRt, AfterPark, SuspLabels, PcLabels, TypeOK
<1>4. CASE RetractBegin
  <2>1. CASE ParkMotion("retract") /\ UNCHANGED <<powered, suspend>>
    <3>1. stopOvr' = {} /\ "retract" \in SuspLabels /\ "alarm" \in PcLabels
      BY <1>4 DEF RetractBegin, SuspLabels, PcLabels
    <3> QED
      BY <1>4, <2>1, <3>1, ParkMotionType DEF RetractBegin, TypeOK, Buffers
  <2>2. CASE ~(ParkMotion("retract") /\ UNCHANGED <<powered, suspend>>)
    <3>1. /\ powered' = {} /\ susp' = "tail" /\ stopOvr' = {}
          /\ suspend' = (suspend \ {"RESTART_RETRACT"}) \union {"RETRACT_COMPLETE"}
          /\ UNCHANGED <<stepCtl, motionVars, pc>>
      BY <1>4, <2>2 DEF RetractBegin
    <3>2. suspend' \in SUBSET SuspendFlags /\ susp' \in SuspLabels
      BY <3>1 DEF TypeOK, SuspendFlags, SuspLabels
    <3> QED
      BY <1>4, <3>1, <3>2 DEF RetractBegin, TypeOK
  <2> QED
    BY <2>1, <2>2
<1>5. CASE RetractFast
  <2>1. CASE ParkMotion("parked")
    <3>1. powered' \subseteq Accessories /\ "parked" \in SuspLabels /\ "alarm" \in PcLabels
      BY <1>5 DEF RetractFast, SuspLabels, PcLabels
    <3> QED
      BY <1>5, <2>1, <3>1, ParkMotionType DEF RetractFast, TypeOK, Buffers
  <2>2. CASE ~ParkMotion("parked")
    BY <1>5, <2>2 DEF RetractFast, TypeOK, SuspLabels
  <2> QED
    BY <2>1, <2>2
<1>6. CASE RetractEnd
  BY <1>6
  DEF RetractEnd, SuspLabels, SuspendFlags, TypeOK
<1>7. CASE FallAsleep
  <2>1. /\ powered' \subseteq Accessories /\ stepping' \in BOOLEAN
        /\ pc' \in PcLabels /\ susp' \in SuspLabels
    BY <1>7 DEF FallAsleep, CallRt, SuspLabels, PcLabels
  <2>2. UNCHANGED <<sysVars, rtState, startAuto, blocks, segs, modal, SuspFrame>>
    BY <1>7 DEF FallAsleep
  <2> QED
    BY <2>1, <2>2 DEF TypeOK
<1>8. CASE StayAsleep
  BY <1>8
  DEF StayAsleep, CallRt, SuspLabels, PcLabels, TypeOK
<1>9. CASE DoorCheck
  <2>1. CASE ParkMotion("restoreSpindle")
    BY <1>9, <2>1, ParkMotionType DEF DoorCheck, TypeOK, Buffers, PcLabels, SuspLabels,
       SuspendFlags
  <2>2. CASE ~ParkMotion("restoreSpindle")
    BY <1>9, <2>2 DEF DoorCheck, TypeOK, SuspLabels, SuspendFlags
  <2> QED
    BY <2>1, <2>2
<1>10. CASE RestoreSpindle
  <2>1. powered' \in SUBSET Accessories
    BY <1>10 DEF RestoreSpindle, RestoreStep, RestoreAccessory, TypeOK, Accessories
  <2>2. pc' \in PcLabels /\ susp' \in SuspLabels
    BY <1>10 DEF RestoreSpindle, RestoreStep, CallRt, TypeOK, PcLabels, SuspLabels
  <2> QED
    BY <1>10, <2>1, <2>2 DEF RestoreSpindle, RestoreStep, TypeOK
<1>11. CASE RestoreCoolant
  <2>1. powered' \in SUBSET Accessories
    BY <1>11 DEF RestoreCoolant, RestoreStep, RestoreAccessory, TypeOK, Accessories
  <2>2. pc' \in PcLabels /\ susp' \in SuspLabels
    BY <1>11 DEF RestoreCoolant, RestoreStep, CallRt, TypeOK, PcLabels, SuspLabels
  <2> QED
    BY <1>11, <2>1, <2>2 DEF RestoreCoolant, RestoreStep, TypeOK
<1>12. CASE DelayOn
  BY <1>12
  DEF DelayOn, CallRt, SuspLabels, PcLabels, TypeOK
<1>13. CASE Plunge
  <2>1. CASE ParkMotion("plunged")
    BY <1>13, <2>1, ParkMotionType DEF Plunge, TypeOK, Buffers, PcLabels, SuspLabels
  <2>2. CASE ~ParkMotion("plunged")
    BY <1>13, <2>2 DEF Plunge, TypeOK, SuspLabels
  <2> QED
    BY <2>1, <2>2
<1>14. CASE RestoreEnd
  <2>1. suspend' \in SUBSET SuspendFlags /\ rtState' \in SUBSET ExecFlags
    BY <1>14 DEF RestoreEnd, TypeOK, SuspendFlags, ExecFlags
  <2> QED
    BY <1>14, <2>1 DEF RestoreEnd, TypeOK, SuspLabels
<1>15. CASE HoldIdle
  BY <1>15
  DEF HoldIdle, SuspLabels, TypeOK
<1>16. CASE OverrideStop
  BY <1>16
  DEF OverrideStop, SuspLabels, StopOvrFlags, TypeOK
<1>17. CASE OverrideKeep
  BY <1>17
  DEF OverrideKeep, SuspLabels, TypeOK
<1>18. CASE OverrideRestore
  <2>1. powered' \in SUBSET Accessories
    BY <1>18 DEF OverrideRestore, RestoreAccessory, TypeOK, Accessories
  <2>2. pc' \in PcLabels /\ susp' \in SuspLabels
    BY <1>18 DEF OverrideRestore, CallRt, TypeOK, PcLabels, SuspLabels
  <2> QED
    BY <1>18, <2>1, <2>2 DEF OverrideRestore, TypeOK
<1>19. CASE OverrideEnd
  BY <1>19
  DEF OverrideEnd, SuspLabels, ExecFlags, TypeOK
<1>20. CASE SuspTail
  BY <1>20
  DEF SuspTail, CallRt, SuspLabels, PcLabels, TypeOK
<1>21. CASE SuspWake
  <2>1. rtState' \in SUBSET ExecFlags
    BY <1>21 DEF SuspWake, TypeOK, ExecFlags, HoldFlags
  <2> QED
    BY <1>21, <2>1 DEF SuspWake, CallRt, TypeOK, SuspLabels, PcLabels
<1> QED
  BY <1>1, <1>2, <1>3, <1>4, <1>5, <1>6, <1>7, <1>8, <1>9, <1>10, <1>11, <1>12, <1>13, <1>14,
     <1>15, <1>16, <1>17, <1>18, <1>19, <1>20, <1>21 DEF ExecRtSuspend

\* protocol_auto_cycle_start() raises no other flag than the cycle start.
LEMMA AutoStartType ==
  ASSUME TypeOK, AutoStart
  PROVE  rtState' \in SUBSET ExecFlags /\ startAuto' \in BOOLEAN
<1>1. CASE blocks # <<>>
  <2>1. rtState' = rtState \union {"CYCLE_START"} /\ startAuto' \in BOOLEAN
    BY <1>1 DEF AutoStart
  <2> QED
    BY <2>1 DEF TypeOK, ExecFlags
<1>2. CASE blocks = <<>>
  BY <1>2, Zenon DEF AutoStart, TypeOK
<1> QED
  BY <1>1, <1>2

\* The end of mc_line() keeps the flags in their types.
LEMMA AfterLineType ==
  ASSUME TypeOK, AfterLine
  PROVE  /\ rtState' \in SUBSET ExecFlags /\ startAuto' \in BOOLEAN /\ probing' \in BOOLEAN
         /\ pc' \in PcLabels /\ ctx' \in CtxLabels
<1>1. CASE cmd = "probe"
  <2>1. rtState' \in SUBSET ExecFlags
    BY <1>1 DEF AfterLine, TypeOK, ExecFlags
  <2> QED
    BY <1>1, <2>1 DEF AfterLine, Call, PcLabels, CtxLabels
<1>2. CASE cmd # "probe"
  <2>1. startAuto' \in BOOLEAN /\ probing' \in BOOLEAN
    BY <1>2, Zenon DEF AfterLine, TypeOK
  <2> QED
    BY <1>2, <2>1 DEF AfterLine, Goto, TypeOK, CtxLabels
<1> QED
  BY <1>1, <1>2

\* A homing failure raises an alarm.
LEMMA HomingAlarmsType == TypeOK => HomingAlarms \subseteq Alarms
BY DEF HomingAlarms, TypeOK, Alarms

\* A homing motion is prepared like any other.
LEMMA HomingMotionType ==
  ASSUME TypeOK, NEW l, HomingMotion(l)
  PROVE  /\ Buffers' /\ stepCtl' \in SUBSET StepFlags /\ stepping' \in BOOLEAN
         /\ pc' = pc /\ ctx' = l
<1>1. {"SYS_MOTION"} \in SUBSET StepFlags
  BY DEF StepFlags
<1>2. Buffers' /\ stepCtl' \in SUBSET StepFlags
  BY <1>1, TypeBuffers, PrepBufferType DEF HomingMotion
<1> QED
  BY <1>2 DEF HomingMotion, Goto

\* Every step of the reset loop and of a line keeps the types.
LEMMA MainLinesType ==
  ASSUME TypeOK, MainLines
  PROVE  TypeOK'
<1> USE DEF sysVars, flagVars, execVars, motionVars, powerVars, pinVars, modeVars, mainVars,
   MainFrame, SysFrame, LineFrame, HomingFrame, McResetFrame
<1>1. CASE Reinit
  <2>1. blocks' = <<>> /\ segs' = <<>> /\ stepping' = FALSE
    BY <1>1 DEF Reinit, StReset
  <2> QED
    BY <1>1, <2>1, EmptyBuffers DEF Reinit, TypeOK, Alarms, Goto, Call, PcLabels, CtxLabels
<1>2. CASE Enter
  <2>1. rtState' \in SUBSET ExecFlags
    BY <1>2 DEF Enter, TypeOK, ExecFlags, HoldFlags
  <2> QED
    BY <1>2, <2>1, ConstantsAssumption
    DEF Enter, StartupLine, TypeOK, Goto, PcLabels, CtxLabels, States
<1>3. CASE NoData
  <2>1. rtState' \in SUBSET ExecFlags /\ startAuto' \in BOOLEAN
    BY <1>3, AutoStartType DEF NoData
  <2> QED
    BY <1>3, <2>1 DEF NoData, TypeOK, Goto, Call, PcLabels, CtxLabels
<1>4. CASE Tick
  BY <1>4
  DEF Tick, Goto, Call, PcLabels, CtxLabels, TypeOK
<1>5. CASE MainWake
  <2>1. rtState' \in SUBSET ExecFlags
    BY <1>5 DEF MainWake, TypeOK, ExecFlags, HoldFlags
  <2> QED
    BY <1>5, <2>1 DEF MainWake, TypeOK, Goto, Call, PcLabels, CtxLabels
<1>6. CASE EndOfLine
  BY <1>6, ConstantsAssumption
  DEF EndOfLine, Goto, Call, PcLabels, CtxLabels, TypeOK
<1>7. CASE LineAborted
  BY <1>7
  DEF LineAborted, Goto, Call, PcLabels, CtxLabels, TypeOK
<1>8. CASE RejectLine
  BY <1>8
  DEF RejectLine, Goto, Call, PcLabels, CtxLabels, TypeOK
<1>9. CASE ExecUnlock
  BY <1>9
  DEF ExecUnlock, Execute, States, Goto, Call, PcLabels, CtxLabels, TypeOK
<1>10. CASE ExecCheck
  <2>1. CASE state = "CHECK"
    BY <1>10, <2>1, AbortAlarmType, McResetType DEF ExecCheck, McReset, TypeOK, Goto, Call,
       PcLabels, CtxLabels
  <2>2. CASE state # "CHECK"
    BY <1>10, <2>2 DEF ExecCheck, TypeOK, States, Goto, Call, PcLabels, CtxLabels
  <2> QED
    BY <2>1, <2>2
<1>11. CASE ExecSleep
  <2>1. rtState' \in SUBSET ExecFlags
    BY <1>11 DEF ExecSleep, TypeOK, ExecFlags, HoldFlags
  <2> QED
    BY <1>11, <2>1 DEF ExecSleep, TypeOK, Goto, Call, PcLabels, CtxLabels
<1>12. CASE ExecMove
  BY <1>12
  DEF ExecMove, Goto, Call, PcLabels, CtxLabels, TypeOK
<1>13. CASE LineBailsOut
  BY <1>13, AfterLineType
  DEF LineBailsOut, TypeOK
<1>14. CASE LineWaits
  <2>1. rtState' \in SUBSET ExecFlags /\ startAuto' \in BOOLEAN
    BY <1>14, AutoStartType DEF LineWaits
  <2> QED
    BY <1>14, <2>1 DEF LineWaits, TypeOK, Goto, Call, PcLabels, CtxLabels
<1>15. CASE LineQueued
  <2>1. /\ blocks \in Seq(SUBSET Accessories) /\ modal \in SUBSET Accessories
        /\ Len(blocks) < BlockMax /\ blocks' = Append(blocks, modal)
    BY <1>15 DEF LineQueued, TypeOK
  <2>2. blocks' \in Seq(SUBSET Accessories) /\ Len(blocks') <= BlockMax
    BY <2>1, AppendProperties, LenProperties, ConstantsAssumption
  <2> QED
    BY <1>15, <2>2, AfterLineType DEF LineQueued, TypeOK
<1>16. CASE JogStart
  <2>1. Buffers' /\ stepCtl' \in SUBSET StepFlags /\ stepping' \in BOOLEAN
    <3>1. CASE state = "IDLE" /\ blocks # <<>>
      BY <1>16, <3>1, TypeBuffers, PrepBufferType DEF JogStart, TypeOK
    <3>2. CASE ~(state = "IDLE" /\ blocks # <<>>)
      BY <1>16, <3>2, TypeBuffers DEF JogStart, TypeOK, Buffers
    <3> QED
      BY <3>1, <3>2
  <2>2. state' \in States /\ ctx' \in CtxLabels /\ pc' = pc
    BY <1>16 DEF JogStart, TypeOK, States, Goto, Call, PcLabels, CtxLabels
  <2> QED
    BY <1>16, <2>1, <2>2 DEF JogStart, TypeOK, Buffers
<1>17. CASE ExecMoveOut
  <2>1. rtState' \in SUBSET ExecFlags
    BY <1>17 DEF ExecMoveOut, TypeOK, ExecFlags, HoldFlags
  <2> QED
    BY <1>17, <2>1 DEF ExecMoveOut, TypeOK, Goto, Call, PcLabels, CtxLabels
<1>18. CASE SoftWait
  BY <1>18
  DEF SoftWait, Goto, Call, PcLabels, CtxLabels, TypeOK
<1>19. CASE SoftAlarm
  <2>1. "SOFT_LIMIT" \in Alarms
    BY DEF Alarms, CriticalAlarms
  <2> QED
    BY <1>19, <2>1, McResetType DEF SoftAlarm, TypeOK, Goto, Call, PcLabels, CtxLabels
<1>20. CASE ExecSync
  <2>1. CASE NeedsSync
    BY <1>20, <2>1, AutoStartType DEF ExecSync, TypeOK, Goto, Call, PcLabels, CtxLabels
  <2>2. CASE ~NeedsSync
    BY <1>20, <2>2 DEF ExecSync, TypeOK, Goto, Call, PcLabels, CtxLabels
  <2> QED
    BY <2>1, <2>2
<1>21. CASE SyncWait
  BY <1>21
  DEF SyncWait, Goto, Call, PcLabels, CtxLabels, TypeOK
<1>22. CASE SyncedAccessory
  BY <1>22
  DEF SyncedAccessory, Goto, Call, PcLabels, CtxLabels, TypeOK
<1>23. CASE SyncedProgram
  BY <1>23
  DEF SyncedProgram, Goto, Call, PcLabels, CtxLabels, TypeOK
<1>24. CASE SyncedPause
  <2>1. rtState' \in SUBSET ExecFlags
    BY <1>24 DEF SyncedPause, TypeOK, ExecFlags, HoldFlags
  <2> QED
    BY <1>24, <2>1 DEF SyncedPause, TypeOK, Goto, Call, PcLabels, CtxLabels
<1>25. CASE Dwelling
  BY <1>25
  DEF Dwelling, Goto, Call, PcLabels, CtxLabels, TypeOK
<1>26. CASE SyncedProbe
  BY <1>26
  DEF SyncedProbe, Alarms, Goto, Call, PcLabels, CtxLabels, TypeOK
<1>27. CASE ProbeWait
  <2>1. rtAlarm' \in Alarms /\ pc' \in PcLabels /\ ctx' \in CtxLabels
    BY <1>27 DEF ProbeWait, TypeOK, Alarms, Goto, Call, PcLabels, CtxLabels
  <2>2. probing' \in BOOLEAN
    BY <1>27, Zenon DEF ProbeWait, TypeOK
  <2> QED
    BY <1>27, <2>1, <2>2 DEF ProbeWait, TypeOK
<1>28. CASE ProbeEnd
  <2>1. blocks' = <<>> /\ segs' = <<>> /\ stepping' \in BOOLEAN
    BY <1>28 DEF ProbeEnd, StReset
  <2>2. ctx' \in CtxLabels /\ pc' = pc
    BY <1>28 DEF ProbeEnd, Goto, CtxLabels
  <2>3. UNCHANGED <<sysVars, rtState, startAuto, rtAlarm, powerVars, modeVars, cmd, MainFrame>>
    BY <1>28 DEF ProbeEnd
  <2> QED
    BY <2>1, <2>2, <2>3, EmptyBuffers DEF TypeOK
<1>29. CASE ExecHome
  <2>1. HomingMotion("homeSwitch") /\ state' = "HOMING" /\ limitsOn' = FALSE
    BY <1>29 DEF ExecHome
  <2>2. state' \in States /\ "homeSwitch" \in CtxLabels
    BY <2>1 DEF States, CtxLabels
  <2>3. /\ Buffers' /\ stepCtl' \in SUBSET StepFlags /\ stepping' \in BOOLEAN
        /\ pc' = pc /\ ctx' = "homeSwitch"
    BY <2>1, HomingMotionType
  <2>4. /\ limitsOn' \in BOOLEAN
        /\ UNCHANGED <<SysFrame, rtState, startAuto, rtAlarm, powerVars, probing, cmd, MainFrame>>
    BY <1>29 DEF ExecHome
  <2> QED
    BY <2>2, <2>3, <2>4 DEF TypeOK, Buffers
<1>30. CASE HomingPrep
  <2>1. Buffers' /\ stepCtl' \in SUBSET StepFlags
    BY <1>30, TypeBuffers, PrepBufferType DEF HomingPrep, TypeOK
  <2> QED
    BY <1>30, <2>1 DEF HomingPrep, TypeOK, Buffers
<1>31. CASE HomingFound
  <2>1. segs' = <<>> /\ stepping' \in BOOLEAN
    BY <1>31 DEF HomingFound, StReset
  <2>2. ctx' \in CtxLabels /\ pc' = pc
    BY <1>31 DEF HomingFound, Goto, CtxLabels
  <2>3. UNCHANGED <<HomingFrame, stepCtl, rtState, rtAlarm, powered, blocks>>
    BY <1>31 DEF HomingFound
  <2> QED
    BY <2>1, <2>2, <2>3, EmptyBuffers DEF TypeOK
<1>32. CASE HomingFails
  <2>1. PICK alarm \in HomingAlarms : McResetWith(alarm)
    BY <1>32 DEF HomingFails
  <2>2. alarm \in Alarms
    BY HomingAlarmsType
  <2> QED
    BY <1>32, <2>1, <2>2, McResetType DEF HomingFails, TypeOK, Goto, Call, PcLabels, CtxLabels
<1>33. CASE HomingPulledOff
  <2>1. segs' = <<>> /\ stepping' \in BOOLEAN
    BY <1>33 DEF HomingPulledOff, StReset
  <2>2. ctx' \in CtxLabels /\ pc' = pc
    BY <1>33 DEF HomingPulledOff, Goto, CtxLabels
  <2>3. rtState' \subseteq ExecFlags
    BY <1>33 DEF HomingPulledOff, TypeOK
  <2>4. UNCHANGED <<HomingFrame, stepCtl, rtAlarm, powered, blocks>>
    BY <1>33 DEF HomingPulledOff
  <2> QED
    BY <2>1, <2>2, <2>3, <2>4, EmptyBuffers DEF TypeOK
<1>34. CASE HomingNext
  <2>1. CASE \E l \in {"homeSwitch", "homeBack"} : HomingMotion(l)
    <3>1. PICK l \in {"homeSwitch", "homeBack"} : HomingMotion(l)
      BY <2>1
    <3> QED
      BY <1>34, <3>1, HomingMotionType DEF HomingNext, TypeOK, Buffers, CtxLabels
  <2>2. CASE ~\E l \in {"homeSwitch", "homeBack"} : HomingMotion(l)
    BY <1>34, <2>2 DEF HomingNext, TypeOK, Goto, Call, PcLabels, CtxLabels
  <2> QED
    BY <2>1, <2>2
<1>35. CASE HomingEnd
  <2>1. /\ state' \in States /\ ctx' \in CtxLabels /\ pc' = pc
        /\ cmd' \in CommandNames \union {"none"}
    BY <1>35, ConstantsAssumption DEF HomingEnd, StartupLine, TypeOK, States, Goto, CtxLabels
  <2>2. stepping' \in BOOLEAN /\ limitsOn' \in BOOLEAN
    BY <1>35, Zenon DEF HomingEnd, TypeOK
  <2> QED
    BY <1>35, <2>1, <2>2 DEF HomingEnd, TypeOK
<1> QED
  BY <1>1, <1>2, <1>3, <1>4, <1>5, <1>6, <1>7, <1>8, <1>9, <1>10, <1>11, <1>12, <1>13, <1>14,
     <1>15, <1>16, <1>17, <1>18, <1>19, <1>20, <1>21, <1>22, <1>23, <1>24, <1>25, <1>26, <1>27,
     <1>28, <1>29, <1>30, <1>31, <1>32, <1>33, <1>34, <1>35 DEF MainLines

-----------------------------------------------------------------------------
(* Theorems. *)

\* Every step keeps the types.
LEMMA TypeNext == TypeOK /\ [Next]_vars => TypeOK'
<1> SUFFICES ASSUME TypeOK, [Next]_vars PROVE TypeOK'
  OBVIOUS
<1>1. CASE ExecRtSystem
  BY <1>1, ExecRtSystemType
<1>2. CASE ExecRtSuspend
  BY <1>2, ExecRtSuspendType
<1>3. CASE MainLines
  BY <1>3, MainLinesType
<1>4. CASE Interrupts
  BY <1>4, InterruptsType
<1>5. CASE UNCHANGED vars
  BY <1>5 DEF vars, sysVars, flagVars, execVars, motionVars, powerVars, pinVars, modeVars,
              mainVars, TypeOK
<1> QED
  BY <1>1, <1>2, <1>3, <1>4, <1>5 DEF Next, MainProgram

\* Every variable stays in its range and neither buffer ever holds more than fits:
\* mc_line() looks for room before it plans, st_prep_buffer() before it prepares.
THEOREM TypeCorrect == Spec => []TypeOK
BY InitType, TypeNext, PTL DEF Spec

\* A line of the main program neither suspends nor aborts; the reset loop clears both.
LEMMA MainLinesKeepSuspend ==
  ASSUME MainLines
  PROVE  /\ pc = "run" /\ susp = "none" /\ susp' = "none"
         /\ (suspend' = suspend /\ abort' = abort) \/ suspend' = {}
<1> USE DEF Main, Execute, vars, sysVars, flagVars, execVars, motionVars, powerVars, pinVars,
   modeVars, mainVars, ExecFrame, McResetFrame, SuspFrame, MainFrame, SysFrame, LineFrame,
   HomingFrame
<1>1. CASE Reinit
  BY <1>1 DEF Reinit
<1>2. CASE Enter
  BY <1>2 DEF Enter
<1>3. CASE NoData
  BY <1>3 DEF NoData
<1>4. CASE Tick
  BY <1>4 DEF Tick
<1>5. CASE MainWake
  BY <1>5 DEF MainWake
<1>6. CASE EndOfLine
  BY <1>6 DEF EndOfLine
<1>7. CASE LineAborted
  BY <1>7 DEF LineAborted
<1>8. CASE RejectLine
  BY <1>8 DEF RejectLine
<1>9. CASE ExecUnlock
  BY <1>9 DEF ExecUnlock
<1>10. CASE ExecCheck
  BY <1>10 DEF ExecCheck
<1>11. CASE ExecSleep
  BY <1>11 DEF ExecSleep
<1>12. CASE ExecMove
  BY <1>12 DEF ExecMove
<1>13. CASE LineBailsOut
  BY <1>13 DEF LineBailsOut
<1>14. CASE LineWaits
  BY <1>14 DEF LineWaits
<1>15. CASE LineQueued
  BY <1>15 DEF LineQueued
<1>16. CASE JogStart
  BY <1>16 DEF JogStart
<1>17. CASE ExecMoveOut
  BY <1>17 DEF ExecMoveOut
<1>18. CASE SoftWait
  BY <1>18 DEF SoftWait
<1>19. CASE SoftAlarm
  BY <1>19 DEF SoftAlarm
<1>20. CASE ExecSync
  BY <1>20 DEF ExecSync
<1>21. CASE SyncWait
  BY <1>21 DEF SyncWait
<1>22. CASE SyncedAccessory
  BY <1>22 DEF SyncedAccessory
<1>23. CASE SyncedProgram
  BY <1>23 DEF SyncedProgram
<1>24. CASE SyncedPause
  BY <1>24 DEF SyncedPause
<1>25. CASE Dwelling
  BY <1>25 DEF Dwelling
<1>26. CASE SyncedProbe
  BY <1>26 DEF SyncedProbe
<1>27. CASE ProbeWait
  BY <1>27 DEF ProbeWait
<1>28. CASE ProbeEnd
  BY <1>28 DEF ProbeEnd
<1>29. CASE ExecHome
  BY <1>29 DEF ExecHome
<1>30. CASE HomingPrep
  BY <1>30 DEF HomingPrep
<1>31. CASE HomingFound
  BY <1>31 DEF HomingFound
<1>32. CASE HomingFails
  BY <1>32 DEF HomingFails
<1>33. CASE HomingPulledOff
  BY <1>33 DEF HomingPulledOff
<1>34. CASE HomingNext
  BY <1>34 DEF HomingNext
<1>35. CASE HomingEnd
  BY <1>35 DEF HomingEnd
<1> QED
  BY <1>1, <1>2, <1>3, <1>4, <1>5, <1>6, <1>7, <1>8, <1>9, <1>10, <1>11, <1>12, <1>13, <1>14,
     <1>15, <1>16, <1>17, <1>18, <1>19, <1>20, <1>21, <1>22, <1>23, <1>24, <1>25, <1>26, <1>27,
     <1>28, <1>29, <1>30, <1>31, <1>32, <1>33, <1>34, <1>35 DEF MainLines

\* In the suspend loop only SuspLeave leaves it, and with nothing suspended.
LEMMA SuspendLoopKept ==
  ASSUME ExecRtSuspend
  PROVE  susp' # "none" \/ (suspend' = suspend /\ suspend = {})
<1> USE DEF At, CallRt, Reached, Stopped, Parking, DoorParked, Holding, ParkMotion, ParkStart,
   ParkSkip, AfterPark, RestoreStep
<1>1. CASE SuspLeave
  BY <1>1 DEF SuspLeave, sysVars
<1>2. CASE SuspMoving
  BY <1>2 DEF SuspMoving
<1>3. CASE ParkWait
  BY <1>3 DEF ParkWait
<1>4. CASE RetractBegin
  BY <1>4 DEF RetractBegin
<1>5. CASE RetractFast
  BY <1>5 DEF RetractFast
<1>6. CASE RetractEnd
  BY <1>6 DEF RetractEnd
<1>7. CASE FallAsleep
  BY <1>7 DEF FallAsleep
<1>8. CASE StayAsleep
  BY <1>8 DEF StayAsleep
<1>9. CASE DoorCheck
  BY <1>9 DEF DoorCheck
<1>10. CASE RestoreSpindle
  BY <1>10 DEF RestoreSpindle
<1>11. CASE RestoreCoolant
  BY <1>11 DEF RestoreCoolant
<1>12. CASE DelayOn
  BY <1>12 DEF DelayOn
<1>13. CASE Plunge
  BY <1>13 DEF Plunge
<1>14. CASE RestoreEnd
  BY <1>14 DEF RestoreEnd
<1>15. CASE HoldIdle
  BY <1>15 DEF HoldIdle
<1>16. CASE OverrideStop
  BY <1>16 DEF OverrideStop
<1>17. CASE OverrideKeep
  BY <1>17 DEF OverrideKeep
<1>18. CASE OverrideRestore
  BY <1>18 DEF OverrideRestore
<1>19. CASE OverrideEnd
  BY <1>19 DEF OverrideEnd
<1>20. CASE SuspTail
  BY <1>20 DEF SuspTail
<1>21. CASE SuspWake
  BY <1>21 DEF SuspWake
<1> QED
  BY <1>1, <1>2, <1>3, <1>4, <1>5, <1>6, <1>7, <1>8, <1>9, <1>10, <1>11, <1>12, <1>13, <1>14,
     <1>15, <1>16, <1>17, <1>18, <1>19, <1>20, <1>21 DEF ExecRtSuspend

\* An interrupt changes no field of sys and not where the main program is.
LEMMA InterruptsKeepMain ==
  ASSUME Interrupts
  PROVE  UNCHANGED <<sysVars, execVars, mainVars>>
BY DEF Interrupts, StepSegment, StepDone, ProbeContact, RxReset, LimitIsr, RxStart, RxHold,
   RxDoor,
       RxJogCancel, RxSpindleStop, PinMoves, PinsDebounced, RaiseFlag, McResetFrame, sysVars,
       execVars, mainVars

\* protocol_exec_rt_system() returns only from its tail.
LEMMA NextBlockBusy ==
  ASSUME NEW ex, NEW done
  PROVE  NextBlock(ex, done) # "run"
BY DEF NextBlock

\* No step lets the main program go on with something suspended.
LEMMA NothingSuspendedNext ==
  NothingLeftSuspended /\ [Next]_vars => NothingLeftSuspended'
<1> SUFFICES ASSUME NothingLeftSuspended, [Next]_vars PROVE NothingLeftSuspended'
  OBVIOUS
<1>1. CASE RtAlarm \/ RtCritical \/ RtClearAlarm \/ RtCopy
  BY <1>1, NextBlockBusy DEF RtAlarm, RtCritical, RtClearAlarm, RtCopy, NothingLeftSuspended
<1>2. CASE RtHolds \/ RtStart \/ RtStop
  BY <1>2, NextBlockBusy DEF RtHolds, RtStart, RtStop, NothingLeftSuspended
<1>3. CASE RtTail
  BY <1>3 DEF RtTail, NothingLeftSuspended
<1>4. CASE ExecRtSuspend
  BY <1>4, SuspendLoopKept DEF NothingLeftSuspended
<1>5. CASE MainLines
  BY <1>5, MainLinesKeepSuspend DEF NothingLeftSuspended
<1>6. CASE Interrupts
  BY <1>6, InterruptsKeepMain DEF NothingLeftSuspended, sysVars, execVars, mainVars
<1>7. CASE UNCHANGED vars
  BY <1>7 DEF vars, sysVars, execVars, mainVars, NothingLeftSuspended
<1> QED
  BY <1>1, <1>2, <1>3, <1>4, <1>5, <1>6, <1>7 DEF Next, MainProgram, ExecRtSystem

\* When the main program goes on after a check point, no hold, door stop, cancel or sleep
\* is left: protocol_exec_rt_suspend() has seen it through, or there is an abort.
THEOREM NothingSuspendedHolds == Spec => []NothingLeftSuspended
<1>1. Init => NothingLeftSuspended
  BY DEF Init, NothingLeftSuspended
<1> QED
  BY <1>1, NothingSuspendedNext, PTL DEF Spec

-----------------------------------------------------------------------------
(* Who resumes. *)

\* An abort comes with the reset that caused it, but for the critical-event loop, which
\* drops it and waits for another; the blocks that act on a copy run without one.
AbortInv ==
  abort => /\ "RESET" \in rtState \/ pc = "critical"
           /\ pc \notin {"holds", "start", "stop", "tail"}

\* An automatic start is raised with nothing suspended, is copied at the next check
\* point and is used up there; a hold that it meets is in the same copy and blocks it.
AutoStartInv ==
  /\ startAuto => "CYCLE_START" \in rtState
  /\ startAuto /\ pc \in {"run", "alarm", "critical", "clear", "copy"} => suspend = {} \/ abort
  /\ susp # "none" => ~startAuto
  /\ execAuto => pc \in {"holds", "start", "stop", "tail"}
  /\ pc = "holds" => /\ Has(rtExec, HoldFlags)
                     /\ startAuto => execAuto
                     /\ execAuto => "CYCLE_START" \in rtExec /\ suspend = {}
  /\ pc = "start" /\ execAuto => suspend = {} \/ StartBlocked(rtExec) \/ state = "SLEEP"
  /\ pc \in {"stop", "tail"} => ~startAuto

ResumeInv == NothingLeftSuspended /\ AbortInv /\ AutoStartInv

\* Raising a reset is all mc_reset() does to the flags.
LEMMA McResetKeepsFlags ==
  ASSUME NEW alarm, McResetWith(alarm)
  PROVE  rtState' = rtState \union {"RESET"}
BY DEF McResetWith

\* What a line, the suspend loop and an interrupt do to the flags and to the executor.
LEMMA MainLinesFlags ==
  ASSUME MainLines
  PROVE  /\ pc' \in {"run", "alarm"} /\ rtExec' = rtExec /\ execAuto' = execAuto
         /\ \/ (Reinit /\ abort' = FALSE /\ startAuto' = FALSE)
            \/ /\ abort' = abort
               /\ rtState \ {"CYCLE_STOP"} \subseteq rtState'
               /\ startAuto' => startAuto \/ "CYCLE_START" \in rtState'
<1> USE DEF Main, Execute, Call, Goto, AutoStart, AfterLine, vars, sysVars, flagVars, execVars,
   motionVars, powerVars, pinVars, modeVars, mainVars, ExecFrame, McResetFrame, SuspFrame,
   MainFrame, SysFrame, LineFrame, HomingFrame
<1>1. CASE Reinit
  BY <1>1 DEF Reinit
<1>2. CASE Enter
  BY <1>2 DEF Enter
<1>3. CASE NoData
  BY <1>3 DEF NoData
<1>4. CASE Tick
  BY <1>4 DEF Tick
<1>5. CASE MainWake
  BY <1>5 DEF MainWake
<1>6. CASE EndOfLine
  BY <1>6 DEF EndOfLine
<1>7. CASE LineAborted
  BY <1>7 DEF LineAborted
<1>8. CASE RejectLine
  BY <1>8 DEF RejectLine
<1>9. CASE ExecUnlock
  BY <1>9 DEF ExecUnlock
<1>10. CASE ExecCheck
  BY <1>10, McResetKeepsFlags DEF ExecCheck, McReset
<1>11. CASE ExecSleep
  BY <1>11 DEF ExecSleep
<1>12. CASE ExecMove
  BY <1>12 DEF ExecMove
<1>13. CASE LineBailsOut
  BY <1>13 DEF LineBailsOut
<1>14. CASE LineWaits
  BY <1>14 DEF LineWaits
<1>15. CASE LineQueued
  BY <1>15 DEF LineQueued
<1>16. CASE JogStart
  BY <1>16 DEF JogStart
<1>17. CASE ExecMoveOut
  BY <1>17 DEF ExecMoveOut
<1>18. CASE SoftWait
  BY <1>18 DEF SoftWait
<1>19. CASE SoftAlarm
  BY <1>19, McResetKeepsFlags DEF SoftAlarm, McReset
<1>20. CASE ExecSync
  BY <1>20 DEF ExecSync
<1>21. CASE SyncWait
  BY <1>21 DEF SyncWait
<1>22. CASE SyncedAccessory
  BY <1>22 DEF SyncedAccessory
<1>23. CASE SyncedProgram
  BY <1>23 DEF SyncedProgram
<1>24. CASE SyncedPause
  BY <1>24 DEF SyncedPause
<1>25. CASE Dwelling
  BY <1>25 DEF Dwelling
<1>26. CASE SyncedProbe
  BY <1>26 DEF SyncedProbe
<1>27. CASE ProbeWait
  BY <1>27 DEF ProbeWait
<1>28. CASE ProbeEnd
  BY <1>28 DEF ProbeEnd
<1>29. CASE ExecHome
  BY <1>29 DEF ExecHome, HomingMotion
<1>30. CASE HomingPrep
  BY <1>30 DEF HomingPrep
<1>31. CASE HomingFound
  BY <1>31 DEF HomingFound
<1>32. CASE HomingFails
  BY <1>32, McResetKeepsFlags DEF HomingFails, McReset
<1>33. CASE HomingPulledOff
  BY <1>33 DEF HomingPulledOff
<1>34. CASE HomingNext
  BY <1>34 DEF HomingNext, HomingMotion
<1>35. CASE HomingEnd
  BY <1>35 DEF HomingEnd
<1> QED
  BY <1>1, <1>2, <1>3, <1>4, <1>5, <1>6, <1>7, <1>8, <1>9, <1>10, <1>11, <1>12, <1>13, <1>14,
     <1>15, <1>16, <1>17, <1>18, <1>19, <1>20, <1>21, <1>22, <1>23, <1>24, <1>25, <1>26, <1>27,
     <1>28, <1>29, <1>30, <1>31, <1>32, <1>33, <1>34, <1>35 DEF MainLines

\* The suspend loop raises flags only, and no automatic start.
LEMMA SuspendLoopFlags ==
  ASSUME ExecRtSuspend
  PROVE  /\ pc = "run" /\ susp # "none"
         /\ pc' \in {"run", "alarm"} /\ rtExec' = rtExec /\ execAuto' = execAuto
         /\ abort' = abort /\ startAuto' = startAuto /\ rtState \subseteq rtState'
<1> USE DEF At, CallRt, Reached, Stopped, Parking, DoorParked, Holding, ParkMotion, ParkStart,
            ParkSkip, AfterPark, RestoreStep, SuspFrame, sysVars
<1>1. CASE SuspLeave
  BY <1>1 DEF SuspLeave
<1>2. CASE SuspMoving
  BY <1>2 DEF SuspMoving
<1>3. CASE ParkWait
  BY <1>3 DEF ParkWait
<1>4. CASE RetractBegin
  BY <1>4 DEF RetractBegin
<1>5. CASE RetractFast
  BY <1>5 DEF RetractFast
<1>6. CASE RetractEnd
  BY <1>6 DEF RetractEnd
<1>7. CASE FallAsleep
  BY <1>7 DEF FallAsleep
<1>8. CASE StayAsleep
  BY <1>8 DEF StayAsleep
<1>9. CASE DoorCheck
  BY <1>9 DEF DoorCheck
<1>10. CASE RestoreSpindle
  BY <1>10 DEF RestoreSpindle
<1>11. CASE RestoreCoolant
  BY <1>11 DEF RestoreCoolant
<1>12. CASE DelayOn
  BY <1>12 DEF DelayOn
<1>13. CASE Plunge
  BY <1>13 DEF Plunge
<1>14. CASE RestoreEnd
  BY <1>14 DEF RestoreEnd
<1>15. CASE HoldIdle
  BY <1>15 DEF HoldIdle
<1>16. CASE OverrideStop
  BY <1>16 DEF OverrideStop
<1>17. CASE OverrideKeep
  BY <1>17 DEF OverrideKeep
<1>18. CASE OverrideRestore
  BY <1>18 DEF OverrideRestore
<1>19. CASE OverrideEnd
  BY <1>19 DEF OverrideEnd
<1>20. CASE SuspTail
  BY <1>20 DEF SuspTail
<1>21. CASE SuspWake
  BY <1>21 DEF SuspWake
<1> QED
  BY <1>1, <1>2, <1>3, <1>4, <1>5, <1>6, <1>7, <1>8, <1>9, <1>10, <1>11, <1>12, <1>13, <1>14,
     <1>15, <1>16, <1>17, <1>18, <1>19, <1>20, <1>21 DEF ExecRtSuspend

\* An interrupt raises flags only, and no automatic start.
LEMMA InterruptsFlags ==
  ASSUME Interrupts
  PROVE  rtState \subseteq rtState' /\ (startAuto' => startAuto)
<1>1. CASE RxReset \/ LimitIsr
  BY <1>1, McResetKeepsFlags DEF RxReset, LimitIsr, McReset, McResetFrame
<1>2. CASE ~(RxReset \/ LimitIsr)
  BY <1>2 DEF Interrupts, StepSegment, StepDone, ProbeContact, RxStart, RxHold, RxDoor,
     RxJogCancel, RxSpindleStop, PinMoves, PinsDebounced, RaiseFlag, flagVars
<1> QED
  BY <1>1, <1>2

\* The block that comes next is a later one, and a copied start is not passed over.
LEMMA NextBlockOrder ==
  ASSUME NEW ex
  PROVE  /\ NextBlock(ex, 0) \in {"holds", "start", "stop", "tail"}
         /\ NextBlock(ex, 1) \in {"start", "stop", "tail"}
         /\ NextBlock(ex, 2) \in {"stop", "tail"}
         /\ "CYCLE_START" \in ex => /\ NextBlock(ex, 0) \in {"holds", "start"}
                                    /\ NextBlock(ex, 1) = "start"
BY DEF NextBlock

\* The hold block puts nothing into a cycle and begins no restore; and a sleep that is
\* copied ends asleep.
LEMMA AfterHoldsResumesNothing ==
  ASSUME NEW r \in SysRec, NEW ex
  PROVE  /\ AfterHolds(r, ex).state = "CYCLE" => r.state = "CYCLE"
         /\ "INITIATE_RESTORE" \in AfterHolds(r, ex).suspend => "INITIATE_RESTORE" \in r.suspend
         /\ "SLEEP" \in ex => AfterHolds(r, ex).state = "SLEEP"
<1> DEFINE Same(q, p) == /\ p.state = "CYCLE" => q.state = "CYCLE"
                         /\ "INITIATE_RESTORE" \in p.suspend => "INITIATE_RESTORE" \in q.suspend
<1>1. \A q \in SysRec : BeginHold(q, ex) \in SysRec /\ Same(q, BeginHold(q, ex))
  BY DEF BeginHold, SysRec, SuspendFlags, StepFlags
<1>2. \A q \in SysRec : CancelMotion(q, ex) \in SysRec /\ Same(q, CancelMotion(q, ex))
  BY DEF CancelMotion, SysRec, SuspendFlags
<1>3. \A q \in SysRec : FeedHold(q, ex) \in SysRec /\ Same(q, FeedHold(q, ex))
  BY DEF FeedHold, SysRec, States
<1>4. \A q \in SysRec : ReopenDoor(q) \in SysRec /\ Same(q, ReopenDoor(q))
  BY DEF ReopenDoor, SysRec, SuspendFlags, StepFlags
<1>5. \A q \in SysRec : SafetyDoor(q, ex) \in SysRec /\ Same(q, SafetyDoor(q, ex))
  BY <1>4 DEF SafetyDoor, SysRec, SuspendFlags, States
<1>6. \A q \in SysRec : /\ Same(q, EnterSleep(q, ex))
                        /\ "SLEEP" \in ex => EnterSleep(q, ex).state = "SLEEP"
  BY DEF EnterSleep, SysRec, SuspendFlags, States
<1> DEFINE h == IF HoldAllowed(r)
                THEN SafetyDoor(FeedHold(CancelMotion(BeginHold(r, ex), ex), ex), ex) ELSE r
<1>7. h \in SysRec /\ Same(r, h)
  BY <1>1, <1>2, <1>3, <1>5
<1>8. AfterHolds(r, ex) = EnterSleep(h, ex)
  BY DEF AfterHolds
<1> HIDE DEF h
<1> QED
  BY <1>6, <1>7, <1>8

\* At power-up nothing is suspended, pending or aborted.
LEMMA ResumeInvInit == Init => ResumeInv
BY DEF Init, ResumeInv, NothingLeftSuspended, AbortInv, AutoStartInv

\* Every step keeps what is known of aborts and automatic starts.
LEMMA ResumeInvNext == TypeOK /\ ResumeInv /\ [Next]_vars => AbortInv' /\ AutoStartInv'
<1> SUFFICES ASSUME TypeOK, ResumeInv, [Next]_vars PROVE AbortInv' /\ AutoStartInv'
  OBVIOUS
<1> USE DEF ResumeInv, ExecFrame, mainVars
<1>1. CASE RtAlarm
  BY <1>1 DEF RtAlarm, AbortInv, AutoStartInv
<1>2. CASE RtCritical
  BY <1>2 DEF RtCritical, AbortInv, AutoStartInv, sysVars, flagVars
<1>3. CASE RtClearAlarm
  BY <1>3 DEF RtClearAlarm, AbortInv, AutoStartInv, sysVars
<1>4. CASE RtCopy
  <2>1. CASE "RESET" \in rtState
    BY <1>4, <2>1 DEF RtCopy, AbortInv, AutoStartInv, flagVars
  <2>2. CASE "RESET" \notin rtState
    <3>1. /\ rtExec' = rtState /\ execAuto' = startAuto /\ pc' = NextBlock(rtState, 0)
          /\ UNCHANGED <<abort, susp, state, suspend, flagVars>> /\ pc = "copy"
      BY <1>4, <2>2 DEF RtCopy
    <3>2. ~abort
      BY <2>2, <3>1 DEF AbortInv
    <3>3. pc' = "holds" => Has(rtExec', HoldFlags)
      BY <3>1 DEF NextBlock
    <3>4. execAuto' = startAuto' /\ (startAuto' => suspend' = {} /\ "CYCLE_START" \in rtExec')
      BY <3>1, <3>2 DEF AutoStartInv, flagVars
    <3> QED
      BY <3>1, <3>2, <3>3, <3>4, NextBlockOrder DEF AbortInv, AutoStartInv, flagVars
  <2> QED
    BY <2>1, <2>2
<1>5. CASE RtHolds
  <2> DEFINE r == [state |-> state, suspend |-> suspend, stepCtl |-> stepCtl]
  <2>1. r \in SysRec
    BY DEF SysRec, TypeOK
  <2>2. /\ pc = "holds" /\ state' = AfterHolds(r, rtExec).state
        /\ pc' = NextBlock(rtExec, 1) /\ rtState' = rtState \ HoldFlags
        /\ UNCHANGED <<abort, susp, startAuto, rtExec, execAuto>>
    BY <1>5 DEF RtHolds
  <2>3. ~StartBlocked(rtExec) => state' = "SLEEP"
    <3>1. Has(rtExec, HoldFlags)
      BY <2>2 DEF AutoStartInv
    <3>2. ~StartBlocked(rtExec) => "SLEEP" \in rtExec
      BY <3>1 DEF StartBlocked, Has, HoldFlags
    <3> QED
      BY <2>1, <2>2, <3>2, AfterHoldsResumesNothing
  <2>4. ~abort
    BY <2>2 DEF AbortInv
  <2>5. "CYCLE_START" \in rtState => "CYCLE_START" \in rtState'
    BY <2>2 DEF HoldFlags
  <2> QED
    BY <2>2, <2>3, <2>4, <2>5, NextBlockOrder DEF AbortInv, AutoStartInv
<1>6. CASE RtStart
  <2>1. pc = "start" /\ pc' = NextBlock(rtExec, 2) /\ startAuto' = FALSE /\ UNCHANGED abort
    BY <1>6 DEF RtStart
  <2> QED
    BY <2>1, NextBlockOrder DEF AbortInv, AutoStartInv
<1>7. CASE RtStop
  BY <1>7 DEF RtStop, AbortInv, AutoStartInv
<1>8. CASE RtTail
  BY <1>8 DEF RtTail, AbortInv, AutoStartInv
<1>9. CASE ExecRtSuspend
  <2>1. /\ pc = "run" /\ pc' \in {"run", "alarm"} /\ UNCHANGED <<rtExec, execAuto, abort, startAuto>>
        /\ rtState \subseteq rtState' /\ (susp' # "none" \/ (suspend' = suspend /\ suspend = {}))
    BY <1>9, SuspendLoopFlags, SuspendLoopKept
  <2>2. ~startAuto
    BY <1>9, SuspendLoopFlags DEF AutoStartInv
  <2> QED
    BY <2>1, <2>2 DEF AbortInv, AutoStartInv
<1>10. CASE MainLines
  <2>1. /\ pc = "run" /\ susp = "none" /\ susp' = "none"
        /\ (suspend' = suspend /\ abort' = abort) \/ suspend' = {}
    BY <1>10, MainLinesKeepSuspend
  <2>2. /\ pc' \in {"run", "alarm"} /\ rtExec' = rtExec /\ execAuto' = execAuto
        /\ \/ (abort' = FALSE /\ startAuto' = FALSE)
           \/ /\ abort' = abort
              /\ rtState \ {"CYCLE_STOP"} \subseteq rtState'
              /\ startAuto' => startAuto \/ "CYCLE_START" \in rtState'
    BY <1>10, MainLinesFlags
  <2>3. AbortInv'
    BY <2>1, <2>2 DEF AbortInv
  <2>4. suspend' = {} \/ abort'
    BY <2>1 DEF NothingLeftSuspended
  <2>5. startAuto' => "CYCLE_START" \in rtState'
    BY <2>2 DEF AutoStartInv
  <2>6. ~execAuto'
    BY <2>1, <2>2 DEF AutoStartInv
  <2> QED
    BY <2>1, <2>2, <2>3, <2>4, <2>5, <2>6 DEF AutoStartInv
<1>11. CASE Interrupts
  <2>1. UNCHANGED <<sysVars, execVars, mainVars>> /\ rtState \subseteq rtState' /\ (startAuto' => startAuto)
    BY <1>11, InterruptsKeepMain, InterruptsFlags
  <2> QED
    BY <2>1 DEF AbortInv, AutoStartInv, sysVars, execVars
<1>12. CASE UNCHANGED vars
  BY <1>12 DEF vars, sysVars, flagVars, execVars, AbortInv, AutoStartInv
<1> QED
  BY <1>1, <1>2, <1>3, <1>4, <1>5, <1>6, <1>7, <1>8, <1>9, <1>10, <1>11, <1>12
  DEF Next, MainProgram, ExecRtSystem

\* A step that resumes a hold or a door stop, or begins its restore, acts on a start that
\* an automatic cycle start alone did not raise.
LEMMA ResumeStep ==
  ASSUME TypeOK, ResumeInv, [Next]_vars,
         \/ state \in {"HOLD", "DOOR"} /\ state' = "CYCLE"
         \/ "INITIATE_RESTORE" \notin suspend /\ "INITIATE_RESTORE" \in suspend'
  PROVE  ~execAuto
<1> USE DEF ResumeInv
<1>1. CASE RtAlarm \/ RtCritical \/ RtClearAlarm \/ RtCopy
  BY <1>1 DEF RtAlarm, RtCritical, RtClearAlarm, RtCopy, AutoStartInv
<1>2. CASE RtHolds
  <2> DEFINE r == [state |-> state, suspend |-> suspend, stepCtl |-> stepCtl]
  <2>1. r \in SysRec
    BY DEF SysRec, TypeOK
  <2>2. state' = AfterHolds(r, rtExec).state /\ suspend' = AfterHolds(r, rtExec).suspend
    BY <1>2 DEF RtHolds
  <2> QED
    BY <2>1, <2>2, AfterHoldsResumesNothing
<1>3. CASE RtStart
  <2> DEFINE q == [state |-> state, suspend |-> suspend, stepCtl |-> stepCtl]
             r == ResumeDoor(q)
  <2> SUFFICES ASSUME execAuto PROVE FALSE
    OBVIOUS
  <2>1. suspend = {} \/ StartBlocked(rtExec) \/ state = "SLEEP"
    BY <1>3 DEF RtStart, AutoStartInv
  <2>2. CASE StartBlocked(rtExec)
    BY <1>3, <2>2 DEF RtStart
  <2>3. CASE ~StartBlocked(rtExec) /\ (suspend = {} \/ state = "SLEEP")
    <3>1. r = q
      BY <2>3 DEF ResumeDoor, Has
    <3>2. r.state = state /\ r.suspend = suspend
      BY <3>1
    <3>3. CASE ~MayStart(r)
      BY <1>3, <2>3, <3>2, <3>3 DEF RtStart
    <3>4. CASE MayStart(r)
      <4>1. state = "IDLE"
        BY <2>3, <3>2, <3>4 DEF MayStart
      <4>2. StartQueue(r)
        BY <1>3, <2>3, <3>2, <3>4, <4>1 DEF RtStart
      <4> QED
        BY <4>1, <4>2 DEF StartQueue
    <3> QED
      BY <3>3, <3>4
  <2> QED
    BY <2>1, <2>2, <2>3
<1>4. CASE RtStop
  BY <1>4 DEF RtStop
<1>5. CASE RtTail
  BY <1>5 DEF RtTail
<1>6. CASE ExecRtSuspend \/ MainLines
  BY <1>6, SuspendLoopFlags, MainLinesKeepSuspend DEF AutoStartInv
<1>7. CASE Interrupts \/ UNCHANGED vars
  BY <1>7, InterruptsKeepMain DEF vars, sysVars
<1> QED
  BY <1>1, <1>2, <1>3, <1>4, <1>5, <1>6, <1>7 DEF Next, MainProgram, ExecRtSystem

\* A hold or a door stop is resumed, or its restore begun, by a start the operator gave
\* (or the end of its own restore), never by protocol_auto_cycle_start() alone.
THEOREM ResumedByOperatorHolds == Spec => ResumedByOperator
<1>1. Init => TypeOK /\ ResumeInv
  BY InitType, ResumeInvInit
<1>2. TypeOK /\ ResumeInv /\ [Next]_vars => TypeOK' /\ ResumeInv'
  BY TypeNext, NothingSuspendedNext, ResumeInvNext DEF ResumeInv
<1>3. TypeOK /\ ResumeInv /\ [Next]_vars =>
        [(\/ state \in {"HOLD", "DOOR"} /\ state' = "CYCLE"
          \/ "INITIATE_RESTORE" \notin suspend /\ "INITIATE_RESTORE" \in suspend')
         => ~execAuto]_vars
  BY ResumeStep
<1> QED
  BY <1>1, <1>2, <1>3, PTL DEF Spec, ResumedByOperator

=============================================================================
