--------------------------- MODULE ProtocolSafety ---------------------------
(***************************************************************************)
(* What gCarvin's real-time protocol promises: the properties the runs     *)
(* check of Protocol, and the fairness its liveness needs.                 *)
(***************************************************************************)
EXTENDS Protocol

PcLabels == {"run", "alarm", "critical", "clear", "copy", "holds", "start", "stop", "tail"}

\* The type invariant: every variable stays in its range, and neither buffer holds
\* more than fits (the ring buffers of planner.c and stepper.c).
TypeOK ==
  /\ state \in States /\ suspend \subseteq SuspendFlags /\ stepCtl \subseteq StepFlags
  /\ abort \in BOOLEAN /\ softLimit \in BOOLEAN /\ stopOvr \subseteq StopOvrFlags
  /\ rtState \subseteq ExecFlags /\ rtAlarm \in Alarms /\ rtStopOvr \in BOOLEAN
  /\ pc \in PcLabels /\ rtExec \subseteq ExecFlags
  /\ blocks \in Seq(SUBSET Accessories) /\ Len(blocks) <= BlockMax
  /\ segs \in Seq(BOOLEAN) /\ Len(segs) <= SegMax
  /\ stepping \in BOOLEAN /\ powered \subseteq Accessories /\ modal \subseteq Accessories
  /\ doorOpen \in BOOLEAN /\ buttonDown \in BOOLEAN /\ debounce \in BOOLEAN
  /\ probing \in BOOLEAN /\ limitsOn \in BOOLEAN
  /\ ctx \in CtxLabels /\ susp \in SuspLabels /\ cmd \in CommandNames \union {"none"}
  /\ restore \subseteq Accessories
  /\ startAuto \in BOOLEAN /\ execAuto \in BOOLEAN

-----------------------------------------------------------------------------
(* Motion and state. *)

\* While the stepper interrupt runs, the state or the step control says so, and an idle
\* machine never moves.  mc_reset() decides by them whether to kill the steppers and to raise
\* the alarm for the lost position; a motion they do not show runs on through a reset or a
\* hard limit, and in idle a line may start homing or write the settings.
MotionVisible ==
  /\ stepping /\ "RESET" \notin rtState => InMotion(state, stepCtl)
  /\ state = "IDLE" => ~stepping

\* A cycle or a jog has a stepper interrupt that will end it, or its end (or a reset)
\* is flagged; else protocol_buffer_synchronize() would wait for it forever.
CycleEnds ==
  state \in {"CYCLE", "JOG"} =>
    stepping \/ Has(rtState, {"CYCLE_STOP", "RESET"}) \/ ctx \in {"init", "enter"}

\* A hold that is complete is at rest, except for the parking motion it makes itself.
HoldAtRest ==
  "HOLD_COMPLETE" \in suspend /\ stepping => "SYS_MOTION" \in stepCtl \/ "RESET" \in rtState

\* When the main program goes on after a check point, nothing is suspended: what it
\* called has seen the hold, the door or the cancel through, or there is an abort.
NothingLeftSuspended == pc = "run" /\ susp = "none" /\ ~abort => suspend = {}

\* A hold or a door stop is resumed, or its restore begun, by a start the operator
\* gave, never by an automatic cycle start (protocol_auto_cycle_start()) alone.
ResumedByOperator ==
  [][(\/ state \in {"HOLD", "DOOR"} /\ state' = "CYCLE"
      \/ "INITIATE_RESTORE" \notin suspend /\ "INITIATE_RESTORE" \in suspend')
     => ~execAuto]_vars

-----------------------------------------------------------------------------
(* Door. *)

\* Parked at the door with nothing asking for the restore, spindle and coolant are off,
\* whatever the segments that were queued before would set.
ParkedOff ==
  state = "DOOR" /\ "RETRACT_COMPLETE" \in suspend /\ "INITIATE_RESTORE" \notin suspend =>
    powered = {}

\* A cycle runs with the coolant its queue was planned with: what a door stop, sleep or
\* a hold switched off, the restore has switched on again.
CoolantRestored == state = "CYCLE" /\ stepping => ("coolant" \in powered <=> "coolant" \in modal)

\* An open door that checkControlPins() has looked at is still known, or on its way to
\* be, when the program starts to move.
OpenDoorStops ==
  [][~stepping /\ stepping' /\ "SYS_MOTION" \notin stepCtl'
     => (~doorOpen \/ buttonDown \/ debounce \/ "SAFETY_DOOR" \in rtState)]_vars

-----------------------------------------------------------------------------
(* Alarms. *)

\* In alarm the machine stands still, or a reset is under way.
AlarmStill == state = "ALARM" /\ "RESET" \notin rtState => ~stepping

\* An alarm or sleep ends in no other way than by the operator's $X or $H.
LockKept ==
  [][(state \in {"ALARM", "SLEEP"} /\ state' \notin {"ALARM", "SLEEP"})
     => (ctx = "eol" /\ cmd \in {"unlock", "home"})]_vars

\* The limit interrupt is off only while homing, or on the way to a reset.
LimitsArmed ==
  \/ limitsOn
  \/ ctx \in {"init", "homeSwitch", "homeBack", "nextSwitch", "nextBack", "nextDone", "homeEnd"}
  \/ "RESET" \in rtState

\* When protocol_buffer_synchronize() returns, the machine has stopped.
SyncedAtRest == Main("synced") /\ ~abort /\ NeedsSync => ~stepping

-----------------------------------------------------------------------------
(* Liveness. *)

\* The main program and the enabled interrupts run on, and a motion is finite: the
\* executor cannot prepare its segments again and again without coming to its end.
MotionEnds == RtTail /\ "END_MOTION" \notin stepCtl /\ "END_MOTION" \in stepCtl'

\* A delay counts a number of steps.
DelayEnds ==
  \/ (RestoreCoolant \/ Plunge \/ OverrideEnd)
  \/ Dwelling /\ ctx' = "loop"

Fairness ==
  /\ WF_vars(MainProgram)
  /\ WF_vars(StepSegment) /\ WF_vars(StepDone) /\ WF_vars(PinsDebounced)
  /\ SF_vars(MotionEnds) /\ SF_vars(DelayEnds)

FairSpec == Spec /\ Fairness

\* A reset is served from every wait of the program: it brings the reset loop, unless a
\* hard or soft limit takes its place and waits for the next one.
ResetServed == ("RESET" \in rtState) ~> (ctx = "init" \/ pc = "critical")

\* A feed hold comes to rest: complete, or out of the state.
HoldCompletes == (state = "HOLD") ~> ("HOLD_COMPLETE" \in suspend \/ state # "HOLD")

\* A door stop ends with the tool parked and power off, or out of the state.
DoorParks == (state = "DOOR") ~> ("RETRACT_COMPLETE" \in suspend \/ state # "DOOR")
=============================================================================
