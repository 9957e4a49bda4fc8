------------------------------- MODULE Spindle -------------------------------
(***************************************************************************)
(* The spindle motor of gCarvin.  spindle_control.c only asks for a speed, *)
(* by writes to the fields of spindle_motor (set_pwm() of carvin.c); the   *)
(* interrupt of timer 5 moves the level of the motor towards it and        *)
(* connects or disconnects the output.  The main program, the stepper      *)
(* interrupt, which runs with interrupts enabled, and mc_reset(), from the *)
(* interrupts of serial port and limit switches, all write these fields,   *)
(* without a lock.                                                         *)
(*                                                                         *)
(* main and isr are what the main program and the stepper interrupt have   *)
(* yet to do of a call: the steps <<field, value>> and <<"speed", value>>, *)
(* which is the call of spindle_set_speed().  While isr is not done, the   *)
(* main program does not run.                                              *)
(***************************************************************************)
EXTENDS Naturals, Sequences

CONSTANTS
  MaxLevel,             \* SPINDLE_PWM_MAX_VALUE
  Speeds,               \* values of the PWM that lines ask for; 0 is off
  SpinUp, SpinDown,     \* SPINDLE_SPINUP_RATE and SPINDLE_SPINDOWN_RATE
  MaxResets             \* bound: how often mc_reset() is called

ASSUME SpindleAssumption ==
  /\ MaxLevel \in Nat \ {0}
  /\ Speeds \subseteq 1..MaxLevel
  /\ SpinUp \in Nat \ {0} /\ SpinDown \in Nat \ {0}
  /\ MaxResets \in Nat

VARIABLES
  target, duration,     \* fields that set_pwm() writes
  level, counter,       \* fields of the timer interrupt
  connected,            \* the PWM drives the output pin
  pc,                   \* of the main program: "run", "critical", "abort", "init"
  main, isr,
  stepping,             \* the stepper interrupt is enabled
  reset, limit,         \* EXEC_RESET and EXEC_ALARM_HARD_LIMIT are flagged
  resets,               \* bound
  asked                 \* history: the speed that was asked for last; 0 after a restart

motor == <<target, duration, level, counter, connected>>
flags == <<reset, limit, resets>>
vars == <<motor, pc, main, isr, stepping, flags, asked>>

\* set_pwm(): "throb", which no one sets for the motor, is left out.
SetPwm(value, time) == << <<"duration", time>>, <<"target", value>> >>

SpindleStop == SetPwm(0, SpinDown)

\* Mutant: the speed is compared with the one the motor has.
SpindleSetSpeedReached(value) ==
  IF value = 0 THEN SpindleStop
  ELSE IF value # level THEN SetPwm(value, SpinUp) ELSE <<>>

\* spindle_set_speed(), with its look at the target
SpindleSetSpeed(value) ==
  IF value = 0 THEN SpindleStop
  ELSE IF value # target THEN SetPwm(value, SpinUp) ELSE <<>>

\* Mutant: only the registers of the timer are set up.
SpindleInitTimer == << <<"connected", FALSE>> >>

\* spindle_init() disconnects the output and asks for a stop at once.
SpindleInit == << <<"connected", FALSE>> >> \o SetPwm(0, 0)

Init ==
  /\ target = 0 /\ duration = 0 /\ level = 0 /\ counter = 0 /\ connected = FALSE
  /\ pc = "init" /\ main = SpindleInit /\ isr = <<>>
  /\ stepping = FALSE /\ reset = FALSE /\ limit = FALSE /\ resets = 0 /\ asked = 0

\* What is left of the calls in todo after their next step.
Rest(todo) ==
  IF Head(todo)[1] = "speed" THEN SpindleSetSpeed(Head(todo)[2]) ELSE Tail(todo)
Write(todo) ==
  LET set(field, old) == IF Head(todo)[1] = field THEN Head(todo)[2] ELSE old
  IN  /\ target' = set("target", target)
      /\ duration' = set("duration", duration)
      /\ connected' = set("connected", connected)
      /\ UNCHANGED <<level, counter>>

MainWrite ==
  /\ main # <<>> /\ isr = <<>>
  /\ Write(main) /\ main' = Rest(main)
  /\ UNCHANGED <<pc, isr, stepping, flags, asked>>

IsrWrite ==
  /\ isr # <<>>
  /\ Write(isr) /\ isr' = Rest(isr)
  /\ UNCHANGED <<pc, main, stepping, flags, asked>>

------------------------------------------------------------------------------
(* The main program. *)

Main(at) == pc = at /\ main = <<>> /\ isr = <<>>

\* spindle_set_state(), by a line, by the parking manager or by the override, when the
\* machine does not move.  It only looks at sys.abort: a reset that was flagged since the
\* last check point does not keep it.
SetState ==
  /\ Main("run") /\ ~stepping
  /\ \E v \in Speeds \cup {0} :
       /\ main' = IF v = 0 THEN SpindleStop ELSE << <<"speed", v>> >>
       /\ asked' = v
  /\ UNCHANGED <<motor, pc, isr, stepping, flags>>

\* $30 and $31 call spindle_init(); the record of the settings is written then, which takes
\* longer than a tick of the timer.
SetRpmRange ==
  /\ Main("run") /\ ~stepping
  /\ pc' = "init" /\ main' = SpindleInit /\ asked' = 0
  /\ UNCHANGED <<motor, isr, stepping, flags>>

StartCycle ==
  /\ Main("run") /\ ~stepping
  /\ stepping' = TRUE
  /\ UNCHANGED <<motor, pc, main, isr, flags, asked>>

\* protocol_exec_rt_system(): a hard limit blocks everything until the next reset.
CheckPoint ==
  /\ Main("run") /\ (limit \/ reset)
  /\ pc' = IF limit THEN "critical" ELSE "abort"
  /\ reset' = (reset /\ ~limit)
  /\ UNCHANGED <<motor, main, isr, stepping, limit, resets, asked>>
LeaveCritical ==
  /\ Main("critical") /\ reset
  /\ pc' = "abort" /\ limit' = FALSE
  /\ UNCHANGED <<motor, main, isr, stepping, reset, resets, asked>>

\* The loop of main(): the flags are cleared, then the systems are set up again; this
\* prints and so takes longer than a tick, too.
Restart ==
  /\ Main("abort")
  /\ pc' = "init" /\ main' = SpindleInit
  /\ reset' = FALSE /\ limit' = FALSE /\ stepping' = FALSE /\ asked' = 0
  /\ UNCHANGED <<motor, isr, resets>>

------------------------------------------------------------------------------
(* Interrupts. *)

\* The stepper interrupt begins a segment, or ends the motion.
StepSegment ==
  /\ stepping /\ isr = <<>>
  /\ \E v \in Speeds \cup {0} : isr' = << <<"speed", v>> >> /\ asked' = v
  /\ UNCHANGED <<motor, pc, main, stepping, flags>>
StepEnd ==
  /\ stepping /\ isr = <<>>
  /\ stepping' = FALSE
  /\ UNCHANGED <<motor, pc, main, isr, flags, asked>>

\* mc_reset() is not interrupted: the spindle is stopped and the steppers are.
McReset ==
  /\ resets < MaxResets /\ resets' = resets + 1
  /\ reset' = TRUE
  /\ IF reset THEN UNCHANGED <<target, duration, stepping>>
     ELSE target' = 0 /\ duration' = SpinDown /\ stepping' = FALSE
  /\ UNCHANGED <<level, counter, connected, pc, main, isr, asked>>
RxReset == McReset /\ UNCHANGED limit
LimitIsr == pc # "critical" /\ ~limit /\ McReset /\ limit' = TRUE

\* The interrupt of timer 5 (pwm_level_change() and what follows it for the motor).  When
\* spindle_init() is done, the main program goes on after a tick.
Tick ==
  /\ CASE target = level -> UNCHANGED <<level, counter, connected>>
       [] target # level /\ duration # 0 /\ counter > 1 ->
            counter' = counter - 1 /\ UNCHANGED <<level, connected>>
       [] OTHER ->
            /\ level' = IF duration = 0 THEN target
                        ELSE IF level < target THEN level + 1 ELSE level - 1
            /\ counter' = IF duration = 0 THEN counter ELSE duration
            /\ connected' = (level' # 0)
  /\ pc' = IF Main("init") THEN "run" ELSE pc
  /\ UNCHANGED <<target, duration, main, isr, stepping, flags, asked>>

Program == SetState \/ SetRpmRange \/ StartCycle \/ CheckPoint \/ LeaveCritical \/ Restart
Next ==
  \/ Program \/ MainWrite \/ IsrWrite
  \/ StepSegment \/ StepEnd \/ RxReset \/ LimitIsr \/ Tick

\* The processor finishes its interrupts and goes on with the main program, which comes to
\* its next check point whatever lines it executes.
Fairness ==
  /\ WF_vars(MainWrite) /\ WF_vars(IsrWrite) /\ WF_vars(Tick) /\ SF_vars(StepEnd)
  /\ SF_vars(CheckPoint) /\ WF_vars(Restart)

Spec == Init /\ [][Next]_vars /\ Fairness

------------------------------------------------------------------------------

\* Outside of calls, and with no reset or limit flagged, the motor is on its way to the speed
\* that was asked for last, or has it; and once it has it, the pin is driven exactly if the
\* speed is not 0 (set_pwm() and spindle_set_speed() against the interrupts that write the
\* same fields, and the output against spindle_init()).
SpindleAsAsked ==
  pc = "run" /\ main = <<>> /\ isr = <<>> /\ ~reset /\ ~limit =>
    target = asked /\ (level = target => (connected <=> level # 0))

\* A reset stops the spindle, although a call that it interrupts sets the speed again, unless
\* a hard limit holds the program (mc_reset(), spindle_init()).
ResetStopsSpindle == reset ~> (level = 0 \/ pc = "critical")

\* "Kill spindle and coolant." (mc_reset()): in the critical alarm of a hard limit the spindle
\* is off or slows down.  It does not hold: a call that the limit interrupts, or one between
\* the last check point and the limit, sets the speed again, and only a reset ends it.
KilledInAlarm == pc = "critical" => target = 0
==============================================================================
