---------------------------- MODULE SpindleProofs ----------------------------
(***************************************************************************)
(* Proof that the spindle gets the speed that was asked for last, for      *)
(* every range of levels, all rates and any number of resets.              *)
(***************************************************************************)
EXTENDS Spindle, SequenceTheorems, TLAPS

Step(field, value) == <<field, value>>
Disconnect == <<"connected", FALSE>>

\* What may be left of a call that gives the motor the speed v.
CallFor(v, todo) ==
  \/ todo = <<Step("speed", v)>>
  \/ \E time \in {SpinUp, SpinDown} : todo = <<Step("duration", time), Step("target", v)>>
  \/ todo = <<Step("target", v)>>

\* The main program or the stepper interrupt is in a call for the speed asked for last, never
\* both, or the target is that speed.
InRun ==
  /\ connected = (level # 0)
  /\ main = <<>> \/ (CallFor(asked, main) /\ isr = <<>> /\ ~stepping)
  /\ isr = <<>> \/ CallFor(asked, isr)
  /\ main = <<>> /\ isr = <<>> => target = asked

\* spindle_init() and the tick that follows, in which only a reset could interfere
InInit ==
  /\ isr = <<>> /\ ~stepping /\ asked = 0
  /\ \/ main = <<Disconnect, Step("duration", 0), Step("target", 0)>>
     \/ /\ connected = FALSE \/ (connected = TRUE /\ level # 0)
        /\ \/ main = <<Step("duration", 0), Step("target", 0)>>
           \/ main = <<Step("target", 0)>> /\ (~reset /\ ~limit => duration = 0)
           \/ main = <<>> /\ (~reset /\ ~limit => duration = 0 /\ target = 0)

\* With a reset or limit flagged the speed is anyone's, until main() starts again.
SpindleInv ==
  /\ pc = "run" /\ ~reset /\ ~limit => InRun
  /\ pc = "init" => InInit

------------------------------------------------------------------------------
(* The steps of a call *)

LEMMA OneLeft ==
  ASSUME NEW a
  PROVE  <<a>> # <<>> /\ Head(<<a>>) = a /\ Tail(<<a>>) = <<>>
  OBVIOUS

LEMMA TwoLeft ==
  ASSUME NEW a, NEW b
  PROVE  <<a, b>> # <<>> /\ Head(<<a, b>>) = a /\ Tail(<<a, b>>) = <<b>>
  OBVIOUS

LEMMA ThreeLeft ==
  ASSUME NEW a, NEW b, NEW c
  PROVE  <<a, b, c>> # <<>> /\ Head(<<a, b, c>>) = a /\ Tail(<<a, b, c>>) = <<b, c>>
  OBVIOUS

LEMMA StepParts ==
  \A field, value : Step(field, value)[1] = field /\ Step(field, value)[2] = value
  BY DEF Step

LEMMA DisconnectParts == Disconnect[1] = "connected" /\ Disconnect[2] = FALSE
  BY DEF Disconnect

\* A shorter rest is not a longer one.
LEMMA StepsDiffer ==
  ASSUME NEW a, NEW b, NEW c, NEW d, NEW e, NEW f
  PROVE  <<a, b, c>> # <<d, e>> /\ <<a, b, c>> # <<d>> /\ <<a, b>> # <<d>>
  OBVIOUS

LEMMA InitCall ==
  SpindleInit = <<Disconnect, Step("duration", 0), Step("target", 0)>>
<1>1. ASSUME NEW a, NEW b, NEW c
      PROVE  <<a>> \o <<b, c>> = <<a, b, c>>
  <2> DEFINE S == {a, b, c}
             p == <<a>>
             q == <<b, c>>
             r == <<a, b, c>>
  <2>1. p \in Seq(S) /\ q \in Seq(S) /\ r \in Seq(S)
    OBVIOUS
  <2>2. Len(p) = 1 /\ Len(q) = 2 /\ Len(r) = 3 /\ p[1] = a /\ q[1] = b /\ q[2] = c
    OBVIOUS
  <2>3. r[1] = a /\ r[2] = b /\ r[3] = c
    OBVIOUS
  <2> HIDE DEF p, q, r
  <2>4. /\ p \o q \in Seq(S) /\ Len(p \o q) = 3
        /\ \A i \in 1..3 : (p \o q)[i] = IF i <= 1 THEN p[i] ELSE q[i - 1]
    <3>1. /\ p \o q \in Seq(S) /\ Len(p \o q) = Len(p) + Len(q)
          /\ \A i \in 1..(Len(p) + Len(q)) :
               (p \o q)[i] = IF i <= Len(p) THEN p[i] ELSE q[i - Len(p)]
      BY <2>1, ConcatProperties
    <3> QED
      BY <2>2, <3>1
  <2>5. \A i \in 1..3 : (p \o q)[i] = r[i]
    BY <2>2, <2>3, <2>4
  <2>6. p \o q = r
    BY <2>1, <2>2, <2>4, <2>5, SeqEqual
  <2> QED
    BY <2>6 DEF p, q, r
<1>2. SpindleInit = <<Disconnect>> \o <<Step("duration", 0), Step("target", 0)>>
  BY DEF SpindleInit, SetPwm, Step, Disconnect
<1> QED
  BY <1>1, <1>2

LEMMA CallLeft ==
  ASSUME NEW v
  PROVE  ~CallFor(v, <<>>)
  BY OneLeft, TwoLeft DEF CallFor

\* spindle_set_speed() calls set_pwm(), unless the motor is on its way to v already.
LEMMA SetSpeedCalls ==
  ASSUME NEW v
  PROVE  CallFor(v, SpindleSetSpeed(v)) \/ (SpindleSetSpeed(v) = <<>> /\ target = v)
<1>1. CallFor(v, SetPwm(v, SpinUp)) /\ CallFor(0, SpindleStop)
  BY DEF CallFor, SetPwm, SpindleStop, Step
<1> QED
  BY <1>1 DEF SpindleSetSpeed

\* One step of a call for v leaves the output alone, and a call for v or the target v.
LEMMA CallStep ==
  ASSUME NEW v, NEW todo, CallFor(v, todo), Write(todo)
  PROVE  /\ UNCHANGED <<level, connected>>
         /\ CallFor(v, Rest(todo)) \/ (Rest(todo) = <<>> /\ target' = v)
<1>1. CASE todo = <<Step("speed", v)>>
  <2>1. Head(todo)[1] = "speed" /\ Head(todo)[2] = v
    BY <1>1, OneLeft, StepParts
  <2>2. UNCHANGED <<level, connected, target>> /\ Rest(todo) = SpindleSetSpeed(v)
    BY <2>1 DEF Write, Rest
  <2> QED
    BY <2>2, SetSpeedCalls
<1>2. ASSUME NEW time \in {SpinUp, SpinDown},
             todo = <<Step("duration", time), Step("target", v)>>
      PROVE  UNCHANGED <<level, connected>> /\ CallFor(v, Rest(todo))
  <2>1. Head(todo)[1] = "duration" /\ Tail(todo) = <<Step("target", v)>>
    BY <1>2, TwoLeft, StepParts
  <2> QED
    BY <2>1 DEF Write, Rest, CallFor
<1>3. CASE todo = <<Step("target", v)>>
  <2>1. Head(todo)[1] = "target" /\ Head(todo)[2] = v /\ Tail(todo) = <<>>
    BY <1>3, OneLeft, StepParts
  <2> QED
    BY <2>1 DEF Write, Rest
<1> QED
  BY <1>1, <1>2, <1>3 DEF CallFor

------------------------------------------------------------------------------
(* The invariant *)

LEMMA SpindleStart == Init => SpindleInv
  BY InitCall DEF Init, SpindleInv, InInit

LEMMA MainWriteKeeps ==
  ASSUME SpindleInv, MainWrite
  PROVE  SpindleInv'
<1>1. /\ main # <<>> /\ isr = <<>> /\ Write(main) /\ main' = Rest(main)
      /\ UNCHANGED <<pc, isr, stepping, reset, limit, asked, level>>
  BY DEF MainWrite, flags, Write
<1>2. ASSUME pc = "run", ~reset, ~limit
      PROVE  InRun' /\ UNCHANGED connected
  <2>1. InRun /\ CallFor(asked, main) /\ ~stepping
    BY <1>1, <1>2 DEF SpindleInv, InRun
  <2>2. /\ UNCHANGED <<level, connected>>
        /\ CallFor(asked, main') \/ (main' = <<>> /\ target' = asked)
    BY <1>1, <2>1, CallStep
  <2>3. CallFor(asked', main') \/ (main' = <<>> /\ target' = asked')
    BY <1>1, <2>2
  <2>4. connected' = (level' # 0)
    BY <2>1, <2>2 DEF InRun
  <2>5. main' = <<>> \/ (CallFor(asked', main') /\ isr' = <<>> /\ ~stepping')
    BY <1>1, <2>1, <2>3
  <2>6. main' = <<>> => target' = asked'
    BY <2>3, CallLeft
  <2> QED
    BY <1>1, <2>2, <2>4, <2>5, <2>6 DEF InRun
<1>3. ASSUME pc = "init"
      PROVE  InInit'
  <2>1. InInit
    BY <1>3 DEF SpindleInv
  <2>2. CASE main = <<Disconnect, Step("duration", 0), Step("target", 0)>>
    <3>1. Head(main)[1] = "connected" /\ Tail(main) = <<Step("duration", 0), Step("target", 0)>>
      BY <2>2, ThreeLeft, DisconnectParts
    <3>2. Head(main)[2] = FALSE
      BY <2>2, ThreeLeft, DisconnectParts
    <3>3. connected' = FALSE /\ main' = <<Step("duration", 0), Step("target", 0)>>
      BY <1>1, <3>1, <3>2 DEF Rest, Write
    <3> QED
      BY <1>1, <2>1, <3>3 DEF InInit
  <2>3. CASE main = <<Step("duration", 0), Step("target", 0)>>
    <3>1. /\ Head(main)[1] = "duration" /\ Head(main)[2] = 0
          /\ Tail(main) = <<Step("target", 0)>>
      BY <2>3, TwoLeft, StepParts
    <3>2. duration' = 0 /\ connected' = connected /\ main' = <<Step("target", 0)>>
      BY <1>1, <3>1 DEF Rest, Write
    <3>3. connected = FALSE \/ (connected = TRUE /\ level # 0)
      BY <2>1, <2>3, StepsDiffer DEF InInit
    <3> QED
      BY <1>1, <2>1, <3>2, <3>3 DEF InInit
  <2>4. CASE main = <<Step("target", 0)>> /\ (~reset /\ ~limit => duration = 0)
    <3>1. Head(main)[1] = "target" /\ Head(main)[2] = 0 /\ Tail(main) = <<>>
      BY <2>4, OneLeft, StepParts
    <3>2. target' = 0 /\ UNCHANGED <<duration, connected>> /\ main' = <<>>
      BY <1>1, <3>1 DEF Rest, Write
    <3>3. connected = FALSE \/ (connected = TRUE /\ level # 0)
      BY <2>1, <2>4, StepsDiffer DEF InInit
    <3> QED
      BY <1>1, <2>1, <2>4, <3>2, <3>3 DEF InInit
  <2> QED
    BY <1>1, <2>1, <2>2, <2>3, <2>4 DEF InInit
<1> QED
  BY <1>1, <1>2, <1>3 DEF SpindleInv

LEMMA IsrWriteKeeps ==
  ASSUME SpindleInv, IsrWrite
  PROVE  SpindleInv'
<1>1. /\ isr # <<>> /\ Write(isr) /\ isr' = Rest(isr)
      /\ UNCHANGED <<pc, main, stepping, reset, limit, asked>>
  BY DEF IsrWrite, flags
<1>2. ASSUME pc = "run", ~reset, ~limit
      PROVE  InRun'
  <2>1. InRun /\ CallFor(asked, isr) /\ main = <<>>
    BY <1>1, <1>2 DEF SpindleInv, InRun
  <2>2. /\ UNCHANGED <<level, connected>>
        /\ CallFor(asked, isr') \/ (isr' = <<>> /\ target' = asked)
    BY <1>1, <2>1, CallStep
  <2>3. connected' = (level' # 0)
    BY <2>1, <2>2 DEF InRun
  <2>4. CallFor(asked', isr') \/ (isr' = <<>> /\ target' = asked')
    BY <1>1, <2>2
  <2>5. isr' = <<>> => target' = asked'
    BY <2>4, CallLeft
  <2> QED
    BY <1>1, <2>1, <2>3, <2>4, <2>5 DEF InRun
<1>3. pc # "init"
  BY <1>1 DEF SpindleInv, InInit
<1> QED
  BY <1>1, <1>2, <1>3 DEF SpindleInv

\* set_pwm() and spindle_set_speed() begin a call when none is under way.
LEMMA CallsBegin ==
  ASSUME NEW v
  PROVE  /\ CallFor(v, << <<"speed", v>> >>) /\ CallFor(0, SpindleStop)
         /\ << <<"speed", v>> >> # <<>> /\ SpindleStop # <<>>
<1>1. << <<"speed", v>> >> = <<Step("speed", v)>>
  BY DEF Step
<1>2. SpindleStop = <<Step("duration", SpinDown), Step("target", 0)>>
  BY DEF SpindleStop, SetPwm, Step
<1> QED
  BY <1>1, <1>2, OneLeft, TwoLeft DEF CallFor

LEMMA SetStateKeeps ==
  ASSUME SpindleInv, SetState
  PROVE  SpindleInv'
<1>1. /\ pc = "run" /\ main = <<>> /\ isr = <<>> /\ ~stepping
      /\ UNCHANGED <<target, duration, level, connected, pc, isr, stepping, reset, limit>>
  BY DEF SetState, Main, motor, flags
<1>2. CallFor(asked', main') /\ main' # <<>>
  <2>1. PICK v \in Speeds \cup {0} :
          /\ main' = IF v = 0 THEN SpindleStop ELSE << <<"speed", v>> >>
          /\ asked' = v
    BY DEF SetState
  <2> QED
    BY <2>1, CallsBegin
<1> QED
  BY <1>1, <1>2 DEF SpindleInv, InRun

LEMMA StepSegmentKeeps ==
  ASSUME SpindleInv, StepSegment
  PROVE  SpindleInv'
<1>1. /\ stepping /\ isr = <<>>
      /\ UNCHANGED <<target, duration, level, connected, pc, main, stepping, reset, limit>>
  BY DEF StepSegment, motor, flags
<1>2. CallFor(asked', isr') /\ isr' # <<>>
  <2>1. PICK v \in Speeds \cup {0} : isr' = << <<"speed", v>> >> /\ asked' = v
    BY DEF StepSegment
  <2> QED
    BY <2>1, CallsBegin
<1>3. pc # "init"
  BY <1>1 DEF SpindleInv, InInit
<1> QED
  BY <1>1, <1>2, <1>3 DEF SpindleInv, InRun

LEMMA TickKeeps ==
  ASSUME SpindleInv, Tick
  PROVE  SpindleInv'
<1>1. UNCHANGED <<target, duration, main, isr, stepping, reset, limit, asked>>
  BY DEF Tick, flags
<1>2. \/ target = level /\ UNCHANGED <<level, connected>>
      \/ target # level /\ duration # 0 /\ UNCHANGED <<level, connected>>
      \/ target # level /\ (duration = 0 => level' = target) /\ connected' = (level' # 0)
  BY DEF Tick
<1>3. CASE Main("init")
  <2>1. InInit /\ main = <<>> /\ pc' = "run"
    BY <1>3 DEF SpindleInv, Main, Tick
  <2>2. ASSUME ~reset, ~limit
        PROVE  InRun'
    <3>1. /\ isr = <<>> /\ asked = 0 /\ duration = 0 /\ target = 0
          /\ connected = FALSE \/ (connected = TRUE /\ level # 0)
      BY <2>1, <2>2, OneLeft, TwoLeft, ThreeLeft DEF InInit
    <3>2. connected' = (level' # 0)
      BY <1>2, <3>1
    <3> QED
      BY <1>1, <2>1, <3>1, <3>2 DEF InRun
  <2> QED
    BY <1>1, <2>1, <2>2 DEF SpindleInv
<1>4. CASE ~Main("init")
  <2>1. pc' = pc
    BY <1>4 DEF Tick
  <2>2. ASSUME pc = "run", ~reset, ~limit
        PROVE  InRun'
    <3>1. InRun
      BY <2>2 DEF SpindleInv
    <3>2. connected' = (level' # 0)
      BY <1>2, <3>1 DEF InRun
    <3> QED
      BY <1>1, <3>1, <3>2 DEF InRun
  <2>3. ASSUME pc = "init"
        PROVE  InInit'
    <3>1. InInit
      BY <2>3 DEF SpindleInv
    <3>2. ASSUME connected = FALSE \/ (connected = TRUE /\ level # 0)
          PROVE  connected' = FALSE \/ (connected' = TRUE /\ level' # 0)
      BY <1>2, <3>2
    <3> QED
      BY <1>1, <3>1, <3>2 DEF InInit
  <2> QED
    BY <1>1, <2>1, <2>2, <2>3 DEF SpindleInv
<1> QED
  BY <1>3, <1>4

LEMMA ResetKeeps ==
  ASSUME SpindleInv, RxReset \/ LimitIsr
  PROVE  SpindleInv'
<1>1. /\ reset' = TRUE
      /\ stepping' = stepping \/ stepping' = FALSE
      /\ UNCHANGED <<level, connected, pc, main, isr, asked>>
  BY DEF RxReset, LimitIsr, McReset
<1>2. ASSUME pc = "init"
      PROVE  InInit'
  <2>1. InInit
    BY <1>2 DEF SpindleInv
  <2> QED
    BY <1>1, <2>1 DEF InInit
<1> QED
  BY <1>1, <1>2 DEF SpindleInv

LEMMA SpindleNext == SpindleInv /\ [Next]_vars => SpindleInv'
<1> SUFFICES ASSUME SpindleInv, [Next]_vars
             PROVE  SpindleInv'
  OBVIOUS
<1>1. CASE MainWrite
  BY <1>1, MainWriteKeeps
<1>2. CASE IsrWrite
  BY <1>2, IsrWriteKeeps
<1>3. CASE SetState
  BY <1>3, SetStateKeeps
<1>4. CASE SetRpmRange
  BY <1>4, InitCall DEF SetRpmRange, Main, motor, flags, SpindleInv, InInit
<1>5. CASE StartCycle
  BY <1>5 DEF StartCycle, Main, motor, flags, SpindleInv, InRun
<1>6. CASE CheckPoint
  BY <1>6 DEF CheckPoint, SpindleInv
<1>7. CASE LeaveCritical
  BY <1>7 DEF LeaveCritical, SpindleInv
<1>8. CASE Restart
  BY <1>8, InitCall DEF Restart, Main, SpindleInv, InInit
<1>9. CASE StepSegment
  BY <1>9, StepSegmentKeeps
<1>10. CASE StepEnd
  <2>1. /\ isr = <<>> /\ stepping /\ stepping' = FALSE
        /\ UNCHANGED <<target, duration, level, connected, pc, main, isr, reset, limit, asked>>
    BY <1>10 DEF StepEnd, motor, flags
  <2> QED
    BY <2>1 DEF SpindleInv, InRun, InInit
<1>11. CASE RxReset \/ LimitIsr
  BY <1>11, ResetKeeps
<1>12. CASE Tick
  BY <1>12, TickKeeps
<1>13. CASE UNCHANGED vars
  BY <1>13 DEF vars, motor, flags, SpindleInv, InRun, InInit
<1> QED
  BY <1>1, <1>2, <1>3, <1>4, <1>5, <1>6, <1>7, <1>8, <1>9, <1>10, <1>11, <1>12, <1>13
     DEF Next, Program

\* Outside of calls, and with no reset or limit flagged, the motor is on its way to the speed
\* asked for last, or has it with the pin driven exactly if it is not 0, whatever the
\* interrupts wrote to the same fields in between: for every range of levels and all rates.
THEOREM SpindleAsAskedHolds == Spec => []SpindleAsAsked
<1>1. SpindleInv => SpindleAsAsked
  BY DEF SpindleInv, InRun, SpindleAsAsked
<1> QED
  BY <1>1, SpindleStart, SpindleNext, PTL DEF Spec
==============================================================================
