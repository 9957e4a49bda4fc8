------------------------------ MODULE Planner ------------------------------
(***************************************************************************)
(* The look-ahead planner of gCarvin (planner.c) with the part of the      *)
(* stepper module that executes the plan (st_prep_buffer() of stepper.c)   *)
(* and the motion overrides that change it while it is executed            *)
(* (protocol.c).  All of it is the main program: the interrupts only see   *)
(* finished segments.  What makes it hard is that the plan of the queue is *)
(* improved while its first block is being executed, that only the blocks  *)
(* from block_buffer_planned on are recomputed, and that holds, overrides  *)
(* and parking motions come at any point of a block.                       *)
(*                                                                         *)
(* Distances and speeds: a block of length mm with acceleration a lets the *)
(* square of the speed change by 2*a*mm, its room.  All speeds are stored  *)
(* squared, as in the code, and one unit of room is executed for each unit *)
(* of squared speed gained or lost, so the arithmetic of the plan is exact.*)
(***************************************************************************)
EXTENDS Integers, FiniteSets

CONSTANTS
  BufferSize,          \* BLOCK_BUFFER_SIZE
  Lines,               \* the lines the main program may plan
  ParkLine,            \* the line of a parking motion
  RapidRate,           \* the machine's highest rate
  MinRate,             \* MINIMUM_FEED_RATE
  Full,                \* the override of 100 %
  FeedMin, FeedMax, FeedCoarse, FeedFine,  \* bounds and increments in config.h
  RapidOverrides,      \* RAPID_OVERRIDE_LOW, _MEDIUM and DEFAULT_RAPID_OVERRIDE
  Width                \* an override is kept modulo Width (256)

Kinds == {"rapid", "feed", "fixed"}   \* PL_COND_MOTION_MASK: fixed takes no override

Line == [kind : Kinds, rate : Nat \ {0}, room : Nat \ {0}, corner : Nat]

ASSUME PlannerAssumption ==
  /\ BufferSize \in Nat /\ BufferSize > 1
  /\ Lines \subseteq Line /\ IsFiniteSet(Lines) /\ ParkLine \in Line
  /\ RapidRate \in Nat \ {0} /\ MinRate \in Nat \ {0} /\ Full \in Nat \ {0}
  /\ FeedMin \in Nat /\ FeedMax \in Nat /\ FeedMin <= Full /\ Full <= FeedMax
  /\ FeedCoarse \in Nat /\ FeedFine \in Nat
  /\ RapidOverrides \subseteq Nat \ {0} /\ Full \in RapidOverrides
  /\ Width \in Nat /\ FeedMax < Width

VARIABLES
  block,               \* block_buffer
  tail, head, planned, \* block_buffer_tail, _head and _planned
  prevNominal,         \* pl.previous_nominal_speed
  exec,                \* prep, and whether pl_block points to a block
  control,             \* what sys.step_control and the hold make of the stepper
  feedOvr, rapidOvr,   \* sys.f_override and sys.r_override
  begun,               \* history: part of the block at the tail has been executed
  slowed               \* history: an override slowed down a queued junction (Override)

planVars == <<block, tail, head, planned, prevNominal>>
ovrVars  == <<feedOvr, rapidOvr>>
history  == <<begun, slowed>>
vars == <<planVars, exec, control, ovrVars, history>>

Indices == 0..(BufferSize - 1)

\* "hold" is STEP_CONTROL_EXECUTE_HOLD, "park" STEP_CONTROL_EXECUTE_SYS_MOTION and
\* "parkHold" both; the ones ending in End have STEP_CONTROL_END_MOTION, and "held" is
\* SUSPEND_HOLD_COMPLETE.
Controls == {"normal", "hold", "holdEnd", "held", "park", "parkHold", "parkEnd"}

MinOf(a, b) == IF a < b THEN a ELSE b
MaxOf(a, b) == IF a > b THEN a ELSE b
MinIn(S) == CHOOSE x \in S : \A y \in S : x <= y
MaxIn(S) == CHOOSE x \in S : \A y \in S : x >= y

-----------------------------------------------------------------------------
(* The ring.  Its head is always free; the place after it is next_buffer_head. *)

\* Mutant: the index does not wrap.
AfterUnwrapped(i) == i + 1

\* plan_next_block_index() and plan_prev_block_index()
After(i) == IF i + 1 = BufferSize THEN 0 ELSE i + 1
Before(i) == IF i = 0 THEN BufferSize - 1 ELSE i - 1

\* The number of places from i on to j, and the place n after i.
Distance(i, j) == IF j >= i THEN j - i ELSE BufferSize - (i - j)
Place(i, n)    == IF i + n >= BufferSize THEN i + n - BufferSize ELSE i + n

IsEmpty == head = tail
\* plan_check_full_buffer()
IsFull  == tail = After(head)
Count   == Distance(tail, head)
Queued  == {Place(tail, n) : n \in 0..(Count - 1)}
Last    == Before(head)

-----------------------------------------------------------------------------
(* Speeds *)

\* plan_compute_profile_nominal_speed()
Nominal(b, feed, rapid) ==
  LET speed == CASE b.kind = "rapid" -> (b.rate * rapid) \div Full
                 [] b.kind = "feed"  -> MinOf((b.rate * feed) \div Full, RapidRate)
                 [] b.kind = "fixed" -> MinOf(b.rate, RapidRate)
  IN  MaxOf(speed, MinRate)

NoLimit == MaxIn({RapidRate} \cup {l.rate : l \in Lines}) * FeedMax   \* SOME_LARGE_VALUE

\* plan_compute_profile_parameters()
MaxEntry(b, nominal, before) ==
  MinOf(MinOf(nominal, before) * MinOf(nominal, before), b.corner)

\* plan_get_exec_block_exit_speed_sqr()
ExitSpeed == IF After(tail) = head THEN 0 ELSE block[After(tail)].entry

-----------------------------------------------------------------------------
(* Planning.  The operators return the blocks, the pointer and prep as they   *)
(* are after the call: [block, planned, exec].                                *)

PlBlock == IF control \in {"park", "parkHold", "parkEnd"} THEN head ELSE tail

\* Mutant: the stepper is not told that the plan of its block has changed.
StUpdateNot(b, x) == [block |-> b, exec |-> x]

\* st_update_plan_block_parameters(): the block that is being executed starts now, at the
\* speed it has, and its profile is computed again before the next segment.
StUpdate(b, x) ==
  IF x.loaded
  THEN [block |-> [b EXCEPT ![PlBlock].entry = x.speed],
        exec  |-> [x EXCEPT !.loaded = FALSE, !.recalc = TRUE]]
  ELSE [block |-> b, exec |-> x]

\* Mutant: the last block is planned as if the queue went on.
ReversePassNoStop(b, p, n) == [d \in 1..n |-> b[Place(p, d)].max]

\* The reverse pass over the n blocks after p: their entry speeds by distance from p.
ReversePass(b, p, n) ==
  LET rev[d \in 1..n] ==
        LET c == b[Place(p, d)]
        IN  IF d = n THEN MinOf(c.max, c.room)
            ELSE IF c.entry = c.max THEN c.max
            ELSE MinOf(c.max, rev[d + 1] + c.room)
  IN  rev

\* The forward pass: no block enters faster than the one before it can accelerate to.
ForwardPass(b, p, n, rev) ==
  LET fwd[d \in 0..n] ==
        IF d = 0 THEN b[p].entry
        ELSE MinOf(rev[d], fwd[d - 1] + b[Place(p, d - 1)].room)
  IN  fwd

\* Mutant: a block that a later one may still speed up counts as planned.
BreakpointAny(b, rev, fwd, d) == TRUE

\* Nothing that is appended later can improve the plan up to this block.
Breakpoint(b, rev, fwd, d) == fwd[d] < rev[d] \/ fwd[d] = b.max

\* planner_recalculate() for the head h and the planned pointer p
Recalculate(b, h, p, x) ==
  LET n   == Distance(p, Before(h))
      st  == IF n > 0 /\ p = tail THEN StUpdate(b, x) ELSE [block |-> b, exec |-> x]
      rev == ReversePass(st.block, p, n)
      fwd == ForwardPass(st.block, p, n, rev)
      at(i) == Distance(p, i)
  IN  [block   |-> [i \in Indices |->
                      IF at(i) \in 1..n THEN [st.block[i] EXCEPT !.entry = fwd[at(i)]]
                      ELSE st.block[i]],
       planned |-> Place(p, MaxIn({0} \cup {d \in 1..n : Breakpoint(b[Place(p, d)], rev, fwd, d)})),
       exec    |-> st.exec]

\* plan_cycle_reinitialize().  With an empty queue the passes run once round the ring over
\* blocks that are no longer there; they change nothing that is used, but leave the planned
\* pointer anywhere.
Reinitialize(b, x) ==
  LET st == StUpdate(b, x)
  IN  IF IsEmpty THEN {[block |-> st.block, planned |-> p, exec |-> st.exec] : p \in Indices}
      ELSE {Recalculate(st.block, head, tail, st.exec)}

-----------------------------------------------------------------------------
(* Discarded blocks keep no contents here: nothing uses them (Reinitialize). *)
NoBlock == [kind |-> "feed", rate |-> MinRate, room |-> 0, corner |-> 0, max |-> 0, entry |-> 0]

\* st_reset(): prep is cleared and pl_block is NULL.
NoExec == [loaded |-> FALSE, speed |-> 0, exit |-> 0, top |-> 0, complete |-> 0,
           recalc |-> FALSE, declOvr |-> FALSE, partial |-> FALSE]

\* No block has been begun and the stepper stands.
AtRest == ~exec.loaded /\ ~exec.recalc /\ exec.speed = 0

PlanReset ==
  /\ block' = [i \in Indices |-> NoBlock]
  /\ tail' = 0 /\ head' = 0 /\ planned' = 0
  /\ prevNominal' = 0

Init ==
  /\ block = [i \in Indices |-> NoBlock]
  /\ tail = 0 /\ head = 0 /\ planned = 0
  /\ prevNominal = 0
  /\ exec = NoExec
  /\ control = "normal"
  /\ feedOvr = Full /\ rapidOvr = Full
  /\ begun = FALSE /\ slowed = FALSE

\* plan_buffer_line() for a line of the sender.  mc_line() waits for room before it calls it;
\* while a hold is complete the main program waits in the suspend loop.
BufferLine(l) ==
  /\ ~IsFull
  /\ control \in {"normal", "hold", "holdEnd"}
  /\ LET corner  == IF IsEmpty THEN 0 ELSE l.corner
         nominal == Nominal(l, feedOvr, rapidOvr)
         new     == [kind |-> l.kind, rate |-> l.rate, room |-> l.room, corner |-> corner,
                     max |-> MaxEntry([l EXCEPT !.corner = corner], nominal, prevNominal),
                     entry |-> 0]
         r == Recalculate([block EXCEPT ![head] = new], After(head), planned, exec)
     IN  /\ block' = r.block /\ planned' = r.planned /\ exec' = r.exec
         /\ prevNominal' = nominal
  /\ head' = After(head)
  /\ UNCHANGED <<tail, control, ovrVars, history>>

\* The profile of the block that is executed next, new or again, as st_prep_buffer()
\* computes it from the block's entry speed, the exit speed and the hold.
Load ==
  LET b       == block[PlBlock]
      parking == control \in {"park", "parkHold"}
      hold    == control \in {"hold", "parkHold"}
      forced  == ~exec.recalc /\ (hold \/ exec.declOvr)
      entry   == IF forced THEN exec.exit ELSE b.entry
      exit    == IF parking THEN 0 ELSE ExitSpeed
      top     == Nominal(b, feedOvr, rapidOvr) * Nominal(b, feedOvr, rapidOvr)
      onlyDown == ~hold /\ entry > top /\ entry - top >= b.room
  IN  [loaded   |-> TRUE,
       speed    |-> IF exec.recalc THEN exec.speed ELSE entry,
       exit     |-> IF hold \/ onlyDown THEN MaxOf(entry - b.room, 0) ELSE exit,
       top      |-> top,
       complete |-> IF hold THEN MaxOf(b.room - entry, 0) ELSE 0,
       recalc   |-> FALSE,
       declOvr  |-> onlyDown \/ (exec.recalc /\ parking /\ exec.declOvr),
       partial  |-> exec.partial /\ (parking \/ ~exec.recalc)]

\* The speed after c units of the room of block b: RAMP_ACCEL, RAMP_CRUISE, RAMP_DECEL and
\* RAMP_DECEL_OVERRIDE.  A profile always ends with its exit speed.
SpeedAfter(x, b, c) ==
  LET left == b.room - c
      down == x.speed - c
  IN  CASE left = x.complete              -> x.exit
        [] left # x.complete /\ control \in {"hold", "parkHold"} -> down
        [] left # x.complete /\ control \notin {"hold", "parkHold"} ->
             IF x.speed > x.top
             THEN IF down >= x.top THEN down ELSE MinOf(x.top, x.exit + left)
             ELSE MaxOf(down, MinOf(MinOf(x.speed + c, x.top), x.exit + left))

\* Mutant: the planned pointer stays behind when its block is discarded.
PlannedAfterDiscardStays == planned

\* The planned pointer after plan_discard_current_block()
PlannedAfterDiscard == IF tail = planned THEN After(tail) ELSE planned

\* One segment of st_prep_buffer(): load the block or compute its profile again if needed,
\* execute part of it, and leave it when it is complete.  A held block that is at its end
\* already gives no segment.
Prep ==
  /\ control \in {"normal", "hold", "park", "parkHold"}
  /\ control \in {"normal", "hold"} => ~IsEmpty
  /\ LET k == PlBlock
         x == IF exec.loaded THEN exec ELSE Load
         b == IF exec.loaded \/ exec.recalc THEN block
              ELSE [block EXCEPT ![k].entry = x.speed]
         room == b[k].room - x.complete
     IN  \E c \in IF room = 0 THEN {0} ELSE 1..room :
           LET y    == [x EXCEPT !.speed = SpeedAfter(x, b[k], c)]
               left == b[k].room - c
               ends == left = x.complete
           IN  /\ IF ends /\ left = 0 /\ control \in {"normal", "hold"}
                  THEN \* The block is complete: plan_discard_current_block()
                       /\ block' = [b EXCEPT ![k] = NoBlock]
                       /\ tail' = After(tail)
                       /\ planned' = PlannedAfterDiscard
                       /\ exec' = [y EXCEPT !.loaded = FALSE]
                       /\ begun' = FALSE /\ slowed' = (slowed /\ After(tail) # head)
                       /\ UNCHANGED control
                  ELSE /\ block' = [b EXCEPT ![k].room = left]
                       /\ exec' = [y EXCEPT !.partial = @ \/ (ends /\ control = "hold")]
                       /\ control' = IF ~ends THEN control
                                     ELSE IF control = "hold" THEN "holdEnd" ELSE "parkEnd"
                       /\ begun' = (begun \/ (control \in {"normal", "hold"} /\ c > 0))
                       /\ UNCHANGED <<tail, planned, slowed>>
  /\ UNCHANGED <<head, prevNominal, ovrVars>>

\* A feed hold: the executing block is told to decelerate.
Hold ==
  /\ control = "normal"
  /\ LET st == StUpdate(block, exec)
     IN  block' = st.block /\ exec' = st.exec
  /\ control' = "hold"
  /\ UNCHANGED <<tail, head, planned, prevNominal, ovrVars, history>>

\* A hold of the idle machine is complete at once.
HoldIdle ==
  /\ control = "normal" /\ AtRest
  /\ control' = "held"
  /\ UNCHANGED <<planVars, exec, ovrVars, history>>

\* The cycle stop after a hold: plan_cycle_reinitialize().
HoldComplete ==
  /\ control = "holdEnd" \/ (control = "hold" /\ AtRest)
  /\ \E r \in Reinitialize(block, exec) :
       block' = r.block /\ planned' = r.planned /\ exec' = r.exec
  /\ control' = "held"
  /\ UNCHANGED <<tail, head, prevNominal, ovrVars, history>>

\* The cycle stop after a cancelled jog: plan_reset() and st_reset().
JogCancelled ==
  /\ control = "holdEnd" \/ (control = "hold" /\ AtRest)
  /\ PlanReset
  /\ exec' = NoExec
  /\ control' = "normal"
  /\ begun' = FALSE /\ slowed' = FALSE
  /\ UNCHANGED ovrVars

Resume ==
  /\ control = "held"
  /\ control' = "normal"
  /\ UNCHANGED <<planVars, exec, ovrVars, history>>

\* mc_parking_motion(): the motion is planned in the head, which is always free, and
\* st_parking_setup_buffer() makes the stepper load it.
Park ==
  /\ control = "held"
  /\ block' = [block EXCEPT ![head] =
                 [kind |-> ParkLine.kind, rate |-> ParkLine.rate, room |-> ParkLine.room,
                  corner |-> 0, max |-> 0, entry |-> 0]]
  /\ exec' = [exec EXCEPT !.loaded = FALSE, !.recalc = FALSE]
  /\ control' = "park"
  /\ UNCHANGED <<tail, head, planned, prevNominal, ovrVars, history>>

\* The door opens again during a parking motion: it is held.
ParkReopened ==
  /\ control = "park"
  /\ LET st == StUpdate(block, exec)
     IN  block' = st.block /\ exec' = st.exec
  /\ control' = "parkHold"
  /\ UNCHANGED <<tail, head, planned, prevNominal, ovrVars, history>>

\* Mutant: the held block is loaded as a new one after parking.
RestoredFresh(x) == [x EXCEPT !.loaded = FALSE, !.recalc = FALSE]

\* st_parking_restore_buffer(): a block that was held half way is recomputed, not begun again.
Restored(x) ==
  [x EXCEPT !.loaded = FALSE, !.recalc = x.partial, !.declOvr = FALSE]

\* The cycle stop of a parking motion and the end of mc_parking_motion().
Parked ==
  /\ control = "parkEnd"
  /\ \E r \in Reinitialize(block, exec) :
       /\ block' = [r.block EXCEPT ![head] = NoBlock]
       /\ planned' = r.planned
       /\ exec' = Restored(r.exec)
  /\ control' = "held"
  /\ UNCHANGED <<tail, head, prevNominal, ovrVars, history>>

\* mc_reset() and the start of the main loop: everything is reset.
Reset ==
  /\ PlanReset
  /\ exec' = NoExec
  /\ control' = "normal"
  /\ feedOvr' = Full /\ rapidOvr' = Full
  /\ begun' = FALSE /\ slowed' = FALSE

\* M2 and M30, when the queue has run empty: the overrides are restored, and nothing is
\* planned again (RESTORE_OVERRIDES_AFTER_PROGRAM_END in gcode.c).
ProgramEnd ==
  /\ IsEmpty /\ control \in {"normal", "hold"}
  /\ feedOvr' = Full /\ rapidOvr' = Full
  /\ UNCHANGED <<planVars, exec, control, history>>

\* The feed override after the flags of one round, in eight bits.
FeedOverride(old, flags) ==
  LET from  == IF "reset" \in flags THEN Full ELSE old
      plus  == (IF "coarsePlus" \in flags THEN FeedCoarse ELSE 0)
               + (IF "finePlus" \in flags THEN FeedFine ELSE 0)
      minus == (IF "coarseMinus" \in flags THEN FeedCoarse ELSE 0)
               + (IF "fineMinus" \in flags THEN FeedFine ELSE 0)
  IN  MaxOf(MinOf((from + plus - minus) % Width, FeedMax), FeedMin)

FeedFlags == {"reset", "coarsePlus", "coarseMinus", "finePlus", "fineMinus"}

\* Mutant: an override looks at the block's own speed only.
UpdatedMaxEntryOwn(b, before, feed, rapid) ==
  MaxEntry(b, Nominal(b, feed, rapid), Nominal(b, feed, rapid))

\* plan_update_velocity_profile_parameters() for a queued block and the one before it
UpdatedMaxEntry(b, before, feed, rapid) ==
  MaxEntry(b, Nominal(b, feed, rapid), before)

Override(feed, rapid) ==
  /\ <<feed, rapid>> # ovrVars
  /\ feedOvr' = feed /\ rapidOvr' = rapid
  /\ LET before(i) == IF i = tail THEN NoLimit ELSE Nominal(block[Before(i)], feed, rapid)
         updated == [i \in Indices |->
                       IF i \in Queued
                       THEN [block[i] EXCEPT !.max = UpdatedMaxEntry(block[i], before(i), feed, rapid)]
                       ELSE block[i]]
     IN  /\ \E r \in Reinitialize(updated, exec) :
              block' = r.block /\ planned' = r.planned /\ exec' = r.exec
         /\ prevNominal' = IF IsEmpty THEN NoLimit ELSE Nominal(block[Last], feed, rapid)
         /\ slowed' = (slowed \/ \E i \in Queued \ {tail} : updated[i].max < block[i].max)
  /\ UNCHANGED <<tail, head, control, begun>>

MotionOverride ==
  \E feed \in {FeedOverride(feedOvr, flags) : flags \in SUBSET FeedFlags},
     rapid \in RapidOverrides : Override(feed, rapid)

Next ==
  \/ \E l \in Lines : BufferLine(l)
  \/ Prep
  \/ Hold \/ HoldIdle \/ HoldComplete \/ JogCancelled \/ Resume
  \/ Park \/ ParkReopened \/ Parked
  \/ MotionOverride
  \/ ProgramEnd
  \/ Reset

Spec == Init /\ [][Next]_vars

-----------------------------------------------------------------------------
(* Properties *)

\* The indices stay in the ring and the overrides within the bounds of config.h, whatever
\* flags come in one round (planner.c and the overrides of protocol.c).
TypeOK ==
  /\ tail \in Indices /\ head \in Indices /\ planned \in Indices
  /\ feedOvr \in FeedMin..FeedMax /\ rapidOvr \in RapidOverrides
  /\ control \in Controls

\* "This block can never be less than block_buffer_tail and will always be pushed forward"
\* (planner.c): with blocks in the queue the planned pointer is one of them, although a
\* replan of the empty queue leaves it anywhere.
PlannedInQueue == ~IsEmpty => planned \in Queued

\* The squared speed at which block i is entered, or, while it is executed, the speed
\* reached in it; and the speed it must have at its end.
Speed(i) == IF i = tail /\ exec.loaded /\ PlBlock = tail THEN exec.speed ELSE block[i].entry
Exit(i)  == IF i = Last THEN 0 ELSE block[After(i)].entry

\* No junction is planned faster than its corner allows or than either of its blocks may go
\* under the overrides that are in force now, also for blocks planned under others
\* (plan_update_velocity_profile_parameters() and pl.previous_nominal_speed).
JunctionLimits ==
  \A i \in Queued \ {tail} :
    LET v(j) == Nominal(block[j], feedOvr, rapidOvr) * Nominal(block[j], feedOvr, rapidOvr)
    IN  block[i].entry <= MinOf(block[i].corner, MinOf(v(i), v(Before(i))))

\* The planned speeds are within the acceleration of the machine: no block is left faster than
\* it can be sped up to, from the speed the executing block has right now, and through every
\* junction the machine can slow down to a stop within the queue, unless an override has
\* slowed down a queued junction (the passes and st_update_plan_block_parameters()).
SpeedsReachable ==
  \A i \in Queued :
    /\ (i = tail => control \in {"normal", "held"}) => Exit(i) <= Speed(i) + block[i].room
    /\ ~slowed => Speed(i) <= Exit(i) + block[i].room

\* The guideline of planner.c: "A block entry speed cannot exceed one reverse-computed from
\* its exit speed with a maximum allowable deceleration over the block travel distance",
\* for the queued blocks behind the executing one.  It does not hold: the reverse pass
\* skips a block at its maximum, also when an override has just slowed down the next one.
SlowsInTime == \A i \in Queued \ {tail} : Speed(i) <= Exit(i) + block[i].room

\* The entry speeds of a plan made from nothing but the queue and the speed now, without
\* the planned pointer: by distance from the tail.
BestEntries ==
  LET n    == Count - 1
      back[d \in 1..n] ==
        LET c == block[Place(tail, d)]
        IN  MinOf(c.max, c.room + (IF d = n THEN 0 ELSE back[d + 1]))
      best[d \in 0..n] ==
        IF d = 0 THEN Speed(tail)
        ELSE MinOf(back[d], best[d - 1] + block[Place(tail, d - 1)].room)
  IN  best

\* "The plan is optimal and no further speed improvements are possible" (planner.c): the
\* plan the shortcuts of planner_recalculate() keep is the one a full replan would make.
PlanOptimal ==
  ~slowed /\ control \in {"normal", "held"} /\ ~IsEmpty =>
    \A d \in 1..(Count - 1) : block[Place(tail, d)].entry = BestEntries[d]

\* The profile of the executing block ends with the speed at which the next one is planned
\* to begin: whenever the plan changes that speed the stepper is told.
ExitAgrees ==
  exec.loaded /\ control = "normal" /\ ~exec.declOvr => exec.exit = ExitSpeed

\* A block that has been executed in part is never loaded as a new one, which would step it
\* again from its beginning: not after a hold, a parking motion or an override.
NotBegunAgain == begun /\ ~exec.loaded /\ control \in {"normal", "hold"} => exec.recalc

=============================================================================
