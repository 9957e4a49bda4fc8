-------------------------------- MODULE Gcode --------------------------------
(***************************************************************************)
(* The G-code parser of gCarvin at work: step 4 of gc_execute_line()       *)
(* (gcode.c) with what it calls (motion_control.c, jog.c, the sync         *)
(* functions of the accessories, the coordinate records of settings.c) and *)
(* the main program around it (main.c, the lines of system.c).             *)
(*                                                                         *)
(* A line is executed in stages, in the order of the code; a stage that    *)
(* synchronises waits until the queued motions are done, and while it      *)
(* waits the machine moves, reports, is reset or cancels a jog.  Motions   *)
(* are queued as displacements, as the planner queues steps: where they    *)
(* end depends on where the machine is when they are executed.             *)
(***************************************************************************)
EXTENDS GcodeBlock, FiniteSets

CONSTANTS
  Lines,                  \* Lines[n]: the lines the sender may send as its n-th (a bound)
  Stored,                 \* contents of the coordinate records at power-up
  Decaying,               \* records that may be damaged
  Travel,                 \* settings.max_travel of every axis
  SoftLimits,             \* BITFLAG_SOFT_LIMIT_ENABLE
  HomePosition,           \* where a homing cycle leaves the machine
  MaxQueue,               \* blocks the planner takes (BLOCK_BUFFER_SIZE - 1)
  Refresh,                \* REPORT_WCO_REFRESH_IDLE_COUNT
  MaxResets               \* resets by the operator (a bound)

Damaged == <<>>          \* a record whose checksum does not match

ASSUME GcodeAssumption ==
  /\ Stored \in [Slots -> Vector] /\ Decaying \subseteq Slots
  /\ Travel \in Nat /\ SoftLimits \in BOOLEAN /\ HomePosition \in Vector
  /\ MaxQueue \in Nat \ {0} /\ Refresh \in Nat \ {0}
  /\ \A n \in DOMAIN Lines : Lines[n] \subseteq [jog : BOOLEAN, words : Seq(Word)]
  /\ MaxResets \in Nat

VARIABLES
  gc,                     \* gc_state
  eeprom,                 \* the coordinate records
  pc, blk,                \* the stage of the line that is executed, and its gc_block
  flag,                   \* system_flag_wco_change() is synchronising
  state, abort,           \* sys.state, sys.abort
  queue, ppos, mpos,      \* planned displacements, pl.position and sys_position
  spindle, coolant,       \* the outputs
  wcoCounter, reported,   \* sys.report_wco_counter, and the offset last reported
  decayed, homedOver,     \* history: records damaged, and homed with motions in the queue
  lines, resets           \* bounds: lines received, resets

line     == <<pc, blk>>
machine  == <<state, abort, queue, ppos, mpos>>
outputs  == <<spindle, coolant>>
wco      == <<wcoCounter, reported>>
history  == <<decayed, homedOver>>
bounds   == <<lines, resets>>
vars == <<gc, eeprom, line, flag, machine, outputs, wco, history, bounds>>

Plus(u, v)  == [a \in Axes |-> u[a] + v[a]]
Minus(u, v) == [a \in Axes |-> u[a] - v[a]]

\* The work coordinate offset of a status report.
Wco(g) == [a \in Axes |-> g.coord_system[a] + g.coord_offset[a] + ToolLength(g, a)]

Output(mode, speed) == [mode |-> mode, speed |-> IF mode = "DISABLE" THEN 0 ELSE speed]
Off == Output("DISABLE", 0)

NoBlock == [jog |-> FALSE]

\* gc_init() and gc_sync_position(): G54 is loaded, a damaged record replaced.
GcInit(slots, position) ==
  [modal |-> ModalDefault, spindle_speed |-> 0, feed_rate |-> 0, position |-> position,
   coord_system |-> IF slots[0] = Damaged THEN Zero ELSE slots[0],
   coord_offset |-> Zero, tool_length_offset |-> 0]
Repaired(slots, i) == IF slots[i] = Damaged THEN [slots EXCEPT ![i] = Zero] ELSE slots

Init ==
  /\ eeprom = Stored
  /\ gc = GcInit(eeprom, Zero)
  /\ pc = "ready" /\ blk = NoBlock /\ flag = FALSE
  /\ state = "ALARM" /\ abort = FALSE
  /\ queue = <<>> /\ ppos = Zero /\ mpos = Zero
  /\ spindle = Off /\ coolant = "DISABLE"
  /\ wcoCounter = 0 /\ reported = Zero
  /\ decayed = {} /\ homedOver = FALSE /\ lines = 0 /\ resets = 0

------------------------------------------------------------------------------
(* Receiving a line: steps 1 to 3. *)

Beyond(target) == SoftLimits /\ \E a \in Axes : target[a] > 0 \/ target[a] < -Travel

BadWords(b) == ~b.ok \/ FeedMissing(b) \/ DwellMissing(b) \/ ToolAxisError(b)
BadData(b) ==
  \/ CoordDataError(b)
  \/ b.non_modal = "SET_COORDINATE_OFFSET" /\ AxisWords(b) = {}

Selected(b) == IF SelectsCoord(b, gc) THEN {b.modal.coord_select} ELSE {}
Unreadable(slots) == { i \in slots : eeprom[i] = Damaged }

\* The record whose read fails and ends the line, in the order of the reads and checks.
FailedRead(b) ==
  IF BadWords(b) THEN {}
  ELSE IF Unreadable(Selected(b)) # {} \/ BadData(b) THEN Unreadable(Selected(b))
  ELSE Unreadable(ReadsSlot(b))

BlockSystem(b) == IF SelectsCoord(b, gc) THEN eeprom[b.modal.coord_select] ELSE gc.coord_system

\* A block that passes the checks so far, with all the execution needs.
Prepare(b) ==
  LET target == Position(b, gc, BlockSystem(b))
      stored == { eeprom[i] : i \in ReadsSlot(b) }
      found  == [command |-> AxisCommand(b), system |-> BlockSystem(b), target |-> target,
                 data |-> IF stored = {} THEN Zero
                          ELSE StoredData(b, gc, CHOOSE v \in stored : TRUE),
                 feed |-> FeedRate(b, gc), speed |-> SpindleSpeed(b, gc)]
  IN  [x \in DOMAIN b \cup DOMAIN found |-> IF x \in DOMAIN found THEN found[x] ELSE b[x]]

BadMotion(b) ==
  LET target == Position(b, gc, BlockSystem(b))
  IN  \/ AbsoluteError(b) \/ MotionError(b, gc, target) \/ ~(b.letters \subseteq UsedWords(b))
      \/ b.jog /\ (JogError(b) \/ Beyond(target))

\* The lines that are taken at all: G-code is locked in alarm and jog state, jogs need IDLE or JOG.
Taken(n, l) ==
  /\ n = lines + 1
  /\ pc = "ready" /\ ~flag /\ ~abort
  /\ state \in (IF l.jog THEN {"IDLE", "JOG"} ELSE {"IDLE", "CYCLE", "CHECK"})

\* Mutant: the wait does not look for an abort.
SyncedOnly == queue = <<>> /\ state # "CYCLE"

\* protocol_buffer_synchronize() has returned.
Synced == abort \/ (queue = <<>> /\ state # "CYCLE")

\* A record that cannot be read is replaced by zeros, which synchronises as every write does.
Reject(n, l) ==
  LET b == Import(l, gc.modal)
  IN  /\ Taken(n, l)
      /\ BadWords(b) \/ FailedRead(b) # {} \/ BadData(b) \/ BadMotion(b)
      /\ FailedRead(b) # {} => Synced
      /\ eeprom' = [i \in Slots |-> IF i \in FailedRead(b) THEN Zero ELSE eeprom[i]]
      /\ lines' = n
      /\ UNCHANGED <<gc, line, flag, machine, outputs, wco, history, resets>>

\* The stages of a line, and which of them a block has work for.
Stages == <<"jog", "speed", "spindle", "coolant", "dwell", "offset", "select", "data",
            "via", "home", "motion", "flow">>

Work(e, s) ==
  LET new == e.modal  old == gc.modal  home == e.non_modal \in {"GO_HOME_0", "GO_HOME_1"}
  IN  IF e.jog THEN s = "jog"
      ELSE CASE s = "speed"   -> new.feed_rate # old.feed_rate \/ e.feed # gc.feed_rate
                                   \/ e.speed # gc.spindle_speed
             [] s = "spindle" -> new.spindle # old.spindle
             [] s = "coolant" -> new.coolant # old.coolant
             [] s = "dwell"   -> e.non_modal = "DWELL"
             [] s = "offset"  -> new.plane # old.plane \/ new.units # old.units
                                   \/ e.command = "TOOL_LENGTH_OFFSET"
             [] s = "select"  -> new.coord_select # old.coord_select \/ new.distance # old.distance
             [] s = "data"    -> e.non_modal \in {"SET_COORDINATE_DATA", "SET_HOME_0", "SET_HOME_1",
                                   "SET_COORDINATE_OFFSET", "RESET_COORDINATE_OFFSET"}
             [] s = "via"     -> home /\ e.command # "NONE"
             [] s = "home"    -> home
             [] s = "motion"  -> new.motion # old.motion \/ e.command = "MOTION_MODE"
             [] s = "flow"    -> new.program_flow # "RUNNING"
             [] OTHER -> FALSE

Begin(e, from) ==
  LET todo == { i \in from..Len(Stages) : Work(e, Stages[i]) }
      next == IF todo = {} THEN "ready" ELSE Stages[CHOOSE i \in todo : \A j \in todo : i <= j]
  IN  pc' = next /\ blk' = IF next = "ready" THEN NoBlock ELSE e

Accept(n, l) ==
  LET b == Import(l, gc.modal)
  IN  /\ Taken(n, l)
      /\ ~BadWords(b) /\ FailedRead(b) = {} /\ ~BadData(b) /\ ~BadMotion(b)
      /\ Begin(Prepare(b), 1)
      /\ lines' = n
      /\ UNCHANGED <<gc, eeprom, flag, machine, outputs, wco, history, resets>>

------------------------------------------------------------------------------
(* Executing it: step 4. *)

At(s) == pc = s /\ ~flag
Done == Begin(blk, 1 + CHOOSE i \in DOMAIN Stages : Stages[i] = pc)

\* Mutant: the output is set in check mode.
AccessorySetAlways == ~abort

\* spindle_sync() and coolant_sync(): nothing in check mode, otherwise after the motions.
SyncsAccessory == state = "CHECK" \/ Synced
AccessorySet == state # "CHECK" /\ ~abort

\* Mutant: a new speed is not sent to a spindle that runs.
SetSpeedSilently ==
  /\ At("speed")
  /\ gc' = [gc EXCEPT !.modal.feed_rate = blk.modal.feed_rate,
                      !.feed_rate = blk.feed, !.spindle_speed = blk.speed]
  /\ Done
  /\ UNCHANGED <<eeprom, flag, machine, outputs, wco, history, bounds>>

\* [2.-4.] Feed and spindle speed.
SetSpeed ==
  LET runs == blk.speed # gc.spindle_speed /\ gc.modal.spindle # "DISABLE"
  IN  /\ At("speed")
      /\ runs => SyncsAccessory
      /\ gc' = [gc EXCEPT !.modal.feed_rate = blk.modal.feed_rate,
                          !.feed_rate = blk.feed, !.spindle_speed = blk.speed]
      /\ spindle' = IF runs /\ AccessorySet THEN Output(gc.modal.spindle, blk.speed) ELSE spindle
      /\ Done
      /\ UNCHANGED <<eeprom, flag, machine, coolant, wco, history, bounds>>

\* [7. Spindle control]
SetSpindle ==
  /\ At("spindle") /\ SyncsAccessory
  /\ gc' = [gc EXCEPT !.modal.spindle = blk.modal.spindle]
  /\ spindle' = IF AccessorySet THEN Output(blk.modal.spindle, gc.spindle_speed) ELSE spindle
  /\ Done
  /\ UNCHANGED <<eeprom, flag, machine, coolant, wco, history, bounds>>

\* [8. Coolant control], with flood coolant only (ENABLE_M7 is off).
SetCoolant ==
  /\ At("coolant") /\ SyncsAccessory
  /\ gc' = [gc EXCEPT !.modal.coolant = blk.modal.coolant]
  /\ coolant' = IF AccessorySet THEN blk.modal.coolant ELSE coolant
  /\ Done
  /\ UNCHANGED <<eeprom, flag, machine, spindle, wco, history, bounds>>

\* [10. Dwell]: mc_dwell().
Dwell ==
  /\ At("dwell") /\ SyncsAccessory
  /\ Done
  /\ UNCHANGED <<gc, eeprom, flag, machine, outputs, wco, history, bounds>>

\* [11.-14.] Plane, units and the tool length offset.
SetToolLength ==
  LET called == blk.command = "TOOL_LENGTH_OFFSET"
      length == IF blk.modal.tool_length = "CANCEL" THEN 0 ELSE blk.target[ToolAxis]
  IN  /\ At("offset")
      /\ gc' = [gc EXCEPT !.modal.plane = blk.modal.plane, !.modal.units = blk.modal.units,
                          !.modal.tool_length = IF called THEN blk.modal.tool_length ELSE @,
                          !.tool_length_offset = IF called THEN length ELSE @]
      /\ flag' = (called /\ length # gc.tool_length_offset)
      /\ Done
      /\ UNCHANGED <<eeprom, machine, outputs, wco, history, bounds>>

\* Mutant: the system is selected but its data are not copied.
SelectCoordOnly ==
  /\ At("select")
  /\ gc' = [gc EXCEPT !.modal.coord_select = blk.modal.coord_select,
                      !.modal.distance = blk.modal.distance]
  /\ Done
  /\ UNCHANGED <<eeprom, flag, machine, outputs, wco, history, bounds>>

\* [15.-17.] Coordinate system and distance mode.
SelectCoord ==
  LET changed == blk.modal.coord_select # gc.modal.coord_select
  IN  /\ At("select")
      /\ gc' = [gc EXCEPT !.modal.coord_select = blk.modal.coord_select,
                          !.coord_system = IF changed THEN blk.system ELSE @,
                          !.modal.distance = blk.modal.distance]
      /\ flag' = changed
      /\ Done
      /\ UNCHANGED <<eeprom, machine, outputs, wco, history, bounds>>

\* system_flag_wco_change(): the offset has changed, the next report says so once the
\* motions are done.
FlagWcoChange ==
  /\ flag /\ Synced
  /\ flag' = FALSE /\ wcoCounter' = 0
  /\ UNCHANGED <<gc, eeprom, line, machine, outputs, reported, history, bounds>>

\* [19.] G10.
WriteCoordData ==
  LET i == CoordIndex(blk)
  IN  /\ At("data") /\ blk.non_modal = "SET_COORDINATE_DATA" /\ Synced
      /\ eeprom' = [eeprom EXCEPT ![i] = blk.data]
      /\ gc' = IF i = gc.modal.coord_select THEN [gc EXCEPT !.coord_system = blk.data] ELSE gc
      /\ flag' = (i = gc.modal.coord_select)
      /\ Done
      /\ UNCHANGED <<machine, outputs, wco, history, bounds>>

\* [19.] G28.1 and G30.1.
StoreHome ==
  /\ At("data") /\ blk.non_modal \in {"SET_HOME_0", "SET_HOME_1"} /\ Synced
  /\ LET i == IF blk.non_modal = "SET_HOME_0" THEN G28Slot ELSE G30Slot
     IN  eeprom' = [eeprom EXCEPT ![i] = gc.position]
  /\ Done
  /\ UNCHANGED <<gc, flag, machine, outputs, wco, history, bounds>>

\* Mutant: the new offset is not flagged.
SetCoordOffsetSilently ==
  /\ At("data")
  /\ blk.non_modal \in {"SET_COORDINATE_OFFSET", "RESET_COORDINATE_OFFSET"}
  /\ gc' = [gc EXCEPT !.coord_offset =
                 IF blk.non_modal = "SET_COORDINATE_OFFSET" THEN blk.target ELSE Zero]
  /\ Done
  /\ UNCHANGED <<eeprom, flag, machine, outputs, wco, history, bounds>>

\* [19.] G92 and G92.1.
SetCoordOffset ==
  /\ At("data")
  /\ blk.non_modal \in {"SET_COORDINATE_OFFSET", "RESET_COORDINATE_OFFSET"}
  /\ gc' = [gc EXCEPT !.coord_offset =
                 IF blk.non_modal = "SET_COORDINATE_OFFSET" THEN blk.target ELSE Zero]
  /\ flag' = TRUE
  /\ Done
  /\ UNCHANGED <<eeprom, machine, outputs, wco, history, bounds>>

\* Where a motion that is stopped may have brought the machine.
PartWay(d) == {Zero, d}
Stopped == IF queue # <<>> /\ state \in {"CYCLE", "JOG"}
           THEN { Plus(mpos, d) : d \in PartWay(Head(queue).move) } ELSE {mpos}

\* limits_soft_check() beyond the travel: a cycle is held, then reset with an alarm.
SoftLimitStop ==
  /\ mpos' \in Stopped
  /\ abort' = TRUE /\ state' = "ALARM"
  /\ spindle' = Off /\ coolant' = "DISABLE"
  /\ UNCHANGED <<queue, ppos>>

\* plan_buffer_line(): a motion without steps is not queued.
Plan(target, feed) ==
  /\ queue' = IF target = ppos THEN queue
              ELSE Append(queue, [move |-> Minus(target, ppos), feed |-> feed])
  /\ ppos' = target

Rapid == -1                    \* the feed of a rapid motion, which has none

\* mc_line(): soft limits, check mode, and the wait for room in the planner.
McLine(target, feed) ==
  \/ state # "JOG" /\ Beyond(target) /\ SoftLimitStop
  \/ /\ state = "JOG" \/ ~Beyond(target)
     /\ UNCHANGED <<outputs, state, abort, mpos>>
     /\ IF state = "CHECK" \/ abort THEN UNCHANGED <<queue, ppos>>
        ELSE Len(queue) < MaxQueue /\ Plan(target, feed)

\* [19.] G28 and G30: through the intermediate point, if axis words gave one, to the
\* stored position.
GoVia ==
  /\ At("via") /\ McLine(blk.target, Rapid)
  /\ Done
  /\ UNCHANGED <<gc, eeprom, flag, wco, history, bounds>>
GoHome ==
  /\ At("home") /\ McLine(blk.data, Rapid)
  /\ gc' = [gc EXCEPT !.position = blk.data]
  /\ Done
  /\ UNCHANGED <<eeprom, flag, wco, history, bounds>>

\* [20.] Lines and arcs (mc_arc() is a sequence of mc_line() calls to the same target).
Move ==
  LET moves == blk.command = "MOTION_MODE"
      feed  == IF blk.modal.motion = "SEEK" THEN Rapid ELSE blk.feed
  IN  /\ At("motion") /\ ~(moves /\ blk.modal.motion \in Probes)
      /\ IF moves THEN McLine(blk.target, feed) ELSE UNCHANGED <<machine, outputs>>
      /\ gc' = [gc EXCEPT !.modal.motion = blk.modal.motion,
                          !.position = IF moves THEN blk.target ELSE @]
      /\ Done
      /\ UNCHANGED <<eeprom, flag, wco, history, bounds>>

\* [20.] mc_probe_cycle(): the parser keeps its position if the cycle is aborted or the
\* probe is already triggered, and is at the target in check mode.
ProbeRefused ==
  /\ At("motion") /\ blk.command = "MOTION_MODE" /\ blk.modal.motion \in Probes
  /\ state = "CHECK" \/ Synced
  /\ state' \in (IF state = "CHECK" \/ abort THEN {state} ELSE {"ALARM"})
  /\ gc' = [gc EXCEPT !.modal.motion = blk.modal.motion,
                      !.position = IF state = "CHECK" THEN blk.target ELSE @]
  /\ Done
  /\ UNCHANGED <<eeprom, flag, abort, queue, ppos, mpos, outputs, wco, history, bounds>>

ProbeStart ==
  /\ At("motion") /\ blk.command = "MOTION_MODE" /\ blk.modal.motion \in Probes
  /\ state # "CHECK" /\ Synced /\ ~abort
  /\ pc' = "probe"
  /\ \/ Beyond(blk.target) /\ SoftLimitStop
     \/ /\ ~Beyond(blk.target) /\ Plan(blk.target, blk.feed)
        /\ state' = IF queue' = <<>> THEN state ELSE "CYCLE"
        /\ UNCHANGED <<abort, mpos, outputs>>
  /\ UNCHANGED <<gc, eeprom, blk, flag, wco, history, bounds>>

\* The end of the wait: a reset, the contact (the motion is cancelled and the parser is
\* where the machine is), or the end of the motion, an alarm unless G38.3 or G38.5 asked
\* for none.
ProbeEnd ==
  LET quiet == blk.modal.motion \in {"PROBE_TOWARD_NO_ERROR", "PROBE_AWAY_NO_ERROR"}
      at(position) == gc' = [gc EXCEPT !.modal.motion = blk.modal.motion, !.position = position]
  IN  /\ pc = "probe"
      /\ \/ abort /\ at(gc.position) /\ UNCHANGED <<state, queue, ppos, mpos>>
         \/ /\ state = "CYCLE" /\ queue # <<>> /\ ~abort
            /\ mpos' \in Stopped /\ at(mpos')
            /\ state' = "IDLE" /\ queue' = <<>> /\ ppos' = mpos'
         \/ /\ state = "IDLE" /\ ~abort
            /\ at(blk.target) /\ ppos' = mpos /\ queue' = <<>>
            /\ state' = IF quiet THEN state ELSE "ALARM"
            /\ UNCHANGED mpos
      /\ Begin(blk, Len(Stages))
      /\ UNCHANGED <<eeprom, flag, abort, outputs, wco, history, bounds>>

\* [21. Program flow] M0 holds until a cycle start.
Pause ==
  /\ At("flow") /\ blk.modal.program_flow = "PAUSED" /\ Synced
  /\ IF state = "CHECK" \/ abort THEN Done /\ UNCHANGED <<gc, state>>
     ELSE /\ pc' = "paused" /\ state' = "HOLD"
          /\ gc' = [gc EXCEPT !.modal.program_flow = "PAUSED"]
          /\ UNCHANGED blk
  /\ UNCHANGED <<eeprom, flag, abort, queue, ppos, mpos, outputs, wco, history, bounds>>
Resume ==
  /\ pc = "paused"
  /\ state' = IF abort THEN state ELSE "IDLE"
  /\ gc' = [gc EXCEPT !.modal.program_flow = "RUNNING"]
  /\ pc' = "ready" /\ blk' = NoBlock
  /\ UNCHANGED <<eeprom, flag, abort, queue, ppos, mpos, outputs, wco, history, bounds>>

\* [21. Program flow] M2 and M30: some modes are reset, G54 is loaded and the accessories
\* are stopped.  If G54 cannot be read the line ends at once: the accessories keep running
\* and the program flow is not reset.  The overrides it restores are those of Planner.
ProgramEnd ==
  LET ended == [gc EXCEPT !.modal = [@ EXCEPT !.motion = "LINEAR", !.plane = "XY",
                  !.distance = "ABSOLUTE", !.feed_rate = "UNITS_PER_MIN",
                  !.coord_select = 0, !.spindle = "DISABLE", !.coolant = "DISABLE",
                  !.program_flow = "RUNNING"]]
      fails == state # "CHECK" /\ eeprom[0] = Damaged
  IN  /\ At("flow") /\ blk.modal.program_flow = "COMPLETED" /\ Synced
      /\ eeprom' = IF fails THEN Repaired(eeprom, 0) ELSE eeprom
      /\ gc' = CASE fails -> [ended EXCEPT !.coord_system = Zero,
                                           !.modal.program_flow = "COMPLETED"]
                 [] state = "CHECK" -> ended
                 [] OTHER -> [ended EXCEPT !.coord_system = eeprom[0]]
      /\ IF state = "CHECK" \/ fails THEN UNCHANGED <<outputs, wcoCounter>>
         ELSE /\ wcoCounter' = 0
              /\ IF abort THEN UNCHANGED outputs ELSE spindle' = Off /\ coolant' = "DISABLE"
      /\ Done
      /\ UNCHANGED <<flag, machine, reported, history, bounds>>

\* jog_execute(): plans the motion without a change of the modes, and starts it by itself.
Jog ==
  /\ At("jog")
  /\ IF abort THEN UNCHANGED <<queue, ppos>>
     ELSE Len(queue) < MaxQueue /\ Plan(blk.target, blk.feed)
  /\ state' = IF state = "IDLE" /\ queue' # <<>> THEN "JOG" ELSE state
  /\ gc' = [gc EXCEPT !.position = blk.target]
  /\ pc' = "ready" /\ blk' = NoBlock
  /\ UNCHANGED <<eeprom, flag, abort, mpos, outputs, wco, history, bounds>>

------------------------------------------------------------------------------
(* The machine, and the main program between lines. *)

\* protocol_auto_cycle_start(), and a block that has been executed.
AutoStart ==
  /\ state = "IDLE" /\ queue # <<>> /\ ~abort
  /\ state' = "CYCLE"
  /\ UNCHANGED <<gc, eeprom, line, flag, abort, queue, ppos, mpos, outputs, wco, history, bounds>>
BlockDone ==
  /\ state \in {"CYCLE", "JOG"} /\ queue # <<>> /\ ~abort
  /\ mpos' = Plus(mpos, Head(queue).move) /\ queue' = Tail(queue)
  /\ state' = IF queue' = <<>> THEN "IDLE" ELSE state
  /\ UNCHANGED <<gc, eeprom, line, flag, abort, ppos, outputs, wco, history, bounds>>

\* Mutant: the parser is not synchronised with the machine.
JogCancelPlanner ==
  /\ state = "JOG" /\ ~abort
  /\ mpos' \in Stopped /\ ppos' = mpos'
  /\ queue' = <<>> /\ state' = "IDLE"
  /\ UNCHANGED <<gc, eeprom, line, flag, abort, outputs, wco, history, bounds>>

\* A jog cancel that has come to rest: the queue is flushed and the positions are synced.
JogCancel ==
  /\ state = "JOG" /\ ~abort
  /\ mpos' \in Stopped
  /\ gc' = [gc EXCEPT !.position = mpos'] /\ ppos' = mpos'
  /\ queue' = <<>> /\ state' = "IDLE"
  /\ UNCHANGED <<eeprom, line, flag, abort, outputs, wco, history, bounds>>

\* mc_reset(), and the abort it leads to at the next check point.
McReset ==
  /\ mpos' \in Stopped
  /\ abort' = TRUE
  /\ state' = IF state \in {"CYCLE", "JOG"} THEN "ALARM" ELSE state
  /\ spindle' = Off /\ coolant' = "DISABLE"
  /\ UNCHANGED <<gc, eeprom, line, flag, queue, ppos, wco, history>>
Reset == ~abort /\ resets < MaxResets /\ McReset /\ resets' = resets + 1 /\ UNCHANGED lines

\* main(): once the line that was executed has returned, everything is initialised again.
Restart ==
  /\ abort /\ pc = "ready" /\ ~flag
  /\ gc' = GcInit(eeprom, mpos) /\ eeprom' = Repaired(eeprom, 0)
  /\ abort' = FALSE /\ state' = IF state = "ALARM" THEN "ALARM" ELSE "IDLE"
  /\ queue' = <<>> /\ ppos' = mpos /\ homedOver' = FALSE /\ UNCHANGED decayed
  /\ wcoCounter' = 0
  /\ UNCHANGED <<line, flag, mpos, outputs, reported, bounds>>

\* $C and $X.
ToggleCheckMode ==
  /\ pc = "ready" /\ ~flag /\ ~abort
  /\ \/ state = "CHECK" /\ McReset /\ UNCHANGED bounds
     \/ /\ state = "IDLE" /\ state' = "CHECK"
        /\ UNCHANGED <<gc, eeprom, line, flag, abort, queue, ppos, mpos, outputs, wco,
                       history, bounds>>
Unlock ==
  /\ pc = "ready" /\ ~flag /\ ~abort /\ state = "ALARM"
  /\ state' = "IDLE"
  /\ UNCHANGED <<gc, eeprom, line, flag, abort, queue, ppos, mpos, outputs, wco, history, bounds>>

\* $H: mc_homing_cycle() does not empty the queue.
Home ==
  /\ pc = "ready" /\ ~flag /\ ~abort /\ state \in {"IDLE", "ALARM"}
  /\ mpos' = HomePosition /\ ppos' = HomePosition
  /\ gc' = [gc EXCEPT !.position = HomePosition]
  /\ state' = "IDLE"
  /\ homedOver' = (homedOver \/ queue # <<>>) /\ UNCHANGED decayed
  /\ UNCHANGED <<eeprom, line, flag, abort, queue, outputs, wco, bounds>>

\* report_realtime_status(): the offset is reported when its counter has run out.
Report ==
  /\ IF wcoCounter > 0 THEN wcoCounter' = wcoCounter - 1 /\ UNCHANGED reported
     ELSE wcoCounter' = Refresh - 1 /\ reported' = Wco(gc)
  /\ UNCHANGED <<gc, eeprom, line, flag, machine, outputs, history, bounds>>

\* Fault: a record is damaged in the EEPROM, once each (a bound).
Decay(i) ==
  /\ i \notin decayed /\ decayed' = decayed \cup {i}
  /\ eeprom' = [eeprom EXCEPT ![i] = Damaged]
  /\ UNCHANGED <<gc, line, flag, machine, outputs, wco, homedOver, bounds>>

Execute ==
  \/ SetSpeed \/ SetSpindle \/ SetCoolant \/ Dwell \/ SetToolLength \/ SelectCoord
  \/ FlagWcoChange \/ WriteCoordData \/ StoreHome \/ SetCoordOffset \/ GoVia \/ GoHome
  \/ Move \/ ProbeRefused \/ ProbeStart \/ ProbeEnd \/ Pause \/ ProgramEnd \/ Jog

Next ==
  \/ \E n \in DOMAIN Lines : \E l \in Lines[n] : Accept(n, l) \/ Reject(n, l)
  \/ Execute
  \/ Resume \/ AutoStart \/ BlockDone \/ JogCancel \/ Reset \/ Restart
  \/ ToggleCheckMode \/ Unlock \/ Home \/ Report
  \/ \E i \in Decaying : Decay(i)

\* The main program goes on executing a line, motions that are planned are started and end.
Fairness == WF_vars(Execute) /\ WF_vars(AutoStart) /\ WF_vars(BlockDone)

Spec == Init /\ [][Next]_vars /\ Fairness

------------------------------------------------------------------------------
AtRest == pc = "ready" /\ ~flag /\ ~abort

TypeOK ==
  /\ gc \in [modal : Modal, spindle_speed : Nat, feed_rate : Nat, position : Vector,
             coord_system : Vector, coord_offset : Vector, tool_length_offset : Int]
  /\ eeprom \in [Slots -> Vector \cup {Damaged}]
  /\ pc \in {"ready", "probe", "paused"} \cup { Stages[i] : i \in DOMAIN Stages }
  /\ pc = "ready" <=> blk = NoBlock
  /\ flag \in BOOLEAN /\ abort \in BOOLEAN /\ homedOver \in BOOLEAN /\ decayed \subseteq Decaying
  /\ state \in {"IDLE", "ALARM", "CYCLE", "JOG", "CHECK", "HOLD"}
  /\ Len(queue) <= MaxQueue /\ ppos \in Vector /\ mpos \in Vector
  /\ wcoCounter \in 0..(Refresh - 1) /\ reported \in Vector

\* At rest and out of check mode the parser, the planner and the machine agree on the
\* position, whatever mixture of motions, jogs, jog cancels, probe cycles, resets and homing
\* came before, unless homing left older motions in the queue.
PositionsAgree ==
  AtRest /\ state = "IDLE" /\ queue = <<>> /\ ~homedOver =>
    gc.position = mpos /\ ppos = mpos

\* The active coordinate system is the stored one of the selected system, also when a line
\* selects a system and writes it, or writes another one (the copies of gcode.c are kept in
\* step with the EEPROM), unless the record is damaged.  Check mode may end a program without
\* loading G54.
SystemIsStored ==
  AtRest /\ state # "CHECK" /\ gc.modal.coord_select \notin decayed =>
    eeprom[gc.modal.coord_select] = gc.coord_system

\* The spindle and coolant run as the modes of the parser say, except while checking, and
\* after a program end that could not read G54 (a pause and a start of the cycle hide that it
\* did not end).
OutputsFollowModes ==
  AtRest /\ state # "CHECK" /\ 0 \notin decayed =>
    /\ spindle = Output(gc.modal.spindle, gc.spindle_speed)
    /\ coolant = gc.modal.coolant

\* The work offset the sender was told last is the right one, unless the next report tells
\* it: no change of an offset goes without its flag (system_flag_wco_change()), but that of
\* a program end that could not read G54.
OffsetReported ==
  AtRest /\ 0 \notin decayed /\ wcoCounter > 0 => reported = Wco(gc)

\* In check mode nothing moves, nothing is planned and no output changes.
CheckModeStill ==
  [][state = "CHECK" /\ ~abort /\ ~abort' => UNCHANGED <<queue, ppos, mpos, outputs>>]_vars

\* G92, and G10 L20 on the active system, make the work position of the axes they name the
\* given one, whatever system, tool length and units are active or selected in the same line,
\* and leave the work position of the other axes alone.
WorkPosition(g) == Minus(g.position, Wco(g))
WorkPositionSet ==
  [][pc = "data" /\ pc' # pc
     /\ \/ blk.non_modal = "SET_COORDINATE_OFFSET"
        \/ /\ blk.non_modal = "SET_COORDINATE_DATA" /\ blk.value["L"] = 20
           /\ CoordIndex(blk) = gc.modal.coord_select
     => (\A a \in Axes :
          \/ WorkPosition(gc')[a] = (IF a \in AxisWords(blk) THEN Given(blk, a)
                                     ELSE WorkPosition(gc)[a])
          \/ a \notin AxisWords(blk) /\ (eeprom[gc.modal.coord_select] # gc.coord_system))]_vars

\* "Feed rate word and axis word checks have already been performed in STEP 3" (gcode.c): a
\* jog moves only the axes it names.  It does not hold: without axis words it goes to machine
\* zero.
JogNamedAxes ==
  [][pc = "jog" =>
       (\A a \in Axes \ AxisWords(blk) : (gc.position')[a] = gc.position[a])]_vars

\* A line is executed to its end, whatever stage it waits in, unless it pauses the program
\* or checks with motions in the queue: check mode never starts them.
LineEnds ==
  pc # "ready" ~> pc = "ready" \/ pc = "paused" \/ (state = "CHECK" /\ queue # <<>>)
=============================================================================
