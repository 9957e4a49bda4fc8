----------------------------- MODULE GcodeBlock -----------------------------
(***************************************************************************)
(* Reading and checking one line of G-code: steps 1 to 3 of                *)
(* gc_execute_line() (gcode.c).  A line is a sequence of words; importing  *)
(* it collects a block, checking the block decides whether it may be       *)
(* executed and what it asks for.  Nothing here changes the parser state.  *)
(* All errors are one: no property depends on which status is reported.    *)
(* Line numbers and tool numbers, which nothing reads, are left out, as is *)
(* laser mode, which is off by default.                                    *)
(***************************************************************************)
EXTENDS Integers, Sequences, SequencesExt

CONSTANTS
  MmPerInch,      \* MM_PER_INCH
  NCoord          \* N_COORDINATE_SYSTEM

\* G54 to G59 select a system each.
ASSUME BlockAssumption == MmPerInch \in Nat \ {0} /\ NCoord \in Nat /\ NCoord >= 6

Axes == {"X", "Y", "Z"}
ToolAxis == "Z"                    \* TOOL_LENGTH_OFFSET_AXIS
Offsets == {"I", "J", "K"}
Vector == [Axes -> Int]
Zero == [a \in Axes |-> 0]

\* The records of coordinate data in the EEPROM: G54 to G59, G28 and G30.
Slots == 0..(NCoord + 1)
G28Slot == NCoord
G30Slot == NCoord + 1

Probes == {"PROBE_TOWARD", "PROBE_TOWARD_NO_ERROR", "PROBE_AWAY", "PROBE_AWAY_NO_ERROR"}
Arcs == {"CW_ARC", "CCW_ARC"}

Modal == [motion : {"SEEK", "LINEAR", "NONE"} \cup Arcs \cup Probes,
          feed_rate : {"UNITS_PER_MIN", "INVERSE_TIME"},
          units : {"MM", "INCHES"},
          distance : {"ABSOLUTE", "INCREMENTAL"},
          plane : {"XY", "ZX", "YZ"},
          tool_length : {"CANCEL", "ENABLE_DYNAMIC"},
          coord_select : 0..5,
          program_flow : {"RUNNING", "PAUSED", "COMPLETED"},
          coolant : {"DISABLE", "FLOOD"},
          spindle : {"DISABLE", "CW", "CCW"}]

\* memset(&gc_state, 0, ...)
ModalDefault == [motion |-> "SEEK", feed_rate |-> "UNITS_PER_MIN", units |-> "MM",
                 distance |-> "ABSOLUTE", plane |-> "XY", tool_length |-> "CANCEL",
                 coord_select |-> 0, program_flow |-> "RUNNING", coolant |-> "DISABLE",
                 spindle |-> "DISABLE"]

\* What a command word does: its modal group, the kind of axis command it is, and the mode
\* it sets ("none" for the modes that are not tracked).
Sets(group, axis, field, value) ==
  [group |-> group, axis |-> axis, field |-> field, value |-> value]

NonModal == [
  G4    |-> Sets("G0", "NONE", "non_modal", "DWELL"),
  G10   |-> Sets("G0", "NON_MODAL", "non_modal", "SET_COORDINATE_DATA"),
  G28   |-> Sets("G0", "NON_MODAL", "non_modal", "GO_HOME_0"),
  G28_1 |-> Sets("G0", "NONE", "non_modal", "SET_HOME_0"),
  G30   |-> Sets("G0", "NON_MODAL", "non_modal", "GO_HOME_1"),
  G30_1 |-> Sets("G0", "NONE", "non_modal", "SET_HOME_1"),
  G53   |-> Sets("G0", "NONE", "non_modal", "ABSOLUTE_OVERRIDE"),
  G92   |-> Sets("G0", "NON_MODAL", "non_modal", "SET_COORDINATE_OFFSET"),
  G92_1 |-> Sets("G0", "NONE", "non_modal", "RESET_COORDINATE_OFFSET")]

Motions == [
  G0    |-> Sets("G1", "MOTION_MODE", "motion", "SEEK"),
  G1    |-> Sets("G1", "MOTION_MODE", "motion", "LINEAR"),
  G2    |-> Sets("G1", "MOTION_MODE", "motion", "CW_ARC"),
  G3    |-> Sets("G1", "MOTION_MODE", "motion", "CCW_ARC"),
  G38_2 |-> Sets("G1", "MOTION_MODE", "motion", "PROBE_TOWARD"),
  G38_3 |-> Sets("G1", "MOTION_MODE", "motion", "PROBE_TOWARD_NO_ERROR"),
  G38_4 |-> Sets("G1", "MOTION_MODE", "motion", "PROBE_AWAY"),
  G38_5 |-> Sets("G1", "MOTION_MODE", "motion", "PROBE_AWAY_NO_ERROR"),
  G80   |-> Sets("G1", "NONE", "motion", "NONE")]

Modes == [
  G17   |-> Sets("G2", "NONE", "plane", "XY"),
  G18   |-> Sets("G2", "NONE", "plane", "ZX"),
  G19   |-> Sets("G2", "NONE", "plane", "YZ"),
  G90   |-> Sets("G3", "NONE", "distance", "ABSOLUTE"),
  G91   |-> Sets("G3", "NONE", "distance", "INCREMENTAL"),
  G91_1 |-> Sets("G4", "NONE", "none", "none"),
  G93   |-> Sets("G5", "NONE", "feed_rate", "INVERSE_TIME"),
  G94   |-> Sets("G5", "NONE", "feed_rate", "UNITS_PER_MIN"),
  G20   |-> Sets("G6", "NONE", "units", "INCHES"),
  G21   |-> Sets("G6", "NONE", "units", "MM"),
  G40   |-> Sets("G7", "NONE", "none", "none"),
  G43_1 |-> Sets("G8", "TOOL_LENGTH_OFFSET", "tool_length", "ENABLE_DYNAMIC"),
  G49   |-> Sets("G8", "TOOL_LENGTH_OFFSET", "tool_length", "CANCEL"),
  G54   |-> Sets("G12", "NONE", "coord_select", 0),
  G55   |-> Sets("G12", "NONE", "coord_select", 1),
  G56   |-> Sets("G12", "NONE", "coord_select", 2),
  G57   |-> Sets("G12", "NONE", "coord_select", 3),
  G58   |-> Sets("G12", "NONE", "coord_select", 4),
  G59   |-> Sets("G12", "NONE", "coord_select", 5),
  G61   |-> Sets("G13", "NONE", "none", "none")]

MWords == [
  M0  |-> Sets("M4", "NONE", "program_flow", "PAUSED"),
  M1  |-> Sets("M4", "NONE", "none", "none"),
  M2  |-> Sets("M4", "NONE", "program_flow", "COMPLETED"),
  M30 |-> Sets("M4", "NONE", "program_flow", "COMPLETED"),
  M3  |-> Sets("M7", "NONE", "spindle", "CW"),
  M4  |-> Sets("M7", "NONE", "spindle", "CCW"),
  M5  |-> Sets("M7", "NONE", "spindle", "DISABLE"),
  M8  |-> Sets("M8", "NONE", "coolant", "FLOOD"),
  M9  |-> Sets("M8", "NONE", "coolant", "DISABLE")]

Commands ==
  [w \in UNION { DOMAIN NonModal, DOMAIN Motions, DOMAIN Modes, DOMAIN MWords } |->
     CASE w \in DOMAIN NonModal -> NonModal[w]
       [] w \in DOMAIN Motions -> Motions[w]
       [] w \in DOMAIN Modes -> Modes[w]
       [] OTHER -> MWords[w]]

Letters == {"F", "L", "N", "P", "R", "S", "T"} \cup Axes \cup Offsets
Word == [name : STRING, value : Int]

\* A block before its first word.  A jog ($J=) is checked as a G1 in G94.
NewBlock(jog, modal) ==
  [ok |-> TRUE, jog |-> jog, non_modal |-> "NO_ACTION", axis |-> "NONE",
   modal |-> IF jog THEN [modal EXCEPT !.motion = "LINEAR", !.feed_rate = "UNITS_PER_MIN"]
             ELSE modal,
   groups |-> {}, letters |-> {}, value |-> [l \in Letters |-> 0]]

\* A G or M word: no two of a modal group, and no two axis commands.
ImportCommand(b, c) ==
  [b EXCEPT !.ok = @ /\ c.group \notin b.groups /\ (c.axis # "NONE" => b.axis = "NONE"),
            !.groups = @ \cup {c.group},
            !.axis = IF c.axis = "NONE" THEN @ ELSE c.axis,
            !.non_modal = IF c.field = "non_modal" THEN c.value ELSE @,
            !.modal = IF c.field \in DOMAIN @ THEN [@ EXCEPT ![c.field] = c.value] ELSE @]

\* A value word: no word twice, and no negative F, N, P, S or T.
ImportValue(b, w) ==
  [b EXCEPT !.ok = @ /\ w.name \notin b.letters
                     /\ (w.name \in {"F", "N", "P", "S", "T"} => w.value >= 0),
            !.letters = @ \cup {w.name},
            !.value[w.name] = w.value]

ImportWord(b, w) ==
  IF w.name \in DOMAIN Commands THEN ImportCommand(b, Commands[w.name])
  ELSE IF w.name \in Letters THEN ImportValue(b, w)
  ELSE [b EXCEPT !.ok = FALSE]

AxisWords(b) == b.letters \cap Axes

\* Step 2, and the implicit axis command: axis words alone move in the current motion mode.
Import(line, modal) ==
  LET b == FoldLeft(ImportWord, NewBlock(line.jog, modal), line.words)
  IN  IF AxisWords(b) # {} /\ b.axis = "NONE" THEN [b EXCEPT !.axis = "MOTION_MODE"] ELSE b

------------------------------------------------------------------------------
(* Step 3, on an imported block b with the parser state gc. *)

Scale(b) == IF b.modal.units = "INCHES" THEN MmPerInch ELSE 1

\* [2. Set feed rate mode]: the test of G80 and G0 is always true, so that G93 asks for an
\* F word with every motion command.
FeedMissing(b) ==
  /\ "F" \notin b.letters
  /\ b.jog \/ (b.modal.feed_rate = "INVERSE_TIME" /\ b.axis = "MOTION_MODE")

\* [3. Set feed rate]: a feed given in the line that switches back from G93 is not
\* converted from inches.
FeedRate(b, gc) ==
  IF b.jog \/ (b.modal.feed_rate = "UNITS_PER_MIN" /\ gc.modal.feed_rate = "UNITS_PER_MIN")
  THEN IF "F" \in b.letters THEN b.value["F"] * Scale(b) ELSE gc.feed_rate
  ELSE b.value["F"]

SpindleSpeed(b, gc) == IF "S" \in b.letters THEN b.value["S"] ELSE gc.spindle_speed

DwellMissing(b) == b.non_modal = "DWELL" /\ "P" \notin b.letters

ToolAxisError(b) ==
  /\ b.axis = "TOOL_LENGTH_OFFSET" /\ b.modal.tool_length = "ENABLE_DYNAMIC"
  /\ AxisWords(b) # {ToolAxis}

\* [15. Coordinate system selection]: the record the block has to read first.
SelectsCoord(b, gc) == "G12" \in b.groups /\ b.modal.coord_select # gc.modal.coord_select

\* [19. G10]: P0 is the coordinate system that is active after this block; only a line
\* without both P and L lacks a word.
CoordIndex(b) ==
  IF b.value["P"] > 0 THEN b.value["P"] - 1 ELSE b.modal.coord_select

CoordDataError(b) ==
  /\ b.non_modal = "SET_COORDINATE_DATA"
  /\ \/ AxisWords(b) = {} \/ b.letters \cap {"P", "L"} = {}
     \/ b.value["P"] > NCoord \/ b.value["L"] \notin {2, 20}
     \/ b.value["L"] = 2 /\ "R" \in b.letters

\* The record a G10, G28 or G30 has to read.
ReadsSlot(b) ==
  CASE b.non_modal = "SET_COORDINATE_DATA" -> {CoordIndex(b)}
    [] b.non_modal = "GO_HOME_0" -> {G28Slot}
    [] b.non_modal = "GO_HOME_1" -> {G30Slot}
    [] OTHER -> {}

Given(b, a) == b.value[a] * Scale(b)
ToolLength(gc, a) == IF a = ToolAxis THEN gc.tool_length_offset ELSE 0

\* Mutant: G92 forgets the length of the tool.
NewOffsetToolless(b, gc, system, a) ==
  IF a \in AxisWords(b) THEN gc.position[a] - system[a] - Given(b, a) ELSE gc.coord_offset[a]

\* The offset with which G92 makes the position the given one.
NewOffset(b, gc, system, a) ==
  IF a \in AxisWords(b) THEN gc.position[a] - system[a] - Given(b, a) - ToolLength(gc, a)
  ELSE gc.coord_offset[a]

\* Where a motion goes, in machine coordinates.
Target(b, gc, system, a) ==
  IF a \notin AxisWords(b) THEN gc.position[a]
  ELSE IF b.non_modal = "ABSOLUTE_OVERRIDE" THEN Given(b, a)
  ELSE IF b.modal.distance = "ABSOLUTE"
  THEN Given(b, a) + system[a] + gc.coord_offset[a] + ToolLength(gc, a)
  ELSE Given(b, a) + gc.position[a]

\* The values of the axis words: the new data of G10, the new offset of G92, the offset of
\* G43.1, or the target.  system is the coordinate system that is active after this block.  A
\* block without axis words leaves them zero.
Position(b, gc, system) ==
  LET asGiven == \/ b.axis = "TOOL_LENGTH_OFFSET" \/ AxisWords(b) = {}
                 \/ b.non_modal = "SET_COORDINATE_DATA"
  IN  [a \in Axes |-> IF asGiven THEN Given(b, a)
                      ELSE IF b.non_modal = "SET_COORDINATE_OFFSET"
                      THEN NewOffset(b, gc, system, a) ELSE Target(b, gc, system, a)]

\* What G10 writes to an axis it names.
NewData(b, gc, a) ==
  IF b.value["L"] = 20 THEN gc.position[a] - gc.coord_offset[a] - Given(b, a) - ToolLength(gc, a)
  ELSE Given(b, a)

\* What G10 writes and where G28 and G30 go, with stored the record they read.
StoredData(b, gc, stored) ==
  [a \in Axes |->
     IF b.non_modal = "SET_COORDINATE_DATA"
     THEN IF a \in AxisWords(b) THEN NewData(b, gc, a) ELSE stored[a]
     ELSE IF a \in AxisWords(b) \/ AxisWords(b) = {} THEN stored[a] ELSE gc.position[a]]

AbsoluteError(b) ==
  b.non_modal = "ABSOLUTE_OVERRIDE" /\ b.modal.motion \notin {"SEEK", "LINEAR"}

\* The axis command after the checks: a G28 or G30 without axis words has no intermediate
\* point, and a G0 or G1 without axis words does not move.
AxisCommand(b) ==
  IF AxisWords(b) = {} /\ \/ b.non_modal \in {"GO_HOME_0", "GO_HOME_1"}
                          \/ b.axis = "MOTION_MODE" /\ b.modal.motion \in {"SEEK", "LINEAR"}
  THEN "NONE" ELSE b.axis

PlaneAxes(b) ==
  CASE b.modal.plane = "XY" -> <<"X", "Y">>
    [] b.modal.plane = "ZX" -> <<"Z", "X">>
    [] OTHER -> <<"Y", "Z">>
OffsetOf == [X |-> "I", Y |-> "J", Z |-> "K"]

Squares(x, y) == x * x + y * y

\* The geometry of an arc from the position to target.  In the grid of the model two radii
\* that differ at all differ by more than the tolerance of the code.
ArcError(b, gc, target) ==
  LET axis == PlaneAxes(b)
      d(i) == target[axis[i]] - gc.position[axis[i]]
      o(i) == b.value[OffsetOf[axis[i]]] * Scale(b)
      r    == b.value["R"] * Scale(b)
  IN  \/ AxisWords(b) \cap {axis[1], axis[2]} = {}
      \/ /\ "R" \in b.letters
         /\ target = gc.position \/ 4 * r * r < Squares(d(1), d(2))
      \/ /\ "R" \notin b.letters
         /\ \/ b.letters \cap {OffsetOf[axis[1]], OffsetOf[axis[2]]} = {}
            \/ Squares(d(1) - o(1), d(2) - o(2)) # Squares(o(1), o(2))

\* [20. Motion modes]
MotionError(b, gc, target) ==
  IF b.modal.motion = "NONE" THEN AxisWords(b) # {}
  ELSE /\ b.axis = "MOTION_MODE"
       /\ \/ b.modal.motion # "SEEK" /\ FeedRate(b, gc) = 0
          \/ b.modal.motion \in Arcs /\ ArcError(b, gc, target)
          \/ b.modal.motion \in Probes /\ (AxisWords(b) = {} \/ target = gc.position)

\* The words a block uses; any other is an error.
UsedWords(b) ==
  {"N", "F"} \cup (IF b.jog THEN {} ELSE {"S", "T"})
  \cup (IF b.non_modal = "DWELL" THEN {"P"} ELSE {})
  \cup (IF b.non_modal = "SET_COORDINATE_DATA" THEN {"L", "P"} ELSE {})
  \cup (IF AxisCommand(b) # "NONE" THEN Axes ELSE {})
  \cup (IF b.axis = "MOTION_MODE" /\ b.modal.motion \in Arcs
        THEN IF "R" \in b.letters THEN {"R"} ELSE Offsets ELSE {})

\* The jog's own check (step 4): the misplaced parenthesis of the code rejects the unit and
\* non-modal words it means to allow, and lets G40 pass.
JogError(b) == b.jog /\ (~(b.groups \subseteq {"G3", "G7"}) \/ b.non_modal # "NO_ACTION")
=============================================================================
