----------------------------- MODULE GcodeProofs -----------------------------
(***************************************************************************)
(* Proofs about Gcode: what the sender is told of the work offset, what    *)
(* the outputs do, which coordinate system is in use, where the parser     *)
(* believes the machine to be, what G92 and G10 make of it, and that       *)
(* nothing moves in check mode; for any lines, records and resets.         *)
(***************************************************************************)
EXTENDS Gcode, WellFoundedInduction, TLAPS

\* The fields of gc_state.
Fields == {"modal", "spindle_speed", "feed_rate", "position", "coord_system", "coord_offset",
           "tool_length_offset"}

\* G54 can be read as long as nothing damages it: what a line writes there is never empty.
SlotsInv ==
  /\ DOMAIN eeprom = Slots
  /\ 0 \notin decayed => eeprom[0] # Damaged
  /\ pc # "ready" => blk.data # Damaged

\* The offset last reported is right at every moment, unless the counter has run out or
\* system_flag_wco_change() is about to clear it.
ReportInv == 0 \notin decayed /\ wcoCounter > 0 /\ ~flag => reported = Wco(gc)

\* The outputs follow the modes also within a line; an abort has switched them off.  A pause
\* is never in check mode, which it would leave for IDLE.
OutputInv ==
  /\ 0 \notin decayed /\ ~abort /\ state # "CHECK" =>
       /\ spindle = Output(gc.modal.spindle, gc.spindle_speed)
       /\ coolant = gc.modal.coolant
  /\ abort => spindle = Off /\ coolant = "DISABLE"
  /\ pc = "paused" => state # "CHECK"

\* gc and gc.modal are records with the fields of the code.
RecordsInv ==
  /\ DOMAIN gc = Fields /\ DOMAIN gc.modal = DOMAIN ModalDefault
  /\ flag \in BOOLEAN /\ abort \in BOOLEAN

GcodeInv == RecordsInv /\ SlotsInv /\ ReportInv /\ OutputInv

------------------------------------------------------------------------------
(* Stages *)

LEMMA Least ==
  ASSUME NEW T, T \subseteq Nat, T # {}
  PROVE  \E i \in T : \A j \in T : i <= j
<1>1. PICK i \in T : \A j \in T : <<j, i>> \notin OpToRel(<, Nat)
  BY WFMin, NatLessThanWellFounded, Zenon
<1>2. \A j \in T : ~(j < i)
  BY <1>1, Zenon DEF OpToRel
<1> QED
  BY <1>2

\* After a stage comes another one, or the line is done; no stage is a wait of its own.
LEMMA BeginStage ==
  ASSUME NEW e, NEW from \in Nat \ {0}, Begin(e, from)
  PROVE  /\ pc' \notin {"paused", "probe"}
         /\ pc' = "ready" \/ blk' = e
<1> DEFINE todo == { i \in from..Len(Stages) : Work(e, Stages[i]) }
           k == CHOOSE i \in todo : \A j \in todo : i <= j
<1>1. todo = {} \/ k \in todo
  <2>1. todo \subseteq Nat
    OBVIOUS
  <2> HIDE DEF todo
  <2>2. ASSUME todo # {}
        PROVE  \E i \in todo : \A j \in todo : i <= j
    BY <2>1, <2>2, Least
  <2> QED
    BY <2>2
<1>2. Len(Stages) = 12
  BY DEF Stages
<1>3. todo = {} \/ k \in 1..12
  BY <1>1, <1>2
<1>4. \A i \in 1..12 : Stages[i] \notin {"paused", "probe"}
  BY DEF Stages
<1>5. pc' = IF todo = {} THEN "ready" ELSE Stages[k]
  BY DEF Begin
<1>6. pc' = "ready" \/ blk' = e
  BY DEF Begin
<1> HIDE DEF todo, k
<1> QED
  BY <1>3, <1>4, <1>5, <1>6

LEMMA DoneStage ==
  ASSUME Done, \E i \in 1..12 : Stages[i] = pc
  PROVE  /\ pc' \notin {"paused", "probe"}
         /\ pc' = "ready" \/ blk' = blk
<1>1. DOMAIN Stages = 1..12
  BY DEF Stages
<1> DEFINE k == CHOOSE i \in DOMAIN Stages : Stages[i] = pc
<1>2. k \in 1..12
  BY <1>1
<1>3. Begin(blk, 1 + k)
  BY DEF Done
<1> HIDE DEF k
<1>4. 1 + k \in Nat \ {0}
  BY <1>2
<1> QED
  BY <1>3, <1>4, BeginStage

LEMMA StageNames ==
  \A s \in {"jog", "speed", "spindle", "coolant", "dwell", "offset", "select", "data",
            "via", "home", "motion", "flow"} : \E i \in 1..12 : Stages[i] = s
<1>1. /\ Stages[1] = "jog" /\ Stages[2] = "speed" /\ Stages[3] = "spindle"
      /\ Stages[4] = "coolant" /\ Stages[5] = "dwell" /\ Stages[6] = "offset"
      /\ Stages[7] = "select" /\ Stages[8] = "data" /\ Stages[9] = "via"
      /\ Stages[10] = "home" /\ Stages[11] = "motion" /\ Stages[12] = "flow"
  BY DEF Stages
<1> QED
  BY <1>1

\* A step that is done with its stage leaves a block with data, and does not pause.
LEMMA StageDone ==
  ASSUME Done, pc \in {"jog", "speed", "spindle", "coolant", "dwell", "offset", "select",
                       "data", "via", "home", "motion", "flow"}, SlotsInv
  PROVE  (pc' # "ready" => blk'.data # Damaged) /\ pc' # "paused"
<1>1. /\ pc' \notin {"paused", "probe"}
      /\ pc' = "ready" \/ blk' = blk
  BY StageNames, DoneStage
<1> QED
  BY <1>1 DEF SlotsInv

------------------------------------------------------------------------------
(* Data *)

LEMMA DamagedIsNoVector ==
  ASSUME NEW v, DOMAIN v = Axes
  PROVE  v # Damaged
<1>1. "X" \in DOMAIN v
  BY DEF Axes
<1>2. DOMAIN Damaged = {}
  BY DEF Damaged
<1> QED
  BY <1>1, <1>2

LEMMA PreparedData ==
  ASSUME NEW b
  PROVE  Prepare(b).data # Damaged
<1> DEFINE stored == { eeprom[i] : i \in ReadsSlot(b) }
           data == IF stored = {} THEN Zero
                   ELSE StoredData(b, gc, CHOOSE v \in stored : TRUE)
<1>1. Prepare(b).data = data
  BY DEF Prepare
<1>2. DOMAIN data = Axes
  BY DEF Zero, StoredData
<1> HIDE DEF data
<1> QED
  BY <1>1, <1>2, DamagedIsNoVector

\* The offset depends on three fields of the parser.
LEMMA SameOffset ==
  ASSUME NEW g, NEW h, g.coord_system = h.coord_system, g.coord_offset = h.coord_offset,
         g.tool_length_offset = h.tool_length_offset
  PROVE  Wco(g) = Wco(h)
  BY DEF Wco, ToolLength

LEMMA OutputOff == \A speed : Output("DISABLE", speed) = Off
  BY DEF Output, Off
\* What a reset, and a motion beyond the soft limits, leave behind.
Killed ==
  /\ abort' = TRUE /\ spindle' = Off /\ coolant' = "DISABLE" /\ state' \in {state, "ALARM"}

LEMMA MotionOutcome ==
  ASSUME NEW target, NEW feed, McLine(target, feed)
  PROVE  Killed \/ UNCHANGED <<state, abort, spindle, coolant>>
  BY DEF McLine, SoftLimitStop, Killed, outputs

LEMMA ZeroSlot == 0 \in Slots /\ Zero # Damaged
<1>1. DOMAIN Zero = Axes
  BY DEF Zero
<1> QED
  BY <1>1, DamagedIsNoVector, BlockAssumption DEF Slots

LEMMA RepairKeeps ==
  ASSUME SlotsInv
  PROVE  /\ DOMAIN Repaired(eeprom, 0) = Slots
         /\ 0 \notin decayed => Repaired(eeprom, 0)[0] # Damaged
  BY ZeroSlot DEF Repaired, SlotsInv

LEMMA OffsetKept ==
  ASSUME ReportInv, UNCHANGED <<flag, decayed, wcoCounter, reported>>,
         gc'.coord_system = gc.coord_system, gc'.coord_offset = gc.coord_offset,
         gc'.tool_length_offset = gc.tool_length_offset
  PROVE  ReportInv'
  BY SameOffset DEF ReportInv

LEMMA OutputKept ==
  ASSUME OutputInv, UNCHANGED <<abort, spindle, coolant, decayed>>,
         state = "CHECK" => state' = "CHECK",
         pc' = "paused" => state' # "CHECK",
         gc'.modal.spindle = gc.modal.spindle, gc'.modal.coolant = gc.modal.coolant,
         gc'.spindle_speed = gc.spindle_speed
  PROVE  OutputInv'
  BY DEF OutputInv

LEMMA OutputKilled ==
  ASSUME Killed, pc' = "paused" => state # "CHECK"
  PROVE  OutputInv'
  BY DEF Killed, OutputInv

------------------------------------------------------------------------------
(* The steps *)

LEMMA RecordsNext ==
  ASSUME RecordsInv, Next
  PROVE  RecordsInv'
<1>1. ASSUME NEW n \in DOMAIN Lines, NEW l \in Lines[n], Accept(n, l)
      PROVE  RecordsInv'
  BY <1>1 DEF Accept, RecordsInv, machine, Fields
<1>2. ASSUME NEW n \in DOMAIN Lines, NEW l \in Lines[n], Reject(n, l)
      PROVE  RecordsInv'
  BY <1>2 DEF Reject, RecordsInv, machine, Fields
<1>3. CASE SetSpeed
  BY <1>3 DEF SetSpeed, RecordsInv, machine, Fields
<1>4. CASE SetSpindle
  BY <1>4 DEF SetSpindle, RecordsInv, machine, Fields
<1>5. CASE SetCoolant
  BY <1>5 DEF SetCoolant, RecordsInv, machine, Fields
<1>6. CASE Dwell
  BY <1>6 DEF Dwell, RecordsInv, machine, Fields
<1>7. CASE SetToolLength
  BY <1>7 DEF SetToolLength, RecordsInv, machine, Fields
<1>8. CASE SelectCoord
  BY <1>8 DEF SelectCoord, RecordsInv, machine, Fields
<1>9. CASE FlagWcoChange
  BY <1>9 DEF FlagWcoChange, RecordsInv, machine, Fields
<1>10. CASE WriteCoordData
  BY <1>10 DEF WriteCoordData, RecordsInv, machine, Fields
<1>11. CASE StoreHome
  BY <1>11 DEF StoreHome, RecordsInv, machine, Fields
<1>12. CASE SetCoordOffset
  BY <1>12 DEF SetCoordOffset, RecordsInv, machine, Fields
<1>13. CASE GoVia
  <2>1. abort' \in BOOLEAN
    BY <1>13, MotionOutcome DEF GoVia, RecordsInv, Killed
  <2> QED
    BY <1>13, <2>1 DEF GoVia, RecordsInv, Fields
<1>14. CASE GoHome
  <2>1. abort' \in BOOLEAN
    BY <1>14, MotionOutcome DEF GoHome, RecordsInv, Killed
  <2> QED
    BY <1>14, <2>1 DEF GoHome, RecordsInv, Fields
<1>15. CASE Move
  <2>1. abort' \in BOOLEAN
    BY <1>15, MotionOutcome DEF Move, RecordsInv, Killed, machine
  <2> QED
    BY <1>15, <2>1 DEF Move, RecordsInv, Fields
<1>16. CASE ProbeRefused
  BY <1>16 DEF ProbeRefused, RecordsInv, machine, Fields
<1>17. CASE ProbeStart
  BY <1>17 DEF ProbeStart, SoftLimitStop, RecordsInv, Fields
<1>18. CASE ProbeEnd
  BY <1>18 DEF ProbeEnd, RecordsInv, machine, Fields
<1>19. CASE Pause
  BY <1>19 DEF Pause, RecordsInv, machine, Fields
<1>20. CASE ProgramEnd
  BY <1>20 DEF ProgramEnd, RecordsInv, machine, Fields
<1>21. CASE Jog
  BY <1>21 DEF Jog, RecordsInv, machine, Fields
<1>22. CASE Resume
  BY <1>22 DEF Resume, RecordsInv, machine, Fields
<1>23. CASE AutoStart
  BY <1>23 DEF AutoStart, RecordsInv, machine, Fields
<1>24. CASE BlockDone
  BY <1>24 DEF BlockDone, RecordsInv, machine, Fields
<1>25. CASE JogCancel
  BY <1>25 DEF JogCancel, RecordsInv, machine, Fields
<1>26. CASE Reset
  BY <1>26 DEF Reset, McReset, RecordsInv
<1>27. CASE Restart
  <2>1. DOMAIN gc' = Fields /\ gc'.modal = ModalDefault
    BY <1>27 DEF Restart, GcInit, Fields
  <2> QED
    BY <1>27, <2>1 DEF Restart, RecordsInv
<1>28. CASE ToggleCheckMode
  BY <1>28 DEF ToggleCheckMode, McReset, RecordsInv
<1>29. CASE Unlock
  BY <1>29 DEF Unlock, RecordsInv, machine, Fields
<1>30. CASE Home
  BY <1>30 DEF Home, RecordsInv, machine, Fields
<1>31. CASE Report
  BY <1>31 DEF Report, RecordsInv, machine, Fields
<1>32. ASSUME NEW i \in Decaying, Decay(i)
      PROVE  RecordsInv'
  BY <1>32 DEF Decay, RecordsInv, machine, Fields
<1> QED
  BY <1>1, <1>2, <1>3, <1>4, <1>5, <1>6, <1>7, <1>8, <1>9, <1>10, <1>11, <1>12, <1>13, <1>14,
     <1>15, <1>16, <1>17, <1>18, <1>19, <1>20, <1>21, <1>22, <1>23, <1>24, <1>25, <1>26,
     <1>27, <1>28, <1>29, <1>30, <1>31, <1>32 DEF Next, Execute

LEMMA SlotsNext ==
  ASSUME SlotsInv, Next
  PROVE  SlotsInv'
<1>1. ASSUME NEW n \in DOMAIN Lines, NEW l \in Lines[n], Accept(n, l)
      PROVE  SlotsInv'
  <2>1. PICK b : Begin(Prepare(b), 1)
    BY <1>1 DEF Accept
  <2>2. pc' = "ready" \/ blk' = Prepare(b)
    BY <2>1, BeginStage
  <2>3. pc' # "ready" => blk'.data # Damaged
    BY <2>2, PreparedData
  <2> QED
    BY <1>1, <2>3 DEF Accept, SlotsInv, history
<1>2. ASSUME NEW n \in DOMAIN Lines, NEW l \in Lines[n], Reject(n, l)
      PROVE  SlotsInv'
  <2>1. PICK failed : eeprom' = [i \in Slots |-> IF i \in failed THEN Zero ELSE eeprom[i]]
    BY <1>2 DEF Reject
  <2>2. DOMAIN eeprom' = Slots /\ (eeprom'[0] = Zero \/ eeprom'[0] = eeprom[0])
    BY <2>1, ZeroSlot
  <2> QED
    BY <1>2, <2>2, ZeroSlot DEF Reject, SlotsInv, line, history
<1>3. CASE SetSpeed
  <2>1. pc' # "ready" => blk'.data # Damaged
    BY <1>3, StageDone DEF SetSpeed, At
  <2> QED
    BY <1>3, <2>1 DEF SetSpeed, SlotsInv, history
<1>4. CASE SetSpindle
  <2>1. pc' # "ready" => blk'.data # Damaged
    BY <1>4, StageDone DEF SetSpindle, At
  <2> QED
    BY <1>4, <2>1 DEF SetSpindle, SlotsInv, history
<1>5. CASE SetCoolant
  <2>1. pc' # "ready" => blk'.data # Damaged
    BY <1>5, StageDone DEF SetCoolant, At
  <2> QED
    BY <1>5, <2>1 DEF SetCoolant, SlotsInv, history
<1>6. CASE Dwell
  <2>1. pc' # "ready" => blk'.data # Damaged
    BY <1>6, StageDone DEF Dwell, At
  <2> QED
    BY <1>6, <2>1 DEF Dwell, SlotsInv, history
<1>7. CASE SetToolLength
  <2>1. pc' # "ready" => blk'.data # Damaged
    BY <1>7, StageDone DEF SetToolLength, At
  <2> QED
    BY <1>7, <2>1 DEF SetToolLength, SlotsInv, history
<1>8. CASE SelectCoord
  <2>1. pc' # "ready" => blk'.data # Damaged
    BY <1>8, StageDone DEF SelectCoord, At
  <2> QED
    BY <1>8, <2>1 DEF SelectCoord, SlotsInv, history
<1>9. CASE FlagWcoChange
  BY <1>9 DEF FlagWcoChange, SlotsInv, line, history
<1>10. CASE WriteCoordData
  <2>1. pc' # "ready" => blk'.data # Damaged
    BY <1>10, StageDone DEF WriteCoordData, At
  <2>2. blk.data # Damaged /\ UNCHANGED decayed
    BY <1>10 DEF WriteCoordData, At, SlotsInv, history
  <2>3. eeprom' = [eeprom EXCEPT ![CoordIndex(blk)] = blk.data]
    BY <1>10 DEF WriteCoordData
  <2>4. DOMAIN eeprom' = Slots /\ (eeprom'[0] = blk.data \/ eeprom'[0] = eeprom[0])
    BY <2>3, ZeroSlot DEF SlotsInv
  <2> QED
    BY <2>1, <2>2, <2>4 DEF SlotsInv
<1>11. CASE StoreHome
  <2>1. pc' # "ready" => blk'.data # Damaged
    BY <1>11, StageDone DEF StoreHome, At
  <2>2. PICK i \in {G28Slot, G30Slot} : eeprom' = [eeprom EXCEPT ![i] = gc.position]
    BY <1>11 DEF StoreHome
  <2>3. i # 0
    BY BlockAssumption DEF G28Slot, G30Slot
  <2>4. DOMAIN eeprom' = Slots /\ eeprom'[0] = eeprom[0]
    BY <2>2, <2>3, ZeroSlot DEF SlotsInv
  <2> QED
    BY <1>11, <2>1, <2>4 DEF StoreHome, SlotsInv, history
<1>12. CASE SetCoordOffset
  <2>1. pc' # "ready" => blk'.data # Damaged
    BY <1>12, StageDone DEF SetCoordOffset, At
  <2> QED
    BY <1>12, <2>1 DEF SetCoordOffset, SlotsInv, history
<1>13. CASE GoVia
  <2>1. pc' # "ready" => blk'.data # Damaged
    BY <1>13, StageDone DEF GoVia, At
  <2> QED
    BY <1>13, <2>1 DEF GoVia, SlotsInv, history
<1>14. CASE GoHome
  <2>1. pc' # "ready" => blk'.data # Damaged
    BY <1>14, StageDone DEF GoHome, At
  <2> QED
    BY <1>14, <2>1 DEF GoHome, SlotsInv, history
<1>15. CASE Move
  <2>1. pc' # "ready" => blk'.data # Damaged
    BY <1>15, StageDone DEF Move, At
  <2> QED
    BY <1>15, <2>1 DEF Move, SlotsInv, history
<1>16. CASE ProbeRefused
  <2>1. pc' # "ready" => blk'.data # Damaged
    BY <1>16, StageDone DEF ProbeRefused, At
  <2> QED
    BY <1>16, <2>1 DEF ProbeRefused, SlotsInv, history
<1>17. CASE ProbeStart
  BY <1>17 DEF ProbeStart, At, SlotsInv, history
<1>18. CASE ProbeEnd
  <2>1. Begin(blk, 12) /\ pc = "probe"
    BY <1>18 DEF ProbeEnd, Stages
  <2>2. pc' = "ready" \/ blk' = blk
    BY <2>1, BeginStage
  <2> QED
    BY <1>18, <2>1, <2>2 DEF ProbeEnd, SlotsInv, history
<1>19. CASE Pause
  <2>1. CASE Done
    <3>1. pc' # "ready" => blk'.data # Damaged
      BY <1>19, <2>1, StageDone DEF Pause, At
    <3> QED
      BY <1>19, <3>1 DEF Pause, SlotsInv, history
  <2>2. CASE pc' = "paused" /\ UNCHANGED blk
    BY <1>19, <2>2 DEF Pause, At, SlotsInv, history
  <2> QED
    BY <1>19, <2>1, <2>2 DEF Pause
<1>20. CASE ProgramEnd
  <2>1. pc' # "ready" => blk'.data # Damaged
    BY <1>20, StageDone DEF ProgramEnd, At
  <2>2. eeprom' = eeprom \/ eeprom' = Repaired(eeprom, 0)
    BY <1>20 DEF ProgramEnd
  <2> QED
    BY <1>20, <2>1, <2>2, RepairKeeps DEF ProgramEnd, SlotsInv, history
<1>21. CASE Jog
  BY <1>21 DEF Jog, SlotsInv, line, history
<1>22. CASE Resume
  BY <1>22 DEF Resume, SlotsInv, line, history
<1>23. CASE AutoStart
  BY <1>23 DEF AutoStart, SlotsInv, line, history
<1>24. CASE BlockDone
  BY <1>24 DEF BlockDone, SlotsInv, line, history
<1>25. CASE JogCancel
  BY <1>25 DEF JogCancel, SlotsInv, line, history
<1>26. CASE Reset
  BY <1>26 DEF Reset, McReset, SlotsInv, line, history
<1>27. CASE Restart
  <2>1. eeprom' = Repaired(eeprom, 0) /\ UNCHANGED <<decayed, pc, blk>>
    BY <1>27 DEF Restart, line
  <2> QED
    BY <2>1, RepairKeeps DEF SlotsInv
<1>28. CASE ToggleCheckMode
  BY <1>28 DEF ToggleCheckMode, McReset, SlotsInv, line, history
<1>29. CASE Unlock
  BY <1>29 DEF Unlock, SlotsInv, line, history
<1>30. CASE Home
  BY <1>30 DEF Home, SlotsInv, line, history
<1>31. CASE Report
  BY <1>31 DEF Report, SlotsInv, line, history
<1>32. ASSUME NEW i \in Decaying, Decay(i)
      PROVE  SlotsInv'
  <2>1. eeprom' = [eeprom EXCEPT ![i] = Damaged] /\ decayed' = decayed \cup {i}
    BY <1>32 DEF Decay
  <2>2. DOMAIN eeprom' = Slots /\ (i # 0 => eeprom'[0] = eeprom[0])
    BY <2>1, ZeroSlot DEF SlotsInv
  <2> QED
    BY <1>32, <2>1, <2>2 DEF Decay, SlotsInv, line
<1> QED
  BY <1>1, <1>2, <1>3, <1>4, <1>5, <1>6, <1>7, <1>8, <1>9, <1>10, <1>11, <1>12, <1>13, <1>14,
     <1>15, <1>16, <1>17, <1>18, <1>19, <1>20, <1>21, <1>22, <1>23, <1>24, <1>25, <1>26,
     <1>27, <1>28, <1>29, <1>30, <1>31, <1>32 DEF Next, Execute

LEMMA ReportNext ==
  ASSUME RecordsInv, SlotsInv, ReportInv, Next
  PROVE  ReportInv'
<1>1. ASSUME NEW n \in DOMAIN Lines, NEW l \in Lines[n], Accept(n, l)
      PROVE  ReportInv'
  BY <1>1 DEF Accept, ReportInv, wco, history
<1>2. ASSUME NEW n \in DOMAIN Lines, NEW l \in Lines[n], Reject(n, l)
      PROVE  ReportInv'
  BY <1>2 DEF Reject, ReportInv, wco, history
<1>3. CASE SetSpeed
  <2>1. /\ gc'.coord_system = gc.coord_system /\ gc'.coord_offset = gc.coord_offset
        /\ gc'.tool_length_offset = gc.tool_length_offset
    BY <1>3 DEF SetSpeed, RecordsInv, Fields
  <2> QED
    BY <1>3, <2>1, OffsetKept DEF SetSpeed, wco, history
<1>4. CASE SetSpindle
  <2>1. /\ gc'.coord_system = gc.coord_system /\ gc'.coord_offset = gc.coord_offset
        /\ gc'.tool_length_offset = gc.tool_length_offset
    BY <1>4 DEF SetSpindle, RecordsInv, Fields
  <2> QED
    BY <1>4, <2>1, OffsetKept DEF SetSpindle, wco, history
<1>5. CASE SetCoolant
  <2>1. /\ gc'.coord_system = gc.coord_system /\ gc'.coord_offset = gc.coord_offset
        /\ gc'.tool_length_offset = gc.tool_length_offset
    BY <1>5 DEF SetCoolant, RecordsInv, Fields
  <2> QED
    BY <1>5, <2>1, OffsetKept DEF SetCoolant, wco, history
<1>6. CASE Dwell
  BY <1>6 DEF Dwell, ReportInv, wco, history
<1>7. CASE SetToolLength
  <2>1. gc'.coord_system = gc.coord_system /\ gc'.coord_offset = gc.coord_offset
    BY <1>7 DEF SetToolLength, RecordsInv, Fields
  <2>2. ~flag' => gc'.tool_length_offset = gc.tool_length_offset
    BY <1>7 DEF SetToolLength, RecordsInv, Fields
  <2>3. ~flag /\ UNCHANGED <<decayed, wcoCounter, reported>>
    BY <1>7 DEF SetToolLength, At, wco, history
  <2> QED
    BY <2>1, <2>2, <2>3, SameOffset DEF ReportInv
<1>8. CASE SelectCoord
  <2>1. /\ gc'.coord_offset = gc.coord_offset
        /\ gc'.tool_length_offset = gc.tool_length_offset
    BY <1>8 DEF SelectCoord, RecordsInv, Fields
  <2>2. ~flag' => gc'.coord_system = gc.coord_system
    BY <1>8 DEF SelectCoord, RecordsInv, Fields
  <2>3. ~flag /\ UNCHANGED <<decayed, wcoCounter, reported>>
    BY <1>8 DEF SelectCoord, At, wco, history
  <2> QED
    BY <2>1, <2>2, <2>3, SameOffset DEF ReportInv
<1>9. CASE FlagWcoChange
  BY <1>9 DEF FlagWcoChange, ReportInv
<1>10. CASE WriteCoordData
  <2>1. ~flag /\ (~flag' => gc' = gc) /\ UNCHANGED <<decayed, wcoCounter, reported>>
    BY <1>10 DEF WriteCoordData, At, wco, history
  <2> QED
    BY <2>1 DEF ReportInv
<1>11. CASE StoreHome
  BY <1>11 DEF StoreHome, ReportInv, wco, history
<1>12. CASE SetCoordOffset
  BY <1>12 DEF SetCoordOffset, ReportInv
<1>13. CASE GoVia
  BY <1>13 DEF GoVia, ReportInv, wco, history
<1>14. CASE GoHome
  <2>1. /\ gc'.coord_system = gc.coord_system /\ gc'.coord_offset = gc.coord_offset
        /\ gc'.tool_length_offset = gc.tool_length_offset
    BY <1>14 DEF GoHome, RecordsInv, Fields
  <2> QED
    BY <1>14, <2>1, OffsetKept DEF GoHome, wco, history
<1>15. CASE Move
  <2>1. /\ gc'.coord_system = gc.coord_system /\ gc'.coord_offset = gc.coord_offset
        /\ gc'.tool_length_offset = gc.tool_length_offset
    BY <1>15 DEF Move, RecordsInv, Fields
  <2> QED
    BY <1>15, <2>1, OffsetKept DEF Move, wco, history
<1>16. CASE ProbeRefused
  <2>1. /\ gc'.coord_system = gc.coord_system /\ gc'.coord_offset = gc.coord_offset
        /\ gc'.tool_length_offset = gc.tool_length_offset
    BY <1>16 DEF ProbeRefused, RecordsInv, Fields
  <2> QED
    BY <1>16, <2>1, OffsetKept DEF ProbeRefused, wco, history
<1>17. CASE ProbeStart
  BY <1>17 DEF ProbeStart, ReportInv, wco, history
<1>18. CASE ProbeEnd
  <2>1. /\ gc'.coord_system = gc.coord_system /\ gc'.coord_offset = gc.coord_offset
        /\ gc'.tool_length_offset = gc.tool_length_offset
    BY <1>18 DEF ProbeEnd, RecordsInv, Fields
  <2> QED
    BY <1>18, <2>1, OffsetKept DEF ProbeEnd, wco, history
<1>19. CASE Pause
  <2>1. /\ gc'.coord_system = gc.coord_system /\ gc'.coord_offset = gc.coord_offset
        /\ gc'.tool_length_offset = gc.tool_length_offset
    BY <1>19 DEF Pause, RecordsInv, Fields
  <2> QED
    BY <1>19, <2>1, OffsetKept DEF Pause, wco, history
<1>20. CASE ProgramEnd
  <2>1. CASE wcoCounter' = 0
    BY <2>1 DEF ReportInv
  <2>2. CASE state = "CHECK"
    <3>1. /\ gc'.coord_system = gc.coord_system /\ gc'.coord_offset = gc.coord_offset
          /\ gc'.tool_length_offset = gc.tool_length_offset
      BY <1>20, <2>2 DEF ProgramEnd, RecordsInv, Fields
    <3> QED
      BY <1>20, <2>2, <3>1, OffsetKept DEF ProgramEnd, wco, history
  <2>3. CASE state # "CHECK" /\ eeprom[0] = Damaged
    <3>1. 0 \in decayed'
      BY <1>20, <2>3 DEF ProgramEnd, SlotsInv, history
    <3> QED
      BY <3>1 DEF ReportInv
  <2> QED
    BY <1>20, <2>1, <2>2, <2>3 DEF ProgramEnd
<1>21. CASE Jog
  <2>1. /\ gc'.coord_system = gc.coord_system /\ gc'.coord_offset = gc.coord_offset
        /\ gc'.tool_length_offset = gc.tool_length_offset
    BY <1>21 DEF Jog, RecordsInv, Fields
  <2> QED
    BY <1>21, <2>1, OffsetKept DEF Jog, wco, history
<1>22. CASE Resume
  <2>1. /\ gc'.coord_system = gc.coord_system /\ gc'.coord_offset = gc.coord_offset
        /\ gc'.tool_length_offset = gc.tool_length_offset
    BY <1>22 DEF Resume, RecordsInv, Fields
  <2> QED
    BY <1>22, <2>1, OffsetKept DEF Resume, wco, history
<1>23. CASE AutoStart
  BY <1>23 DEF AutoStart, ReportInv, wco, history
<1>24. CASE BlockDone
  BY <1>24 DEF BlockDone, ReportInv, wco, history
<1>25. CASE JogCancel
  <2>1. /\ gc'.coord_system = gc.coord_system /\ gc'.coord_offset = gc.coord_offset
        /\ gc'.tool_length_offset = gc.tool_length_offset
    BY <1>25 DEF JogCancel, RecordsInv, Fields
  <2> QED
    BY <1>25, <2>1, OffsetKept DEF JogCancel, wco, history
<1>26. CASE Reset
  BY <1>26 DEF Reset, McReset, ReportInv, wco, history
<1>27. CASE Restart
  BY <1>27 DEF Restart, ReportInv
<1>28. CASE ToggleCheckMode
  BY <1>28 DEF ToggleCheckMode, McReset, ReportInv, wco, history
<1>29. CASE Unlock
  BY <1>29 DEF Unlock, ReportInv, wco, history
<1>30. CASE Home
  <2>1. /\ gc'.coord_system = gc.coord_system /\ gc'.coord_offset = gc.coord_offset
        /\ gc'.tool_length_offset = gc.tool_length_offset
    BY <1>30 DEF Home, RecordsInv, Fields
  <2> QED
    BY <1>30, <2>1, OffsetKept DEF Home, wco, history
<1>31. CASE Report
  <2>1. CASE wcoCounter > 0
    BY <1>31, <2>1 DEF Report, ReportInv, history
  <2>2. CASE ~(wcoCounter > 0)
    BY <1>31, <2>2 DEF Report, ReportInv
  <2> QED
    BY <2>1, <2>2
<1>32. ASSUME NEW i \in Decaying, Decay(i)
      PROVE  ReportInv'
  BY <1>32 DEF Decay, ReportInv, wco
<1> QED
  BY <1>1, <1>2, <1>3, <1>4, <1>5, <1>6, <1>7, <1>8, <1>9, <1>10, <1>11, <1>12, <1>13, <1>14,
     <1>15, <1>16, <1>17, <1>18, <1>19, <1>20, <1>21, <1>22, <1>23, <1>24, <1>25, <1>26,
     <1>27, <1>28, <1>29, <1>30, <1>31, <1>32 DEF Next, Execute

LEMMA OutputNext ==
  ASSUME RecordsInv, SlotsInv, OutputInv, Next
  PROVE  OutputInv'
<1>1. ASSUME NEW n \in DOMAIN Lines, NEW l \in Lines[n], Accept(n, l)
      PROVE  OutputInv'
  <2>1. PICK b : Begin(Prepare(b), 1)
    BY <1>1 DEF Accept
  <2>2. pc' # "paused"
    BY <2>1, BeginStage
  <2> QED
    BY <1>1, <2>2, OutputKept DEF Accept, machine, outputs, history
<1>2. ASSUME NEW n \in DOMAIN Lines, NEW l \in Lines[n], Reject(n, l)
      PROVE  OutputInv'
  BY <1>2, OutputKept DEF Reject, OutputInv, line, machine, outputs, history
<1>3. CASE SetSpeed
  <2>1. pc' # "paused"
    BY <1>3, StageDone DEF SetSpeed, At
  <2>2. /\ gc'.modal.spindle = gc.modal.spindle /\ gc'.modal.coolant = gc.modal.coolant
        /\ gc'.spindle_speed = blk.speed
    BY <1>3 DEF SetSpeed, RecordsInv, Fields, ModalDefault
  <2>3. UNCHANGED <<state, abort, coolant, decayed>>
    BY <1>3 DEF SetSpeed, machine, history
  <2>4. CASE blk.speed # gc.spindle_speed /\ gc.modal.spindle # "DISABLE"
    <3>1. spindle' = IF state # "CHECK" /\ ~abort THEN Output(gc.modal.spindle, blk.speed)
                     ELSE spindle
      BY <1>3, <2>4 DEF SetSpeed, AccessorySet
    <3> QED
      BY <2>1, <2>2, <2>3, <3>1 DEF OutputInv
  <2>5. CASE ~(blk.speed # gc.spindle_speed /\ gc.modal.spindle # "DISABLE")
    <3>1. spindle' = spindle
      BY <1>3, <2>5 DEF SetSpeed
    <3>2. Output(gc.modal.spindle, blk.speed) = Output(gc.modal.spindle, gc.spindle_speed)
      BY <2>5, OutputOff
    <3> QED
      BY <2>1, <2>2, <2>3, <3>1, <3>2 DEF OutputInv
  <2> QED
    BY <2>4, <2>5
<1>4. CASE SetSpindle
  <2>1. pc' # "paused"
    BY <1>4, StageDone DEF SetSpindle, At
  <2>2. /\ gc'.modal.spindle = blk.modal.spindle /\ gc'.modal.coolant = gc.modal.coolant
        /\ gc'.spindle_speed = gc.spindle_speed
    BY <1>4 DEF SetSpindle, RecordsInv, Fields, ModalDefault
  <2>3. UNCHANGED <<state, abort, coolant, decayed>>
    BY <1>4 DEF SetSpindle, machine, history
  <2>4. spindle' = IF state # "CHECK" /\ ~abort
                   THEN Output(blk.modal.spindle, gc.spindle_speed) ELSE spindle
    BY <1>4 DEF SetSpindle, AccessorySet
  <2> QED
    BY <2>1, <2>2, <2>3, <2>4 DEF OutputInv
<1>5. CASE SetCoolant
  <2>1. pc' # "paused"
    BY <1>5, StageDone DEF SetCoolant, At
  <2>2. /\ gc'.modal.spindle = gc.modal.spindle /\ gc'.modal.coolant = blk.modal.coolant
        /\ gc'.spindle_speed = gc.spindle_speed
    BY <1>5 DEF SetCoolant, RecordsInv, Fields, ModalDefault
  <2>3. UNCHANGED <<state, abort, spindle, decayed>>
    BY <1>5 DEF SetCoolant, machine, history
  <2>4. coolant' = IF state # "CHECK" /\ ~abort THEN blk.modal.coolant ELSE coolant
    BY <1>5 DEF SetCoolant, AccessorySet
  <2> QED
    BY <2>1, <2>2, <2>3, <2>4 DEF OutputInv
<1>6. CASE Dwell
  <2>1. pc' # "paused"
    BY <1>6, StageDone DEF Dwell, At
  <2>2. UNCHANGED gc
    BY <1>6 DEF Dwell
  <2> QED
    BY <1>6, <2>1, <2>2, OutputKept DEF Dwell, machine, outputs, history
<1>7. CASE SetToolLength
  <2>1. pc' # "paused"
    BY <1>7, StageDone DEF SetToolLength, At
  <2>2. /\ gc'.modal.spindle = gc.modal.spindle /\ gc'.modal.coolant = gc.modal.coolant
        /\ gc'.spindle_speed = gc.spindle_speed
    BY <1>7 DEF SetToolLength, RecordsInv, Fields, ModalDefault
  <2> QED
    BY <1>7, <2>1, <2>2, OutputKept DEF SetToolLength, machine, outputs, history
<1>8. CASE SelectCoord
  <2>1. pc' # "paused"
    BY <1>8, StageDone DEF SelectCoord, At
  <2>2. /\ gc'.modal.spindle = gc.modal.spindle /\ gc'.modal.coolant = gc.modal.coolant
        /\ gc'.spindle_speed = gc.spindle_speed
    BY <1>8 DEF SelectCoord, RecordsInv, Fields, ModalDefault
  <2> QED
    BY <1>8, <2>1, <2>2, OutputKept DEF SelectCoord, machine, outputs, history
<1>9. CASE FlagWcoChange
  BY <1>9, OutputKept DEF FlagWcoChange, OutputInv, line, machine, outputs, history
<1>10. CASE WriteCoordData
  <2>1. pc' # "paused"
    BY <1>10, StageDone DEF WriteCoordData, At
  <2>2. /\ gc'.modal.spindle = gc.modal.spindle /\ gc'.modal.coolant = gc.modal.coolant
        /\ gc'.spindle_speed = gc.spindle_speed
    BY <1>10 DEF WriteCoordData, RecordsInv, Fields, ModalDefault
  <2> QED
    BY <1>10, <2>1, <2>2, OutputKept DEF WriteCoordData, machine, outputs, history
<1>11. CASE StoreHome
  <2>1. pc' # "paused"
    BY <1>11, StageDone DEF StoreHome, At
  <2>2. UNCHANGED gc
    BY <1>11 DEF StoreHome
  <2> QED
    BY <1>11, <2>1, <2>2, OutputKept DEF StoreHome, machine, outputs, history
<1>12. CASE SetCoordOffset
  <2>1. pc' # "paused"
    BY <1>12, StageDone DEF SetCoordOffset, At
  <2>2. /\ gc'.modal.spindle = gc.modal.spindle /\ gc'.modal.coolant = gc.modal.coolant
        /\ gc'.spindle_speed = gc.spindle_speed
    BY <1>12 DEF SetCoordOffset, RecordsInv, Fields, ModalDefault
  <2> QED
    BY <1>12, <2>1, <2>2, OutputKept DEF SetCoordOffset, machine, outputs, history
<1>13. CASE GoVia
  <2>1. pc' # "paused"
    BY <1>13, StageDone DEF GoVia, At
  <2>2. /\ gc'.modal.spindle = gc.modal.spindle /\ gc'.modal.coolant = gc.modal.coolant
        /\ gc'.spindle_speed = gc.spindle_speed
    BY <1>13 DEF GoVia, RecordsInv, Fields, ModalDefault
  <2>3. Killed \/ UNCHANGED <<state, abort, spindle, coolant>>
    BY <1>13, MotionOutcome DEF GoVia, machine, outputs
  <2>4. UNCHANGED decayed
    BY <1>13 DEF GoVia, history
  <2> QED
    BY <2>1, <2>2, <2>3, <2>4, OutputKept, OutputKilled
<1>14. CASE GoHome
  <2>1. pc' # "paused"
    BY <1>14, StageDone DEF GoHome, At
  <2>2. /\ gc'.modal.spindle = gc.modal.spindle /\ gc'.modal.coolant = gc.modal.coolant
        /\ gc'.spindle_speed = gc.spindle_speed
    BY <1>14 DEF GoHome, RecordsInv, Fields, ModalDefault
  <2>3. Killed \/ UNCHANGED <<state, abort, spindle, coolant>>
    BY <1>14, MotionOutcome DEF GoHome, machine, outputs
  <2>4. UNCHANGED decayed
    BY <1>14 DEF GoHome, history
  <2> QED
    BY <2>1, <2>2, <2>3, <2>4, OutputKept, OutputKilled
<1>15. CASE Move
  <2>1. pc' # "paused"
    BY <1>15, StageDone DEF Move, At
  <2>2. /\ gc'.modal.spindle = gc.modal.spindle /\ gc'.modal.coolant = gc.modal.coolant
        /\ gc'.spindle_speed = gc.spindle_speed
    BY <1>15 DEF Move, RecordsInv, Fields, ModalDefault
  <2>3. Killed \/ UNCHANGED <<state, abort, spindle, coolant>>
    BY <1>15, MotionOutcome DEF Move, machine, outputs
  <2>4. UNCHANGED decayed
    BY <1>15 DEF Move, history
  <2> QED
    BY <2>1, <2>2, <2>3, <2>4, OutputKept, OutputKilled
<1>16. CASE ProbeRefused
  <2>1. pc' # "paused"
    BY <1>16, StageDone DEF ProbeRefused, At
  <2>2. /\ gc'.modal.spindle = gc.modal.spindle /\ gc'.modal.coolant = gc.modal.coolant
        /\ gc'.spindle_speed = gc.spindle_speed
    BY <1>16 DEF ProbeRefused, RecordsInv, Fields, ModalDefault
  <2>3. UNCHANGED <<abort, spindle, coolant, decayed>> /\ (state = "CHECK" => state' = "CHECK")
    BY <1>16 DEF ProbeRefused, outputs, history
  <2> QED
    BY <2>1, <2>2, <2>3, OutputKept
<1>17. CASE ProbeStart
  <2>1. pc' = "probe" /\ UNCHANGED <<gc, decayed>> /\ state # "CHECK"
    BY <1>17 DEF ProbeStart, history
  <2>2. Killed \/ UNCHANGED <<abort, spindle, coolant>>
    BY <1>17 DEF ProbeStart, SoftLimitStop, Killed, outputs
  <2> QED
    BY <2>1, <2>2, OutputKept, OutputKilled
<1>18. CASE ProbeEnd
  <2>1. Begin(blk, 12)
    BY <1>18 DEF ProbeEnd, Stages
  <2>2. pc' # "paused"
    BY <2>1, BeginStage
  <2>3. /\ gc'.modal.spindle = gc.modal.spindle /\ gc'.modal.coolant = gc.modal.coolant
        /\ gc'.spindle_speed = gc.spindle_speed
    BY <1>18 DEF ProbeEnd, RecordsInv, Fields, ModalDefault
  <2>4. UNCHANGED <<abort, spindle, coolant, decayed>> /\ (state = "CHECK" => state' = "CHECK")
    BY <1>18 DEF ProbeEnd, outputs, history
  <2> QED
    BY <2>2, <2>3, <2>4, OutputKept
<1>19. CASE Pause
  <2>1. pc' = "paused" => state' # "CHECK"
    <3>1. CASE Done
      BY <1>19, <3>1, StageDone DEF Pause, At
    <3>2. CASE ~Done
      BY <1>19, <3>2 DEF Pause
    <3> QED
      BY <3>1, <3>2
  <2>2. /\ gc'.modal.spindle = gc.modal.spindle /\ gc'.modal.coolant = gc.modal.coolant
        /\ gc'.spindle_speed = gc.spindle_speed
    BY <1>19 DEF Pause, RecordsInv, Fields, ModalDefault
  <2>3. UNCHANGED <<abort, spindle, coolant, decayed>> /\ (state = "CHECK" => state' = "CHECK")
    BY <1>19 DEF Pause, outputs, history
  <2> QED
    BY <2>1, <2>2, <2>3, OutputKept
<1>20. CASE ProgramEnd
  <2>1. pc' # "paused"
    BY <1>20, StageDone DEF ProgramEnd, At
  <2>2. UNCHANGED <<state, abort, decayed>>
    BY <1>20 DEF ProgramEnd, machine, history
  <2>3. CASE state = "CHECK" \/ 0 \in decayed \/ abort
    <3>1. abort => UNCHANGED <<spindle, coolant>>
      BY <1>20 DEF ProgramEnd, outputs
    <3> QED
      BY <2>1, <2>2, <2>3, <3>1 DEF OutputInv
  <2>4. CASE state # "CHECK" /\ 0 \notin decayed /\ ~abort
    <3>1. eeprom[0] # Damaged
      BY <2>4 DEF SlotsInv
    <3>2. spindle' = Off /\ coolant' = "DISABLE"
      BY <1>20, <2>4, <3>1 DEF ProgramEnd
    <3>3. gc'.modal.spindle = "DISABLE" /\ gc'.modal.coolant = "DISABLE"
      BY <1>20, <2>4, <3>1 DEF ProgramEnd, RecordsInv, Fields, ModalDefault
    <3> QED
      BY <2>1, <2>2, <2>4, <3>2, <3>3, OutputOff DEF OutputInv
  <2> QED
    BY <2>3, <2>4
<1>21. CASE Jog
  <2>1. pc' # "paused"
    BY <1>21 DEF Jog
  <2>2. /\ gc'.modal.spindle = gc.modal.spindle /\ gc'.modal.coolant = gc.modal.coolant
        /\ gc'.spindle_speed = gc.spindle_speed
    BY <1>21 DEF Jog, RecordsInv, Fields, ModalDefault
  <2>3. UNCHANGED <<abort, spindle, coolant, decayed>> /\ (state = "CHECK" => state' = "CHECK")
    BY <1>21 DEF Jog, outputs, history
  <2> QED
    BY <2>1, <2>2, <2>3, OutputKept
<1>22. CASE Resume
  <2>1. pc' # "paused" /\ state # "CHECK"
    BY <1>22 DEF Resume, OutputInv
  <2>2. /\ gc'.modal.spindle = gc.modal.spindle /\ gc'.modal.coolant = gc.modal.coolant
        /\ gc'.spindle_speed = gc.spindle_speed
    BY <1>22 DEF Resume, RecordsInv, Fields, ModalDefault
  <2>3. UNCHANGED <<abort, spindle, coolant, decayed>>
    BY <1>22 DEF Resume, outputs, history
  <2> QED
    BY <2>1, <2>2, <2>3, OutputKept
<1>23. CASE AutoStart
  <2>1. state # "CHECK" /\ state' # "CHECK" /\ UNCHANGED <<gc, abort, spindle, coolant,
     decayed>>
    BY <1>23 DEF AutoStart, outputs, history
  <2> QED
    BY <2>1, OutputKept
<1>24. CASE BlockDone
  <2>1. state # "CHECK" /\ state' # "CHECK" /\ UNCHANGED <<gc, abort, spindle, coolant,
     decayed>>
    BY <1>24 DEF BlockDone, outputs, history
  <2> QED
    BY <2>1, OutputKept
<1>25. CASE JogCancel
  <2>1. state # "CHECK" /\ state' # "CHECK" /\ UNCHANGED <<abort, spindle, coolant, decayed>>
    BY <1>25 DEF JogCancel, outputs, history
  <2>2. /\ gc'.modal.spindle = gc.modal.spindle /\ gc'.modal.coolant = gc.modal.coolant
        /\ gc'.spindle_speed = gc.spindle_speed
    BY <1>25 DEF JogCancel, RecordsInv, Fields, ModalDefault
  <2> QED
    BY <2>1, <2>2, OutputKept
<1>26. CASE Reset
  BY <1>26, OutputKilled DEF Reset, McReset, Killed, OutputInv, line
<1>27. CASE Restart
  <2>1. /\ gc'.modal.spindle = "DISABLE" /\ gc'.modal.coolant = "DISABLE"
        /\ pc' = "ready" /\ abort' = FALSE /\ spindle' = Off /\ coolant' = "DISABLE"
    BY <1>27 DEF Restart, GcInit, ModalDefault, OutputInv, line, outputs
  <2> QED
    BY <2>1, OutputOff DEF OutputInv
<1>28. CASE ToggleCheckMode
  <2>1. CASE McReset
    BY <1>28, <2>1, OutputKilled DEF ToggleCheckMode, McReset, Killed, OutputInv, line
  <2>2. CASE ~McReset
    BY <1>28, <2>2 DEF ToggleCheckMode, OutputInv, line
  <2> QED
    BY <2>1, <2>2
<1>29. CASE Unlock
  <2>1. state # "CHECK" /\ state' # "CHECK" /\ UNCHANGED <<gc, abort, spindle, coolant,
     decayed>>
    BY <1>29 DEF Unlock, outputs, history
  <2> QED
    BY <2>1, OutputKept
<1>30. CASE Home
  <2>1. state # "CHECK" /\ state' # "CHECK" /\ UNCHANGED <<abort, spindle, coolant, decayed>>
    BY <1>30 DEF Home, outputs, history
  <2>2. /\ gc'.modal.spindle = gc.modal.spindle /\ gc'.modal.coolant = gc.modal.coolant
        /\ gc'.spindle_speed = gc.spindle_speed
    BY <1>30 DEF Home, RecordsInv, Fields, ModalDefault
  <2> QED
    BY <2>1, <2>2, OutputKept
<1>31. CASE Report
  BY <1>31, OutputKept DEF Report, OutputInv, line, machine, outputs, history
<1>32. ASSUME NEW i \in Decaying, Decay(i)
      PROVE  OutputInv'
  <2>1. UNCHANGED <<gc, pc, state, abort, spindle, coolant>> /\ (0 \in decayed => 0 \in
     decayed')
    BY <1>32 DEF Decay, line, machine, outputs
  <2> QED
    BY <2>1 DEF OutputInv
<1> QED
  BY <1>1, <1>2, <1>3, <1>4, <1>5, <1>6, <1>7, <1>8, <1>9, <1>10, <1>11, <1>12, <1>13, <1>14,
     <1>15, <1>16, <1>17, <1>18, <1>19, <1>20, <1>21, <1>22, <1>23, <1>24, <1>25, <1>26,
     <1>27, <1>28, <1>29, <1>30, <1>31, <1>32 DEF Next, Execute

LEMMA GcodeStart == Init => GcodeInv
<1> SUFFICES ASSUME Init PROVE GcodeInv
  OBVIOUS
<1>1. gc = GcInit(eeprom, Zero)
  BY DEF Init
<1>2. DOMAIN gc = Fields /\ gc.modal = ModalDefault
  BY <1>1 DEF GcInit, Fields
<1>3. RecordsInv
  BY <1>2 DEF RecordsInv, Init
<1>4. SlotsInv
  <2>1. eeprom \in [Slots -> Vector]
    BY GcodeAssumption DEF Init
  <2>2. DOMAIN eeprom = Slots /\ DOMAIN eeprom[0] = Axes
    BY <2>1, ZeroSlot DEF Vector
  <2> QED
    BY <2>2, DamagedIsNoVector DEF Init, SlotsInv
<1>5. ReportInv
  BY DEF Init, ReportInv
<1>6. OutputInv
  BY <1>2, OutputOff DEF Init, OutputInv, ModalDefault
<1> QED
  BY <1>3, <1>4, <1>5, <1>6 DEF GcodeInv

LEMMA GcodeNext == GcodeInv /\ [Next]_vars => GcodeInv'
<1> SUFFICES ASSUME GcodeInv, [Next]_vars
             PROVE  GcodeInv'
  OBVIOUS
<1>1. CASE Next
  BY <1>1, RecordsNext, SlotsNext, ReportNext, OutputNext DEF GcodeInv
<1>2. CASE UNCHANGED vars
  BY <1>2 DEF vars, line, machine, outputs, wco, history, GcodeInv, RecordsInv, SlotsInv,
              ReportInv, OutputInv
<1> QED
  BY <1>1, <1>2

\* Whatever lines change an offset, and whatever records are damaged but that of G54, the
\* sender was told the present offset, or the next report tells it.
THEOREM OffsetReportedHolds == Spec => []OffsetReported
<1>1. GcodeInv => OffsetReported
  BY DEF GcodeInv, ReportInv, OffsetReported, AtRest
<1> QED
  BY <1>1, GcodeStart, GcodeNext, PTL DEF Spec

\* Between lines, and out of check mode, the outputs are those of the modes of the parser, for
\* every set of lines and whenever resets, jog cancels and pauses come, unless G54 is damaged.
THEOREM OutputsFollowModesHolds == Spec => []OutputsFollowModes
<1>1. GcodeInv => OutputsFollowModes
  BY DEF GcodeInv, OutputInv, OutputsFollowModes, AtRest
<1> QED
  BY <1>1, GcodeStart, GcodeNext, PTL DEF Spec

------------------------------------------------------------------------------
(* Importing a line *)

\* What FoldLeft computes for every set of the first words, and for every other set of them.
Largest(s) == CHOOSE x \in s : \A y \in s : x >= y
ReadSets(h, base, words, n) ==
  h = [s \in SUBSET (1..n) |->
         IF s = {} THEN base
         ELSE ImportWord(h[s \ {Largest(s)}], words[Largest(s)])]

LEMMA FoldIsIterated ==
  ASSUME NEW base, NEW words, NEW n, DOMAIN words = 1..n
  PROVE  FoldLeft(ImportWord, base, words) =
           (CHOOSE h : ReadSets(h, base, words, n))[1..n]
<1>1. FoldLeft(ImportWord, base, words) =
        (CHOOSE h : h = [s \in SUBSET DOMAIN words |->
           IF s = {} THEN base
           ELSE ImportWord(h[s \ {Largest(s)}], words[Largest(s)])])[DOMAIN words]
  BY DEF FoldLeft, MapThenFoldSet, Largest, Max
<1> QED
  BY <1>1 DEF ReadSets

LEMMA LargestIs ==
  ASSUME NEW s, NEW k \in s, s \subseteq Int, \A y \in s : y <= k
  PROVE  Largest(s) = k
<1>1. \A y \in s : k >= y
  OBVIOUS
<1>2. /\ Largest(s) \in s
      /\ \A y \in s : Largest(s) >= y
  BY <1>1 DEF Largest
<1>3. Largest(s) \in Int /\ k \in Int /\ Largest(s) <= k
  BY <1>2
<1> QED
  BY <1>2, <1>3

LEMMA GreatestOf ==
  ASSUME NEW n \in Nat, NEW s, s \subseteq 1..n, s # {}
  PROVE  \E x \in s : \A y \in s : y <= x
<1> DEFINE T == { n - y : y \in s }
<1>1. T \subseteq Nat /\ T # {}
  <2>1. \A y \in s : n - y \in Nat
    OBVIOUS
  <2>2. PICK y \in s : TRUE
    OBVIOUS
  <2> QED
    BY <2>1, <2>2
<1> HIDE DEF T
<1>2. PICK i \in T : \A j \in T : i <= j
  BY <1>1, Least
<1>3. PICK x \in s : i = n - x
  BY <1>2 DEF T
<1>4. \A y \in s : n - y \in T
  BY DEF T
<1> QED
  BY <1>2, <1>3, <1>4

LEMMA ReadSetsExist ==
  ASSUME NEW base, NEW words, NEW n \in Nat
  PROVE  \E h : ReadSets(h, base, words, n)
<1> DEFINE missing == { k \in Nat : ~\E h : ReadSets(h, base, words, k) }
<1> SUFFICES ASSUME missing # {}
             PROVE  FALSE
  OBVIOUS
<1>1. PICK k \in missing : \A j \in missing : k <= j
  <2>1. missing \subseteq Nat
    OBVIOUS
  <2> HIDE DEF missing
  <2> QED
    BY <2>1, Least
<1>2. k # 0
  <2>1. ReadSets([s \in SUBSET (1..0) |-> base], base, words, 0)
    <3>1. \A s \in SUBSET (1..0) : s = {}
      OBVIOUS
    <3> QED
      BY <3>1, Zenon DEF ReadSets
  <2> QED
    BY <2>1
<1>3. k - 1 \in Nat /\ k - 1 \notin missing
  BY <1>1, <1>2
<1>4. PICK g : ReadSets(g, base, words, k - 1)
  BY <1>3
<1> DEFINE step(s) == ImportWord(g[s \ {k}], words[k])
           h == [s \in SUBSET (1..k) |-> IF k \in s THEN step(s) ELSE g[s]]
<1>5. ASSUME NEW s \in SUBSET (1..k)
      PROVE  h[s] = IF s = {} THEN base
                    ELSE ImportWord(h[s \ {Largest(s)}], words[Largest(s)])
  <2>1. CASE k \in s
    <3>1. Largest(s) = k
      <4>1. s \subseteq Int /\ \A y \in s : y <= k
        BY <1>1
      <4> QED
        BY <2>1, <4>1, LargestIs
    <3>2. s \ {k} \in SUBSET (1..k) /\ k \notin s \ {k}
      OBVIOUS
    <3>3. h[s \ {k}] = g[s \ {k}]
      BY <3>2
    <3>4. h[s] = step(s) /\ s # {}
      BY <2>1
    <3> QED
      BY <3>1, <3>3, <3>4
  <2>2. CASE k \notin s
    <3>1. s \in SUBSET (1..(k - 1))
      BY <2>2, <1>1
    <3>2. g[s] = IF s = {} THEN base
                 ELSE ImportWord(g[s \ {Largest(s)}], words[Largest(s)])
      BY <3>1, <1>4, Zenon DEF ReadSets
    <3>3. k \notin s \ {Largest(s)} /\ s \ {Largest(s)} \in SUBSET (1..k)
      BY <2>2
    <3>4. h[s \ {Largest(s)}] = g[s \ {Largest(s)}] /\ h[s] = g[s]
      BY <2>2, <3>3
    <3> QED
      BY <3>2, <3>4
  <2> QED
    BY <2>1, <2>2
<1>6. ReadSets(h, base, words, k)
  <2>1. h = [s \in SUBSET (1..k) |-> h[s]]
    OBVIOUS
  <2> HIDE DEF h
  <2> QED
    BY <1>5, <2>1, Zenon DEF ReadSets
<1> QED
  BY <1>1, <1>6

\* The commands that set coordinate data or the G92 offset.
Settings == {"SET_COORDINATE_DATA", "SET_COORDINATE_OFFSET"}

\* What importing a line keeps, with m the modes it starts with.
BlockFields == {"ok", "jog", "non_modal", "axis", "modal", "groups", "letters", "value"}
BlockInv(b, jog, m) ==
  /\ DOMAIN b = BlockFields /\ b.jog = jog /\ b.value \in [Letters -> Int]
  /\ DOMAIN b.modal = DOMAIN ModalDefault /\ b.modal.coord_select \in 0..5
  /\ b.modal.coord_select # m.coord_select => "G12" \in b.groups
  /\ b.ok /\ b.non_modal \in Settings => b.axis = "NON_MODAL"

\* A word that selects a coordinate system is of group 12, and one that sets data or offsets
\* takes the axis words.
SystemWord(c) == c.field = "coord_select" => c.value \in 0..5 /\ c.group = "G12"
SettingWord(c) == c.field = "non_modal" /\ c.value \in Settings => c.axis = "NON_MODAL"

LEMMA CommandFacts ==
  \A name \in DOMAIN Commands : SystemWord(Commands[name]) /\ SettingWord(Commands[name])
<1> USE DEF SystemWord, SettingWord
<1>1. \A name \in DOMAIN NonModal : SystemWord(NonModal[name]) /\ SettingWord(NonModal[name])
  BY DEF NonModal, Sets, Settings
<1>2. \A name \in DOMAIN Motions : SystemWord(Motions[name]) /\ SettingWord(Motions[name])
  BY DEF Motions, Sets
<1>3. \A name \in DOMAIN Modes : SystemWord(Modes[name]) /\ SettingWord(Modes[name])
  BY DEF Modes, Sets
<1>4. \A name \in DOMAIN MWords : SystemWord(MWords[name]) /\ SettingWord(MWords[name])
  BY DEF MWords, Sets
<1>5. \A name \in DOMAIN Commands :
        \/ name \in DOMAIN NonModal /\ Commands[name] = NonModal[name]
        \/ name \in DOMAIN Motions /\ Commands[name] = Motions[name]
        \/ name \in DOMAIN Modes /\ Commands[name] = Modes[name]
        \/ name \in DOMAIN MWords /\ Commands[name] = MWords[name]
  BY DEF Commands
<1> QED
  BY <1>1, <1>2, <1>3, <1>4, <1>5

LEMMA WordKeeps ==
  ASSUME NEW m, NEW jog, NEW b, BlockInv(b, jog, m), NEW w \in Word
  PROVE  BlockInv(ImportWord(b, w), jog, m)
<1>1. CASE w.name \in DOMAIN Commands
  <2> DEFINE c == Commands[w.name]
  <2>1. SystemWord(c) /\ SettingWord(c)
    BY <1>1, CommandFacts
  <2>2. ImportWord(b, w) = ImportCommand(b, c)
    BY <1>1 DEF ImportWord
  <2> HIDE DEF c
  <2>3. ImportCommand(b, c).ok /\ ImportCommand(b, c).non_modal \in Settings =>
          ImportCommand(b, c).axis = "NON_MODAL"
    <3>1. /\ ImportCommand(b, c).ok => b.ok /\ (c.axis # "NONE" => b.axis = "NONE")
          /\ ImportCommand(b, c).axis = IF c.axis = "NONE" THEN b.axis ELSE c.axis
          /\ ImportCommand(b, c).non_modal = IF c.field = "non_modal" THEN c.value ELSE b.non_modal
      BY DEF BlockInv, BlockFields, ImportCommand
    <3> QED
      BY <2>1, <3>1 DEF BlockInv, SettingWord
  <2>4. /\ DOMAIN ImportCommand(b, c) = BlockFields /\ ImportCommand(b, c).jog = jog
        /\ ImportCommand(b, c).value \in [Letters -> Int]
        /\ DOMAIN ImportCommand(b, c).modal = DOMAIN ModalDefault
        /\ ImportCommand(b, c).modal.coord_select \in 0..5
        /\ ImportCommand(b, c).modal.coord_select # m.coord_select =>
             "G12" \in ImportCommand(b, c).groups
    BY <2>1 DEF BlockInv, BlockFields, ImportCommand, ModalDefault, SystemWord
  <2> QED
    BY <2>2, <2>3, <2>4 DEF BlockInv
<1>2. CASE w.name \notin DOMAIN Commands /\ w.name \in Letters
  <2>1. w.value \in Int
    BY DEF Word
  <2> QED
    BY <1>2, <2>1 DEF BlockInv, BlockFields, ImportWord, ImportValue
<1>3. CASE w.name \notin DOMAIN Commands /\ w.name \notin Letters
  BY <1>3 DEF BlockInv, BlockFields, ImportWord
<1> QED
  BY <1>1, <1>2, <1>3

LEMMA NewBlockIs ==
  ASSUME NEW m, NEW jog \in BOOLEAN, DOMAIN m = DOMAIN ModalDefault, m.coord_select \in 0..5
  PROVE  BlockInv(NewBlock(jog, m), jog, m)
  BY DEF BlockInv, BlockFields, NewBlock, ModalDefault, Settings

\* Every line, of whatever length, is imported as a block.
LEMMA ImportKeeps ==
  ASSUME NEW m, DOMAIN m = DOMAIN ModalDefault, m.coord_select \in 0..5,
         NEW l \in [jog : BOOLEAN, words : Seq(Word)]
  PROVE  BlockInv(Import(l, m), l.jog, m)
<1> DEFINE base == NewBlock(l.jog, m)
           words == l.words
           n == Len(words)
           iter == CHOOSE h : ReadSets(h, base, words, n)
<1>1. n \in Nat /\ DOMAIN words = 1..n /\ \A i \in 1..n : words[i] \in Word
  OBVIOUS
<1>2. BlockInv(base, l.jog, m)
  BY NewBlockIs
<1> HIDE DEF base
<1>3. FoldLeft(ImportWord, base, words) = iter[1..n]
  BY <1>1, FoldIsIterated
<1>4. ReadSets(iter, base, words, n)
  <2>1. \E h : ReadSets(h, base, words, n)
    BY <1>1, ReadSetsExist
  <2> QED
    BY <2>1, Zenon
<1> HIDE DEF iter, n, words
<1>5. \A s \in SUBSET (1..n) : BlockInv(iter[s], l.jog, m)
  <2> DEFINE bad == { k \in Nat : \E s \in SUBSET (1..n) :
                        s \subseteq 1..k /\ ~BlockInv(iter[s], l.jog, m) }
  <2>1. ASSUME bad # {}
        PROVE  FALSE
    <3>1. PICK k \in bad : \A j \in bad : k <= j
      <4>1. bad \subseteq Nat
        OBVIOUS
      <4> HIDE DEF bad
      <4> QED
        BY <2>1, <4>1, Least
    <3>2. PICK s \in SUBSET (1..n) : s \subseteq 1..k /\ ~BlockInv(iter[s], l.jog, m)
      BY <3>1
    <3>3. iter[s] = IF s = {} THEN base
                    ELSE ImportWord(iter[s \ {Largest(s)}], words[Largest(s)])
      BY <1>4, Zenon DEF ReadSets
    <3>4. s # {}
      BY <3>2, <3>3, <1>2
    <3>5. PICK x \in s : \A y \in s : y <= x
      BY <1>1, <3>4, GreatestOf
    <3>6. Largest(s) = x
      <4>1. s \subseteq Int
        BY <1>1
      <4> QED
        BY <3>5, <4>1, LargestIs
    <3>7. x - 1 \in Nat /\ s \ {x} \subseteq 1..(x - 1) /\ x - 1 < k /\ k \in Nat
      BY <3>1, <3>2, <3>5
    <3>8. x - 1 \notin bad
      <4> HIDE DEF bad
      <4> QED
        BY <3>1, <3>7
    <3>9. s \ {x} \in SUBSET (1..n)
      OBVIOUS
    <3>10. BlockInv(iter[s \ {x}], l.jog, m)
      BY <3>7, <3>8, <3>9
    <3>11. words[x] \in Word
      BY <1>1
    <3>12. BlockInv(ImportWord(iter[s \ {x}], words[x]), l.jog, m)
      BY <3>10, <3>11, WordKeeps
    <3> QED
      BY <3>2, <3>3, <3>4, <3>6, <3>12
  <2>2. ASSUME NEW s \in SUBSET (1..n), ~BlockInv(iter[s], l.jog, m)
        PROVE  n \in bad
    BY <1>1, <2>2
  <2> QED
    BY <2>1, <2>2
<1>6. BlockInv(FoldLeft(ImportWord, base, words), l.jog, m)
  BY <1>1, <1>3, <1>5
<1>7. \A b : BlockInv(b, l.jog, m) /\ b.axis = "NONE" =>
              BlockInv([b EXCEPT !.axis = "MOTION_MODE"], l.jog, m)
  BY DEF BlockInv, BlockFields
<1> DEFINE read == FoldLeft(ImportWord, base, words)
<1>8. \/ Import(l, m) = read
      \/ read.axis = "NONE" /\ Import(l, m) = [read EXCEPT !.axis = "MOTION_MODE"]
  BY Zenon DEF Import, base, words
<1> HIDE DEF read
<1> QED
  BY <1>6, <1>7, <1>8 DEF read

------------------------------------------------------------------------------
(* The order of the stages *)

LEMMA StagesAre ==
  /\ DOMAIN Stages = 1..12 /\ Len(Stages) = 12
  /\ Stages[1] = "jog" /\ Stages[2] = "speed" /\ Stages[3] = "spindle"
  /\ Stages[4] = "coolant" /\ Stages[5] = "dwell" /\ Stages[6] = "offset"
  /\ Stages[7] = "select" /\ Stages[8] = "data" /\ Stages[9] = "via"
  /\ Stages[10] = "home" /\ Stages[11] = "motion" /\ Stages[12] = "flow"
  BY DEF Stages

\* The next stage is the first one the block has work for.
LEMMA NextStage ==
  ASSUME NEW e, NEW from \in 1..13, Begin(e, from)
  PROVE  \/ pc' = "ready" /\ blk' = NoBlock
         \/ /\ blk' = e
            /\ \E k \in from..12 : /\ pc' = Stages[k] /\ Work(e, Stages[k])
                                   /\ \A j \in from..12 : Work(e, Stages[j]) => k <= j
<1> DEFINE todo == { i \in from..Len(Stages) : Work(e, Stages[i]) }
           k == CHOOSE i \in todo : \A j \in todo : i <= j
<1>1. todo = {} \/ (k \in todo /\ \A j \in todo : k <= j)
  <2>1. todo \subseteq Nat
    OBVIOUS
  <2> HIDE DEF todo
  <2>2. ASSUME todo # {}
        PROVE  \E i \in todo : \A j \in todo : i <= j
    BY <2>1, <2>2, Least
  <2> QED
    BY <2>2
<1>2. \A i \in from..12 : Stages[i] # "ready"
  BY StagesAre
<1>3. /\ pc' = IF todo = {} THEN "ready" ELSE Stages[k]
      /\ blk' = IF pc' = "ready" THEN NoBlock ELSE e
  BY DEF Begin
<1>4. \A j \in from..12 : Work(e, Stages[j]) => j \in todo
  BY StagesAre
<1>5. \A j \in todo : j \in from..12 /\ Work(e, Stages[j])
  BY StagesAre
<1> HIDE DEF todo, k
<1> QED
  BY <1>1, <1>2, <1>3, <1>4, <1>5

LEMMA AfterStage ==
  ASSUME NEW k \in 1..12, pc = Stages[k], Done
  PROVE  Begin(blk, k + 1)
<1>1. \A i \in DOMAIN Stages : Stages[i] = pc <=> i = k
  BY StagesAre
<1> DEFINE at == CHOOSE i \in DOMAIN Stages : Stages[i] = pc
<1>2. at = k
  BY <1>1, StagesAre
<1>3. Begin(blk, 1 + at)
  BY DEF Done
<1> HIDE DEF at
<1>4. 1 + k = k + 1
  OBVIOUS
<1> QED
  BY <1>2, <1>3, <1>4

StageSet == {"jog", "speed", "spindle", "coolant", "dwell", "offset", "select", "data", "via",
             "home", "motion", "flow"}
\* The stages up to the selection of the coordinate system.
EarlySet == {"speed", "spindle", "coolant", "dwell", "offset", "select"}
HomeMove(e) == ~e.jog /\ e.non_modal \in {"GO_HOME_0", "GO_HOME_1"}

LEMMA WorkVia ==
  ASSUME NEW e, Work(e, "via")
  PROVE  Work(e, "home")
  BY DEF Work

\* With the stored position still to go to, a line is not done.
LEMMA BeginSomewhere ==
  ASSUME NEW e, Begin(e, 10), Work(e, Stages[10])
  PROVE  pc' # "ready"
<1> DEFINE todo == { i \in 10..Len(Stages) : Work(e, Stages[i]) }
           k == CHOOSE i \in todo : \A j \in todo : i <= j
<1>1. todo # {}
  BY StagesAre
<1>2. k \in todo
  <2>1. todo \subseteq Nat
    OBVIOUS
  <2> HIDE DEF todo
  <2>2. \E i \in todo : \A j \in todo : i <= j
    BY <1>1, <2>1, Least
  <2> QED
    BY <2>2
<1>3. pc' = Stages[k]
  BY <1>1 DEF Begin
<1>4. k \in 1..12
  BY <1>2, StagesAre
<1> HIDE DEF k
<1> QED
  BY <1>3, <1>4, StagesAre

\* What a stage that is done goes on to.
LEMMA StageGoesOn ==
  ASSUME Done, pc \in StageSet
  PROVE  /\ pc' \notin {"paused", "probe"}
         /\ pc' = "ready" \/ blk' = blk
         /\ pc' \in EarlySet => pc \in EarlySet \cup {"jog"} /\ pc # "select"
         /\ pc' = "via" => Work(blk, "home")
         /\ pc = "via" /\ Work(blk, "home") => pc' = "home"
<1>1. PICK k \in 1..12 : pc = Stages[k]
  BY StageNames, StagesAre DEF StageSet
<1>2. Begin(blk, k + 1)
  BY <1>1, AfterStage
<1>3. CASE pc' = "ready" /\ blk' = NoBlock
  <2>1. pc' \notin {"paused", "probe", "via"} /\ pc' \notin EarlySet
    BY <1>3 DEF EarlySet
  <2>2. ~(pc = "via" /\ Work(blk, "home"))
    <3> SUFFICES ASSUME pc = "via", Work(blk, "home")
                 PROVE  FALSE
      OBVIOUS
    <3>1. k = 9
      BY <1>1, StagesAre
    <3>2. Begin(blk, 10) /\ Work(blk, Stages[10])
      BY <1>2, <3>1, StagesAre
    <3> QED
      BY <1>3, <3>2, BeginSomewhere
  <2> QED
    BY <1>3, <2>1, <2>2
<1>4. ASSUME blk' = blk, NEW i \in (k + 1)..12, pc' = Stages[i], Work(blk, Stages[i]),
             \A j \in (k + 1)..12 : Work(blk, Stages[j]) => i <= j
      PROVE  /\ pc' \notin {"paused", "probe"}
             /\ pc' \in EarlySet => pc \in EarlySet \cup {"jog"} /\ pc # "select"
             /\ pc' = "via" => Work(blk, "home")
             /\ pc = "via" /\ Work(blk, "home") => pc' = "home"
  <2>1. pc' \notin {"paused", "probe"}
    BY <1>4, StagesAre
  <2>2. pc' \in EarlySet => pc \in EarlySet \cup {"jog"} /\ pc # "select"
    BY <1>1, <1>4, StagesAre DEF EarlySet
  <2>3. pc' = "via" => Work(blk, "home")
    BY <1>4, WorkVia
  <2>4. ASSUME pc = "via", Work(blk, "home")
        PROVE  pc' = "home"
    <3>1. k = 9
      <4>1. \A j \in 1..12 : Stages[j] = "via" => j = 9
        BY StagesAre
      <4> QED
        BY <1>1, <2>4, <4>1
    <3>2. 10 \in (k + 1)..12 /\ Work(blk, Stages[10])
      <4>1. Stages[10] = "home"
        BY StagesAre
      <4> QED
        BY <2>4, <3>1, <4>1
    <3>3. i <= 10
      BY <1>4, <3>2
    <3> QED
      BY <1>4, <3>1, <3>3, StagesAre
  <2> QED
    BY <2>1, <2>2, <2>3, <2>4
<1> QED
  BY <1>2, <1>3, <1>4, NextStage

------------------------------------------------------------------------------
(* Values *)

\* A motion in the queue.
Segment == [move : Vector, feed : Int]

GcValues(g) ==
  /\ g.position \in Vector /\ g.coord_system \in Vector /\ g.coord_offset \in Vector
  /\ g.tool_length_offset \in Int /\ g.feed_rate \in Int /\ g.modal.coord_select \in 0..5

BlkValues(e) ==
  /\ e.target \in Vector /\ e.data \in Vector /\ e.system \in Vector
  /\ e.modal.coord_select \in 0..5 /\ e.feed \in Int
  /\ e.non_modal = "SET_COORDINATE_DATA" => CoordIndex(e) \in 0..(NCoord - 1)

\* The values of the parser, the records, the machine and the block that is executed.
ValuesInv ==
  /\ GcValues(gc)
  /\ eeprom \in [Slots -> Vector \cup {Damaged}]
  /\ mpos \in Vector /\ ppos \in Vector /\ queue \in Seq(Segment)
  /\ pc # "ready" => BlkValues(blk)

LEMMA PlusMinus ==
  ASSUME NEW u \in Vector, NEW v \in Vector
  PROVE  /\ Plus(u, v) \in Vector /\ Minus(u, v) \in Vector
         /\ Plus(v, Minus(u, v)) = u
  BY DEF Plus, Minus, Vector

LEMMA ZeroVector == Zero \in Vector
  BY DEF Zero, Vector

LEMMA VectorNotDamaged == \A v \in Vector : v # Damaged
  BY DamagedIsNoVector DEF Vector

LEMMA SlotRange ==
  /\ \A i \in 0..5 : i \in 0..(NCoord - 1)
  /\ \A i \in 0..(NCoord - 1) : i \in Slots /\ i # G28Slot /\ i # G30Slot
  /\ G28Slot \in Slots /\ G30Slot \in Slots
  BY BlockAssumption DEF Slots, G28Slot, G30Slot

LEMMA GivenInt ==
  ASSUME NEW b, b.value \in [Letters -> Int]
  PROVE  /\ \A a \in Axes : Given(b, a) \in Int
         /\ b.value["F"] * Scale(b) \in Int /\ b.value["F"] \in Int /\ b.value["P"] \in Int
<1>1. Scale(b) \in Int
  BY BlockAssumption DEF Scale
<1>2. \A l \in Letters : b.value[l] \in Int
  OBVIOUS
<1>3. \A x \in Int, y \in Int : x * y \in Int
  OBVIOUS
<1>4. Axes \subseteq Letters /\ "F" \in Letters /\ "P" \in Letters
  BY DEF Letters
<1> QED
  BY <1>1, <1>2, <1>3, <1>4 DEF Given

LEMMA PositionVector ==
  ASSUME NEW b, b.value \in [Letters -> Int], NEW g, GcValues(g), NEW system \in Vector
  PROVE  Position(b, g, system) \in Vector
<1>1. \A a \in Axes : /\ Given(b, a) \in Int /\ system[a] \in Int /\ g.position[a] \in Int
                      /\ g.coord_offset[a] \in Int /\ ToolLength(g, a) \in Int
  BY GivenInt DEF GcValues, Vector, ToolLength
<1> QED
  BY <1>1 DEF Position, NewOffset, Target, Vector

LEMMA StoredDataVector ==
  ASSUME NEW b, b.value \in [Letters -> Int], NEW g, GcValues(g), NEW stored \in Vector
  PROVE  StoredData(b, g, stored) \in Vector
<1>1. \A a \in Axes : /\ Given(b, a) \in Int /\ stored[a] \in Int /\ g.position[a] \in Int
                      /\ g.coord_offset[a] \in Int /\ ToolLength(g, a) \in Int
  BY GivenInt DEF GcValues, Vector, ToolLength
<1>2. \A a \in Axes : NewData(b, g, a) \in Int
  BY <1>1 DEF NewData
<1> QED
  BY <1>1, <1>2 DEF StoredData, Vector

\* A block that is executed has read sound records.
LEMMA PreparedValues ==
  ASSUME GcValues(gc), eeprom \in [Slots -> Vector \cup {Damaged}],
         NEW b, NEW jog, BlockInv(b, jog, gc.modal),
         ~BadWords(b), FailedRead(b) = {}, ~BadData(b)
  PROVE  /\ BlkValues(Prepare(b))
         /\ Prepare(b).modal = b.modal /\ Prepare(b).system = BlockSystem(b)
<1> DEFINE stored == { eeprom[i] : i \in ReadsSlot(b) }
           record == CHOOSE v \in stored : TRUE
           e == Prepare(b)
<1>1. /\ e.modal = b.modal /\ e.non_modal = b.non_modal /\ e.value = b.value
      /\ e.system = BlockSystem(b) /\ e.target = Position(b, gc, BlockSystem(b))
      /\ e.data = IF stored = {} THEN Zero ELSE StoredData(b, gc, record)
      /\ e.feed = FeedRate(b, gc)
  BY DEF Prepare, BlockInv, BlockFields
<1> HIDE DEF e
<1>2. Unreadable(Selected(b)) = {} /\ Unreadable(ReadsSlot(b)) = {}
  BY DEF FailedRead
<1>3. BlockSystem(b) \in Vector
  <2>1. CASE SelectsCoord(b, gc)
    <3>1. b.modal.coord_select \in Slots
      BY SlotRange DEF BlockInv
    <3>2. eeprom[b.modal.coord_select] # Damaged
      BY <1>2, <2>1 DEF Unreadable, Selected
    <3> QED
      BY <2>1, <3>1, <3>2 DEF BlockSystem
  <2>2. CASE ~SelectsCoord(b, gc)
    BY <2>2 DEF BlockSystem, GcValues
  <2> QED
    BY <2>1, <2>2
<1>4. b.non_modal = "SET_COORDINATE_DATA" => CoordIndex(b) \in 0..(NCoord - 1)
  <2> SUFFICES ASSUME b.non_modal = "SET_COORDINATE_DATA"
               PROVE  CoordIndex(b) \in 0..(NCoord - 1)
    OBVIOUS
  <2>1. b.value["P"] <= NCoord /\ b.value["P"] \in Int
    <3>1. b.value["P"] \in Int
      BY GivenInt DEF BlockInv
    <3>2. ~(b.value["P"] > NCoord)
      BY DEF BadData, CoordDataError
    <3> QED
      BY <3>1, <3>2, BlockAssumption
  <2> QED
    BY <2>1, SlotRange, BlockAssumption DEF CoordIndex, BlockInv
<1>5. \A i \in ReadsSlot(b) : eeprom[i] \in Vector
  <2>1. ReadsSlot(b) \subseteq Slots
    BY <1>4, SlotRange DEF ReadsSlot
  <2> QED
    BY <1>2, <2>1 DEF Unreadable
<1>6. e.data \in Vector
  <2>1. stored # {} => record \in stored
    OBVIOUS
  <2>2. stored # {} => record \in Vector
    <3>1. \A v \in stored : v \in Vector
      BY <1>5
    <3> HIDE DEF stored
    <3> QED
      BY <2>1, <3>1
  <2> HIDE DEF stored, record
  <2> QED
    BY <1>1, <2>2, ZeroVector, StoredDataVector DEF BlockInv
<1>7. e.target \in Vector
  BY <1>1, <1>3, PositionVector DEF BlockInv
<1>8. e.feed \in Int
  BY <1>1, GivenInt DEF FeedRate, BlockInv, GcValues
<1>9. e.modal.coord_select \in 0..5
  BY <1>1 DEF BlockInv
<1>10. CoordIndex(e) = CoordIndex(b)
  BY <1>1 DEF CoordIndex
<1> QED
  BY <1>1, <1>3, <1>4, <1>6, <1>7, <1>8, <1>9, <1>10 DEF BlkValues, e

LEMMA StoppedVector ==
  ASSUME ValuesInv
  PROVE  \A v \in Stopped : v \in Vector
<1>1. ASSUME queue # <<>>
      PROVE  \A d \in PartWay(Head(queue).move) : Plus(mpos, d) \in Vector
  <2>1. Head(queue).move \in Vector
    <3>1. Head(queue) \in Segment
      BY <1>1 DEF ValuesInv
    <3> QED
      BY <3>1 DEF Segment
  <2> QED
    BY <2>1, ZeroVector, PlusMinus DEF ValuesInv, PartWay
<1> QED
  BY <1>1 DEF Stopped, ValuesInv

LEMMA PlanValues ==
  ASSUME ValuesInv, NEW target \in Vector, NEW feed \in Int, Plan(target, feed)
  PROVE  ppos' \in Vector /\ queue' \in Seq(Segment)
<1>1. [move |-> Minus(target, ppos), feed |-> feed] \in Segment
  BY PlusMinus DEF ValuesInv, Segment
<1> QED
  BY <1>1 DEF ValuesInv, Plan

LEMMA MotionValues ==
  ASSUME ValuesInv, NEW target \in Vector, NEW feed \in Int, McLine(target, feed)
  PROVE  mpos' \in Vector /\ ppos' \in Vector /\ queue' \in Seq(Segment)
<1>1. CASE SoftLimitStop
  BY <1>1, StoppedVector DEF SoftLimitStop, ValuesInv
<1>2. CASE UNCHANGED mpos /\ UNCHANGED <<queue, ppos>>
  BY <1>2 DEF ValuesInv
<1>3. CASE UNCHANGED mpos /\ Plan(target, feed)
  BY <1>3, PlanValues DEF ValuesInv
<1> QED
  BY <1>1, <1>2, <1>3 DEF McLine

LEMMA BlkKept ==
  ASSUME ValuesInv, Done, pc \in StageSet
  PROVE  pc' # "ready" => BlkValues(blk')
<1>1. pc' = "ready" \/ blk' = blk
  BY StageGoesOn
<1>2. pc # "ready"
  BY DEF StageSet
<1> QED
  BY <1>1, <1>2 DEF ValuesInv

\* A step that leaves the parser, the records and the machine as they are, or only the modes.
LEMMA ValuesKept ==
  ASSUME ValuesInv, GcValues(gc'), UNCHANGED <<eeprom, mpos, ppos, queue>>,
         pc' # "ready" => BlkValues(blk')
  PROVE  ValuesInv'
  BY DEF ValuesInv, GcValues, BlkValues, CoordIndex

LEMMA InitValues ==
  ASSUME eeprom \in [Slots -> Vector \cup {Damaged}], NEW position \in Vector
  PROVE  /\ GcValues(GcInit(eeprom, position))
         /\ Repaired(eeprom, 0) \in [Slots -> Vector \cup {Damaged}]
<1>1. 0 \in Slots /\ Zero \in Vector
  BY ZeroSlot, ZeroVector
<1> QED
  BY <1>1 DEF GcInit, GcValues, Repaired, ModalDefault

LEMMA ValuesNext ==
  ASSUME RecordsInv, ValuesInv, Next
  PROVE  ValuesInv'
<1>1. ASSUME NEW n \in DOMAIN Lines, NEW l \in Lines[n], Accept(n, l)
      PROVE  ValuesInv'
  <2> DEFINE b == Import(l, gc.modal)
  <2>1. l \in [jog : BOOLEAN, words : Seq(Word)]
    BY GcodeAssumption
  <2>2. BlockInv(b, l.jog, gc.modal)
    BY <2>1, ImportKeeps DEF RecordsInv, ValuesInv, GcValues
  <2>3. /\ ~BadWords(b) /\ FailedRead(b) = {} /\ ~BadData(b) /\ Begin(Prepare(b), 1)
        /\ UNCHANGED <<gc, eeprom, mpos, ppos, queue>>
    BY <1>1 DEF Accept, machine
  <2> HIDE DEF b
  <2>4. BlkValues(Prepare(b))
    BY <2>2, <2>3, PreparedValues DEF ValuesInv
  <2>5. pc' = "ready" \/ blk' = Prepare(b)
    BY <2>3, BeginStage
  <2>6. pc' # "ready" => BlkValues(blk')
    BY <2>4, <2>5
  <2>7. GcValues(gc')
    BY <2>3 DEF ValuesInv
  <2> QED
    BY <2>3, <2>6, <2>7, ValuesKept
<1>2. ASSUME NEW n \in DOMAIN Lines, NEW l \in Lines[n], Reject(n, l)
      PROVE  ValuesInv'
  <2>1. PICK failed : eeprom' = [i \in Slots |-> IF i \in failed THEN Zero ELSE eeprom[i]]
    BY <1>2 DEF Reject
  <2>2. eeprom' \in [Slots -> Vector \cup {Damaged}]
    BY <2>1, ZeroVector DEF ValuesInv
  <2>3. UNCHANGED <<gc, pc, blk, mpos, ppos, queue>>
    BY <1>2 DEF Reject, line, machine
  <2> QED
    BY <2>2, <2>3 DEF ValuesInv, GcValues, BlkValues, CoordIndex
<1>3. CASE SetSpeed
  <2>1. GcValues(gc')
    BY <1>3 DEF SetSpeed, At, ValuesInv, GcValues, BlkValues, RecordsInv, Fields, ModalDefault
  <2> QED
    BY <1>3, <2>1, ValuesKept, BlkKept DEF SetSpeed, At, StageSet, machine
<1>4. CASE SetSpindle
  <2>1. GcValues(gc')
    BY <1>4 DEF SetSpindle, ValuesInv, GcValues, RecordsInv, Fields, ModalDefault
  <2> QED
    BY <1>4, <2>1, ValuesKept, BlkKept DEF SetSpindle, At, StageSet, machine
<1>5. CASE SetCoolant
  <2>1. GcValues(gc')
    BY <1>5 DEF SetCoolant, ValuesInv, GcValues, RecordsInv, Fields, ModalDefault
  <2> QED
    BY <1>5, <2>1, ValuesKept, BlkKept DEF SetCoolant, At, StageSet, machine
<1>6. CASE Dwell
  <2>1. GcValues(gc')
    BY <1>6 DEF Dwell, ValuesInv
  <2> QED
    BY <1>6, <2>1, ValuesKept, BlkKept DEF Dwell, At, StageSet, machine
<1>7. CASE SetToolLength
  <2>1. blk.target[ToolAxis] \in Int
    BY <1>7 DEF SetToolLength, At, ValuesInv, BlkValues, Vector, ToolAxis, Axes
  <2>2. /\ gc'.position = gc.position /\ gc'.coord_system = gc.coord_system
        /\ gc'.coord_offset = gc.coord_offset /\ gc'.feed_rate = gc.feed_rate
        /\ gc'.modal.coord_select = gc.modal.coord_select
    BY <1>7 DEF SetToolLength, RecordsInv, Fields, ModalDefault
  <2>3. gc'.tool_length_offset \in {gc.tool_length_offset, 0, blk.target[ToolAxis]}
    <3>1. CASE blk.command = "TOOL_LENGTH_OFFSET"
      BY <1>7, <3>1 DEF SetToolLength, RecordsInv, Fields
    <3>2. CASE blk.command # "TOOL_LENGTH_OFFSET"
      BY <1>7, <3>2 DEF SetToolLength, RecordsInv, Fields
    <3> QED
      BY <3>1, <3>2
  <2>4. GcValues(gc')
    BY <2>1, <2>2, <2>3 DEF ValuesInv, GcValues
  <2> QED
    BY <1>7, <2>4, ValuesKept, BlkKept DEF SetToolLength, At, StageSet, machine
<1>8. CASE SelectCoord
  <2>1. BlkValues(blk)
    BY <1>8 DEF SelectCoord, At, ValuesInv
  <2>2. GcValues(gc')
    BY <1>8, <2>1 DEF SelectCoord, ValuesInv, GcValues, BlkValues, RecordsInv, Fields,
                      ModalDefault
  <2> QED
    BY <1>8, <2>2, ValuesKept, BlkKept DEF SelectCoord, At, StageSet, machine
<1>9. CASE FlagWcoChange
  <2>1. GcValues(gc')
    BY <1>9 DEF FlagWcoChange, ValuesInv
  <2> QED
    BY <1>9, <2>1, ValuesKept DEF FlagWcoChange, line, machine, ValuesInv
<1>10. CASE WriteCoordData
  <2>1. pc # "ready" /\ blk.non_modal = "SET_COORDINATE_DATA"
    BY <1>10 DEF WriteCoordData, At
  <2>2. BlkValues(blk)
    BY <2>1 DEF ValuesInv
  <2>3. CoordIndex(blk) \in Slots /\ blk.data \in Vector
    BY <2>1, <2>2, SlotRange DEF BlkValues
  <2>4. eeprom' \in [Slots -> Vector \cup {Damaged}]
    BY <1>10, <2>3 DEF WriteCoordData, ValuesInv
  <2>5. GcValues(gc')
    BY <1>10, <2>3 DEF WriteCoordData, ValuesInv, GcValues, RecordsInv, Fields, ModalDefault
  <2>6. pc' # "ready" => BlkValues(blk')
    BY <1>10, BlkKept DEF WriteCoordData, At, StageSet
  <2> QED
    BY <1>10, <2>4, <2>5, <2>6 DEF WriteCoordData, machine, ValuesInv, GcValues, BlkValues,
                                   CoordIndex
<1>11. CASE StoreHome
  <2>1. PICK i \in {G28Slot, G30Slot} : eeprom' = [eeprom EXCEPT ![i] = gc.position]
    BY <1>11 DEF StoreHome
  <2>2. eeprom' \in [Slots -> Vector \cup {Damaged}]
    BY <2>1, SlotRange DEF ValuesInv, GcValues
  <2>3. pc' # "ready" => BlkValues(blk')
    BY <1>11, BlkKept DEF StoreHome, At, StageSet
  <2> QED
    BY <1>11, <2>2, <2>3 DEF StoreHome, machine, ValuesInv, GcValues, BlkValues, CoordIndex
<1>12. CASE SetCoordOffset
  <2>1. blk.target \in Vector
    BY <1>12 DEF SetCoordOffset, At, ValuesInv, BlkValues
  <2>2. GcValues(gc')
    BY <1>12, <2>1, ZeroVector DEF SetCoordOffset, ValuesInv, GcValues, RecordsInv, Fields
  <2> QED
    BY <1>12, <2>2, ValuesKept, BlkKept DEF SetCoordOffset, At, StageSet, machine
<1>13. CASE GoVia
  <2>1. blk.target \in Vector /\ Rapid \in Int
    BY <1>13 DEF GoVia, At, ValuesInv, BlkValues, Rapid
  <2>2. mpos' \in Vector /\ ppos' \in Vector /\ queue' \in Seq(Segment)
    BY <1>13, <2>1, MotionValues DEF GoVia
  <2>3. pc' # "ready" => BlkValues(blk')
    BY <1>13, BlkKept DEF GoVia, At, StageSet
  <2> QED
    BY <1>13, <2>2, <2>3 DEF GoVia, ValuesInv, GcValues, BlkValues, CoordIndex
<1>14. CASE GoHome
  <2>1. blk.data \in Vector /\ Rapid \in Int
    BY <1>14 DEF GoHome, At, ValuesInv, BlkValues, Rapid
  <2>2. mpos' \in Vector /\ ppos' \in Vector /\ queue' \in Seq(Segment)
    BY <1>14, <2>1, MotionValues DEF GoHome
  <2>3. pc' # "ready" => BlkValues(blk')
    BY <1>14, BlkKept DEF GoHome, At, StageSet
  <2>4. GcValues(gc')
    BY <1>14, <2>1 DEF GoHome, ValuesInv, GcValues, RecordsInv, Fields
  <2> QED
    BY <1>14, <2>2, <2>3, <2>4 DEF GoHome, ValuesInv, GcValues, BlkValues, CoordIndex
<1>15. CASE Move
  <2>1. BlkValues(blk) /\ Rapid \in Int
    BY <1>15 DEF Move, At, ValuesInv, Rapid
  <2>2. mpos' \in Vector /\ ppos' \in Vector /\ queue' \in Seq(Segment)
    <3>1. CASE blk.command = "MOTION_MODE"
      <4>1. PICK feed \in Int : McLine(blk.target, feed)
        BY <1>15, <2>1, <3>1 DEF Move, BlkValues
      <4> QED
        BY <2>1, <4>1, MotionValues DEF BlkValues
    <3>2. CASE blk.command # "MOTION_MODE"
      BY <1>15, <3>2 DEF Move, machine, ValuesInv
    <3> QED
      BY <3>1, <3>2
  <2>3. pc' # "ready" => BlkValues(blk')
    BY <1>15, BlkKept DEF Move, At, StageSet
  <2>4. GcValues(gc')
    BY <1>15, <2>1 DEF Move, ValuesInv, GcValues, BlkValues, RecordsInv, Fields, ModalDefault
  <2> QED
    BY <1>15, <2>2, <2>3, <2>4 DEF Move, ValuesInv, GcValues, BlkValues, CoordIndex
<1>16. CASE ProbeRefused
  <2>1. BlkValues(blk)
    BY <1>16 DEF ProbeRefused, At, ValuesInv
  <2>2. GcValues(gc')
    BY <1>16, <2>1 DEF ProbeRefused, ValuesInv, GcValues, BlkValues, RecordsInv, Fields,
                       ModalDefault
  <2> QED
    BY <1>16, <2>2, ValuesKept, BlkKept DEF ProbeRefused, At, StageSet
<1>17. CASE ProbeStart
  <2>1. pc # "ready" /\ blk.target \in Vector /\ blk.feed \in Int
    BY <1>17 DEF ProbeStart, At, ValuesInv, BlkValues
  <2>2. CASE SoftLimitStop
    <3>1. mpos' \in Vector
      BY <2>2, StoppedVector DEF SoftLimitStop
    <3> QED
      BY <1>17, <2>1, <2>2, <3>1 DEF ProbeStart, SoftLimitStop, ValuesInv, GcValues, BlkValues,
                                     CoordIndex
  <2>3. CASE Plan(blk.target, blk.feed) /\ UNCHANGED mpos
    <3>1. ppos' \in Vector /\ queue' \in Seq(Segment)
      BY <2>1, <2>3, PlanValues
    <3> QED
      BY <1>17, <2>1, <2>3, <3>1 DEF ProbeStart, ValuesInv, GcValues, BlkValues, CoordIndex
  <2> QED
    BY <1>17, <2>2, <2>3 DEF ProbeStart
<1>18. CASE ProbeEnd
  <2>1. pc = "probe" /\ Begin(blk, 12)
    BY <1>18, StagesAre DEF ProbeEnd
  <2>2. BlkValues(blk)
    BY <2>1 DEF ValuesInv
  <2>3. pc' # "ready" => BlkValues(blk')
    BY <2>1, <2>2, BeginStage
  <2>4. mpos' \in Vector /\ ppos' \in Vector /\ queue' \in Seq(Segment)
    <3>1. mpos' \in Stopped => mpos' \in Vector
      BY StoppedVector
    <3>2. <<>> \in Seq(Segment)
      OBVIOUS
    <3>3. CASE UNCHANGED <<queue, ppos, mpos>>
      BY <3>3 DEF ValuesInv
    <3>4. CASE queue' = <<>> /\ ppos' = mpos' /\ mpos' \in Stopped
      BY <3>1, <3>2, <3>4
    <3>5. CASE queue' = <<>> /\ ppos' = mpos /\ mpos' = mpos
      BY <3>2, <3>5 DEF ValuesInv
    <3> QED
      BY <1>18, <3>3, <3>4, <3>5 DEF ProbeEnd
  <2>5. PICK position \in Vector : gc' = [gc EXCEPT !.modal.motion = blk.modal.motion,
                                                    !.position = position]
    <3>1. gc.position \in Vector /\ blk.target \in Vector
      BY <2>2 DEF ValuesInv, GcValues, BlkValues
    <3> QED
      BY <1>18, <2>4, <3>1 DEF ProbeEnd
  <2>6. GcValues(gc')
    BY <2>5 DEF ValuesInv, GcValues, RecordsInv, Fields, ModalDefault
  <2>7. UNCHANGED eeprom
    BY <1>18 DEF ProbeEnd
  <2> QED
    BY <2>3, <2>4, <2>6, <2>7 DEF ValuesInv, GcValues, BlkValues, CoordIndex
<1>19. CASE Pause
  <2>1. pc # "ready" /\ UNCHANGED <<eeprom, mpos, ppos, queue>>
    BY <1>19 DEF Pause, At
  <2>2. GcValues(gc')
    BY <1>19 DEF Pause, ValuesInv, GcValues, RecordsInv, Fields, ModalDefault
  <2>3. CASE Done
    BY <1>19, <2>1, <2>2, <2>3, ValuesKept, BlkKept DEF Pause, At, StageSet
  <2>4. CASE UNCHANGED blk
    BY <2>1, <2>2, <2>4, ValuesKept DEF ValuesInv
  <2> QED
    BY <1>19, <2>3, <2>4 DEF Pause
<1>20. CASE ProgramEnd
  <2>1. eeprom' \in [Slots -> Vector \cup {Damaged}]
    <3>1. eeprom' = eeprom \/ eeprom' = Repaired(eeprom, 0)
      BY <1>20 DEF ProgramEnd
    <3> QED
      BY <3>1, InitValues, ZeroVector DEF ValuesInv
  <2>2. eeprom[0] \in Vector \cup {Damaged}
    BY ZeroSlot DEF ValuesInv
  <2>3. /\ gc'.modal.coord_select = 0 /\ gc'.position = gc.position
        /\ gc'.coord_offset = gc.coord_offset /\ gc'.feed_rate = gc.feed_rate
        /\ gc'.tool_length_offset = gc.tool_length_offset
        /\ \/ gc'.coord_system \in {Zero, gc.coord_system}
           \/ gc'.coord_system = eeprom[0] /\ eeprom[0] # Damaged
    BY <1>20 DEF ProgramEnd, RecordsInv, Fields, ModalDefault
  <2>4. GcValues(gc')
    BY <2>2, <2>3, ZeroVector DEF ValuesInv, GcValues
  <2>5. pc' # "ready" => BlkValues(blk')
    BY <1>20, BlkKept DEF ProgramEnd, At, StageSet
  <2> QED
    BY <1>20, <2>1, <2>4, <2>5 DEF ProgramEnd, machine, ValuesInv, GcValues, BlkValues, CoordIndex
<1>21. CASE Jog
  <2>1. blk.target \in Vector /\ blk.feed \in Int
    BY <1>21 DEF Jog, At, ValuesInv, BlkValues
  <2>2. ppos' \in Vector /\ queue' \in Seq(Segment)
    BY <1>21, <2>1, PlanValues DEF Jog, ValuesInv
  <2>3. GcValues(gc')
    BY <1>21, <2>1 DEF Jog, ValuesInv, GcValues, RecordsInv, Fields
  <2> QED
    BY <1>21, <2>2, <2>3 DEF Jog, ValuesInv, GcValues
<1>22. CASE Resume
  <2>1. GcValues(gc')
    BY <1>22 DEF Resume, ValuesInv, GcValues, RecordsInv, Fields, ModalDefault
  <2> QED
    BY <1>22, <2>1, ValuesKept DEF Resume
<1>23. CASE AutoStart
  BY <1>23, ValuesKept DEF AutoStart, line, ValuesInv
<1>24. CASE BlockDone
  <2>1. Head(queue) \in Segment /\ Tail(queue) \in Seq(Segment)
    BY <1>24 DEF BlockDone, ValuesInv
  <2>2. Head(queue).move \in Vector
    BY <2>1 DEF Segment
  <2>3. mpos' \in Vector /\ queue' \in Seq(Segment)
    BY <1>24, <2>1, <2>2, PlusMinus DEF BlockDone, ValuesInv
  <2> QED
    BY <1>24, <2>3 DEF BlockDone, line, ValuesInv, GcValues, BlkValues, CoordIndex
<1>25. CASE JogCancel
  <2>1. mpos' \in Vector /\ queue' = <<>> /\ ppos' = mpos'
    BY <1>25, StoppedVector DEF JogCancel
  <2>2. GcValues(gc')
    BY <1>25, <2>1 DEF JogCancel, ValuesInv, GcValues, RecordsInv, Fields
  <2> QED
    BY <1>25, <2>1, <2>2 DEF JogCancel, line, ValuesInv, GcValues, BlkValues, CoordIndex
<1>26. ASSUME McReset
       PROVE  ValuesInv'
  <2>1. mpos' \in Vector
    BY <1>26, StoppedVector DEF McReset
  <2> QED
    BY <1>26, <2>1 DEF McReset, line, ValuesInv, GcValues, BlkValues, CoordIndex
<1>27. CASE Restart
  <2>1. /\ gc' = GcInit(eeprom, mpos) /\ eeprom' = Repaired(eeprom, 0)
        /\ queue' = <<>> /\ ppos' = mpos /\ mpos' = mpos /\ pc' = pc /\ pc = "ready"
    BY <1>27 DEF Restart, line
  <2>2. GcValues(gc') /\ eeprom' \in [Slots -> Vector \cup {Damaged}]
    BY <2>1, InitValues DEF ValuesInv
  <2> QED
    BY <2>1, <2>2 DEF ValuesInv, GcValues
<1>28. CASE ToggleCheckMode
  <2>1. CASE McReset
    BY <1>26, <2>1
  <2>2. CASE UNCHANGED <<gc, eeprom, line, queue, ppos, mpos>>
    BY <2>2, ValuesKept DEF line, ValuesInv
  <2> QED
    BY <1>28, <2>1, <2>2 DEF ToggleCheckMode
<1>29. CASE Unlock
  BY <1>29, ValuesKept DEF Unlock, line, ValuesInv
<1>30. CASE Home
  <2>1. mpos' \in Vector /\ ppos' \in Vector
    BY <1>30, GcodeAssumption DEF Home
  <2>2. GcValues(gc')
    BY <1>30, GcodeAssumption DEF Home, ValuesInv, GcValues, RecordsInv, Fields
  <2> QED
    BY <1>30, <2>1, <2>2 DEF Home, line, ValuesInv, GcValues, BlkValues, CoordIndex
<1>31. CASE Report
  BY <1>31, ValuesKept DEF Report, line, machine, ValuesInv
<1>32. ASSUME NEW i \in Decaying, Decay(i)
       PROVE  ValuesInv'
  <2>1. eeprom' \in [Slots -> Vector \cup {Damaged}]
    BY <1>32, GcodeAssumption DEF Decay, ValuesInv
  <2> QED
    BY <1>32, <2>1 DEF Decay, line, machine, ValuesInv, GcValues, BlkValues, CoordIndex
<1>33. CASE Reset
  BY <1>26, <1>33 DEF Reset
<1> QED
  BY <1>1, <1>2, <1>3, <1>4, <1>5, <1>6, <1>7, <1>8, <1>9, <1>10, <1>11, <1>12, <1>13, <1>14,
     <1>15, <1>16, <1>17, <1>18, <1>19, <1>20, <1>21, <1>22, <1>23, <1>24, <1>25, <1>27,
     <1>28, <1>29, <1>30, <1>31, <1>32, <1>33 DEF Next, Execute

------------------------------------------------------------------------------
(* The active coordinate system *)

\* The coordinate system in use is the stored one also within a line, unless the line is being
\* checked or the parser is about to be initialised again.  A line that selects a system has
\* read it, and nothing before that stage writes a record.
SystemInv ==
  /\ \A i \in 0..(NCoord - 1) : i \notin decayed => eeprom[i] # Damaged
  /\ ~abort /\ state # "CHECK" /\ gc.modal.coord_select \notin decayed =>
       eeprom[gc.modal.coord_select] = gc.coord_system
  /\ pc \in EarlySet /\ blk.modal.coord_select # gc.modal.coord_select
       /\ blk.modal.coord_select \notin decayed =>
       blk.system = eeprom[blk.modal.coord_select]

\* Check mode ends with an abort only, and an abort with the parser initialised again.
LEMMA ChecksOn ==
  ASSUME OutputInv, Next
  PROVE  /\ abort => abort' \/ Restart
         /\ state = "CHECK" /\ ~abort => state' = "CHECK" \/ abort'
<1>1. ASSUME NEW target, NEW feed, McLine(target, feed)
      PROVE  /\ abort => abort'
             /\ state = "CHECK" /\ ~abort => state' = "CHECK" \/ abort'
  BY <1>1 DEF McLine, SoftLimitStop
<1>2. ASSUME NEW n \in DOMAIN Lines, NEW l \in Lines[n], Accept(n, l) \/ Reject(n, l)
      PROVE  UNCHANGED <<state, abort>>
  BY <1>2 DEF Accept, Reject, machine
<1>3. CASE \/ SetSpeed \/ SetSpindle \/ SetCoolant \/ Dwell \/ SetToolLength \/ SelectCoord
           \/ FlagWcoChange \/ WriteCoordData \/ StoreHome \/ SetCoordOffset \/ ProgramEnd
  BY <1>3 DEF SetSpeed, SetSpindle, SetCoolant, Dwell, SetToolLength, SelectCoord, FlagWcoChange,
              WriteCoordData, StoreHome, SetCoordOffset, ProgramEnd, machine
<1>4. CASE GoVia \/ GoHome
  BY <1>1, <1>4 DEF GoVia, GoHome
<1>5. CASE Move
  BY <1>1, <1>5 DEF Move, machine
<1>6. CASE ProbeRefused \/ ProbeStart \/ ProbeEnd \/ Pause
  BY <1>6 DEF ProbeRefused, ProbeStart, SoftLimitStop, ProbeEnd, Pause
<1>7. CASE Jog \/ Resume \/ AutoStart \/ BlockDone \/ JogCancel \/ Reset
  BY <1>7 DEF Jog, Resume, AutoStart, BlockDone, JogCancel, Reset, McReset, OutputInv
<1>8. CASE ToggleCheckMode \/ Unlock \/ Home \/ Report
  BY <1>8 DEF ToggleCheckMode, McReset, Unlock, Home, Report, machine
<1>9. ASSUME NEW i \in Decaying, Decay(i)
      PROVE  UNCHANGED <<state, abort>>
  BY <1>9 DEF Decay, machine
<1>10. CASE Restart
  BY <1>10 DEF Restart
<1> QED
  BY <1>2, <1>3, <1>4, <1>5, <1>6, <1>7, <1>8, <1>9, <1>10 DEF Next, Execute

\* A step that leaves the selected system and the records alone, and at most ends an early
\* stage.
LEMMA SystemKept ==
  ASSUME SystemInv, OutputInv, Next, ~Restart, UNCHANGED <<eeprom, decayed>>,
         gc'.modal.coord_select = gc.modal.coord_select,
         gc'.coord_system = gc.coord_system,
         pc' \in EarlySet => pc \in EarlySet /\ blk' = blk
  PROVE  SystemInv'
  BY ChecksOn DEF SystemInv

LEMMA EarlyKept ==
  ASSUME Done, pc \in StageSet, pc # "jog"
  PROVE  pc' \in EarlySet => pc \in EarlySet /\ pc # "select" /\ blk' = blk
<1>1. "ready" \notin EarlySet
  BY DEF EarlySet
<1> QED
  BY <1>1, StageGoesOn

LEMMA SystemNext ==
  ASSUME RecordsInv, OutputInv, ValuesInv, SystemInv, Next
  PROVE  SystemInv'
<1> USE DEF history
<1>1. ASSUME NEW n \in DOMAIN Lines, NEW l \in Lines[n], Accept(n, l)
      PROVE  SystemInv'
  <2> DEFINE b == Import(l, gc.modal)
             e == Prepare(b)
  <2>1. l \in [jog : BOOLEAN, words : Seq(Word)]
    BY GcodeAssumption
  <2>2. BlockInv(b, l.jog, gc.modal)
    BY <2>1, ImportKeeps DEF RecordsInv, ValuesInv, GcValues
  <2>3. /\ ~BadWords(b) /\ FailedRead(b) = {} /\ ~BadData(b) /\ Begin(e, 1)
        /\ UNCHANGED <<gc, eeprom, state, abort, decayed>>
    BY <1>1 DEF Accept, machine
  <2> HIDE DEF b
  <2>4. e.modal = b.modal /\ e.system = BlockSystem(b)
    BY <2>2, <2>3, PreparedValues DEF ValuesInv
  <2>5. pc' = "ready" \/ blk' = e
    BY <2>3, BeginStage
  <2>6. e.modal.coord_select # gc.modal.coord_select =>
          e.system = eeprom[e.modal.coord_select]
    BY <2>2, <2>4 DEF BlockInv, BlockSystem, SelectsCoord
  <2>7. "ready" \notin EarlySet
    BY DEF EarlySet
  <2> HIDE DEF e
  <2> QED
    BY <2>3, <2>5, <2>6, <2>7 DEF SystemInv
<1>2. ASSUME NEW n \in DOMAIN Lines, NEW l \in Lines[n], Reject(n, l)
      PROVE  SystemInv'
  <2> DEFINE b == Import(l, gc.modal)
  <2>1. /\ eeprom' = [i \in Slots |-> IF i \in FailedRead(b) THEN Zero ELSE eeprom[i]]
        /\ UNCHANGED <<gc, pc, state, abort, decayed>> /\ pc = "ready"
    BY <1>2 DEF Reject, Taken, line, machine
  <2>2. \A i \in FailedRead(b) : eeprom[i] = Damaged
    BY DEF FailedRead, Unreadable
  <2> HIDE DEF b
  <2>3. \A i \in 0..(NCoord - 1) : /\ eeprom'[i] = eeprom[i] \/ i \in decayed
                                   /\ eeprom'[i] \in {Zero, eeprom[i]}
    BY <2>1, <2>2, SlotRange DEF SystemInv
  <2>4. gc.modal.coord_select \in 0..(NCoord - 1)
    BY SlotRange DEF ValuesInv, GcValues
  <2>5. pc' \notin EarlySet
    BY <2>1 DEF EarlySet
  <2> QED
    BY <2>1, <2>3, <2>4, <2>5 DEF SystemInv
<1>3. CASE SetSpeed
  <2>1. /\ gc'.modal.coord_select = gc.modal.coord_select
        /\ gc'.coord_system = gc.coord_system
    BY <1>3 DEF SetSpeed, RecordsInv, Fields, ModalDefault
  <2> QED
    BY <1>3, <2>1, SystemKept, EarlyKept DEF SetSpeed, At, StageSet, EarlySet, Restart
<1>4. CASE SetSpindle
  <2>1. /\ gc'.modal.coord_select = gc.modal.coord_select
        /\ gc'.coord_system = gc.coord_system
    BY <1>4 DEF SetSpindle, RecordsInv, Fields, ModalDefault
  <2> QED
    BY <1>4, <2>1, SystemKept, EarlyKept DEF SetSpindle, At, StageSet, EarlySet, Restart
<1>5. CASE SetCoolant
  <2>1. /\ gc'.modal.coord_select = gc.modal.coord_select
        /\ gc'.coord_system = gc.coord_system
    BY <1>5 DEF SetCoolant, RecordsInv, Fields, ModalDefault
  <2> QED
    BY <1>5, <2>1, SystemKept, EarlyKept DEF SetCoolant, At, StageSet, EarlySet, Restart
<1>6. CASE Dwell
  BY <1>6, SystemKept, EarlyKept DEF Dwell, At, StageSet, EarlySet, Restart
<1>7. CASE SetToolLength
  <2>1. /\ gc'.modal.coord_select = gc.modal.coord_select
        /\ gc'.coord_system = gc.coord_system
    BY <1>7 DEF SetToolLength, RecordsInv, Fields, ModalDefault
  <2> QED
    BY <1>7, <2>1, SystemKept, EarlyKept DEF SetToolLength, At, StageSet, EarlySet, Restart
<1>8. CASE SelectCoord
  <2>1. pc = "select" /\ UNCHANGED <<eeprom, state, abort, decayed>>
    BY <1>8 DEF SelectCoord, At, machine
  <2>2. pc' \notin EarlySet
    BY <1>8, <2>1, EarlyKept DEF SelectCoord, StageSet
  <2>3. /\ gc'.modal.coord_select = blk.modal.coord_select
        /\ gc'.coord_system = IF blk.modal.coord_select # gc.modal.coord_select
                              THEN blk.system ELSE gc.coord_system
    BY <1>8 DEF SelectCoord, RecordsInv, Fields, ModalDefault
  <2>4. pc \in EarlySet
    BY <2>1 DEF EarlySet
  <2> QED
    BY <2>1, <2>2, <2>3, <2>4 DEF SystemInv
<1>9. CASE FlagWcoChange
  BY <1>9, SystemKept DEF FlagWcoChange, line, Restart
<1>10. CASE WriteCoordData
  <2> DEFINE i == CoordIndex(blk)
  <2>1. /\ pc = "data" /\ blk.non_modal = "SET_COORDINATE_DATA"
        /\ UNCHANGED <<state, abort, decayed>> /\ eeprom' = [eeprom EXCEPT ![i] = blk.data]
        /\ gc' = IF i = gc.modal.coord_select THEN [gc EXCEPT !.coord_system = blk.data] ELSE gc
    BY <1>10 DEF WriteCoordData, At, machine
  <2>2. i \in Slots /\ blk.data \in Vector
    BY <2>1, SlotRange DEF ValuesInv, BlkValues
  <2>3. pc' \notin EarlySet
    BY <1>10, <2>1, EarlyKept DEF WriteCoordData, StageSet, EarlySet
  <2>4. gc.modal.coord_select \in Slots
    BY SlotRange DEF ValuesInv, GcValues
  <2> HIDE DEF i
  <2>5. \A j \in Slots : eeprom'[j] = IF j = i THEN blk.data ELSE eeprom[j]
    BY <2>1 DEF ValuesInv
  <2>6. /\ gc'.modal.coord_select = gc.modal.coord_select
        /\ gc'.coord_system = IF i = gc.modal.coord_select THEN blk.data ELSE gc.coord_system
    BY <2>1 DEF RecordsInv, Fields
  <2>7. blk.data # Damaged
    BY <2>2, VectorNotDamaged
  <2> QED
    BY <2>1, <2>3, <2>4, <2>5, <2>6, <2>7, SlotRange DEF SystemInv
<1>11. CASE StoreHome
  <2>1. PICK i \in {G28Slot, G30Slot} : eeprom' = [eeprom EXCEPT ![i] = gc.position]
    BY <1>11 DEF StoreHome
  <2>2. \A j \in 0..(NCoord - 1) : eeprom'[j] = eeprom[j]
    BY <2>1, SlotRange DEF ValuesInv
  <2>3. pc' \notin EarlySet
    BY <1>11, EarlyKept DEF StoreHome, At, StageSet, EarlySet
  <2>4. gc.modal.coord_select \in 0..(NCoord - 1)
    BY SlotRange DEF ValuesInv, GcValues
  <2>5. UNCHANGED <<gc, state, abort, decayed>>
    BY <1>11 DEF StoreHome, machine
  <2> QED
    BY <2>2, <2>3, <2>4, <2>5 DEF SystemInv
<1>12. CASE SetCoordOffset
  <2>1. /\ gc'.modal.coord_select = gc.modal.coord_select
        /\ gc'.coord_system = gc.coord_system
    BY <1>12 DEF SetCoordOffset, RecordsInv, Fields
  <2> QED
    BY <1>12, <2>1, SystemKept, EarlyKept DEF SetCoordOffset, At, StageSet, EarlySet, Restart
<1>13. CASE GoVia
  BY <1>13, SystemKept, EarlyKept DEF GoVia, At, StageSet, EarlySet, Restart
<1>14. CASE GoHome
  <2>1. /\ gc'.modal.coord_select = gc.modal.coord_select
        /\ gc'.coord_system = gc.coord_system
    BY <1>14 DEF GoHome, RecordsInv, Fields
  <2> QED
    BY <1>14, <2>1, SystemKept, EarlyKept DEF GoHome, At, StageSet, EarlySet, Restart
<1>15. CASE Move
  <2>1. /\ gc'.modal.coord_select = gc.modal.coord_select
        /\ gc'.coord_system = gc.coord_system
    BY <1>15 DEF Move, RecordsInv, Fields, ModalDefault
  <2> QED
    BY <1>15, <2>1, SystemKept, EarlyKept DEF Move, At, StageSet, EarlySet, Restart
<1>16. CASE ProbeRefused
  <2>1. /\ gc'.modal.coord_select = gc.modal.coord_select
        /\ gc'.coord_system = gc.coord_system
    BY <1>16 DEF ProbeRefused, RecordsInv, Fields, ModalDefault
  <2> QED
    BY <1>16, <2>1, SystemKept, EarlyKept DEF ProbeRefused, At, StageSet, EarlySet, Restart
<1>17. CASE ProbeStart
  BY <1>17, SystemKept DEF ProbeStart, At, EarlySet, Restart
<1>18. CASE ProbeEnd
  <2>1. pc = "probe" /\ Begin(blk, 12) /\ UNCHANGED <<eeprom, decayed>>
    BY <1>18, StagesAre DEF ProbeEnd
  <2>2. pc' \in {"ready", "flow"}
    BY <2>1, NextStage, StagesAre
  <2>3. /\ gc'.modal.coord_select = gc.modal.coord_select
        /\ gc'.coord_system = gc.coord_system
    BY <1>18 DEF ProbeEnd, RecordsInv, Fields, ModalDefault
  <2> QED
    BY <2>1, <2>2, <2>3, SystemKept DEF EarlySet, Restart
<1>19. CASE Pause
  <2>1. /\ gc'.modal.coord_select = gc.modal.coord_select
        /\ gc'.coord_system = gc.coord_system
    BY <1>19 DEF Pause, RecordsInv, Fields, ModalDefault
  <2>2. pc' \notin EarlySet
    BY <1>19, EarlyKept DEF Pause, At, StageSet, EarlySet
  <2> QED
    BY <1>19, <2>1, <2>2, SystemKept DEF Pause, At, Restart
<1>20. CASE ProgramEnd
  <2>1. pc' \notin EarlySet
    BY <1>20, EarlyKept DEF ProgramEnd, At, StageSet, EarlySet
  <2>2. UNCHANGED <<state, abort, decayed>>
    BY <1>20 DEF ProgramEnd, machine
  <2>3. gc'.modal.coord_select = 0
    BY <1>20 DEF ProgramEnd, RecordsInv, Fields, ModalDefault
  <2>4. CASE state # "CHECK" /\ eeprom[0] = Damaged
    <3>1. eeprom' = Repaired(eeprom, 0) /\ gc'.coord_system = Zero
      BY <1>20, <2>4 DEF ProgramEnd, RecordsInv, Fields, ModalDefault
    <3>2. eeprom' = [eeprom EXCEPT ![0] = Zero]
      BY <2>4, <3>1 DEF Repaired
    <3> QED
      BY <2>1, <2>2, <2>3, <3>1, <3>2, ZeroSlot, SlotRange DEF SystemInv, ValuesInv
  <2>5. CASE state # "CHECK" /\ eeprom[0] # Damaged
    <3>1. eeprom' = eeprom /\ gc'.coord_system = eeprom[0]
      BY <1>20, <2>5 DEF ProgramEnd, RecordsInv, Fields, ModalDefault
    <3> QED
      BY <2>1, <2>2, <2>3, <3>1 DEF SystemInv
  <2>6. CASE state = "CHECK"
    <3>1. eeprom' = eeprom
      BY <1>20, <2>6 DEF ProgramEnd
    <3> QED
      BY <2>1, <2>2, <2>6, <3>1 DEF SystemInv
  <2> QED
    BY <2>4, <2>5, <2>6
<1>21. CASE Jog
  <2>1. /\ gc'.modal.coord_select = gc.modal.coord_select
        /\ gc'.coord_system = gc.coord_system
    BY <1>21 DEF Jog, RecordsInv, Fields
  <2> QED
    BY <1>21, <2>1, SystemKept DEF Jog, At, EarlySet, Restart
<1>22. CASE Resume
  <2>1. /\ gc'.modal.coord_select = gc.modal.coord_select
        /\ gc'.coord_system = gc.coord_system
    BY <1>22 DEF Resume, RecordsInv, Fields, ModalDefault
  <2> QED
    BY <1>22, <2>1, SystemKept DEF Resume, EarlySet, Restart
<1>23. CASE AutoStart
  BY <1>23, SystemKept DEF AutoStart, line, Restart
<1>24. CASE BlockDone
  BY <1>24, SystemKept DEF BlockDone, line, Restart
<1>25. CASE JogCancel
  <2>1. /\ gc'.modal.coord_select = gc.modal.coord_select
        /\ gc'.coord_system = gc.coord_system
    BY <1>25 DEF JogCancel, RecordsInv, Fields
  <2> QED
    BY <1>25, <2>1, SystemKept DEF JogCancel, line, Restart
<1>26. CASE Reset
  BY <1>26, SystemKept DEF Reset, McReset, line, Restart
<1>27. CASE Restart
  <2>1. /\ gc' = GcInit(eeprom, mpos) /\ eeprom' = Repaired(eeprom, 0)
        /\ UNCHANGED <<decayed, pc>> /\ pc = "ready"
    BY <1>27 DEF Restart, line
  <2>2. /\ gc'.modal.coord_select = 0
        /\ gc'.coord_system = IF eeprom[0] = Damaged THEN Zero ELSE eeprom[0]
    BY <2>1 DEF GcInit, ModalDefault
  <2>3. pc' \notin EarlySet
    BY <2>1 DEF EarlySet
  <2>4. CASE eeprom[0] = Damaged
    <3>1. eeprom' = [eeprom EXCEPT ![0] = Zero]
      BY <2>1, <2>4 DEF Repaired
    <3> QED
      BY <2>1, <2>2, <2>3, <2>4, <3>1, ZeroSlot, SlotRange DEF SystemInv, ValuesInv
  <2>5. CASE eeprom[0] # Damaged
    <3>1. eeprom' = eeprom
      BY <2>1, <2>5 DEF Repaired
    <3> QED
      BY <2>1, <2>2, <2>3, <2>5, <3>1 DEF SystemInv
  <2> QED
    BY <2>4, <2>5
<1>28. CASE ToggleCheckMode
  BY <1>28, SystemKept DEF ToggleCheckMode, McReset, line, Restart
<1>29. CASE Unlock
  BY <1>29, SystemKept DEF Unlock, line, Restart
<1>30. CASE Home
  <2>1. /\ gc'.modal.coord_select = gc.modal.coord_select
        /\ gc'.coord_system = gc.coord_system
    BY <1>30 DEF Home, RecordsInv, Fields
  <2> QED
    BY <1>30, <2>1, SystemKept DEF Home, line, Restart
<1>31. CASE Report
  BY <1>31, SystemKept DEF Report, line, machine, Restart
<1>32. ASSUME NEW i \in Decaying, Decay(i)
      PROVE  SystemInv'
  <2>1. /\ eeprom' = [eeprom EXCEPT ![i] = Damaged] /\ decayed' = decayed \cup {i}
        /\ UNCHANGED <<gc, pc, blk, state, abort>>
    BY <1>32 DEF Decay, line, machine
  <2>2. \A j \in Slots : j \notin decayed' => eeprom'[j] = eeprom[j] /\ j \notin decayed
    BY <2>1 DEF ValuesInv
  <2>3. gc.modal.coord_select \in Slots
    BY SlotRange DEF ValuesInv, GcValues
  <2>4. pc \in EarlySet => blk.modal.coord_select \in Slots
    BY SlotRange DEF ValuesInv, BlkValues, EarlySet
  <2> QED
    BY <2>1, <2>2, <2>3, <2>4, SlotRange DEF SystemInv
<1> QED
  BY <1>1, <1>2, <1>3, <1>4, <1>5, <1>6, <1>7, <1>8, <1>9, <1>10, <1>11, <1>12, <1>13, <1>14,
     <1>15, <1>16, <1>17, <1>18, <1>19, <1>20, <1>21, <1>22, <1>23, <1>24, <1>25, <1>26,
     <1>27, <1>28, <1>29, <1>30, <1>31, <1>32 DEF Next, Execute

------------------------------------------------------------------------------
(* Positions *)

\* The motions of q lead from one position to the other: there are positions between them,
\* each one motion after the one before.
Leads(from, q, to) ==
  \E p \in [0..Len(q) -> Vector] :
    /\ p[0] = from /\ p[Len(q)] = to
    /\ \A i \in 1..Len(q) : p[i] = Plus(p[i - 1], q[i].move)

\* The queue leads from where the machine is to where the planner ends, and the parser is
\* there, but for check mode, a probe cycle, and a line between the intermediate point and the
\* stored position of G28 and G30.  While a probe cycle waits nothing but its motion is queued.
PlaceInv ==
  /\ state = "JOG" => queue # <<>>
  /\ pc = "via" => HomeMove(blk)
  /\ ~abort =>
       /\ homedOver \/ Leads(mpos, queue, ppos)
       /\ homedOver \/ state = "CHECK" \/ pc \in {"probe", "home"} \/ gc.position = ppos
       /\ pc = "probe" => /\ ppos = blk.target /\ state # "JOG"
                          /\ queue = <<>> \/ state = "CYCLE"

LEMMA LeadsNowhere ==
  ASSUME NEW v \in Vector
  PROVE  Leads(v, <<>>, v) /\ \A w : Leads(v, <<>>, w) => w = v
<1>1. Leads(v, <<>>, v)
  <2> DEFINE p == [i \in 0..0 |-> v]
  <2>1. p \in [0..0 -> Vector] /\ p[0] = v
    OBVIOUS
  <2>2. Len(<<>>) = 0 /\ 1..0 = {}
    OBVIOUS
  <2> HIDE DEF p
  <2> QED
    BY <2>1, <2>2 DEF Leads
<1>2. ASSUME NEW w, Leads(v, <<>>, w)
      PROVE  w = v
  BY <1>2 DEF Leads
<1> QED
  BY <1>1, <1>2

LEMMA LeadsOn ==
  ASSUME NEW q \in Seq(Segment), NEW from, NEW to \in Vector, Leads(from, q, to),
         NEW target \in Vector, NEW feed \in Int
  PROVE  Leads(from, Append(q, [move |-> Minus(target, to), feed |-> feed]), target)
<1> DEFINE n == Len(q)
           last == [move |-> Minus(target, to), feed |-> feed]
           r == Append(q, last)
<1>1. PICK p \in [0..n -> Vector] :
        /\ p[0] = from /\ p[n] = to
        /\ \A i \in 1..n : p[i] = Plus(p[i - 1], q[i].move)
  BY DEF Leads
<1> DEFINE s == [i \in 0..(n + 1) |-> IF i = n + 1 THEN target ELSE p[i]]
<1>2. n \in Nat
  OBVIOUS
<1>3. Len(r) = n + 1 /\ r[n + 1] = last /\ \A i \in 1..n : r[i] = q[i]
  OBVIOUS
<1> HIDE DEF n, r
<1>4. s \in [0..(n + 1) -> Vector] /\ s[0] = from /\ s[n + 1] = target
  BY <1>1, <1>2
<1>5. ASSUME NEW i \in 1..(n + 1)
      PROVE  s[i] = Plus(s[i - 1], r[i].move)
  <2>1. CASE i = n + 1
    <3>1. s[i - 1] = to /\ s[i] = target /\ r[i].move = Minus(target, to)
      BY <1>1, <1>2, <1>3, <2>1
    <3> QED
      BY <3>1, PlusMinus
  <2>2. CASE i # n + 1
    <3>1. i \in 1..n /\ s[i] = p[i] /\ s[i - 1] = p[i - 1] /\ r[i] = q[i]
      BY <1>2, <1>3, <2>2
    <3> QED
      BY <1>1, <3>1
  <2> QED
    BY <2>1, <2>2
<1> HIDE DEF s
<1> QED
  BY <1>3, <1>4, <1>5 DEF Leads, r

LEMMA LeadsFrom ==
  ASSUME NEW q \in Seq(Segment), q # <<>>, NEW from, NEW to, Leads(from, q, to)
  PROVE  Leads(Plus(from, Head(q).move), Tail(q), to)
<1> DEFINE n == Len(q)
           r == Tail(q)
<1>1. PICK p \in [0..n -> Vector] :
        /\ p[0] = from /\ p[n] = to
        /\ \A i \in 1..n : p[i] = Plus(p[i - 1], q[i].move)
  BY DEF Leads
<1>2. n \in Nat \ {0} /\ Head(q) = q[1] /\ Len(r) = n - 1 /\ \A i \in 1..(n - 1) : r[i] = q[i + 1]
  OBVIOUS
<1> DEFINE s == [i \in 0..(n - 1) |-> p[i + 1]]
<1> HIDE DEF n, r
<1>3. s \in [0..(n - 1) -> Vector] /\ s[0] = p[1] /\ s[n - 1] = to
  BY <1>1, <1>2
<1>4. s[0] = Plus(from, Head(q).move)
  BY <1>1, <1>2, <1>3
<1>5. ASSUME NEW i \in 1..(n - 1)
      PROVE  s[i] = Plus(s[i - 1], r[i].move)
  <2>1. s[i] = p[i + 1] /\ s[i - 1] = p[i] /\ r[i] = q[i + 1] /\ i + 1 \in 1..n /\ (i + 1) - 1 = i
    BY <1>2
  <2> QED
    BY <1>1, <2>1
<1> HIDE DEF s
<1> QED
  BY <1>2, <1>3, <1>4, <1>5 DEF Leads, r

LEMMA PlanLeads ==
  ASSUME ValuesInv, NEW target \in Vector, NEW feed \in Int, Plan(target, feed)
  PROVE  /\ Leads(mpos, queue, ppos) => Leads(mpos, queue', ppos')
         /\ ppos' = target /\ (queue' = <<>> => queue = <<>>)
<1>1. queue \in Seq(Segment) /\ ppos \in Vector
  BY DEF ValuesInv
<1>2. CASE target = ppos
  BY <1>2 DEF Plan
<1>3. CASE target # ppos
  <2>1. queue' = Append(queue, [move |-> Minus(target, ppos), feed |-> feed]) /\ ppos' = target
    BY <1>3 DEF Plan
  <2>2. Leads(mpos, queue, ppos) => Leads(mpos, queue', target)
    BY <1>1, <2>1, LeadsOn
  <2>3. queue' # <<>>
    BY <1>1, <2>1
  <2> QED
    BY <2>1, <2>2, <2>3
<1> QED
  BY <1>2, <1>3

\* A motion that the parser asked for: an alarm, or it is planned unless it is only checked.
LEMMA MotionPlace ==
  ASSUME ValuesInv, NEW target \in Vector, NEW feed \in Int, McLine(target, feed)
  PROVE  \/ abort' = TRUE /\ state' = "ALARM"
         \/ /\ UNCHANGED <<state, abort, mpos>>
            /\ abort \/ (Leads(mpos, queue, ppos) => Leads(mpos, queue', ppos'))
            /\ abort \/ state = "CHECK" \/ ppos' = target
            /\ queue' = <<>> => queue = <<>>
  BY PlanLeads DEF McLine, SoftLimitStop

\* A step between stages that moves nothing.
LEMMA PlaceKept ==
  ASSUME PlaceInv, UNCHANGED <<abort, mpos, queue, ppos, homedOver>>,
         gc'.position = gc.position,
         state' = "JOG" => state = "JOG",
         state = "CHECK" => abort \/ state' = "CHECK",
         pc \notin {"probe", "home"}, pc' # "probe", pc' = "via" => HomeMove(blk')
  PROVE  PlaceInv'
  BY DEF PlaceInv

\* A step beside the line that moves nothing.
LEMMA PlaceStill ==
  ASSUME PlaceInv, UNCHANGED <<abort, mpos, queue, ppos, homedOver, pc, blk>>,
         gc'.position = gc.position,
         state' = "JOG" => state = "JOG",
         state = "CHECK" => abort \/ state' = "CHECK",
         state = "CYCLE" => state' = "CYCLE"
  PROVE  PlaceInv'
  BY DEF PlaceInv, HomeMove

LEMMA WorkHome ==
  ASSUME NEW e, Work(e, "home")
  PROVE  HomeMove(e)
  BY DEF Work, HomeMove

LEMMA HomeWork ==
  ASSUME NEW e, HomeMove(e)
  PROVE  Work(e, "home")
  BY DEF Work, HomeMove

LEMMA PlaceStage ==
  ASSUME Done, pc \in StageSet
  PROVE  pc' # "probe" /\ (pc' = "via" => HomeMove(blk'))
  BY StageGoesOn, WorkHome

\* A motion that the parser asked for, and expects to end at.
LEMMA PlaceMoved ==
  ASSUME ValuesInv, PlaceInv, NEW target \in Vector, NEW feed \in Int, McLine(target, feed),
         UNCHANGED homedOver, pc' # "probe", pc' = "via" => HomeMove(blk'),
         pc' = "home" \/ gc'.position = target
  PROVE  PlaceInv'
<1>1. CASE abort' = TRUE /\ state' = "ALARM"
  BY <1>1 DEF PlaceInv
<1>2. CASE /\ UNCHANGED <<state, abort, mpos>>
           /\ abort \/ (Leads(mpos, queue, ppos) => Leads(mpos, queue', ppos'))
           /\ abort \/ state = "CHECK" \/ ppos' = target
           /\ queue' = <<>> => queue = <<>>
  <2>1. state' = "JOG" => queue' # <<>>
    BY <1>2 DEF PlaceInv
  <2>2. ASSUME ~abort'
        PROVE  /\ homedOver' \/ Leads(mpos', queue', ppos')
               /\ state' = "CHECK" \/ pc' = "home" \/ gc'.position = ppos'
    <3>1. ~abort
      BY <1>2, <2>2
    <3>2. homedOver' \/ Leads(mpos, queue', ppos')
      BY <1>2, <3>1 DEF PlaceInv
    <3> QED
      BY <1>2, <3>1, <3>2
  <2> QED
    BY <2>1, <2>2 DEF PlaceInv
<1> QED
  BY <1>1, <1>2, MotionPlace

LEMMA PlaceNext ==
  ASSUME RecordsInv, OutputInv, ValuesInv, PlaceInv, Next
  PROVE  PlaceInv'
<1>1. ASSUME NEW n \in DOMAIN Lines, NEW l \in Lines[n], Accept(n, l)
      PROVE  PlaceInv'
  <2>1. PICK e : Begin(e, 1)
    BY <1>1 DEF Accept
  <2>2. pc' # "probe" /\ (pc' = "via" => HomeMove(blk'))
    <3>1. pc' \notin {"paused", "probe"}
      BY <2>1, BeginStage
    <3>2. ASSUME pc' = "via"
          PROVE  HomeMove(blk')
      <4>1. "via" # "ready"
        OBVIOUS
      <4>2. blk' = e /\ Work(e, "via")
        BY <2>1, <3>2, <4>1, NextStage
      <4> QED
        BY <4>2, WorkVia, WorkHome
    <3> QED
      BY <3>1, <3>2
  <2>3. UNCHANGED <<gc, state, abort, mpos, queue, ppos, homedOver>> /\ pc = "ready"
    BY <1>1 DEF Accept, Taken, machine, history
  <2> QED
    BY <2>2, <2>3, PlaceKept
<1>2. ASSUME NEW n \in DOMAIN Lines, NEW l \in Lines[n], Reject(n, l)
      PROVE  PlaceInv'
  BY <1>2, PlaceStill DEF Reject, line, machine, history
<1>3. CASE SetSpeed
  <2>1. gc'.position = gc.position
    BY <1>3 DEF SetSpeed, RecordsInv, Fields
  <2> QED
    BY <1>3, <2>1, PlaceKept, PlaceStage DEF SetSpeed, At, StageSet, machine, history
<1>4. CASE SetSpindle
  <2>1. gc'.position = gc.position
    BY <1>4 DEF SetSpindle, RecordsInv, Fields
  <2> QED
    BY <1>4, <2>1, PlaceKept, PlaceStage DEF SetSpindle, At, StageSet, machine, history
<1>5. CASE SetCoolant
  <2>1. gc'.position = gc.position
    BY <1>5 DEF SetCoolant, RecordsInv, Fields
  <2> QED
    BY <1>5, <2>1, PlaceKept, PlaceStage DEF SetCoolant, At, StageSet, machine, history
<1>6. CASE Dwell
  BY <1>6, PlaceKept, PlaceStage DEF Dwell, At, StageSet, machine, history
<1>7. CASE SetToolLength
  <2>1. gc'.position = gc.position
    BY <1>7 DEF SetToolLength, RecordsInv, Fields
  <2> QED
    BY <1>7, <2>1, PlaceKept, PlaceStage DEF SetToolLength, At, StageSet, machine, history
<1>8. CASE SelectCoord
  <2>1. gc'.position = gc.position
    BY <1>8 DEF SelectCoord, RecordsInv, Fields
  <2> QED
    BY <1>8, <2>1, PlaceKept, PlaceStage DEF SelectCoord, At, StageSet, machine, history
<1>9. CASE FlagWcoChange
  BY <1>9, PlaceStill DEF FlagWcoChange, line, machine, history
<1>10. CASE WriteCoordData
  <2>1. gc'.position = gc.position
    BY <1>10 DEF WriteCoordData, RecordsInv, Fields
  <2> QED
    BY <1>10, <2>1, PlaceKept, PlaceStage DEF WriteCoordData, At, StageSet, machine, history
<1>11. CASE StoreHome
  BY <1>11, PlaceKept, PlaceStage DEF StoreHome, At, StageSet, machine, history
<1>12. CASE SetCoordOffset
  <2>1. gc'.position = gc.position
    BY <1>12 DEF SetCoordOffset, RecordsInv, Fields
  <2> QED
    BY <1>12, <2>1, PlaceKept, PlaceStage DEF SetCoordOffset, At, StageSet, machine, history
<1>13. CASE GoVia
  <2>1. pc = "via" /\ blk.target \in Vector /\ Rapid \in Int
    BY <1>13 DEF GoVia, At, ValuesInv, BlkValues, Rapid
  <2>2. McLine(blk.target, Rapid) /\ UNCHANGED <<gc, homedOver>>
    BY <1>13 DEF GoVia, history
  <2>3. pc' = "home"
    <3>1. Work(blk, "home")
      BY <2>1, HomeWork DEF PlaceInv
    <3> QED
      BY <1>13, <2>1, <3>1, StageGoesOn DEF GoVia, StageSet
  <2> QED
    BY <2>1, <2>2, <2>3, PlaceMoved
<1>14. CASE GoHome
  <2>1. pc = "home" /\ blk.data \in Vector /\ Rapid \in Int
    BY <1>14 DEF GoHome, At, ValuesInv, BlkValues, Rapid
  <2>2. McLine(blk.data, Rapid) /\ gc'.position = blk.data /\ UNCHANGED homedOver
    BY <1>14 DEF GoHome, history, RecordsInv, Fields
  <2>3. pc' # "probe" /\ (pc' = "via" => HomeMove(blk'))
    BY <1>14, <2>1, PlaceStage DEF GoHome, StageSet
  <2> QED
    BY <2>1, <2>2, <2>3, PlaceMoved
<1>15. CASE Move
  <2>1. pc = "motion" /\ blk.target \in Vector /\ blk.feed \in Int /\ Rapid \in Int
    BY <1>15 DEF Move, At, ValuesInv, BlkValues, Rapid
  <2>2. pc' # "probe" /\ (pc' = "via" => HomeMove(blk'))
    BY <1>15, <2>1, PlaceStage DEF Move, StageSet
  <2>3. CASE blk.command = "MOTION_MODE"
    <3>1. PICK feed \in Int : McLine(blk.target, feed)
      BY <1>15, <2>1, <2>3 DEF Move
    <3>2. gc'.position = blk.target /\ UNCHANGED homedOver
      BY <1>15, <2>3 DEF Move, RecordsInv, Fields, history
    <3> QED
      BY <2>1, <2>2, <3>1, <3>2, PlaceMoved
  <2>4. CASE blk.command # "MOTION_MODE"
    <3>1. gc'.position = gc.position
      BY <1>15, <2>4 DEF Move, RecordsInv, Fields
    <3> QED
      BY <1>15, <2>1, <2>2, <2>4, <3>1, PlaceKept DEF Move, machine, history
  <2> QED
    BY <2>3, <2>4
<1>16. CASE ProbeRefused
  <2>1. pc = "motion" /\ UNCHANGED <<abort, mpos, queue, ppos, homedOver>>
    BY <1>16 DEF ProbeRefused, At, history
  <2>2. pc' # "probe" /\ (pc' = "via" => HomeMove(blk'))
    BY <1>16, <2>1, PlaceStage DEF ProbeRefused, StageSet
  <2>3. state # "CHECK" => gc'.position = gc.position
    BY <1>16 DEF ProbeRefused, RecordsInv, Fields
  <2>4. /\ state' \in {state, "ALARM"}
        /\ state = "CHECK" => state' = "CHECK"
    BY <1>16 DEF ProbeRefused
  <2> QED
    BY <2>1, <2>2, <2>3, <2>4 DEF PlaceInv
<1>17. CASE ProbeStart
  <2>1. /\ pc = "motion" /\ pc' = "probe" /\ queue = <<>> /\ UNCHANGED <<blk, homedOver>>
        /\ ~abort /\ blk.target \in Vector /\ blk.feed \in Int
    BY <1>17 DEF ProbeStart, At, Synced, history, ValuesInv, BlkValues
  <2>2. CASE SoftLimitStop
    BY <2>1, <2>2 DEF SoftLimitStop, PlaceInv
  <2>3. CASE /\ Plan(blk.target, blk.feed) /\ UNCHANGED <<abort, mpos>>
             /\ state' = IF queue' = <<>> THEN state ELSE "CYCLE"
    BY <2>1, <2>3, PlanLeads DEF PlaceInv
  <2> QED
    BY <1>17, <2>2, <2>3 DEF ProbeStart
<1>18. CASE ProbeEnd
  <2>1. pc = "probe" /\ Begin(blk, 12) /\ UNCHANGED <<abort, homedOver>>
    BY <1>18, StagesAre DEF ProbeEnd, history
  <2>2. pc' \in {"ready", "flow"}
    BY <2>1, NextStage, StagesAre
  <2>3. CASE abort /\ UNCHANGED <<state, queue, ppos, mpos>>
    BY <2>1, <2>2, <2>3 DEF PlaceInv
  <2>4. CASE /\ mpos' \in Stopped /\ gc'.position = mpos'
             /\ state' = "IDLE" /\ queue' = <<>> /\ ppos' = mpos'
    BY <2>1, <2>2, <2>4, StoppedVector, LeadsNowhere DEF PlaceInv
  <2>5. CASE /\ state = "IDLE" /\ ~abort /\ gc'.position = blk.target
             /\ ppos' = mpos /\ queue' = <<>> /\ mpos' = mpos /\ state' \in {state, "ALARM"}
    <3>1. queue = <<>> /\ ppos = blk.target
      BY <2>1, <2>5 DEF PlaceInv
    <3>2. homedOver \/ ppos = mpos
      BY <2>5, <3>1, LeadsNowhere DEF PlaceInv, ValuesInv
    <3>3. Leads(mpos', queue', ppos')
      BY <2>5, LeadsNowhere DEF ValuesInv
    <3> QED
      BY <2>1, <2>2, <2>5, <3>1, <3>2, <3>3 DEF PlaceInv
  <2>6. \A position : gc' = [gc EXCEPT !.modal.motion = blk.modal.motion,
                                       !.position = position] => gc'.position = position
    BY DEF RecordsInv, Fields
  <2> QED
    BY <1>18, <2>3, <2>4, <2>5, <2>6 DEF ProbeEnd
<1>19. CASE Pause
  <2>1. /\ pc = "flow" /\ UNCHANGED <<abort, mpos, queue, ppos, homedOver>>
        /\ state' \in {state, "HOLD"} /\ (state = "CHECK" => state' = "CHECK")
    BY <1>19 DEF Pause, At, history
  <2>2. gc'.position = gc.position
    BY <1>19 DEF Pause, RecordsInv, Fields
  <2>3. pc' # "probe" /\ (pc' = "via" => HomeMove(blk'))
    <3>1. CASE Done
      BY <2>1, <3>1, PlaceStage DEF StageSet
    <3>2. CASE pc' = "paused"
      BY <3>2
    <3> QED
      BY <1>19, <3>1, <3>2 DEF Pause
  <2> QED
    BY <2>1, <2>2, <2>3, PlaceKept
<1>20. CASE ProgramEnd
  <2>1. gc'.position = gc.position
    BY <1>20 DEF ProgramEnd, RecordsInv, Fields
  <2> QED
    BY <1>20, <2>1, PlaceKept, PlaceStage DEF ProgramEnd, At, StageSet, machine, history
<1>21. CASE Jog
  <2>1. /\ pc = "jog" /\ pc' = "ready" /\ blk.target \in Vector /\ blk.feed \in Int
        /\ UNCHANGED <<abort, mpos, homedOver>>
        /\ state' = IF state = "IDLE" /\ queue' # <<>> THEN "JOG" ELSE state
    BY <1>21 DEF Jog, At, history, ValuesInv, BlkValues
  <2>2. gc'.position = blk.target
    BY <1>21 DEF Jog, RecordsInv, Fields
  <2>3. CASE abort /\ UNCHANGED <<queue, ppos>>
    BY <2>1, <2>2, <2>3 DEF PlaceInv
  <2>4. CASE Plan(blk.target, blk.feed)
    BY <2>1, <2>2, <2>4, PlanLeads DEF PlaceInv
  <2> QED
    BY <1>21, <2>3, <2>4 DEF Jog
<1>22. CASE Resume
  <2>1. gc'.position = gc.position
    BY <1>22 DEF Resume, RecordsInv, Fields
  <2> QED
    BY <1>22, <2>1, PlaceKept DEF Resume, OutputInv, history
<1>23. CASE AutoStart
  <2>1. /\ UNCHANGED <<gc, pc, blk, abort, queue, ppos, mpos, homedOver>>
        /\ state = "IDLE" /\ state' = "CYCLE"
    BY <1>23 DEF AutoStart, line, history
  <2> QED
    BY <2>1, PlaceStill
<1>24. CASE BlockDone
  <2>1. /\ state \in {"CYCLE", "JOG"} /\ queue # <<>> /\ ~abort /\ queue \in Seq(Segment)
        /\ mpos' = Plus(mpos, Head(queue).move) /\ queue' = Tail(queue)
        /\ state' = IF queue' = <<>> THEN "IDLE" ELSE state
        /\ UNCHANGED <<gc, pc, blk, abort, ppos, homedOver>>
    BY <1>24 DEF BlockDone, line, history, ValuesInv
  <2>2. Leads(mpos, queue, ppos) => Leads(mpos', queue', ppos')
    BY <2>1, LeadsFrom
  <2>3. pc' = "via" => HomeMove(blk')
    BY <2>1 DEF PlaceInv, HomeMove
  <2> QED
    BY <2>1, <2>2, <2>3 DEF PlaceInv
<1>25. CASE JogCancel
  <2>1. /\ state = "JOG" /\ ~abort /\ mpos' \in Stopped /\ ppos' = mpos'
        /\ queue' = <<>> /\ state' = "IDLE" /\ UNCHANGED <<pc, blk, abort, homedOver>>
    BY <1>25 DEF JogCancel, line, history
  <2>2. gc'.position = mpos'
    BY <1>25 DEF JogCancel, RecordsInv, Fields
  <2>3. Leads(mpos', queue', ppos')
    BY <2>1, StoppedVector, LeadsNowhere
  <2>4. pc' = "via" => HomeMove(blk')
    BY <2>1 DEF PlaceInv, HomeMove
  <2> QED
    BY <2>1, <2>2, <2>3, <2>4 DEF PlaceInv
<1>26. ASSUME McReset
       PROVE  PlaceInv'
  <2>1. /\ abort' = TRUE /\ UNCHANGED <<pc, blk, queue>>
        /\ state' = IF state \in {"CYCLE", "JOG"} THEN "ALARM" ELSE state
    BY <1>26 DEF McReset, line
  <2>2. pc' = "via" => HomeMove(blk')
    BY <2>1 DEF PlaceInv, HomeMove
  <2> QED
    BY <2>1, <2>2 DEF PlaceInv
<1>27. CASE Restart
  <2>1. /\ pc = "ready" /\ gc' = GcInit(eeprom, mpos) /\ queue' = <<>> /\ ppos' = mpos
        /\ UNCHANGED <<pc, mpos>> /\ state' \in {"ALARM", "IDLE"}
    BY <1>27 DEF Restart, line
  <2>2. gc'.position = mpos
    BY <2>1 DEF GcInit
  <2>3. Leads(mpos', queue', ppos')
    BY <2>1, LeadsNowhere DEF ValuesInv
  <2> QED
    BY <2>1, <2>2, <2>3 DEF PlaceInv
<1>28. CASE ToggleCheckMode
  <2>1. CASE McReset
    BY <1>26, <2>1
  <2>2. CASE /\ state = "IDLE" /\ state' = "CHECK"
             /\ UNCHANGED <<gc, line, abort, queue, ppos, mpos, history>>
    BY <2>2, PlaceStill DEF line, history
  <2> QED
    BY <1>28, <2>1, <2>2 DEF ToggleCheckMode
<1>29. CASE Unlock
  BY <1>29, PlaceStill DEF Unlock, line, history
<1>30. CASE Home
  <2>1. /\ pc = "ready" /\ mpos' = HomePosition /\ ppos' = HomePosition
        /\ state' = "IDLE" /\ homedOver' = (homedOver \/ queue # <<>>)
        /\ UNCHANGED <<pc, blk, abort, queue>>
    BY <1>30 DEF Home, line
  <2>2. gc'.position = HomePosition
    BY <1>30 DEF Home, RecordsInv, Fields
  <2>3. queue = <<>> => Leads(mpos', queue', ppos')
    BY <2>1, LeadsNowhere, GcodeAssumption
  <2> QED
    BY <2>1, <2>2, <2>3 DEF PlaceInv
<1>31. CASE Report
  BY <1>31, PlaceStill DEF Report, line, machine, history
<1>32. ASSUME NEW i \in Decaying, Decay(i)
      PROVE  PlaceInv'
  BY <1>32, PlaceStill DEF Decay, line, machine
<1>33. CASE Reset
  BY <1>26, <1>33 DEF Reset
<1> QED
  BY <1>1, <1>2, <1>3, <1>4, <1>5, <1>6, <1>7, <1>8, <1>9, <1>10, <1>11, <1>12, <1>13, <1>14,
     <1>15, <1>16, <1>17, <1>18, <1>19, <1>20, <1>21, <1>22, <1>23, <1>24, <1>25, <1>27,
     <1>28, <1>29, <1>30, <1>31, <1>32, <1>33 DEF Next, Execute

------------------------------------------------------------------------------
(* Check mode *)

\* The stages before the one that writes offsets and data, and that one.
ToData == EarlySet \cup {"data"}

LEMMA StageSets ==
  /\ ToData \subseteq StageSet /\ EarlySet \subseteq ToData /\ "data" \in ToData
  /\ "ready" \notin StageSet /\ "probe" \notin StageSet /\ "paused" \notin StageSet
  /\ "jog" \notin ToData
  BY DEF ToData, StageSet, EarlySet

LEMMA DataStage == \A j \in 1..12 : Stages[j] = "data" => j = 8
  BY StagesAre

\* A stage that is done goes on to a later one.
LEMMA LaterStage ==
  ASSUME Done, pc \in StageSet
  PROVE  /\ pc' # "jog" /\ (pc' = "ready" \/ pc' \in StageSet)
         /\ pc' \in ToData => pc \in EarlySet \cup {"jog"} /\ blk' = blk
         /\ pc' = "data" => pc = "select" \/ ~Work(blk, "select")
         /\ pc' = "data" => ~blk.jog
<1>1. PICK k \in 1..12 : pc = Stages[k]
  BY StageNames, StagesAre DEF StageSet
<1>2. Begin(blk, k + 1)
  BY <1>1, AfterStage
<1>3. CASE pc' = "ready" /\ blk' = NoBlock
  BY <1>3, StageSets
<1>4. ASSUME blk' = blk, NEW i \in (k + 1)..12, pc' = Stages[i], Work(blk, Stages[i]),
             \A j \in (k + 1)..12 : Work(blk, Stages[j]) => i <= j
      PROVE  /\ pc' # "jog" /\ pc' \in StageSet
             /\ pc' \in ToData => pc \in EarlySet \cup {"jog"}
             /\ pc' = "data" => pc = "select" \/ ~Work(blk, "select")
             /\ pc' = "data" => ~blk.jog
  <2>1. pc' # "jog" /\ pc' \in StageSet
    BY <1>4, StagesAre DEF StageSet
  <2>2. pc' \in ToData => pc \in EarlySet \cup {"jog"}
    BY <1>1, <1>4, StagesAre DEF EarlySet, ToData
  <2>3. ASSUME pc' = "data"
        PROVE  (pc = "select" \/ ~Work(blk, "select")) /\ ~blk.jog
    <3>1. i = 8
      <4>1. i \in 1..12 /\ Stages[i] = "data"
        BY <1>4, <2>3
      <4> QED
        BY <4>1, DataStage
    <3>2. k = 7 \/ 7 \in (k + 1)..12
      BY <3>1
    <3>3. k = 7 => pc = "select"
      BY <1>1, StagesAre
    <3>4. 7 \in (k + 1)..12 => ~Work(blk, "select")
      BY <1>4, <3>1, StagesAre
    <3>5. ~blk.jog
      <4>1. Work(blk, "data")
        BY <1>4, <2>3
      <4> QED
        BY <4>1 DEF Work
    <3> QED
      BY <3>2, <3>3, <3>4, <3>5
  <2> QED
    BY <2>1, <2>2, <2>3
<1> QED
  BY <1>2, <1>3, <1>4, NextStage

\* What a line that is accepted begins with.
LEMMA FirstStage ==
  ASSUME NEW e, Begin(e, 1)
  PROVE  /\ pc' = "ready" \/ (pc' \in StageSet /\ blk' = e)
         /\ pc' = "jog" => e.jog
         /\ e.jog => pc' \in {"ready", "jog"}
         /\ pc' = "data" => ~Work(e, "select") /\ ~e.jog
<1>1. CASE pc' = "ready" /\ blk' = NoBlock
  BY <1>1
<1>2. ASSUME blk' = e, NEW k \in 1..12, pc' = Stages[k], Work(e, Stages[k]),
             \A j \in 1..12 : Work(e, Stages[j]) => k <= j
      PROVE  /\ pc' \in StageSet /\ blk' = e
             /\ pc' = "jog" => e.jog
             /\ e.jog => pc' = "jog"
             /\ pc' = "data" => ~Work(e, "select") /\ ~e.jog
  <2>1. pc' \in StageSet
    BY <1>2, StagesAre DEF StageSet
  <2>2. e.jog <=> pc' = "jog"
    BY <1>2 DEF Work
  <2>3. ASSUME pc' = "data"
        PROVE  ~Work(e, "select")
    <3>1. k = 8
      BY <1>2, <2>3, DataStage
    <3> QED
      BY <1>2, <3>1, StagesAre
  <2> QED
    BY <1>2, <2>1, <2>2, <2>3
<1> QED
  BY <1>1, <1>2, NextStage

\* A jog is not executed in check mode, and no other line while one is executed.
ModeInv ==
  /\ pc = "jog" => state # "CHECK"
  /\ pc \notin {"ready", "jog"} => state # "JOG"

LEMMA ModeKept ==
  ASSUME ModeInv, state' \in {state, "IDLE", "ALARM", "CYCLE", "HOLD"},
         pc' = "jog" => pc = "jog",
         pc' \notin {"ready", "jog"} => pc \notin {"ready", "jog"}
  PROVE  ModeInv'
  BY DEF ModeInv

LEMMA ModeDone ==
  ASSUME ModeInv, Done, pc \in StageSet \ {"jog"}, state' \in {state, "ALARM"}
  PROVE  ModeInv'
<1>1. pc' # "jog" /\ pc \notin {"ready", "jog"}
  BY LaterStage, StageSets
<1> QED
  BY <1>1, ModeKept

LEMMA ModeNext ==
  ASSUME RecordsInv, ValuesInv, ModeInv, Next
  PROVE  ModeInv'
<1>1. ASSUME NEW n \in DOMAIN Lines, NEW l \in Lines[n], Accept(n, l)
      PROVE  ModeInv'
  <2> DEFINE b == Import(l, gc.modal)
             e == Prepare(b)
  <2>1. l \in [jog : BOOLEAN, words : Seq(Word)]
    BY GcodeAssumption
  <2>2. BlockInv(b, l.jog, gc.modal)
    BY <2>1, ImportKeeps DEF RecordsInv, ValuesInv, GcValues
  <2>3. /\ Begin(e, 1) /\ state' = state
        /\ state \in (IF l.jog THEN {"IDLE", "JOG"} ELSE {"IDLE", "CYCLE", "CHECK"})
    BY <1>1 DEF Accept, Taken, machine
  <2> HIDE DEF b
  <2>4. e.jog = l.jog
    BY <2>2 DEF Prepare, BlockInv, BlockFields
  <2> HIDE DEF e
  <2>5. pc' = "jog" => l.jog
    BY <2>3, <2>4, FirstStage
  <2>6. l.jog => pc' \in {"ready", "jog"}
    BY <2>3, <2>4, FirstStage
  <2> QED
    BY <2>3, <2>5, <2>6 DEF ModeInv
<1>2. ASSUME NEW target, NEW feed, McLine(target, feed)
      PROVE  state' \in {state, "ALARM"}
  BY <1>2 DEF McLine, SoftLimitStop
<1>3. CASE SetSpeed \/ SetSpindle \/ SetCoolant \/ Dwell \/ SetToolLength \/ SelectCoord
  BY <1>3, ModeDone DEF SetSpeed, SetSpindle, SetCoolant, Dwell, SetToolLength, SelectCoord, At,
                        machine, StageSet
<1>4. CASE WriteCoordData \/ StoreHome \/ SetCoordOffset \/ ProgramEnd
  BY <1>4, ModeDone DEF WriteCoordData, StoreHome, SetCoordOffset, ProgramEnd, At, machine, StageSet
<1>5. CASE GoVia \/ GoHome
  BY <1>2, <1>5, ModeDone DEF GoVia, GoHome, At, StageSet
<1>6. CASE Move
  BY <1>2, <1>6, ModeDone DEF Move, At, machine, StageSet
<1>7. CASE ProbeRefused
  BY <1>7, ModeDone DEF ProbeRefused, At, StageSet
<1>8. CASE ProbeStart
  <2>1. pc = "motion" /\ pc' = "probe" /\ state' \in {state, "ALARM", "CYCLE"}
    BY <1>8 DEF ProbeStart, At, SoftLimitStop
  <2> QED
    BY <2>1, ModeKept
<1>9. CASE ProbeEnd
  <2>1. pc = "probe" /\ Begin(blk, 12) /\ state' \in {state, "IDLE", "ALARM"}
    BY <1>9, StagesAre DEF ProbeEnd
  <2>2. pc' \in {"ready", "flow"}
    BY <2>1, NextStage, StagesAre
  <2> QED
    BY <2>1, <2>2, ModeKept
<1>10. CASE Pause
  <2>1. CASE state = "CHECK" \/ abort
    BY <1>10, <2>1, ModeDone DEF Pause, At, StageSet
  <2>2. CASE ~(state = "CHECK" \/ abort)
    BY <1>10, <2>2, ModeKept DEF Pause, At
  <2> QED
    BY <2>1, <2>2
<1>11. CASE Jog
  BY <1>11 DEF Jog, ModeInv
<1>12. CASE ToggleCheckMode
  BY <1>12 DEF ToggleCheckMode, McReset, line, ModeInv
<1>13. CASE \/ FlagWcoChange \/ AutoStart \/ BlockDone \/ JogCancel \/ Reset \/ Unlock \/ Home
            \/ Report
  BY <1>13, ModeKept DEF FlagWcoChange, AutoStart, BlockDone, JogCancel, Reset, McReset, Unlock,
                         Home, Report, line, machine
<1>14. CASE Resume \/ Restart
  BY <1>14, ModeKept DEF Resume, Restart, line
<1>15. ASSUME NEW n \in DOMAIN Lines, NEW l \in Lines[n], Reject(n, l)
       PROVE  ModeInv'
  BY <1>15, ModeKept DEF Reject, line, machine
<1>16. ASSUME NEW i \in Decaying, Decay(i)
       PROVE  ModeInv'
  BY <1>16, ModeKept DEF Decay, line, machine
<1> QED
  BY <1>1, <1>3, <1>4, <1>5, <1>6, <1>7, <1>8, <1>9, <1>10, <1>11, <1>12, <1>13, <1>14, <1>15,
     <1>16 DEF Next, Execute

\* Nothing a step does in check mode reaches the machine.
LEMMA StillNext ==
  ASSUME ModeInv, Next, state = "CHECK", ~abort, ~abort'
  PROVE  UNCHANGED <<queue, ppos, mpos, outputs>>
<1> USE DEF outputs, machine
<1>1. ASSUME NEW target, NEW feed, McLine(target, feed)
      PROVE  UNCHANGED <<queue, ppos, mpos, outputs>>
  BY <1>1 DEF McLine, SoftLimitStop
<1>2. CASE \/ SetSpeed \/ SetSpindle \/ SetCoolant \/ Dwell \/ SetToolLength \/ SelectCoord
           \/ FlagWcoChange \/ WriteCoordData \/ StoreHome \/ SetCoordOffset
  BY <1>2 DEF SetSpeed, SetSpindle, SetCoolant, Dwell, SetToolLength, SelectCoord,
              FlagWcoChange, WriteCoordData, StoreHome, SetCoordOffset, AccessorySet
<1>3. CASE GoVia \/ GoHome
  BY <1>1, <1>3 DEF GoVia, GoHome
<1>4. CASE Move
  BY <1>1, <1>4 DEF Move
<1>5. CASE ProbeRefused \/ ProbeStart \/ ProbeEnd \/ Pause
  BY <1>5 DEF ProbeRefused, ProbeStart, ProbeEnd, Pause
<1>6. CASE ProgramEnd
  BY <1>6 DEF ProgramEnd
<1>7. CASE Jog
  BY <1>7 DEF Jog, At, ModeInv
<1>8. CASE \/ Resume \/ AutoStart \/ BlockDone \/ JogCancel \/ Reset \/ Restart
           \/ ToggleCheckMode \/ Unlock \/ Home \/ Report
  BY <1>8 DEF Resume, AutoStart, BlockDone, JogCancel, Reset, McReset, Restart, ToggleCheckMode,
              Unlock, Home, Report
<1>9. ASSUME NEW n \in DOMAIN Lines, NEW l \in Lines[n], Accept(n, l) \/ Reject(n, l)
      PROVE  UNCHANGED <<queue, ppos, mpos, outputs>>
  BY <1>9 DEF Accept, Reject
<1>10. ASSUME NEW i \in Decaying, Decay(i)
       PROVE  UNCHANGED <<queue, ppos, mpos, outputs>>
  BY <1>10 DEF Decay
<1> QED
  BY <1>2, <1>3, <1>4, <1>5, <1>6, <1>7, <1>8, <1>9, <1>10 DEF Next, Execute

------------------------------------------------------------------------------
(* Work positions *)

\* A block that sets data or an offset has been computed from the parser and the records as
\* they are, but for a record that was damaged since and a system the block itself selects.
Formed(e) ==
  /\ e.value \in [Letters -> Int]
  /\ e.modal.coord_select = gc.modal.coord_select => e.system = gc.coord_system
  /\ e.non_modal \in Settings => e.command # "TOOL_LENGTH_OFFSET"
  /\ e.non_modal = "SET_COORDINATE_OFFSET" =>
       \A a \in Axes : e.target[a] = NewOffset(e, gc, e.system, a)
  /\ e.non_modal = "SET_COORDINATE_DATA" =>
       \A a \in Axes :
         /\ a \in AxisWords(e) => e.data[a] = NewData(e, gc, a)
         /\ a \notin AxisWords(e) => \/ eeprom[CoordIndex(e)] = Damaged
                                     \/ e.data[a] = eeprom[CoordIndex(e)][a]

\* The block stays so until it sets them, and by then its system is the selected one.
FormInv ==
  pc \in ToData =>
    /\ Formed(blk)
    /\ pc = "data" => blk.modal.coord_select = gc.modal.coord_select

LEMMA PreparedForm ==
  ASSUME NEW b, NEW jog, BlockInv(b, jog, gc.modal),
         ~BadWords(b), FailedRead(b) = {}, ~BadData(b)
  PROVE  Formed(Prepare(b)) /\ Prepare(b).modal = b.modal /\ Prepare(b).jog = jog
<1> DEFINE stored == { eeprom[i] : i \in ReadsSlot(b) }
           record == CHOOSE v \in stored : TRUE
           e == Prepare(b)
<1>1. /\ e.modal = b.modal /\ e.non_modal = b.non_modal /\ e.value = b.value
      /\ e.letters = b.letters /\ e.command = AxisCommand(b) /\ e.jog = jog
      /\ e.system = BlockSystem(b) /\ e.target = Position(b, gc, BlockSystem(b))
      /\ e.data = IF stored = {} THEN Zero ELSE StoredData(b, gc, record)
  BY DEF Prepare, BlockInv, BlockFields
<1> HIDE DEF e
<1>2. /\ \A a : Given(e, a) = Given(b, a)
      /\ AxisWords(e) = AxisWords(b) /\ CoordIndex(e) = CoordIndex(b)
  BY <1>1 DEF Given, Scale, AxisWords, CoordIndex
<1>3. e.value \in [Letters -> Int]
  BY <1>1 DEF BlockInv
<1>4. e.modal.coord_select = gc.modal.coord_select => e.system = gc.coord_system
  BY <1>1 DEF BlockSystem, SelectsCoord
<1>5. ASSUME b.non_modal \in Settings
      PROVE  b.axis = "NON_MODAL" /\ AxisWords(b) # {} /\ e.command = "NON_MODAL"
  <2>1. b.ok
    BY DEF BadWords
  <2>2. b.axis = "NON_MODAL"
    BY <1>5, <2>1 DEF BlockInv
  <2>3. AxisWords(b) # {}
    BY <1>5 DEF BadData, CoordDataError, Settings
  <2> QED
    BY <1>1, <2>2, <2>3 DEF AxisCommand
<1>6. ASSUME b.non_modal = "SET_COORDINATE_OFFSET", NEW a \in Axes
      PROVE  e.target[a] = NewOffset(e, gc, e.system, a)
  <2>1. b.axis = "NON_MODAL" /\ AxisWords(b) # {}
    BY <1>5, <1>6 DEF Settings
  <2>2. e.target[a] = NewOffset(b, gc, e.system, a)
    BY <1>1, <1>6, <2>1 DEF Position
  <2> QED
    BY <1>2, <2>2 DEF NewOffset
<1>7. ASSUME b.non_modal = "SET_COORDINATE_DATA", NEW a \in Axes
      PROVE  /\ a \in AxisWords(e) => e.data[a] = NewData(e, gc, a)
             /\ a \notin AxisWords(e) => e.data[a] = eeprom[CoordIndex(e)][a]
  <2>1. stored = {eeprom[CoordIndex(b)]}
    BY <1>7 DEF ReadsSlot
  <2>2. record = eeprom[CoordIndex(b)]
    BY <2>1
  <2> HIDE DEF record
  <2>3. e.data = StoredData(b, gc, eeprom[CoordIndex(b)])
    BY <1>1, <2>1, <2>2
  <2>4. e.data[a] = IF a \in AxisWords(b) THEN NewData(b, gc, a) ELSE eeprom[CoordIndex(b)][a]
    BY <1>7, <2>3 DEF StoredData
  <2>5. NewData(e, gc, a) = NewData(b, gc, a)
    BY <1>1, <1>2 DEF NewData
  <2> QED
    BY <1>2, <2>4, <2>5
<1>8. Formed(e)
  <2>1. e.non_modal \in Settings => e.command # "TOOL_LENGTH_OFFSET"
    BY <1>1, <1>5
  <2> QED
    BY <1>1, <1>3, <1>4, <1>6, <1>7, <2>1 DEF Formed
<1> QED
  BY <1>1, <1>8 DEF e

\* A step that leaves the block, and what it was computed from, as they are.
LEMMA FormKept ==
  ASSUME FormInv, eeprom' = eeprom,
         pc' \in ToData => pc \in ToData /\ blk' = blk,
         gc'.position = gc.position, gc'.coord_offset = gc.coord_offset,
         pc' \in ToData =>
           \/ gc'.tool_length_offset = gc.tool_length_offset
           \/ blk.command = "TOOL_LENGTH_OFFSET",
         pc' \in ToData /\ blk.modal.coord_select = gc'.modal.coord_select =>
           blk.system = gc'.coord_system,
         pc' = "data" => blk.modal.coord_select = gc'.modal.coord_select
  PROVE  FormInv'
<1> SUFFICES ASSUME pc' \in ToData
             PROVE  /\ Formed(blk)'
                    /\ pc' = "data" => blk'.modal.coord_select = gc'.modal.coord_select
  BY DEF FormInv
<1>1. Formed(blk) /\ blk' = blk
  BY DEF FormInv
<1>2. CASE gc'.tool_length_offset = gc.tool_length_offset
  <2>1. \A a : /\ NewOffset(blk, gc', blk.system, a) = NewOffset(blk, gc, blk.system, a)
               /\ NewData(blk, gc', a) = NewData(blk, gc, a)
    BY <1>2 DEF NewOffset, NewData, ToolLength
  <2> QED
    BY <1>1, <2>1 DEF Formed
<1>3. CASE blk.command = "TOOL_LENGTH_OFFSET"
  <2>1. blk.non_modal \notin Settings
    BY <1>1, <1>3 DEF Formed
  <2> QED
    BY <1>1, <2>1 DEF Formed, Settings
<1> QED
  BY <1>2, <1>3

\* A step that leaves the parser alone, but perhaps for modes that matter to no position.
LEMMA FormSame ==
  ASSUME FormInv, UNCHANGED <<eeprom, pc, blk>>,
         gc'.position = gc.position, gc'.coord_offset = gc.coord_offset,
         gc'.tool_length_offset = gc.tool_length_offset, gc'.coord_system = gc.coord_system,
         gc'.modal.coord_select = gc.modal.coord_select
  PROVE  FormInv'
<1>1. pc' \in ToData /\ blk.modal.coord_select = gc'.modal.coord_select =>
        blk.system = gc'.coord_system
  BY DEF FormInv, Formed
<1>2. pc' = "data" => blk.modal.coord_select = gc'.modal.coord_select
  BY StageSets DEF FormInv
<1> QED
  BY <1>1, <1>2, FormKept

\* A stage that is done before the system is selected.
LEMMA FormStage ==
  ASSUME FormInv, eeprom' = eeprom, Done, pc \in EarlySet \ {"select"},
         gc'.position = gc.position, gc'.coord_offset = gc.coord_offset,
         \/ gc'.tool_length_offset = gc.tool_length_offset
         \/ blk.command = "TOOL_LENGTH_OFFSET",
         gc'.coord_system = gc.coord_system,
         gc'.modal.coord_select = gc.modal.coord_select
  PROVE  FormInv'
<1>1. pc \in StageSet /\ pc \in ToData
  BY StageSets
<1>2. pc' \in ToData => blk' = blk
  BY <1>1, LaterStage
<1>3. pc' = "data" => blk.modal.coord_select = gc'.modal.coord_select
  <2>1. pc' = "data" => ~Work(blk, "select") /\ ~blk.jog
    BY <1>1, LaterStage
  <2> QED
    BY <2>1 DEF Work
<1>4. blk.modal.coord_select = gc'.modal.coord_select => blk.system = gc'.coord_system
  BY <1>1 DEF FormInv, Formed
<1> QED
  BY <1>1, <1>2, <1>3, <1>4, FormKept

\* A stage that is done after it.
LEMMA FormDone ==
  ASSUME Done, pc \in StageSet, pc \notin EarlySet, pc # "jog"
  PROVE  FormInv'
<1>1. pc' \notin ToData
  BY LaterStage
<1> QED
  BY <1>1 DEF FormInv

LEMMA FormNext ==
  ASSUME RecordsInv, ValuesInv, ModeInv, FormInv, Next
  PROVE  FormInv'
<1>1. ASSUME NEW n \in DOMAIN Lines, NEW l \in Lines[n], Accept(n, l)
      PROVE  FormInv'
  <2> DEFINE b == Import(l, gc.modal)
             e == Prepare(b)
  <2>1. l \in [jog : BOOLEAN, words : Seq(Word)]
    BY GcodeAssumption
  <2>2. BlockInv(b, l.jog, gc.modal)
    BY <2>1, ImportKeeps DEF RecordsInv, ValuesInv, GcValues
  <2>3. /\ Begin(e, 1) /\ UNCHANGED <<gc, eeprom>>
        /\ ~BadWords(b) /\ FailedRead(b) = {} /\ ~BadData(b)
    BY <1>1 DEF Accept
  <2> HIDE DEF b
  <2>4. Formed(e)
    BY <2>2, <2>3, PreparedForm
  <2> HIDE DEF e
  <2>5. /\ pc' \in ToData => blk' = e
        /\ pc' = "data" => e.modal.coord_select = gc.modal.coord_select
    <3>1. /\ pc' = "ready" \/ blk' = e
          /\ pc' = "data" => ~Work(e, "select") /\ ~e.jog
      BY <2>3, FirstStage
    <3>2. "ready" \notin ToData
      BY StageSets
    <3> QED
      BY <3>1, <3>2 DEF Work
  <2> QED
    BY <2>3, <2>4, <2>5, StageSets DEF FormInv, Formed
<1>2. CASE SetSpeed
  <2>1. /\ gc'.position = gc.position /\ gc'.coord_offset = gc.coord_offset
        /\ gc'.tool_length_offset = gc.tool_length_offset /\ gc'.coord_system = gc.coord_system
        /\ gc'.modal.coord_select = gc.modal.coord_select
    BY <1>2 DEF SetSpeed, RecordsInv, Fields, ModalDefault
  <2> QED
    BY <1>2, <2>1, FormStage DEF SetSpeed, At, EarlySet
<1>3. CASE SetSpindle
  <2>1. /\ gc'.position = gc.position /\ gc'.coord_offset = gc.coord_offset
        /\ gc'.tool_length_offset = gc.tool_length_offset /\ gc'.coord_system = gc.coord_system
        /\ gc'.modal.coord_select = gc.modal.coord_select
    BY <1>3 DEF SetSpindle, RecordsInv, Fields, ModalDefault
  <2> QED
    BY <1>3, <2>1, FormStage DEF SetSpindle, At, EarlySet
<1>4. CASE SetCoolant
  <2>1. /\ gc'.position = gc.position /\ gc'.coord_offset = gc.coord_offset
        /\ gc'.tool_length_offset = gc.tool_length_offset /\ gc'.coord_system = gc.coord_system
        /\ gc'.modal.coord_select = gc.modal.coord_select
    BY <1>4 DEF SetCoolant, RecordsInv, Fields, ModalDefault
  <2> QED
    BY <1>4, <2>1, FormStage DEF SetCoolant, At, EarlySet
<1>5. CASE Dwell
  BY <1>5, FormStage DEF Dwell, At, EarlySet
<1>6. CASE SetToolLength
  <2>1. /\ gc'.position = gc.position /\ gc'.coord_offset = gc.coord_offset
        /\ \/ gc'.tool_length_offset = gc.tool_length_offset
           \/ blk.command = "TOOL_LENGTH_OFFSET"
        /\ gc'.coord_system = gc.coord_system
        /\ gc'.modal.coord_select = gc.modal.coord_select
    BY <1>6 DEF SetToolLength, RecordsInv, Fields, ModalDefault
  <2> QED
    BY <1>6, <2>1, FormStage DEF SetToolLength, At, EarlySet
<1>7. CASE SelectCoord
  <2>1. /\ gc'.position = gc.position /\ gc'.coord_offset = gc.coord_offset
        /\ gc'.tool_length_offset = gc.tool_length_offset
        /\ gc'.coord_system = IF blk.modal.coord_select # gc.modal.coord_select
                              THEN blk.system ELSE gc.coord_system
        /\ gc'.modal.coord_select = blk.modal.coord_select
    BY <1>7 DEF SelectCoord, RecordsInv, Fields, ModalDefault
  <2>2. pc = "select" /\ Done /\ eeprom' = eeprom
    BY <1>7 DEF SelectCoord, At
  <2>3. pc \in ToData /\ pc \in StageSet
    BY <2>2 DEF ToData, EarlySet, StageSet
  <2>4. pc' \in ToData => blk' = blk
    BY <2>2, <2>3, LaterStage
  <2>5. blk.system = gc'.coord_system
    BY <2>1, <2>3 DEF FormInv, Formed
  <2> QED
    BY <2>1, <2>2, <2>3, <2>4, <2>5, FormKept
<1>8. CASE WriteCoordData \/ StoreHome \/ SetCoordOffset \/ ProgramEnd
  BY <1>8, FormDone DEF WriteCoordData, StoreHome, SetCoordOffset, ProgramEnd, At, StageSet,
                        EarlySet
<1>9. CASE GoVia \/ GoHome \/ Move \/ ProbeRefused
  BY <1>9, FormDone DEF GoVia, GoHome, Move, ProbeRefused, At, StageSet, EarlySet
<1>10. CASE ProbeStart
  <2>1. pc' \notin ToData
    BY <1>10, StageSets DEF ProbeStart
  <2> QED
    BY <2>1 DEF FormInv
<1>11. CASE ProbeEnd
  <2>1. Begin(blk, 12)
    BY <1>11, StagesAre DEF ProbeEnd
  <2>2. pc' \in {"ready", "flow"}
    BY <2>1, NextStage, StagesAre
  <2>3. pc' \notin ToData
    BY <2>2 DEF ToData, EarlySet
  <2> QED
    BY <2>3 DEF FormInv
<1>12. CASE Pause
  <2>1. CASE state = "CHECK" \/ abort
    BY <1>12, <2>1, FormDone DEF Pause, At, StageSet, EarlySet
  <2>2. CASE ~(state = "CHECK" \/ abort)
    <3>1. pc' = "paused"
      BY <1>12, <2>2 DEF Pause
    <3> QED
      BY <3>1 DEF FormInv, ToData, EarlySet
  <2> QED
    BY <2>1, <2>2
<1>13. CASE Jog \/ Resume
  <2>1. pc' = "ready"
    BY <1>13 DEF Jog, Resume
  <2> QED
    BY <2>1 DEF FormInv, ToData, EarlySet
<1>14. CASE \/ FlagWcoChange \/ AutoStart \/ BlockDone \/ Reset \/ ToggleCheckMode \/ Unlock
            \/ Report
  <2>1. UNCHANGED <<gc, eeprom, pc, blk>>
    BY <1>14 DEF FlagWcoChange, AutoStart, BlockDone, Reset, McReset, ToggleCheckMode, Unlock,
                 Report, line
  <2> QED
    BY <2>1, FormSame
<1>15. CASE JogCancel
  <2>1. pc' = pc /\ state = "JOG"
    BY <1>15 DEF JogCancel, line
  <2>2. pc' \notin ToData
    BY <2>1 DEF ModeInv, ToData, EarlySet
  <2> QED
    BY <2>2 DEF FormInv
<1>16. CASE Home \/ Restart
  <2>1. pc' = "ready"
    BY <1>16 DEF Home, Restart, line
  <2> QED
    BY <2>1 DEF FormInv, ToData, EarlySet
<1>17. ASSUME NEW n \in DOMAIN Lines, NEW l \in Lines[n], Reject(n, l)
       PROVE  FormInv'
  <2>1. pc' = "ready"
    BY <1>17 DEF Reject, Taken, line
  <2> QED
    BY <2>1 DEF FormInv, ToData, EarlySet
<1>18. ASSUME NEW i \in Decaying, Decay(i)
       PROVE  FormInv'
  <2>1. eeprom' = [eeprom EXCEPT ![i] = Damaged] /\ UNCHANGED <<gc, pc, blk>>
    BY <1>18 DEF Decay, line
  <2>2. ASSUME pc \in ToData
        PROVE  Formed(blk)'
    <3>1. Formed(blk)
      BY <2>2 DEF FormInv
    <3>2. ASSUME blk.non_modal = "SET_COORDINATE_DATA"
          PROVE  eeprom'[CoordIndex(blk)] \in {Damaged, eeprom[CoordIndex(blk)]}
      <4>1. pc # "ready"
        BY <2>2 DEF ToData, EarlySet
      <4>2. CoordIndex(blk) \in Slots
        BY <3>2, <4>1, SlotRange DEF ValuesInv, BlkValues
      <4> QED
        BY <2>1, <4>2 DEF ValuesInv
    <3> QED
      BY <2>1, <3>1, <3>2 DEF Formed
  <2> QED
    BY <2>1, <2>2 DEF FormInv
<1> QED
  BY <1>1, <1>2, <1>3, <1>4, <1>5, <1>6, <1>7, <1>8, <1>9, <1>10, <1>11, <1>12, <1>13, <1>14,
     <1>15, <1>16, <1>17, <1>18 DEF Next, Execute

\* The only step that ends the stage of a G92 or a G10 sets the offset or writes the data.
LEMMA DataStep ==
  ASSUME Next, pc = "data", pc' # pc, blk.non_modal \in Settings
  PROVE  SetCoordOffset \/ WriteCoordData
<1>1. ~\E n \in DOMAIN Lines : \E l \in Lines[n] : Accept(n, l) \/ Reject(n, l)
  BY DEF Accept, Reject, Taken
<1>2. /\ ~SetSpeed /\ ~SetSpindle /\ ~SetCoolant /\ ~Dwell /\ ~SetToolLength /\ ~SelectCoord
      /\ ~GoVia /\ ~GoHome /\ ~Move /\ ~ProbeRefused /\ ~ProbeStart /\ ~Pause /\ ~ProgramEnd
      /\ ~Jog
  BY DEF SetSpeed, SetSpindle, SetCoolant, Dwell, SetToolLength, SelectCoord, GoVia, GoHome,
         Move, ProbeRefused, ProbeStart, Pause, ProgramEnd, Jog, At
<1>3. ~ProbeEnd /\ ~Resume /\ ~Restart /\ ~ToggleCheckMode /\ ~Unlock /\ ~Home
  BY DEF ProbeEnd, Resume, Restart, ToggleCheckMode, Unlock, Home
<1>4. ~FlagWcoChange /\ ~AutoStart /\ ~BlockDone /\ ~JogCancel /\ ~Reset /\ ~Report
  BY DEF FlagWcoChange, AutoStart, BlockDone, JogCancel, Reset, McReset, Report, line
<1>5. ~\E i \in Decaying : Decay(i)
  BY DEF Decay, line
<1>6. ~StoreHome
  BY DEF StoreHome, Settings
<1> QED
  BY <1>1, <1>2, <1>3, <1>4, <1>5, <1>6 DEF Next, Execute

LEMMA WorkNext ==
  ASSUME RecordsInv, ValuesInv, FormInv, Next, pc = "data", pc' # pc,
         \/ blk.non_modal = "SET_COORDINATE_OFFSET"
         \/ /\ blk.non_modal = "SET_COORDINATE_DATA" /\ blk.value["L"] = 20
            /\ CoordIndex(blk) = gc.modal.coord_select,
         NEW a \in Axes
  PROVE  \/ WorkPosition(gc')[a] = (IF a \in AxisWords(blk) THEN Given(blk, a)
                                    ELSE WorkPosition(gc)[a])
         \/ a \notin AxisWords(blk) /\ (eeprom[gc.modal.coord_select] # gc.coord_system)
<1>1. Formed(blk) /\ blk.system = gc.coord_system
  BY StageSets DEF FormInv, Formed
<1>2. /\ gc.position[a] \in Int /\ gc.coord_system[a] \in Int /\ gc.coord_offset[a] \in Int
      /\ ToolLength(gc, a) \in Int /\ Given(blk, a) \in Int
  BY <1>1, GivenInt DEF ValuesInv, GcValues, Vector, ToolLength, Formed
<1>3. \A g : WorkPosition(g)[a]
               = g.position[a] - (g.coord_system[a] + g.coord_offset[a] + ToolLength(g, a))
  BY DEF WorkPosition, Minus, Wco
<1>4. CASE SetCoordOffset /\ blk.non_modal = "SET_COORDINATE_OFFSET"
  <2>1. gc' = [gc EXCEPT !.coord_offset = blk.target]
    BY <1>4 DEF SetCoordOffset
  <2>2. /\ gc'.position = gc.position /\ gc'.coord_system = gc.coord_system
        /\ gc'.coord_offset = blk.target /\ ToolLength(gc', a) = ToolLength(gc, a)
    BY <2>1 DEF RecordsInv, Fields, ToolLength
  <2>3. blk.target[a] = IF a \in AxisWords(blk)
                        THEN gc.position[a] - gc.coord_system[a] - Given(blk, a) - ToolLength(gc, a)
                        ELSE gc.coord_offset[a]
    BY <1>1, <1>4 DEF Formed, NewOffset
  <2>4. WorkPosition(gc')[a]
          = gc.position[a] - (gc.coord_system[a] + blk.target[a] + ToolLength(gc, a))
    BY <1>3, <2>2
  <2>5. CASE a \in AxisWords(blk)
    <3>1. WorkPosition(gc')[a] = Given(blk, a)
      BY <1>2, <2>3, <2>4, <2>5
    <3> QED
      BY <2>5, <3>1
  <2>6. CASE a \notin AxisWords(blk)
    BY <1>3, <2>3, <2>4, <2>6
  <2> QED
    BY <2>5, <2>6
<1>5. CASE /\ WriteCoordData /\ blk.non_modal = "SET_COORDINATE_DATA" /\ blk.value["L"] = 20
           /\ CoordIndex(blk) = gc.modal.coord_select
  <2>1. gc' = [gc EXCEPT !.coord_system = blk.data]
    BY <1>5 DEF WriteCoordData
  <2>2. /\ gc'.position = gc.position /\ gc'.coord_system = blk.data
        /\ gc'.coord_offset = gc.coord_offset /\ ToolLength(gc', a) = ToolLength(gc, a)
    BY <2>1 DEF RecordsInv, Fields, ToolLength
  <2>3. WorkPosition(gc')[a]
          = gc.position[a] - (blk.data[a] + gc.coord_offset[a] + ToolLength(gc, a))
    BY <1>3, <2>2
  <2>4. CASE a \in AxisWords(blk)
    <3>1. blk.data[a] = gc.position[a] - gc.coord_offset[a] - Given(blk, a) - ToolLength(gc, a)
      BY <1>1, <1>5, <2>4 DEF Formed, NewData
    <3>2. WorkPosition(gc')[a] = Given(blk, a)
      BY <1>2, <2>3, <3>1
    <3> QED
      BY <2>4, <3>2
  <2>5. CASE a \notin AxisWords(blk) /\ eeprom[gc.modal.coord_select] = gc.coord_system
    <3>1. eeprom[CoordIndex(blk)] # Damaged
      BY <1>5, <2>5, VectorNotDamaged DEF ValuesInv, GcValues
    <3>2. blk.data[a] = gc.coord_system[a]
      BY <1>1, <1>5, <2>5, <3>1 DEF Formed
    <3> QED
      BY <1>3, <2>3, <2>5, <3>2
  <2> QED
    BY <2>4, <2>5
<1> QED
  BY <1>4, <1>5, DataStep DEF Settings, SetCoordOffset, WriteCoordData

------------------------------------------------------------------------------
(* The theorems about positions, records and check mode *)

ParserInv == GcodeInv /\ ValuesInv /\ SystemInv /\ PlaceInv /\ ModeInv /\ FormInv

LEMMA ParserStart == Init => ParserInv
<1> SUFFICES ASSUME Init PROVE ParserInv
  OBVIOUS
<1>1. GcodeInv
  BY GcodeStart
<1>2. /\ eeprom \in [Slots -> Vector] /\ gc = GcInit(eeprom, Zero)
      /\ pc = "ready" /\ state = "ALARM" /\ queue = <<>> /\ mpos = Zero /\ ppos = Zero
  BY GcodeAssumption DEF Init
<1>3. ValuesInv
  <2>1. eeprom \in [Slots -> Vector \cup {Damaged}]
    BY <1>2
  <2>2. <<>> \in Seq(Segment)
    OBVIOUS
  <2>3. GcValues(gc)
    BY <1>2, <2>1, ZeroVector, InitValues
  <2> QED
    BY <1>2, <2>1, <2>2, <2>3, ZeroVector DEF ValuesInv
<1>4. SystemInv
  <2>1. \A i \in Slots : eeprom[i] # Damaged
    BY <1>2, VectorNotDamaged
  <2>2. gc.modal.coord_select = 0 /\ gc.coord_system = eeprom[0]
    BY <1>2, <2>1, ZeroSlot DEF GcInit, ModalDefault
  <2> QED
    BY <1>2, <2>1, <2>2, SlotRange DEF SystemInv, EarlySet
<1>5. PlaceInv
  <2>1. Leads(mpos, queue, ppos)
    BY <1>2, ZeroVector, LeadsNowhere
  <2>2. gc.position = ppos
    BY <1>2 DEF GcInit
  <2> QED
    BY <1>2, <2>1, <2>2 DEF PlaceInv
<1>6. ModeInv /\ FormInv
  BY <1>2, StageSets DEF ModeInv, FormInv
<1> QED
  BY <1>1, <1>3, <1>4, <1>5, <1>6 DEF ParserInv

LEMMA ParserNext == ParserInv /\ [Next]_vars => ParserInv'
<1> SUFFICES ASSUME ParserInv, [Next]_vars
             PROVE  ParserInv'
  OBVIOUS
<1>1. GcodeInv'
  BY GcodeNext DEF ParserInv
<1>2. CASE Next
  BY <1>1, <1>2, ValuesNext, SystemNext, PlaceNext, ModeNext, FormNext DEF ParserInv, GcodeInv
<1>3. CASE UNCHANGED vars
  <2>1. UNCHANGED <<gc, eeprom, pc, blk, state, abort, queue, ppos, mpos, decayed, homedOver>>
    BY <1>3 DEF vars, line, machine, history
  <2>2. ValuesInv'
    BY <2>1 DEF ParserInv, ValuesInv, GcValues, BlkValues, CoordIndex
  <2>3. SystemInv'
    BY <2>1 DEF ParserInv, SystemInv
  <2>4. PlaceInv'
    BY <2>1, PlaceStill DEF ParserInv
  <2>5. ModeInv'
    BY <2>1 DEF ParserInv, ModeInv
  <2>6. FormInv'
    BY <2>1, FormSame DEF ParserInv
  <2> QED
    BY <1>1, <2>2, <2>3, <2>4, <2>5, <2>6 DEF ParserInv
<1> QED
  BY <1>2, <1>3

\* Between lines and out of check mode the parser works in the system that the EEPROM holds for
\* the selected one, whatever lines select or write systems, in whatever order, and whenever
\* resets and damaged records come, unless the selected record itself is damaged.
THEOREM SystemIsStoredHolds == Spec => []SystemIsStored
<1>1. ParserInv => SystemIsStored
  BY DEF ParserInv, SystemInv, SystemIsStored, AtRest
<1> QED
  BY <1>1, ParserStart, ParserNext, PTL DEF Spec

\* Whenever the machine stands still between lines, the parser, the planner and the machine
\* agree where it is, for any lines, any travel and any length of the queue, after any mixture
\* of motions, jogs, cancelled jogs, probe cycles, resets and homing with an empty queue.
THEOREM PositionsAgreeHolds == Spec => []PositionsAgree
<1>1. ParserInv => PositionsAgree
  <2> SUFFICES ASSUME ParserInv, AtRest, state = "IDLE", queue = <<>>, ~homedOver
               PROVE  gc.position = mpos /\ ppos = mpos
    BY DEF PositionsAgree
  <2>1. Leads(mpos, queue, ppos) /\ gc.position = ppos
    BY DEF ParserInv, PlaceInv, AtRest
  <2>2. ppos = mpos
    BY <2>1, LeadsNowhere DEF ParserInv, ValuesInv
  <2> QED
    BY <2>1, <2>2
<1> QED
  BY <1>1, ParserStart, ParserNext, PTL DEF Spec

\* In check mode nothing moves, nothing is planned and no output changes, for any lines: a line
\* that pauses, probes, jogs or ends the program included.
THEOREM CheckModeStillHolds == Spec => CheckModeStill
<1>1. ParserInv /\ [Next]_vars =>
        [state = "CHECK" /\ ~abort /\ ~abort' => UNCHANGED <<queue, ppos, mpos, outputs>>]_vars
  BY StillNext DEF ParserInv
<1> QED
  BY <1>1, ParserStart, ParserNext, PTL DEF Spec, CheckModeStill

\* G92, and G10 L20 on the active system, give the axes they name the work position they were
\* told and leave the others alone, for lines of any words, units, tool lengths and systems,
\* wherever in the line the system is selected, and whatever comes while the line waits.
THEOREM WorkPositionSetHolds == Spec => WorkPositionSet
<1> DEFINE Sets92 == pc = "data" /\ pc' # pc
                     /\ \/ blk.non_modal = "SET_COORDINATE_OFFSET"
                        \/ /\ blk.non_modal = "SET_COORDINATE_DATA" /\ blk.value["L"] = 20
                           /\ CoordIndex(blk) = gc.modal.coord_select
           Told == \A a \in Axes :
                     \/ WorkPosition(gc')[a] = (IF a \in AxisWords(blk) THEN Given(blk, a)
                                                ELSE WorkPosition(gc)[a])
                     \/ a \notin AxisWords(blk) /\ (eeprom[gc.modal.coord_select] # gc.coord_system)
<1>1. ParserInv /\ [Next]_vars => [Sets92 => Told]_vars
  <2> SUFFICES ASSUME ParserInv, Next, Sets92
               PROVE  Told
    OBVIOUS
  <2>1. RecordsInv /\ ValuesInv /\ FormInv
    BY DEF ParserInv, GcodeInv
  <2> QED
    BY <2>1, WorkNext
<1>2. WorkPositionSet <=> [][Sets92 => Told]_vars
  BY DEF WorkPositionSet
<1> HIDE DEF Sets92, Told
<1> QED
  BY <1>1, <1>2, ParserStart, ParserNext, PTL DEF Spec
=============================================================================
