------------------------------- MODULE Storage -------------------------------
(***************************************************************************)
(* What gCarvin keeps in its EEPROM (settings.c, ps_settings.c, eeprom.c): *)
(* the settings, the product's own parameters, coordinate data and startup *)
(* lines, each a record of bytes with a checksum.  A record is written one *)
(* byte at a time, and the power may fail between any two bytes; the next  *)
(* start finds what was written so far.  The main program waits while it   *)
(* writes, so an operation appears here as the bytes it has yet to write.  *)
(*                                                                         *)
(* The settings are two bytes, the flags and one other; coordinate data is *)
(* the record of G28, and a line has two characters.  Addresses follow the *)
(* order of the code, with no room between the records.                    *)
(***************************************************************************)
EXTENDS Integers, Sequences, SequencesExt

CONSTANTS
  Base,               \* the values of a byte (256)
  Images,             \* contents of the EEPROM before the first start
  Values,             \* the values the operator may set
  DefaultSettings, DefaultParams, DefaultCoord,
  LossInOldUpgrade,   \* the power may also fail while version 11 is converted
  MaxLosses, MaxStores   \* bounds: failures of the power, operations that store

\* settings_t, the parameter table, and the stored flags
SettingsSize == 2
LineSize == 2
CoordSize == 2
StorageSize == 2
HomingEnable == 1
SoftLimitEnable == 2
Version == 12
ZeroCoord == <<0, 0>>

\* Where the records begin; version 11 had one byte more of settings.
GlobalAddr == 1
CoordAddr == 5
\* Mutant: the place of the checksum is forgotten.
LineAddrNoChecksum == 7
LineAddr == 8
HeaderAddr == 11
SizeAddr == 12
ParamsAddr == 13
Addresses == 0..15
Header == 9         \* "Inventables Settings", as one byte

Bytes == 0..(Base - 1)
Records == {"settings", "params", "coord", "line"}

ASSUME StorageAssumption ==
  /\ Base \in Nat /\ Base > Version
  /\ Images \subseteq [Addresses -> Bytes]
  /\ Values \subseteq Bytes
  /\ DefaultSettings \in Seq(Bytes) /\ Len(DefaultSettings) = SettingsSize
  /\ DefaultParams \in Seq(Bytes) /\ Len(DefaultParams) = StorageSize
  /\ DefaultCoord \in Seq(Bytes) /\ Len(DefaultCoord) = CoordSize
  /\ LossInOldUpgrade \in BOOLEAN
  /\ MaxLosses \in Nat /\ MaxStores \in Nat

\* Whether a byte, and settings, have the flag.
ByteHas(byte, flag) == (byte \div flag) % 2 = 1
HasFlag(s, flag) == ByteHas(s[1], flag)

\* No chip comes with soft limits but no homing at the place of the flags, and no version of
\* the program has had such defaults.
ASSUME FlagsAssumption ==
  \A byte \in {DefaultSettings[1]} \cup {e[GlobalAddr] : e \in Images} :
    ByteHas(byte, SoftLimitEnable) => ByteHas(byte, HomingEnable)

\* No chip comes with more parameters than the table has (ps_settings_init() would write the
\* new size alone, and the checksum would no longer fit); an erased size is all ones.
ASSUME TableAssumption ==
  \A e \in Images : e[SizeAddr] <= StorageSize \/ e[SizeAddr] = Base - 1

VARIABLES
  eeprom,             \* the bytes stored
  pc,                 \* "settings" and "params": the start; "ready": running
  settings, params,   \* the copies in use
  todo,               \* bytes the operation under way has yet to write, with their record
  converting,         \* settings of version 11 are being rewritten
  kept, torn,         \* history: what the records should hold, and those cut by a power loss
  losses, stores      \* bounds

ram == <<settings, params>>
history == <<kept, torn>>
bounds == <<losses, stores>>
vars == <<eeprom, pc, ram, todo, converting, history, bounds>>

------------------------------------------------------------------------------
(* eeprom.c *)

\* The checksum of memcpy_to_eeprom_with_checksum(): what is meant to rotate the sum is a
\* logical or, and leaves 1 for any sum but 0.
Checksum(bytes) ==
  FoldLeft(LAMBDA sum, byte : ((IF sum # 0 THEN 1 ELSE 0) + byte) % Base, 0, bytes)

BytesAt(e, addr, n) == [i \in 1..n |-> e[addr + i - 1]]

\* memcpy_from_eeprom_with_checksum()
Valid(e, addr, n) == Checksum(BytesAt(e, addr, n)) = e[addr + n]

Put(record, addr, byte) == [record |-> record, addr |-> addr, byte |-> byte]

\* memcpy_to_eeprom_with_checksum(): the bytes in order, then the checksum.
PutRecord(record, addr, bytes) ==
  [i \in 1..(Len(bytes) + 1) |->
     Put(record, addr + i - 1, IF i <= Len(bytes) THEN bytes[i] ELSE Checksum(bytes))]

------------------------------------------------------------------------------
(* settings.c and ps_settings.c *)

\* read_global_settings() succeeds: version 10 has the record of today, version 11 one that
\* begins with it.
Readable(e) ==
  \/ e[0] \in {10, Version} /\ Valid(e, GlobalAddr, SettingsSize)
  \/ e[0] = 11 /\ Valid(e, GlobalAddr, SettingsSize + 1)

\* write_global_settings(): the version first.
WriteGlobal(record, s) == <<Put(record, 0, Version)>> \o PutRecord(record, GlobalAddr, s)

\* ps_settings_init() finds its header and a size, and the parameters it takes from there.
ParamsFound(e) == e[HeaderAddr] = Header /\ e[SizeAddr] > 0 /\ e[SizeAddr] < Base - 1
StoredParams(e) ==
  IF ParamsFound(e) /\ Valid(e, ParamsAddr, e[SizeAddr])
  THEN [i \in 1..StorageSize |->
          IF i <= e[SizeAddr] THEN e[ParamsAddr + i - 1] ELSE DefaultParams[i]]
  ELSE DefaultParams

\* ps_settings_restore(), with the size the table has by then
RestoreParams(size) ==
  <<Put("params", HeaderAddr, Header), Put("params", SizeAddr, size)>>
  \o (IF size = 0 THEN <<>> ELSE PutRecord("params", ParamsAddr, DefaultParams))

\* settings_restore(): zeros and then the default for G28; a startup line is emptied by its
\* first byte (the second is meant to be the checksum).
RestoreDefaults(size) == WriteGlobal("settings", DefaultSettings) \o RestoreParams(size)
RestoreCoord == PutRecord("coord", CoordAddr, ZeroCoord) \o PutRecord("coord", CoordAddr, DefaultCoord)
RestoreLine == <<Put("line", LineAddr, 0), Put("line", LineAddr + 1, 0)>>
RestoreAll(size) == RestoreDefaults(size) \o RestoreCoord \o RestoreLine

\* A line ends at its first zero.
LineOf(bytes) == IF bytes[1] = 0 THEN <<>> ELSE IF bytes[2] = 0 THEN <<bytes[1]>> ELSE bytes

\* What each record gives when it is read now.
Reads(e) == [
  settings |-> IF Readable(e) THEN BytesAt(e, GlobalAddr, SettingsSize) ELSE DefaultSettings,
  params   |-> StoredParams(e),
  coord    |-> IF Valid(e, CoordAddr, CoordSize) THEN BytesAt(e, CoordAddr, CoordSize) ELSE ZeroCoord,
  line     |-> IF Valid(e, LineAddr, LineSize) THEN LineOf(BytesAt(e, LineAddr, LineSize)) ELSE <<>>]

Defaults == [settings |-> DefaultSettings, params |-> DefaultParams,
             coord |-> DefaultCoord, line |-> <<>>]

Init ==
  /\ eeprom \in Images
  /\ pc = "settings" /\ todo = <<>> /\ converting = FALSE
  /\ settings = DefaultSettings /\ params = DefaultParams
  /\ kept = (IF Readable(eeprom) THEN Reads(eeprom) ELSE Defaults) /\ torn = {}
  /\ losses = 0 /\ stores = 0

\* eeprom_put_char()
PutChar ==
  /\ todo # <<>>
  /\ eeprom' = [eeprom EXCEPT ![Head(todo).addr] = Head(todo).byte]
  /\ todo' = Tail(todo)
  /\ converting' = (converting /\ todo' # <<>>)
  /\ UNCHANGED <<pc, ram, history, bounds>>

\* Fault: the power fails and comes back; the RAM is lost.
PowerLoss ==
  /\ losses < MaxLosses /\ losses' = losses + 1
  /\ converting => LossInOldUpgrade
  /\ pc' = "settings" /\ todo' = <<>> /\ converting' = FALSE
  /\ settings' = DefaultSettings /\ params' = DefaultParams
  /\ torn' = torn \cup ({todo[i].record : i \in DOMAIN todo} \cap Records)
  /\ UNCHANGED <<eeprom, kept, stores>>

\* settings_init(): an unreadable record restores everything, which only a chip without
\* settings and a write of the settings that was cut give reason for.  The table of
\* parameters is not set up yet, so the restore gives it no size.
SettingsInit ==
  /\ pc = "settings" /\ todo = <<>>
  /\ pc' = "params"
  /\ settings' = Reads(eeprom).settings
  /\ IF Readable(eeprom)
     THEN /\ todo' = IF eeprom[0] = Version THEN <<>> ELSE WriteGlobal("none", settings')
          /\ converting' = (eeprom[0] = 11)
          /\ UNCHANGED history
     ELSE /\ todo' = RestoreAll(0)
          /\ converting' = FALSE
          /\ kept' = IF "settings" \in torn THEN Defaults ELSE kept
          /\ torn' = {}
  /\ UNCHANGED <<eeprom, params, bounds>>

\* Mutant: parameters of a smaller table are only given their new size.
ParamsWritesSizeOnly(e) ==
  IF ~ParamsFound(e) THEN RestoreParams(StorageSize)
  ELSE IF e[SizeAddr] = StorageSize THEN <<>>
  ELSE <<Put("params", SizeAddr, StorageSize)>>

\* What ps_settings_init() writes: everything, nothing, or the change to the size of today.
ParamsWrites(e) ==
  IF ~ParamsFound(e) THEN RestoreParams(StorageSize)
  ELSE IF e[SizeAddr] = StorageSize THEN <<>>
  ELSE <<Put("params", SizeAddr, StorageSize)>>
       \o (IF e[SizeAddr] < StorageSize
           THEN PutRecord("params", ParamsAddr, StoredParams(e)) ELSE <<>>)

\* ps_settings_init()
ParamsInit ==
  /\ pc = "params" /\ todo = <<>>
  /\ pc' = "ready"
  /\ params' = StoredParams(eeprom)
  /\ todo' = ParamsWrites(eeprom)
  /\ UNCHANGED <<eeprom, settings, converting, history, bounds>>

------------------------------------------------------------------------------
(* Commands of the operator. *)

Command ==
  /\ pc = "ready" /\ todo = <<>>
  /\ UNCHANGED <<eeprom, pc, converting, losses>>
Stores(record, value, writes) ==
  /\ stores < MaxStores /\ stores' = stores + 1
  /\ todo' = writes
  /\ kept' = [kept EXCEPT ![record] = value] /\ torn' = torn \ {record}

WithFlag(s, flag, on) ==
  IF HasFlag(s, flag) = on THEN s
  ELSE [s EXCEPT ![1] = IF on THEN @ + flag ELSE @ - flag]

\* Mutant: homing is switched off without the soft limits.
HomingSetOnly(s, on) == WithFlag(s, HomingEnable, on)

\* $22: without homing there are no soft limits.
HomingSet(s, on) ==
  IF on THEN WithFlag(s, HomingEnable, on)
  ELSE WithFlag(WithFlag(s, HomingEnable, on), SoftLimitEnable, on)

\* settings_store_global_setting(): $20, $22 and a value.  $20=1 asks for homing.
StoreSetting ==
  /\ Command
  /\ \/ \E on \in BOOLEAN :
          \/ /\ on => HasFlag(settings, HomingEnable)
             /\ settings' = WithFlag(settings, SoftLimitEnable, on)
          \/ settings' = HomingSet(settings, on)
     \/ \E v \in Values : settings' = [settings EXCEPT ![2] = v]
  /\ Stores("settings", settings', WriteGlobal("settings", settings'))
  /\ UNCHANGED params

\* ps_settings_store_setting(), for a parameter of the table
StoreParam ==
  /\ Command
  /\ \E v \in Values : params' = [params EXCEPT ![1] = v]
  /\ Stores("params", params', PutRecord("params", ParamsAddr, params'))
  /\ UNCHANGED settings

\* settings_write_coord_data() and settings_store_startup_line()
StoreCoord ==
  /\ Command
  /\ \E v \in Values : Stores("coord", <<v, v>>, PutRecord("coord", CoordAddr, <<v, v>>))
  /\ UNCHANGED ram
StoreLine ==
  /\ Command
  /\ \E v \in Values, rest \in Values \cup {0} :
       Stores("line", LineOf(<<v, rest>>), PutRecord("line", LineAddr, <<v, rest>>))
  /\ UNCHANGED ram

\* settings_read_coord_data() and settings_read_startup_line(): a record that cannot be read
\* is written again, as zeros.
ReadCoord ==
  /\ Command
  /\ ~Valid(eeprom, CoordAddr, CoordSize)
  /\ todo' = PutRecord("coord", CoordAddr, ZeroCoord)
  /\ UNCHANGED <<ram, history, stores>>
ReadLine ==
  /\ Command
  /\ ~Valid(eeprom, LineAddr, LineSize)
  /\ todo' = PutRecord("line", LineAddr, <<0, eeprom[LineAddr + 1]>>)
  /\ UNCHANGED <<ram, history, stores>>

\* $RST=$, $RST=# and $RST=*
Restore ==
  /\ Command /\ stores < MaxStores /\ stores' = stores + 1
  /\ \E only \in {{"settings", "params"}, {"coord"}, Records} :
       /\ todo' = CASE only = {"settings", "params"} -> RestoreDefaults(StorageSize)
                    [] only = {"coord"} -> RestoreCoord
                    [] OTHER -> RestoreAll(StorageSize)
       /\ kept' = [r \in Records |-> IF r \in only THEN Defaults[r] ELSE kept[r]]
       /\ torn' = torn \ only
       /\ settings' = IF "settings" \in only THEN DefaultSettings ELSE settings
       /\ params' = IF "params" \in only THEN DefaultParams ELSE params

Next ==
  \/ PutChar \/ PowerLoss \/ SettingsInit \/ ParamsInit
  \/ StoreSetting \/ StoreParam \/ StoreCoord \/ StoreLine \/ ReadCoord \/ ReadLine \/ Restore

Spec == Init /\ [][Next]_vars

------------------------------------------------------------------------------
Ready == pc = "ready" /\ todo = <<>>

\* A restart would find the settings and parameters that are in use, whatever was stored,
\* restored, converted or cut before (settings_init() and ps_settings_init() against the
\* writes of every command).
InUse == Ready => settings = Reads(eeprom).settings /\ params = Reads(eeprom).params

\* Every record holds what was stored last, or the default it was restored to, unless the
\* power failed while this record was written: a loss in the middle of one record, of a
\* start or of the conversion of version 10 costs no other.  (Settings cut in the middle may
\* become unreadable, and then the start restores every record.)
RecordsKept == Ready => \A r \in Records \ torn : Reads(eeprom)[r] = kept[r]

\* Soft limits are never enabled without homing, which gives them their reference: not by
\* any order of $20 and $22, and not by a record that mixes the bytes of two.
SoftNeedsHoming ==
  pc # "settings" /\ HasFlag(settings, SoftLimitEnable) => HasFlag(settings, HomingEnable)
==============================================================================
