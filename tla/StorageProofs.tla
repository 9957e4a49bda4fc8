---------------------------- MODULE StorageProofs ----------------------------
(***************************************************************************)
(* Proofs about Storage, for every contents of the chip and any number of  *)
(* commands, power losses and upgrades: soft limits are never enabled      *)
(* without homing, a restart finds the settings and parameters in use, and *)
(* a loss of power costs no record but the one being written.              *)
(***************************************************************************)
EXTENDS Storage, SequenceTheorems, WellFoundedInduction, TLAPS

SoundByte(byte) == ByteHas(byte, SoftLimitEnable) => ByteHas(byte, HomingEnable)

\* Writes that store sound flags, if they store flags.
SoundPut(w) == w.addr = GlobalAddr => w.byte \in Nat /\ SoundByte(w.byte)
SoundWrites(writes) ==
  /\ \E S : writes \in Seq(S)
  /\ \A i \in 1..Len(writes) : SoundPut(writes[i])

\* A record of two bytes, and settings: such a record, with sound flags.
Pair(s) == s = [i \in 1..2 |-> s[i]]
SoundSettings(s) == Pair(s) /\ s[1] \in Nat /\ SoundByte(s[1])

\* The flags are sound where they are stored, where they are used, and in the bytes that are
\* still to be written: a power loss between any two of these leaves one of them.
FlagsInv ==
  /\ DOMAIN eeprom = Addresses
  /\ eeprom[GlobalAddr] \in Nat /\ SoundByte(eeprom[GlobalAddr])
  /\ SoundSettings(settings) /\ Pair(params)
  /\ SoundWrites(todo)

------------------------------------------------------------------------------
(* Writes *)

LEMMA SameInterval ==
  ASSUME NEW m \in Nat, NEW n \in Nat, 1..m = 1..n
  PROVE  m = n
<1>1. CASE m < n
  <2>1. n \in 1..n /\ n \notin 1..m
    BY <1>1
  <2> QED
    BY <2>1
<1>2. CASE n < m
  <2>1. m \in 1..m /\ m \notin 1..n
    BY <1>2
  <2> QED
    BY <2>1
<1> QED
  BY <1>1, <1>2

LEMMA NoWrites == SoundWrites(<<>>)
  BY EmptySeq DEF SoundWrites

LEMMA OneWrite ==
  ASSUME NEW w, SoundPut(w)
  PROVE  SoundWrites(<<w>>)
<1>1. <<w>> \in Seq({w}) /\ Len(<<w>>) = 1
  OBVIOUS
<1>2. ASSUME NEW i \in 1..1
      PROVE  SoundPut(<<w>>[i])
  <2>1. i = 1 /\ <<w>>[1] = w
    OBVIOUS
  <2> QED
    BY <2>1
<1>3. \E S : <<w>> \in Seq(S)
  BY <1>1
<1> QED
  BY <1>1, <1>2, <1>3 DEF SoundWrites

LEMMA JoinedWrites ==
  ASSUME NEW p, NEW q, SoundWrites(p), SoundWrites(q)
  PROVE  SoundWrites(p \o q)
<1>1. PICK S : p \in Seq(S)
  BY DEF SoundWrites
<1>2. PICK T : q \in Seq(T)
  BY DEF SoundWrites
<1>3. p \in Seq(S \cup T) /\ q \in Seq(S \cup T)
  BY <1>1, <1>2, SeqMonotonic
<1>4. /\ p \o q \in Seq(S \cup T)
      /\ Len(p \o q) = Len(p) + Len(q)
      /\ \A i \in 1..Len(p) + Len(q) :
           (p \o q)[i] = IF i <= Len(p) THEN p[i] ELSE q[i - Len(p)]
  BY <1>3, ConcatProperties
<1>5. Len(p) \in Nat /\ Len(q) \in Nat
  BY <1>3, LenProperties
<1>6. ASSUME NEW i \in 1..Len(p \o q)
      PROVE  SoundPut((p \o q)[i])
  <2>1. CASE i <= Len(p)
    <3>1. i \in 1..Len(p) /\ (p \o q)[i] = p[i]
      BY <1>4, <1>5, <2>1
    <3> QED
      BY <3>1 DEF SoundWrites
  <2>2. CASE ~(i <= Len(p))
    <3>1. i - Len(p) \in 1..Len(q) /\ (p \o q)[i] = q[i - Len(p)]
      BY <1>4, <1>5, <2>2
    <3> QED
      BY <3>1 DEF SoundWrites
  <2> QED
    BY <2>1, <2>2
<1> QED
  BY <1>4, <1>6 DEF SoundWrites

\* A record that is not that of the settings, or whose first byte is sound.
LEMMA RecordWrites ==
  ASSUME NEW record, NEW addr \in Nat, NEW bytes, NEW S, bytes \in Seq(S),
         addr >= GlobalAddr,
         addr = GlobalAddr => Len(bytes) >= 1 /\ bytes[1] \in Nat /\ SoundByte(bytes[1])
  PROVE  SoundWrites(PutRecord(record, addr, bytes))
<1> DEFINE q == PutRecord(record, addr, bytes)
           n == Len(bytes) + 1
           T == {q[i] : i \in 1..n}
<1>1. n \in Nat
  BY LenProperties
<1>2. q = [i \in 1..n |-> q[i]]
  BY DEF PutRecord
<1>3. q \in [1..n -> T]
  BY <1>2
<1>4. q \in Seq(T)
  BY <1>1, <1>3, SeqDef
<1>5. Len(q) = n
  <2>1. Len(q) \in Nat /\ DOMAIN q = 1..Len(q) /\ DOMAIN q = 1..n
    BY <1>2, <1>4, LenProperties
  <2> HIDE DEF n, q
  <2> QED
    BY <1>1, <2>1, SameInterval
<1>6. ASSUME NEW i \in 1..n
      PROVE  SoundPut(q[i])
  <2>1. q[i] = Put(record, addr + i - 1, IF i <= Len(bytes) THEN bytes[i] ELSE Checksum(bytes))
    BY DEF PutRecord
  <2>2. /\ q[i].addr = addr + i - 1
        /\ q[i].byte = IF i <= Len(bytes) THEN bytes[i] ELSE Checksum(bytes)
    BY <2>1 DEF Put
  <2>3. addr + i - 1 = GlobalAddr => i = 1 /\ addr = GlobalAddr
    BY DEF GlobalAddr
  <2> QED
    BY <2>2, <2>3 DEF SoundPut
<1> QED
  BY <1>4, <1>5, <1>6 DEF SoundWrites

LEMMA PairIsSequence ==
  ASSUME NEW s, Pair(s)
  PROVE  s \in Seq({s[1], s[2]}) /\ Len(s) = 2
<1>1. s = [i \in 1..2 |-> s[i]]
  BY DEF Pair
<1>2. s \in [1..2 -> {s[1], s[2]}]
  BY <1>1
<1>3. s \in Seq({s[1], s[2]})
  BY <1>2, SeqDef
<1>4. Len(s) \in Nat /\ DOMAIN s = 1..Len(s) /\ DOMAIN s = 1..2
  BY <1>1, <1>3, LenProperties
<1> QED
  BY <1>3, <1>4, SameInterval

LEMMA SequenceIsPair ==
  ASSUME NEW S, NEW s \in Seq(S), Len(s) = 2
  PROVE  Pair(s)
<1>1. s \in [1..2 -> S]
  BY LenProperties
<1> QED
  BY <1>1 DEF Pair

\* A record of two bytes anywhere but at the place of the settings.
LEMMA PairWrites ==
  ASSUME NEW record, NEW addr \in Nat, addr > GlobalAddr, NEW bytes, Pair(bytes)
  PROVE  SoundWrites(PutRecord(record, addr, bytes))
<1>1. bytes \in Seq({bytes[1], bytes[2]})
  BY PairIsSequence
<1>2. addr >= GlobalAddr /\ addr # GlobalAddr
  BY DEF GlobalAddr
<1> QED
  BY <1>1, <1>2, RecordWrites

\* write_global_settings()
LEMMA SettingsWrites ==
  ASSUME NEW record, NEW s, SoundSettings(s)
  PROVE  SoundWrites(WriteGlobal(record, s))
<1>1. SoundWrites(<<Put(record, 0, Version)>>)
  BY OneWrite DEF SoundPut, Put, GlobalAddr
<1>2. SoundWrites(PutRecord(record, GlobalAddr, s))
  <2>1. Pair(s) /\ s[1] \in Nat /\ SoundByte(s[1])
    BY DEF SoundSettings
  <2>2. s \in Seq({s[1], s[2]}) /\ Len(s) = 2
    BY <2>1, PairIsSequence
  <2> QED
    BY <2>1, <2>2, RecordWrites DEF GlobalAddr
<1> QED
  BY <1>1, <1>2, JoinedWrites DEF WriteGlobal

LEMMA DefaultsSound ==
  SoundSettings(DefaultSettings) /\ Pair(DefaultParams) /\ Pair(DefaultCoord) /\ Pair(ZeroCoord)
<1>1. Pair(DefaultSettings) /\ Pair(DefaultParams) /\ Pair(DefaultCoord)
  BY StorageAssumption, SequenceIsPair DEF SettingsSize, StorageSize, CoordSize
<1>2. DefaultSettings[1] \in Nat
  <2>1. DefaultSettings \in [1..2 -> Bytes]
    BY StorageAssumption, LenProperties DEF SettingsSize
  <2> QED
    BY <2>1, StorageAssumption DEF Bytes
<1>3. SoundByte(DefaultSettings[1])
  BY FlagsAssumption DEF SoundByte
<1>4. ZeroCoord \in Seq({0}) /\ Len(ZeroCoord) = 2
  BY DEF ZeroCoord
<1> QED
  BY <1>1, <1>2, <1>3, <1>4, SequenceIsPair DEF SoundSettings

\* ps_settings_restore() and settings_restore()
LEMMA ParamsRestored ==
  ASSUME NEW size
  PROVE  SoundWrites(RestoreParams(size))
<1> DEFINE header == Put("params", HeaderAddr, Header)
           length == Put("params", SizeAddr, size)
<1>1. SoundWrites(<<header>>) /\ SoundWrites(<<length>>)
  BY OneWrite DEF SoundPut, Put, GlobalAddr, HeaderAddr, SizeAddr
<1>2. <<header, length>> = <<header>> \o <<length>>
  OBVIOUS
<1>3. SoundWrites(<<header, length>>)
  BY <1>1, <1>2, JoinedWrites
<1>4. SoundWrites(IF size = 0 THEN <<>> ELSE PutRecord("params", ParamsAddr, DefaultParams))
  BY NoWrites, PairWrites, DefaultsSound DEF ParamsAddr, GlobalAddr
<1> QED
  BY <1>3, <1>4, JoinedWrites DEF RestoreParams

LEMMA DefaultsRestored ==
  ASSUME NEW size
  PROVE  SoundWrites(RestoreDefaults(size))
  BY DefaultsSound, SettingsWrites, ParamsRestored, JoinedWrites DEF RestoreDefaults

LEMMA CoordRestored == SoundWrites(RestoreCoord)
  BY DefaultsSound, PairWrites, JoinedWrites DEF RestoreCoord, CoordAddr, GlobalAddr

LEMMA LineRestored == SoundWrites(RestoreLine)
<1> DEFINE first == Put("line", LineAddr, 0)
           second == Put("line", LineAddr + 1, 0)
<1>1. SoundWrites(<<first>>) /\ SoundWrites(<<second>>)
  BY OneWrite DEF SoundPut, Put, GlobalAddr, LineAddr
<1>2. <<first, second>> = <<first>> \o <<second>>
  OBVIOUS
<1> QED
  BY <1>1, <1>2, JoinedWrites DEF RestoreLine

LEMMA AllRestored ==
  ASSUME NEW size
  PROVE  SoundWrites(RestoreAll(size))
<1>1. SoundWrites(RestoreDefaults(size) \o RestoreCoord)
  BY DefaultsRestored, CoordRestored, JoinedWrites
<1> QED
  BY <1>1, LineRestored, JoinedWrites DEF RestoreAll

------------------------------------------------------------------------------
(* What is read, and the two flags *)

LEMMA ReadSettingsSound ==
  ASSUME FlagsInv
  PROVE  SoundSettings(Reads(eeprom).settings)
<1> DEFINE b == BytesAt(eeprom, GlobalAddr, SettingsSize)
<1>1. Pair(b) /\ b[1] = eeprom[GlobalAddr]
  BY DEF Pair, BytesAt, SettingsSize, GlobalAddr
<1>2. SoundSettings(b)
  BY <1>1 DEF FlagsInv, SoundSettings
<1>3. Reads(eeprom).settings = IF Readable(eeprom) THEN b ELSE DefaultSettings
  BY DEF Reads
<1> QED
  BY <1>2, <1>3, DefaultsSound

LEMMA StoredParamsPair == Pair(StoredParams(eeprom))
<1>1. Pair([i \in 1..StorageSize |->
             IF i <= eeprom[SizeAddr] THEN eeprom[ParamsAddr + i - 1] ELSE DefaultParams[i]])
  BY DEF Pair, StorageSize
<1> QED
  BY <1>1, DefaultsSound DEF StoredParams

\* ps_settings_init()
LEMMA ParamsWritesSound == SoundWrites(ParamsWrites(eeprom))
<1>1. SoundWrites(<<Put("params", SizeAddr, StorageSize)>>)
  BY OneWrite DEF SoundPut, Put, GlobalAddr, SizeAddr
<1>2. SoundWrites(PutRecord("params", ParamsAddr, StoredParams(eeprom)))
  BY StoredParamsPair, PairWrites DEF ParamsAddr, GlobalAddr
<1>3. SoundWrites(IF eeprom[SizeAddr] < StorageSize
                  THEN PutRecord("params", ParamsAddr, StoredParams(eeprom)) ELSE <<>>)
  BY <1>2, NoWrites
<1> QED
  BY <1>1, <1>3, NoWrites, ParamsRestored, JoinedWrites DEF ParamsWrites

LEMMA FirstReplaced ==
  ASSUME NEW s, Pair(s), NEW v, NEW t, t = [s EXCEPT ![1] = v]
  PROVE  Pair(t) /\ t[1] = v
<1>1. s = [i \in 1..2 |-> s[i]]
  BY DEF Pair
<1>2. t = [i \in 1..2 |-> IF i = 1 THEN v ELSE s[i]]
  BY <1>1
<1> QED
  BY <1>2 DEF Pair

LEMMA FlagsReplaced ==
  ASSUME NEW s, Pair(s), NEW byte \in Nat, SoundByte(byte),
         NEW t, t = [s EXCEPT ![1] = byte]
  PROVE  SoundSettings(t)
<1>1. Pair(t) /\ t[1] = byte
  BY FirstReplaced
<1> QED
  BY <1>1 DEF SoundSettings

\* $20: soft limits are switched on only with homing.
LEMMA SoftLimitSound ==
  ASSUME NEW s, SoundSettings(s), NEW on \in BOOLEAN,
         on => HasFlag(s, HomingEnable)
  PROVE  SoundSettings(WithFlag(s, SoftLimitEnable, on))
<1>1. Pair(s) /\ s[1] \in Nat /\ SoundByte(s[1])
  BY DEF SoundSettings
<1>2. CASE HasFlag(s, SoftLimitEnable) = on
  BY <1>2 DEF WithFlag
<1>3. CASE ~HasFlag(s, SoftLimitEnable) /\ on
  <2>1. WithFlag(s, SoftLimitEnable, on) = [s EXCEPT ![1] = s[1] + 2]
    BY <1>3 DEF WithFlag, SoftLimitEnable
  <2>2. s[1] + 2 \in Nat /\ SoundByte(s[1] + 2)
    <3>1. (s[1] \div 1) % 2 = 1
      BY <1>3 DEF HasFlag, ByteHas, HomingEnable
    <3>2. ((s[1] + 2) \div 1) % 2 = 1
      BY <1>1, <3>1
    <3> QED
      BY <1>1, <3>2 DEF SoundByte, ByteHas, HomingEnable
  <2> QED
    BY <1>1, <2>1, <2>2, FlagsReplaced
<1>4. CASE HasFlag(s, SoftLimitEnable) /\ ~on
  <2>1. WithFlag(s, SoftLimitEnable, on) = [s EXCEPT ![1] = s[1] - 2]
    BY <1>4 DEF WithFlag, SoftLimitEnable
  <2>2. s[1] - 2 \in Nat /\ SoundByte(s[1] - 2)
    <3>1. (s[1] \div 2) % 2 = 1
      BY <1>4 DEF HasFlag, ByteHas, SoftLimitEnable
    <3>2. s[1] >= 2 /\ ((s[1] - 2) \div 2) % 2 = 0
      BY <1>1, <3>1
    <3> QED
      BY <1>1, <3>2 DEF SoundByte, ByteHas, SoftLimitEnable
  <2> QED
    BY <1>1, <2>1, <2>2, FlagsReplaced
<1> QED
  BY <1>2, <1>3, <1>4 DEF HasFlag, ByteHas

\* $22: homing switched off takes the soft limits with it.
LEMMA HomingSound ==
  ASSUME NEW s, SoundSettings(s), NEW on \in BOOLEAN
  PROVE  SoundSettings(HomingSet(s, on))
<1> DEFINE h == WithFlag(s, HomingEnable, on)
<1>1. Pair(s) /\ s[1] \in Nat /\ SoundByte(s[1])
  BY DEF SoundSettings
<1>2. CASE on
  <2>1. CASE HasFlag(s, HomingEnable)
    BY <1>2, <2>1 DEF HomingSet, WithFlag
  <2>2. CASE ~HasFlag(s, HomingEnable)
    <3>1. HomingSet(s, on) = [s EXCEPT ![1] = s[1] + 1]
      BY <1>2, <2>2 DEF HomingSet, WithFlag, HomingEnable
    <3>2. (s[1] \div 1) % 2 # 1
      BY <2>2 DEF HasFlag, ByteHas, HomingEnable
    <3>3. ((s[1] + 1) \div 1) % 2 = 1
      BY <1>1, <3>2
    <3>4. s[1] + 1 \in Nat /\ SoundByte(s[1] + 1)
      BY <1>1, <3>3 DEF SoundByte, ByteHas, HomingEnable
    <3> QED
      BY <1>1, <3>1, <3>4, FlagsReplaced
  <2> QED
    BY <2>1, <2>2
<1>3. CASE ~on
  <2>1. HomingSet(s, on) = WithFlag(h, SoftLimitEnable, on)
    BY <1>3 DEF HomingSet
  <2>2. Pair(h) /\ h[1] \in Nat
    <3>1. CASE ~HasFlag(s, HomingEnable)
      BY <1>1, <1>3, <3>1 DEF WithFlag, HasFlag, ByteHas
    <3>2. CASE HasFlag(s, HomingEnable)
      <4>1. h = [s EXCEPT ![1] = s[1] - 1]
        BY <1>3, <3>2 DEF WithFlag, HomingEnable
      <4>2. (s[1] \div 1) % 2 = 1
        BY <3>2 DEF HasFlag, ByteHas, HomingEnable
      <4>3. s[1] - 1 \in Nat
        BY <1>1, <4>2
      <4> QED
        BY <1>1, <4>1, <4>3, FirstReplaced
    <3> QED
      BY <3>1, <3>2
  <2> HIDE DEF h
  <2>3. CASE ~HasFlag(h, SoftLimitEnable)
    <3>1. WithFlag(h, SoftLimitEnable, on) = h
      BY <1>3, <2>3 DEF WithFlag, HasFlag, ByteHas
    <3>2. SoundByte(h[1])
      BY <2>3 DEF SoundByte, HasFlag
    <3> QED
      BY <2>1, <2>2, <3>1, <3>2 DEF SoundSettings
  <2>4. CASE HasFlag(h, SoftLimitEnable)
    <3>1. WithFlag(h, SoftLimitEnable, on) = [h EXCEPT ![1] = h[1] - 2]
      BY <1>3, <2>4 DEF WithFlag, SoftLimitEnable
    <3>2. (h[1] \div 2) % 2 = 1
      BY <2>4 DEF HasFlag, ByteHas, SoftLimitEnable
    <3>3. h[1] >= 2 /\ ((h[1] - 2) \div 2) % 2 = 0
      BY <2>2, <3>2
    <3>4. h[1] - 2 \in Nat /\ SoundByte(h[1] - 2)
      BY <2>2, <3>3 DEF SoundByte, ByteHas, SoftLimitEnable
    <3> QED
      BY <2>1, <2>2, <3>1, <3>4, FlagsReplaced
  <2> QED
    BY <2>3, <2>4
<1> QED
  BY <1>2, <1>3

------------------------------------------------------------------------------
(* The invariant *)

LEMMA FlagsInit == Init => FlagsInv
<1> SUFFICES ASSUME Init PROVE FlagsInv
  OBVIOUS
<1>1. eeprom \in Images /\ eeprom \in [Addresses -> Bytes]
  BY StorageAssumption DEF Init
<1>2. DOMAIN eeprom = Addresses /\ eeprom[GlobalAddr] \in Nat
  BY <1>1, StorageAssumption DEF Addresses, Bytes, GlobalAddr
<1>3. SoundByte(eeprom[GlobalAddr])
  BY <1>1, FlagsAssumption DEF SoundByte
<1> QED
  BY <1>2, <1>3, DefaultsSound, NoWrites DEF Init, FlagsInv

LEMMA PutCharSound ==
  ASSUME FlagsInv, PutChar
  PROVE  FlagsInv'
<1> DEFINE w == Head(todo)
<1>1. PICK S : todo \in Seq(S)
  BY DEF FlagsInv, SoundWrites
<1>2. todo # <<>> /\ Len(todo) \in Nat /\ Len(todo) >= 1
  <2>1. todo # <<>>
    BY DEF PutChar
  <2> QED
    BY <1>1, <2>1, EmptySeq, LenProperties
<1>3. w = todo[1] /\ SoundPut(w)
  <2>1. w = todo[1]
    BY <1>1, <1>2
  <2> QED
    BY <1>2, <2>1 DEF FlagsInv, SoundWrites
<1>4. SoundWrites(todo')
  <2>1. /\ Tail(todo) \in Seq(S) /\ Len(Tail(todo)) = Len(todo) - 1
        /\ \A i \in 1..Len(Tail(todo)) : Tail(todo)[i] = todo[i + 1]
    BY <1>1, <1>2, HeadTailProperties
  <2>2. ASSUME NEW i \in 1..Len(Tail(todo))
        PROVE  SoundPut(Tail(todo)[i])
    <3>1. i + 1 \in 1..Len(todo) /\ Tail(todo)[i] = todo[i + 1]
      BY <1>2, <2>1
    <3> QED
      BY <3>1 DEF FlagsInv, SoundWrites
  <2>3. todo' = Tail(todo)
    BY DEF PutChar
  <2> QED
    BY <2>1, <2>2, <2>3 DEF SoundWrites
<1>5. eeprom' = [eeprom EXCEPT ![w.addr] = w.byte]
  BY DEF PutChar
<1>6. DOMAIN eeprom' = Addresses
  BY <1>5 DEF FlagsInv
<1>7. eeprom'[GlobalAddr] \in Nat /\ SoundByte(eeprom'[GlobalAddr])
  <2>1. GlobalAddr \in DOMAIN eeprom
    BY DEF FlagsInv, GlobalAddr, Addresses
  <2> HIDE DEF w
  <2>2. CASE w.addr = GlobalAddr
    BY <1>3, <1>5, <2>1, <2>2 DEF SoundPut
  <2>3. CASE w.addr # GlobalAddr
    <3>1. eeprom'[GlobalAddr] = eeprom[GlobalAddr]
      BY <1>5, <2>1, <2>3
    <3> QED
      BY <3>1 DEF FlagsInv
  <2> QED
    BY <2>2, <2>3
<1>8. UNCHANGED <<settings, params>>
  BY DEF PutChar, ram
<1> QED
  BY <1>4, <1>6, <1>7, <1>8 DEF FlagsInv

\* Every other step leaves the stored bytes alone.
LEMMA OthersSound ==
  ASSUME FlagsInv, UNCHANGED eeprom,
         SoundSettings(settings'), Pair(params'), SoundWrites(todo')
  PROVE  FlagsInv'
  BY DEF FlagsInv

LEMMA StoreSettingSound ==
  ASSUME FlagsInv, StoreSetting
  PROVE  FlagsInv'
<1>1. SoundSettings(settings) /\ Pair(params) /\ UNCHANGED <<eeprom, params>>
  BY DEF FlagsInv, StoreSetting, Command
<1>2. SoundSettings(settings')
  <2>1. ASSUME NEW on \in BOOLEAN, on => HasFlag(settings, HomingEnable),
               settings' = WithFlag(settings, SoftLimitEnable, on)
        PROVE  SoundSettings(settings')
    BY <1>1, <2>1, SoftLimitSound
  <2>2. ASSUME NEW on \in BOOLEAN, settings' = HomingSet(settings, on)
        PROVE  SoundSettings(settings')
    BY <1>1, <2>2, HomingSound
  <2>3. ASSUME NEW v \in Values, settings' = [settings EXCEPT ![2] = v]
        PROVE  SoundSettings(settings')
    <3>1. settings = [i \in 1..2 |-> settings[i]]
      BY <1>1 DEF SoundSettings, Pair
    <3>2. settings' = [i \in 1..2 |-> IF i = 2 THEN v ELSE settings[i]]
      BY <2>3, <3>1
    <3>3. Pair(settings') /\ settings'[1] = settings[1]
      BY <3>2 DEF Pair
    <3> QED
      BY <1>1, <3>3 DEF SoundSettings
  <2> QED
    BY <2>1, <2>2, <2>3 DEF StoreSetting
<1>3. todo' = WriteGlobal("settings", settings')
  BY DEF StoreSetting, Stores
<1>4. SoundWrites(todo')
  BY <1>2, <1>3, SettingsWrites
<1> QED
  BY <1>1, <1>2, <1>4, OthersSound

LEMMA StoreParamSound ==
  ASSUME FlagsInv, StoreParam
  PROVE  FlagsInv'
<1>1. SoundSettings(settings) /\ Pair(params) /\ UNCHANGED <<eeprom, settings>>
  BY DEF FlagsInv, StoreParam, Command
<1>2. Pair(params')
  <2>1. PICK v \in Values : params' = [params EXCEPT ![1] = v]
    BY DEF StoreParam
  <2> QED
    BY <1>1, <2>1, FirstReplaced
<1>3. todo' = PutRecord("params", ParamsAddr, params')
  BY DEF StoreParam, Stores
<1>4. SoundWrites(todo')
  BY <1>2, <1>3, PairWrites DEF ParamsAddr, GlobalAddr
<1> QED
  BY <1>1, <1>2, <1>4, OthersSound

\* Commands that leave the settings and parameters in use as they are, and write coordinates
\* or a line.
LEMMA OtherRecordsSound ==
  ASSUME FlagsInv, StoreCoord \/ StoreLine \/ ReadCoord \/ ReadLine
  PROVE  FlagsInv'
<1>1. UNCHANGED <<eeprom, settings, params>>
  BY DEF StoreCoord, StoreLine, ReadCoord, ReadLine, Command, ram
<1>2. ASSUME NEW first, NEW second
      PROVE  Pair(<<first, second>>)
  <2>1. <<first, second>> \in Seq({first, second}) /\ Len(<<first, second>>) = 2
    OBVIOUS
  <2> QED
    BY <2>1, SequenceIsPair
<1>3. ASSUME NEW first, NEW second
      PROVE  /\ SoundWrites(PutRecord("coord", CoordAddr, <<first, second>>))
             /\ SoundWrites(PutRecord("line", LineAddr, <<first, second>>))
  BY <1>2, PairWrites DEF CoordAddr, LineAddr, GlobalAddr
<1>4. SoundWrites(todo')
  <2>1. CASE StoreCoord
    BY <1>3, <2>1 DEF StoreCoord, Stores
  <2>2. CASE StoreLine
    BY <1>3, <2>2 DEF StoreLine, Stores
  <2>3. CASE ReadCoord
    BY <1>3, <2>3 DEF ReadCoord, ZeroCoord
  <2>4. CASE ReadLine
    BY <1>3, <2>4 DEF ReadLine
  <2> QED
    BY <2>1, <2>2, <2>3, <2>4
<1> QED
  BY <1>1, <1>4, OthersSound DEF FlagsInv

LEMMA RestoreSound ==
  ASSUME FlagsInv, Restore
  PROVE  FlagsInv'
<1>1. SoundWrites(todo')
  BY DefaultsRestored, CoordRestored, AllRestored DEF Restore
<1>2. SoundSettings(settings') /\ Pair(params')
  <2>1. settings' \in {DefaultSettings, settings} /\ params' \in {DefaultParams, params}
    BY DEF Restore
  <2> QED
    BY <2>1, DefaultsSound DEF FlagsInv
<1>3. UNCHANGED eeprom
  BY DEF Restore, Command
<1> QED
  BY <1>1, <1>2, <1>3, OthersSound

LEMMA FlagsNext == FlagsInv /\ [Next]_vars => FlagsInv'
<1> SUFFICES ASSUME FlagsInv, [Next]_vars
             PROVE  FlagsInv'
  OBVIOUS
<1>1. CASE PutChar
  BY <1>1, PutCharSound
<1>2. CASE PowerLoss
  <2>1. UNCHANGED eeprom /\ todo' = <<>>
        /\ settings' = DefaultSettings /\ params' = DefaultParams
    BY <1>2 DEF PowerLoss
  <2> QED
    BY <2>1, DefaultsSound, NoWrites, OthersSound
<1>3. CASE SettingsInit
  <2>1. UNCHANGED <<eeprom, params>> /\ settings' = Reads(eeprom).settings
    BY <1>3 DEF SettingsInit
  <2>2. SoundSettings(settings')
    BY <2>1, ReadSettingsSound
  <2>3. todo' \in {<<>>, WriteGlobal("none", settings'), RestoreAll(0)}
    BY <1>3 DEF SettingsInit
  <2>4. SoundWrites(todo')
    BY <2>2, <2>3, NoWrites, SettingsWrites, AllRestored
  <2> QED
    BY <2>1, <2>2, <2>4, OthersSound DEF FlagsInv
<1>4. CASE ParamsInit
  <2>1. /\ UNCHANGED <<eeprom, settings>>
        /\ params' = StoredParams(eeprom) /\ todo' = ParamsWrites(eeprom)
    BY <1>4 DEF ParamsInit
  <2> QED
    BY <2>1, StoredParamsPair, ParamsWritesSound, OthersSound DEF FlagsInv
<1>5. CASE StoreSetting
  BY <1>5, StoreSettingSound
<1>6. CASE StoreParam
  BY <1>6, StoreParamSound
<1>7. CASE StoreCoord \/ StoreLine \/ ReadCoord \/ ReadLine
  BY <1>7, OtherRecordsSound
<1>8. CASE Restore
  BY <1>8, RestoreSound
<1>9. CASE UNCHANGED vars
  BY <1>9 DEF FlagsInv, vars, ram
<1> QED
  BY <1>1, <1>2, <1>3, <1>4, <1>5, <1>6, <1>7, <1>8, <1>9 DEF Next

\* Soft limits are never enabled without homing: not by any order of $20 and $22, of
\* restores and upgrades, and not by a loss of power between any two bytes of a write, for
\* every contents the chip may come with and every number of commands and losses.
THEOREM SoftNeedsHomingHolds == Spec => []SoftNeedsHoming
<1>1. FlagsInv => SoftNeedsHoming
  BY DEF FlagsInv, SoundSettings, SoundByte, SoftNeedsHoming, HasFlag
<1> QED
  BY <1>1, FlagsInit, FlagsNext, PTL DEF Spec

------------------------------------------------------------------------------
(* What the writes leave *)

IsSeq(w) == \E S : w \in Seq(S)

LastWrite(w, a, i) ==
  /\ i \in 1..Len(w) /\ w[i].addr = a
  /\ \A j \in 1..Len(w) : w[j].addr = a => j <= i

\* The bytes stored once the writes are done: of several to one address, the last.
Final(e, w) ==
  [a \in Addresses |-> IF \E i \in 1..Len(w) : LastWrite(w, a, i)
                       THEN w[CHOOSE i \in 1..Len(w) : LastWrite(w, a, i)].byte ELSE e[a]]

LEMMA LastExists ==
  ASSUME NEW w, Len(w) \in Nat, NEW a, NEW k \in 1..Len(w), w[k].addr = a
  PROVE  \E i \in 1..Len(w) : LastWrite(w, a, i)
<1> DEFINE n == Len(w)
           T == {m \in 0..n : \E i \in 1..n : w[i].addr = a /\ m = n - i}
<1>1. n - k \in T /\ T \subseteq Nat
  OBVIOUS
<1>2. PICK m \in T : \A j \in T : <<j, m>> \notin OpToRel(<, Nat)
  <2> HIDE DEF T
  <2> QED
    BY <1>1, WFMin, NatLessThanWellFounded, Zenon
<1>3. \A j \in T : ~(j < m)
  BY <1>1, <1>2, Zenon DEF OpToRel
<1>4. PICK i \in 1..n : w[i].addr = a /\ m = n - i
  BY <1>2
<1>5. ASSUME NEW j \in 1..n, w[j].addr = a
      PROVE  j <= i
  <2>1. n - j \in T
    BY <1>5
  <2>2. ~(n - j < n - i)
    BY <1>3, <1>4, <2>1
  <2> QED
    BY <2>2
<1> QED
  BY <1>4, <1>5 DEF LastWrite

LEMMA FinalAt ==
  ASSUME NEW e, NEW w, NEW a \in Addresses, NEW i, LastWrite(w, a, i), Len(w) \in Nat
  PROVE  Final(e, w)[a] = w[i].byte
<1>1. i \in 1..Len(w) /\ \E j \in 1..Len(w) : LastWrite(w, a, j)
  BY DEF LastWrite
<1>2. \A j \in 1..Len(w) : LastWrite(w, a, j) => j = i
  BY DEF LastWrite
<1>3. (CHOOSE j \in 1..Len(w) : LastWrite(w, a, j)) = i
  BY <1>1, <1>2
<1> QED
  BY <1>1, <1>3 DEF Final

LEMMA FinalElse ==
  ASSUME NEW e, NEW w, NEW a \in Addresses, \A i \in 1..Len(w) : w[i].addr # a
  PROVE  Final(e, w)[a] = e[a]
  BY DEF Final, LastWrite

\* Images, as functions.
Image(e) == e = [a \in Addresses |-> e[a]]

LEMMA SameImage ==
  ASSUME NEW e, Image(e), NEW g, Image(g), \A a \in Addresses : e[a] = g[a]
  PROVE  e = g
<1>1. [a \in Addresses |-> e[a]] = [a \in Addresses |-> g[a]]
  OBVIOUS
<1> QED
  BY <1>1 DEF Image

LEMMA FinalImage == \A e, w : Image(Final(e, w))
  BY DEF Image, Final

LEMMA FinalDone ==
  ASSUME NEW e, Image(e)
  PROVE  Final(e, <<>>) = e
<1>1. ASSUME NEW a \in Addresses
      PROVE  Final(e, <<>>)[a] = e[a]
  BY FinalElse
<1> QED
  BY <1>1, SameImage, FinalImage

LEMMA FinalJoined ==
  ASSUME NEW e, NEW p, NEW q, IsSeq(p), IsSeq(q)
  PROVE  Final(e, p \o q) = Final(Final(e, p), q)
<1> DEFINE w == p \o q
<1>1. PICK S : p \in Seq(S)
  BY DEF IsSeq
<1>2. PICK T : q \in Seq(T)
  BY DEF IsSeq
<1>3. p \in Seq(S \cup T) /\ q \in Seq(S \cup T)
  BY <1>1, <1>2, SeqMonotonic
<1>4. /\ Len(w) = Len(p) + Len(q)
      /\ \A i \in 1..Len(p) + Len(q) : w[i] = IF i <= Len(p) THEN p[i] ELSE q[i - Len(p)]
  BY <1>3, ConcatProperties
<1>5. Len(p) \in Nat /\ Len(q) \in Nat
  BY <1>3, LenProperties
<1> HIDE DEF w
<1>6. ASSUME NEW a \in Addresses
      PROVE  Final(e, w)[a] = Final(Final(e, p), q)[a]
  <2>1. CASE \E k \in 1..Len(q) : q[k].addr = a
    <3>1. PICK i \in 1..Len(q) : LastWrite(q, a, i)
      BY <1>5, <2>1, LastExists
    <3>2. q[i].addr = a /\ \A j \in 1..Len(q) : q[j].addr = a => j <= i
      BY <3>1 DEF LastWrite
    <3>3. Len(p) + i \in 1..Len(w) /\ w[Len(p) + i] = q[i]
      BY <1>4, <1>5
    <3>4. ASSUME NEW j \in 1..Len(w), w[j].addr = a, ~(j <= Len(p) + i)
          PROVE  FALSE
      <4>1. j - Len(p) \in 1..Len(q) /\ w[j] = q[j - Len(p)]
        BY <1>4, <1>5, <3>4
      <4> QED
        BY <1>5, <3>2, <3>4, <4>1
    <3>5. LastWrite(w, a, Len(p) + i)
      BY <3>2, <3>3, <3>4 DEF LastWrite
    <3> QED
      BY <1>4, <1>5, <3>1, <3>3, <3>5, FinalAt
  <2>2. CASE ~\E k \in 1..Len(q) : q[k].addr = a
    <3>1. Final(Final(e, p), q)[a] = Final(e, p)[a]
      BY <2>2, FinalElse
    <3>2. ASSUME NEW j \in 1..Len(w), w[j].addr = a
          PROVE  j \in 1..Len(p) /\ w[j] = p[j]
      <4>1. CASE ~(j <= Len(p))
        <5>1. j - Len(p) \in 1..Len(q) /\ w[j] = q[j - Len(p)]
          BY <1>4, <1>5, <4>1
        <5> QED
          BY <2>2, <3>2, <5>1
      <4>2. CASE j <= Len(p)
        BY <1>4, <1>5, <4>2
      <4> QED
        BY <4>1, <4>2
    <3>3. CASE \E k \in 1..Len(p) : p[k].addr = a
      <4>1. PICK i \in 1..Len(p) : LastWrite(p, a, i)
        BY <1>5, <3>3, LastExists
      <4>2. p[i].addr = a /\ \A j \in 1..Len(p) : p[j].addr = a => j <= i
        BY <4>1 DEF LastWrite
      <4>3. i \in 1..Len(w) /\ w[i] = p[i]
        BY <1>4, <1>5
      <4>4. LastWrite(w, a, i)
        BY <3>2, <4>2, <4>3 DEF LastWrite
      <4> QED
        BY <1>4, <1>5, <3>1, <4>1, <4>3, <4>4, FinalAt
    <3>4. CASE ~\E k \in 1..Len(p) : p[k].addr = a
      <4>1. \A j \in 1..Len(w) : w[j].addr # a
        BY <3>2, <3>4
      <4>2. Final(e, p)[a] = e[a]
        BY <3>4, FinalElse
      <4> QED
        BY <3>1, <4>1, <4>2, FinalElse
    <3> QED
      BY <3>3, <3>4
  <2> QED
    BY <2>1, <2>2
<1>7. Image(Final(e, w)) /\ Image(Final(Final(e, p), q))
  BY FinalImage
<1>8. Final(e, w) = Final(Final(e, p), q)
  BY <1>6, <1>7, SameImage
<1> QED
  BY <1>8 DEF w

\* One write.
LEMMA FinalOne ==
  ASSUME NEW e, NEW w
  PROVE  Final(e, <<w>>) = [a \in Addresses |-> IF a = w.addr THEN w.byte ELSE e[a]]
<1> DEFINE g == [a \in Addresses |-> IF a = w.addr THEN w.byte ELSE e[a]]
<1>1. Len(<<w>>) = 1 /\ <<w>>[1] = w
  OBVIOUS
<1>2. ASSUME NEW a \in Addresses
      PROVE  Final(e, <<w>>)[a] = g[a]
  <2>1. CASE a = w.addr
    <3>1. LastWrite(<<w>>, a, 1)
      BY <1>1, <2>1 DEF LastWrite
    <3>2. Final(e, <<w>>)[a] = <<w>>[1].byte
      BY <1>1, <3>1, FinalAt
    <3> QED
      BY <1>1, <2>1, <3>2
  <2>2. CASE a # w.addr
    <3>1. \A i \in 1..Len(<<w>>) : <<w>>[i].addr # a
      BY <1>1, <2>2
    <3> QED
      BY <2>2, <3>1, FinalElse
  <2> QED
    BY <2>1, <2>2
<1>3. Image(g) /\ Image(Final(e, <<w>>))
  BY FinalImage DEF Image
<1> QED
  BY <1>2, <1>3, SameImage

\* eeprom_put_char() changes nothing of what will be there in the end.
LEMMA FinalPut ==
  ASSUME NEW e, Image(e), NEW w, IsSeq(w), w # <<>>
  PROVE  Final([e EXCEPT ![Head(w).addr] = Head(w).byte], Tail(w)) = Final(e, w)
<1> DEFINE h == Head(w)
<1>1. PICK S : w \in Seq(S)
  BY DEF IsSeq
<1>2. w = <<h>> \o Tail(w) /\ Tail(w) \in Seq(S) /\ <<h>> \in Seq({h})
  <2>1. /\ h \in S /\ Tail(w) \in Seq(S) /\ Len(Tail(w)) = Len(w) - 1
        /\ \A i \in 1..Len(Tail(w)) : Tail(w)[i] = w[i + 1]
    BY <1>1, HeadTailProperties
  <2>2. Len(w) \in Nat /\ Len(w) >= 1 /\ h = w[1]
    BY <1>1, EmptySeq, LenProperties
  <2> HIDE DEF h
  <2>3. <<h>> \in Seq(S) /\ Len(<<h>>) = 1 /\ <<h>>[1] = h
    BY <2>1
  <2>4. /\ <<h>> \o Tail(w) \in Seq(S) /\ Len(<<h>> \o Tail(w)) = Len(w)
        /\ \A i \in 1..Len(w) : (<<h>> \o Tail(w))[i] = IF i <= 1 THEN <<h>>[i] ELSE Tail(w)[i - 1]
    BY <2>1, <2>2, <2>3, ConcatProperties
  <2>5. \A i \in 1..Len(w) : (<<h>> \o Tail(w))[i] = w[i]
    BY <2>1, <2>2, <2>3, <2>4
  <2>6. <<h>> \in Seq({h})
    OBVIOUS
  <2> QED
    BY <1>1, <2>1, <2>4, <2>5, <2>6, SeqEqual
<1> HIDE DEF h
<1>3. Final(e, w) = Final(Final(e, <<h>>), Tail(w))
  <2>1. IsSeq(<<h>>) /\ IsSeq(Tail(w))
    BY <1>2 DEF IsSeq
  <2>2. Final(e, <<h>> \o Tail(w)) = Final(Final(e, <<h>>), Tail(w))
    BY <2>1, FinalJoined
  <2> QED
    BY <1>2, <2>2
<1>4. Final(e, <<h>>) = [a \in Addresses |-> IF a = h.addr THEN h.byte ELSE e[a]]
  BY FinalOne
<1>5. [e EXCEPT ![h.addr] = h.byte] = [a \in Addresses |-> IF a = h.addr THEN h.byte ELSE e[a]]
  BY DEF Image
<1> QED
  BY <1>3, <1>4, <1>5 DEF h

------------------------------------------------------------------------------
(* Records *)

\* The bytes after a record of two bytes is written.
StoredAt(e, addr, b) ==
  [a \in Addresses |-> IF a = addr THEN b[1] ELSE IF a = addr + 1 THEN b[2]
                       ELSE IF a = addr + 2 THEN Checksum(b) ELSE e[a]]

LEMMA PairWritten ==
  ASSUME NEW record, NEW addr \in Nat, NEW b, Pair(b), NEW q, q = PutRecord(record, addr, b)
  PROVE  /\ IsSeq(q) /\ Len(q) = 3
         /\ q[1] = Put(record, addr, b[1]) /\ q[2] = Put(record, addr + 1, b[2])
         /\ q[3] = Put(record, addr + 2, Checksum(b))
<1>1. Len(b) = 2
  BY PairIsSequence
<1>2. q = [i \in 1..3 |-> Put(record, addr + i - 1, IF i <= 2 THEN b[i] ELSE Checksum(b))]
  BY <1>1 DEF PutRecord
<1>3. q \in [1..3 -> {q[1], q[2], q[3]}]
  BY <1>2
<1>4. q \in Seq({q[1], q[2], q[3]})
  <2>1. \A n \in Nat : \A T : [1..n -> T] \subseteq Seq(T)
    BY SeqDef
  <2> QED
    BY <1>3, <2>1, 3 \in Nat, Zenon
<1>5. Len(q) \in Nat /\ DOMAIN q = 1..Len(q) /\ DOMAIN q = 1..3
  BY <1>2, <1>4, LenProperties
<1>6. Len(q) = 3
  BY <1>5, SameInterval, 3 \in Nat
<1>7. /\ q[1] = Put(record, addr + 1 - 1, b[1]) /\ q[2] = Put(record, addr + 2 - 1, b[2])
      /\ q[3] = Put(record, addr + 3 - 1, Checksum(b))
  BY <1>2
<1>8. addr + 1 - 1 = addr /\ addr + 2 - 1 = addr + 1 /\ addr + 3 - 1 = addr + 2
  OBVIOUS
<1> QED
  BY <1>4, <1>6, <1>7, <1>8 DEF IsSeq

\* memcpy_to_eeprom_with_checksum()
LEMMA FinalRecord ==
  ASSUME NEW e, NEW record, NEW addr \in Nat, NEW b, Pair(b)
  PROVE  Final(e, PutRecord(record, addr, b)) = StoredAt(e, addr, b)
<1> DEFINE q == PutRecord(record, addr, b)
           g == StoredAt(e, addr, b)
<1>1. /\ Len(q) = 3
      /\ q[1].addr = addr /\ q[2].addr = addr + 1 /\ q[3].addr = addr + 2
      /\ q[1].byte = b[1] /\ q[2].byte = b[2] /\ q[3].byte = Checksum(b)
  <2>1. /\ Len(q) = 3 /\ q[1] = Put(record, addr, b[1]) /\ q[2] = Put(record, addr + 1, b[2])
        /\ q[3] = Put(record, addr + 2, Checksum(b))
    BY PairWritten
  <2> QED
    BY <2>1 DEF Put
<1> HIDE DEF q
<1>2. ASSUME NEW a \in Addresses
      PROVE  Final(e, q)[a] = g[a]
  <2>0. a \in Nat
    BY DEF Addresses
  <2>1. CASE \E i \in 1..3 : a = addr + i - 1
    <3>1. PICK i \in 1..3 : a = addr + i - 1
      BY <2>1
    <3>2. \A j \in 1..3 : q[j].addr = addr + j - 1
      BY <1>1
    <3>3. LastWrite(q, a, i)
      BY <1>1, <3>1, <3>2 DEF LastWrite
    <3>4. Final(e, q)[a] = q[i].byte
      BY <1>1, <3>3, FinalAt
    <3> QED
      BY <1>1, <3>1, <3>4 DEF StoredAt
  <2>2. CASE ~\E i \in 1..3 : a = addr + i - 1
    <3>1. a # addr /\ a # addr + 1 /\ a # addr + 2
      <4>1. addr = addr + 1 - 1 /\ addr + 1 = addr + 2 - 1 /\ addr + 2 = addr + 3 - 1
        OBVIOUS
      <4> QED
        BY <2>2, <4>1
    <3>2. \A i \in 1..Len(q) : q[i].addr # a
      BY <1>1, <3>1
    <3> QED
      BY <3>1, <3>2, FinalElse DEF StoredAt
  <2> QED
    BY <2>1, <2>2
<1>3. Image(g) /\ Image(Final(e, q))
  BY FinalImage DEF Image, StoredAt
<1>4. Final(e, q) = g
  BY <1>2, <1>3, SameImage
<1> QED
  BY <1>4 DEF q

\* What is written is read: memcpy_from_eeprom_with_checksum().
LEMMA StoredRead ==
  ASSUME NEW e, NEW addr \in Nat, addr + 2 \in Addresses, NEW b, Pair(b)
  PROVE  /\ BytesAt(StoredAt(e, addr, b), addr, 2) = b
         /\ Valid(StoredAt(e, addr, b), addr, 2)
<1> DEFINE g == StoredAt(e, addr, b)
<1>1. addr \in Addresses /\ addr + 1 \in Addresses
  BY DEF Addresses
<1>2. g[addr] = b[1] /\ g[addr + 1] = b[2] /\ g[addr + 2] = Checksum(b)
  BY <1>1 DEF StoredAt
<1> HIDE DEF g
<1>3. [i \in 1..2 |-> g[addr + i - 1]] = [i \in 1..2 |-> b[i]]
  <2>1. ASSUME NEW i \in 1..2 PROVE g[addr + i - 1] = b[i]
    <3>1. i = 1 \/ i = 2
      OBVIOUS
    <3>2. addr + 1 - 1 = addr /\ addr + 2 - 1 = addr + 1
      OBVIOUS
    <3> QED
      BY <1>2, <3>1, <3>2
  <2> QED
    BY <2>1
<1>4. BytesAt(g, addr, 2) = b
  BY <1>3 DEF BytesAt, Pair
<1> QED
  BY <1>2, <1>4 DEF Valid, g

------------------------------------------------------------------------------
(* What each record is read from *)

AreaOf(r) ==
  CASE r = "coord" -> CoordAddr..(LineAddr - 1) [] r = "line" -> LineAddr..(HeaderAddr - 1)
    [] r = "params" -> HeaderAddr..15 [] OTHER -> 0..(CoordAddr - 1)

\* The sizes the parameter table may have had, and an erased one.
Sizes == 0..StorageSize \cup {Base - 1}

Alike(e, g, r) == \A a \in AreaOf(r) : e[a] = g[a]

LEMMA SameBytes ==
  ASSUME NEW e, NEW g, NEW addr \in Nat, NEW n \in Nat,
         \A a \in addr..(addr + n) : e[a] = g[a]
  PROVE  BytesAt(e, addr, n) = BytesAt(g, addr, n) /\ Valid(e, addr, n) = Valid(g, addr, n)
<1>1. \A i \in 1..n : e[addr + i - 1] = g[addr + i - 1]
  <2>1. ASSUME NEW i \in 1..n PROVE addr + i - 1 \in addr..(addr + n)
    OBVIOUS
  <2> QED
    BY <2>1
<1>2. BytesAt(e, addr, n) = BytesAt(g, addr, n)
  BY <1>1 DEF BytesAt
<1>3. e[addr + n] = g[addr + n]
  OBVIOUS
<1> QED
  BY <1>2, <1>3 DEF Valid

LEMMA SameSettings ==
  ASSUME NEW e, NEW g, Alike(e, g, "settings")
  PROVE  /\ Readable(e) = Readable(g)
         /\ BytesAt(e, GlobalAddr, SettingsSize) = BytesAt(g, GlobalAddr, SettingsSize)
<1>1. \A a \in 0..4 : e[a] = g[a]
  BY DEF Alike, AreaOf, CoordAddr
<1>2. BytesAt(e, 1, 2) = BytesAt(g, 1, 2) /\ Valid(e, 1, 2) = Valid(g, 1, 2)
  <2>1. \A a \in 1..(1 + 2) : e[a] = g[a]
    BY <1>1
  <2> QED
    BY <2>1, SameBytes, 1 \in Nat, 2 \in Nat
<1>3. Valid(e, 1, 3) = Valid(g, 1, 3)
  <2>1. \A a \in 1..(1 + 3) : e[a] = g[a]
    BY <1>1
  <2> QED
    BY <2>1, SameBytes, 1 \in Nat, 3 \in Nat
<1>4. e[0] = g[0]
  BY <1>1
<1> QED
  BY <1>2, <1>3, <1>4 DEF Readable, GlobalAddr, SettingsSize

LEMMA FoundSize ==
  ASSUME NEW e, e[SizeAddr] \in Sizes, ParamsFound(e)
  PROVE  e[SizeAddr] \in 1..2
  BY StorageAssumption DEF Sizes, StorageSize, ParamsFound

LEMMA SameParams ==
  ASSUME NEW e, NEW g, Alike(e, g, "params"), e[SizeAddr] \in Sizes
  PROVE  StoredParams(e) = StoredParams(g)
<1>1. \A a \in 11..15 : e[a] = g[a]
  BY DEF Alike, AreaOf, HeaderAddr
<1>2. e[HeaderAddr] = g[HeaderAddr] /\ e[SizeAddr] = g[SizeAddr]
  BY <1>1 DEF HeaderAddr, SizeAddr
<1>3. ParamsFound(e) = ParamsFound(g)
  BY <1>2 DEF ParamsFound
<1>4. CASE ParamsFound(e)
  <2>1. e[SizeAddr] \in 1..2
    BY <1>4, FoundSize
  <2>2. Valid(e, ParamsAddr, e[SizeAddr]) = Valid(g, ParamsAddr, e[SizeAddr])
    <3>1. \A a \in ParamsAddr..(ParamsAddr + e[SizeAddr]) : e[a] = g[a]
      BY <1>1, <2>1 DEF ParamsAddr
    <3> QED
      BY <2>1, <3>1, SameBytes DEF ParamsAddr
  <2>3. \A i \in 1..StorageSize : i <= e[SizeAddr] => e[ParamsAddr + i - 1] = g[ParamsAddr + i - 1]
    BY <1>1 DEF ParamsAddr, StorageSize
  <2>4. [i \in 1..StorageSize |->
          IF i <= e[SizeAddr] THEN e[ParamsAddr + i - 1] ELSE DefaultParams[i]]
        = [i \in 1..StorageSize |->
            IF i <= g[SizeAddr] THEN g[ParamsAddr + i - 1] ELSE DefaultParams[i]]
    BY <1>2, <2>3
  <2> QED
    BY <1>2, <1>3, <2>2, <2>4 DEF StoredParams
<1>5. CASE ~ParamsFound(e)
  BY <1>3, <1>5 DEF StoredParams
<1> QED
  BY <1>4, <1>5

LEMMA ReadsFields ==
  ASSUME NEW e
  PROVE  /\ Reads(e)["settings"] = IF Readable(e) THEN BytesAt(e, GlobalAddr, SettingsSize)
                                   ELSE DefaultSettings
         /\ Reads(e)["params"] = StoredParams(e)
         /\ Reads(e)["coord"] = IF Valid(e, CoordAddr, CoordSize)
                                THEN BytesAt(e, CoordAddr, CoordSize) ELSE ZeroCoord
         /\ Reads(e)["line"] = IF Valid(e, LineAddr, LineSize)
                               THEN LineOf(BytesAt(e, LineAddr, LineSize)) ELSE <<>>
         /\ DOMAIN Reads(e) = Records
  BY DEF Reads, Records

LEMMA DefaultsFields ==
  /\ Defaults["settings"] = DefaultSettings /\ Defaults["params"] = DefaultParams
  /\ Defaults["coord"] = DefaultCoord /\ Defaults["line"] = <<>>
  /\ DOMAIN Defaults = Records
  BY DEF Defaults, Records

\* A record is read from its own area alone.
LEMMA SameRecord ==
  ASSUME NEW e, NEW g, NEW r \in Records, Alike(e, g, r), e[SizeAddr] \in Sizes
  PROVE  Reads(e)[r] = Reads(g)[r]
<1>1. CASE r = "settings"
  BY <1>1, SameSettings, ReadsFields
<1>2. CASE r = "params"
  BY <1>2, SameParams, ReadsFields
<1>3. CASE r = "coord"
  <2>1. \A a \in 5..7 : e[a] = g[a]
    BY <1>3 DEF Alike, AreaOf, CoordAddr, LineAddr
  <2>2. /\ BytesAt(e, CoordAddr, CoordSize) = BytesAt(g, CoordAddr, CoordSize)
        /\ Valid(e, CoordAddr, CoordSize) = Valid(g, CoordAddr, CoordSize)
    <3>1. \A a \in CoordAddr..(CoordAddr + CoordSize) : e[a] = g[a]
      BY <2>1 DEF CoordAddr, CoordSize
    <3>2. CoordAddr \in Nat /\ CoordSize \in Nat
      BY DEF CoordAddr, CoordSize
    <3> QED
      BY <3>1, <3>2, SameBytes
  <2> QED
    BY <1>3, <2>2, ReadsFields
<1>4. CASE r = "line"
  <2>1. \A a \in 8..10 : e[a] = g[a]
    BY <1>4 DEF Alike, AreaOf, HeaderAddr, LineAddr
  <2>2. /\ BytesAt(e, LineAddr, LineSize) = BytesAt(g, LineAddr, LineSize)
        /\ Valid(e, LineAddr, LineSize) = Valid(g, LineAddr, LineSize)
    <3>1. \A a \in LineAddr..(LineAddr + LineSize) : e[a] = g[a]
      BY <2>1 DEF LineAddr, LineSize
    <3>2. LineAddr \in Nat /\ LineSize \in Nat
      BY DEF LineAddr, LineSize
    <3> QED
      BY <3>1, <3>2, SameBytes
  <2> QED
    BY <1>4, <2>2, ReadsFields
<1> QED
  BY <1>1, <1>2, <1>3, <1>4 DEF Records

------------------------------------------------------------------------------
(* Labels: a write lies in the area of its record *)

\* Writes of the given records; those of an upgrade have none, and are settings.
Labelled(w, L) ==
  /\ IsSeq(w)
  /\ \A i \in 1..Len(w) :
       /\ w[i].record \in L /\ w[i].addr \in AreaOf(w[i].record)
       /\ w[i].addr = SizeAddr => w[i].byte \in Sizes

LEMMA TwoWrites ==
  ASSUME NEW first, NEW second
  PROVE  <<first, second>> = <<first>> \o <<second>>
<1> DEFINE S == {first, second}
<1>1. <<first>> \in Seq(S) /\ <<second>> \in Seq(S) /\ <<first, second>> \in Seq(S)
  OBVIOUS
<1>2. /\ Len(<<first>>) = 1 /\ Len(<<second>>) = 1 /\ Len(<<first, second>>) = 2
      /\ <<first>>[1] = first /\ <<second>>[1] = second
      /\ <<first, second>>[1] = first /\ <<first, second>>[2] = second
  OBVIOUS
<1> DEFINE p == <<first>>
           q == <<second>>
           w == <<first, second>>
<1> HIDE DEF S, p, q, w
<1>3. /\ p \o q \in Seq(S) /\ Len(p \o q) = 2
      /\ \A i \in 1..2 : (p \o q)[i] = IF i <= 1 THEN p[i] ELSE q[i - 1]
  BY <1>1, <1>2, ConcatProperties DEF p, q
<1>4. \A i \in 1..2 : w[i] = (p \o q)[i]
  <2>1. \A i \in 1..2 : i = 1 \/ i = 2
    OBVIOUS
  <2> QED
    BY <1>2, <1>3, <2>1 DEF p, q, w
<1>5. w \in Seq(S) /\ Len(w) = 2
  BY <1>1, <1>2 DEF w
<1>6. w = p \o q
  BY <1>3, <1>4, <1>5, SeqEqual
<1> QED
  BY <1>6 DEF p, q, w

LEMMA LabelledNothing == \A L : Labelled(<<>>, L)
  BY EmptySeq DEF Labelled, IsSeq

LEMMA LabelledOne ==
  ASSUME NEW record, NEW addr, NEW byte, NEW L, record \in L, addr \in AreaOf(record),
         addr = SizeAddr => byte \in Sizes
  PROVE  Labelled(<<Put(record, addr, byte)>>, L)
<1> DEFINE w == Put(record, addr, byte)
<1>1. w.record = record /\ w.addr = addr /\ w.byte = byte
  BY DEF Put
<1> HIDE DEF w
<1>2. <<w>> \in Seq({w}) /\ Len(<<w>>) = 1 /\ <<w>>[1] = w
  OBVIOUS
<1>3. \A i \in 1..Len(<<w>>) : <<w>>[i] = w
  BY <1>2
<1>4. Labelled(<<w>>, L)
  BY <1>1, <1>2, <1>3 DEF Labelled, IsSeq
<1> QED
  BY <1>4 DEF w

LEMMA LabelledJoined ==
  ASSUME NEW p, NEW q, NEW L, Labelled(p, L), Labelled(q, L)
  PROVE  Labelled(p \o q, L)
<1>1. PICK S : p \in Seq(S)
  BY DEF Labelled, IsSeq
<1>2. PICK T : q \in Seq(T)
  BY DEF Labelled, IsSeq
<1>3. p \in Seq(S \cup T) /\ q \in Seq(S \cup T)
  BY <1>1, <1>2, SeqMonotonic
<1>4. /\ p \o q \in Seq(S \cup T)
      /\ Len(p \o q) = Len(p) + Len(q)
      /\ \A i \in 1..Len(p) + Len(q) :
           (p \o q)[i] = IF i <= Len(p) THEN p[i] ELSE q[i - Len(p)]
  BY <1>3, ConcatProperties
<1>5. Len(p) \in Nat /\ Len(q) \in Nat
  BY <1>3, LenProperties
<1>6. ASSUME NEW i \in 1..Len(p \o q)
      PROVE  (\E j \in 1..Len(p) : (p \o q)[i] = p[j]) \/ (\E j \in 1..Len(q) : (p \o q)[i] = q[j])
  <2>1. CASE i <= Len(p)
    <3>1. i \in 1..Len(p) /\ (p \o q)[i] = p[i]
      BY <1>4, <1>5, <2>1
    <3> QED
      BY <3>1
  <2>2. CASE ~(i <= Len(p))
    <3>1. i - Len(p) \in 1..Len(q) /\ (p \o q)[i] = q[i - Len(p)]
      BY <1>4, <1>5, <2>2
    <3> QED
      BY <3>1
  <2> QED
    BY <2>1, <2>2
<1>7. IsSeq(p \o q)
  BY <1>4 DEF IsSeq
<1> QED
  BY <1>6, <1>7 DEF Labelled

LEMMA LabelledRecord ==
  ASSUME NEW record, NEW addr \in Nat, NEW b, Pair(b), NEW L, record \in L,
         addr \in AreaOf(record), addr + 1 \in AreaOf(record), addr + 2 \in AreaOf(record),
         SizeAddr \notin addr..(addr + 2)
  PROVE  Labelled(PutRecord(record, addr, b), L)
<1> DEFINE q == PutRecord(record, addr, b)
<1>1. /\ IsSeq(q) /\ Len(q) = 3
      /\ q[1] = Put(record, addr, b[1]) /\ q[2] = Put(record, addr + 1, b[2])
      /\ q[3] = Put(record, addr + 2, Checksum(b))
  BY PairWritten
<1>2. /\ q[1].record = record /\ q[2].record = record /\ q[3].record = record
      /\ q[1].addr = addr /\ q[2].addr = addr + 1 /\ q[3].addr = addr + 2
  BY <1>1 DEF Put
<1> HIDE DEF q
<1>3. addr # SizeAddr /\ addr + 1 # SizeAddr /\ addr + 2 # SizeAddr
  BY DEF SizeAddr
<1>4. \A i \in 1..Len(q) : i = 1 \/ i = 2 \/ i = 3
  BY <1>1
<1>5. Labelled(q, L)
  BY <1>1, <1>2, <1>3, <1>4 DEF Labelled
<1> QED
  BY <1>5 DEF q

LEMMA Areas ==
  /\ AreaOf("settings") = 0..4 /\ AreaOf("none") = 0..4
  /\ AreaOf("coord") = 5..7 /\ AreaOf("line") = 8..10 /\ AreaOf("params") = 11..15
  BY DEF AreaOf, CoordAddr, LineAddr, HeaderAddr

LEMMA LabelledGlobal ==
  ASSUME NEW record \in {"settings", "none"}, NEW s, Pair(s), NEW L, record \in L
  PROVE  Labelled(WriteGlobal(record, s), L)
<1>1. AreaOf(record) = 0..4
  BY Areas
<1>2. Labelled(<<Put(record, 0, Version)>>, L)
  BY <1>1, LabelledOne DEF SizeAddr
<1>3. Labelled(PutRecord(record, GlobalAddr, s), L)
  <2>1. 1 + 1 = 2 /\ 1 + 2 = 3
    OBVIOUS
  <2> QED
    BY <1>1, <2>1, LabelledRecord DEF GlobalAddr, SizeAddr
<1> QED
  BY <1>2, <1>3, LabelledJoined DEF WriteGlobal

LEMMA LabelledPairs ==
  ASSUME NEW b, Pair(b)
  PROVE  /\ Labelled(PutRecord("params", ParamsAddr, b), Records)
         /\ Labelled(PutRecord("coord", CoordAddr, b), Records)
         /\ Labelled(PutRecord("line", LineAddr, b), Records)
<1>1. /\ "params" \in Records /\ "coord" \in Records /\ "line" \in Records
      /\ ParamsAddr = 13 /\ CoordAddr = 5 /\ LineAddr = 8 /\ SizeAddr = 12
  BY DEF Records, ParamsAddr, CoordAddr, LineAddr, SizeAddr
<1>2. /\ 13 \in Nat /\ 13 \in 11..15 /\ 13 + 1 \in 11..15 /\ 13 + 2 \in 11..15
      /\ 5 \in Nat /\ 5 \in 5..7 /\ 5 + 1 \in 5..7 /\ 5 + 2 \in 5..7
      /\ 8 \in Nat /\ 8 \in 8..10 /\ 8 + 1 \in 8..10 /\ 8 + 2 \in 8..10
      /\ 12 \notin 13..(13 + 2) /\ 12 \notin 5..(5 + 2) /\ 12 \notin 8..(8 + 2)
  OBVIOUS
<1>3. Labelled(PutRecord("params", ParamsAddr, b), Records)
  BY <1>1, <1>2, Areas, LabelledRecord
<1>4. Labelled(PutRecord("coord", CoordAddr, b), Records)
  BY <1>1, <1>2, Areas, LabelledRecord
<1>5. Labelled(PutRecord("line", LineAddr, b), Records)
  BY <1>1, <1>2, Areas, LabelledRecord
<1> QED
  BY <1>3, <1>4, <1>5

LEMMA LabelledRestores ==
  ASSUME NEW size \in {0, StorageSize}
  PROVE  /\ Labelled(RestoreParams(size), Records)
         /\ Labelled(RestoreDefaults(size), Records)
         /\ Labelled(RestoreCoord, Records)
         /\ Labelled(RestoreLine, Records)
         /\ Labelled(RestoreAll(size), Records)
<1>1. Labelled(<<Put("params", HeaderAddr, Header)>>, Records)
  BY Areas, LabelledOne DEF HeaderAddr, SizeAddr, Records
<1>2. Labelled(<<Put("params", SizeAddr, size)>>, Records)
  <2>1. SizeAddr \in AreaOf("params") /\ "params" \in Records /\ size \in Sizes
    BY Areas DEF SizeAddr, Records, Sizes, StorageSize
  <2> QED
    BY <2>1, LabelledOne
<1>3. Labelled(<<Put("params", HeaderAddr, Header), Put("params", SizeAddr, size)>>, Records)
  BY <1>1, <1>2, TwoWrites, LabelledJoined
<1>4. Labelled(RestoreParams(size), Records)
  <2>1. Labelled(IF size = 0 THEN <<>> ELSE PutRecord("params", ParamsAddr, DefaultParams), Records)
    BY DefaultsSound, LabelledPairs, LabelledNothing
  <2> QED
    BY <1>3, <2>1, LabelledJoined DEF RestoreParams
<1>5. Labelled(WriteGlobal("settings", DefaultSettings), Records)
  BY DefaultsSound, LabelledGlobal DEF SoundSettings, Records
<1>6. Labelled(RestoreDefaults(size), Records)
  BY <1>4, <1>5, LabelledJoined DEF RestoreDefaults
<1>7. Labelled(RestoreCoord, Records)
  BY DefaultsSound, LabelledPairs, LabelledJoined DEF RestoreCoord
<1>8. Labelled(RestoreLine, Records)
  <2>1. Labelled(<<Put("line", LineAddr, 0)>>, Records)
    BY Areas, LabelledOne DEF LineAddr, SizeAddr, Records
  <2>2. Labelled(<<Put("line", LineAddr + 1, 0)>>, Records)
    <3>1. LineAddr + 1 \in 8..10 /\ LineAddr + 1 # SizeAddr
      BY DEF LineAddr, SizeAddr
    <3> QED
      BY <3>1, Areas, LabelledOne DEF Records
  <2> QED
    BY <2>1, <2>2, TwoWrites, LabelledJoined DEF RestoreLine
<1> QED
  BY <1>4, <1>6, <1>7, <1>8, LabelledJoined DEF RestoreAll

LEMMA LabelledSeq == \A w, L : Labelled(w, L) => IsSeq(w)
  BY DEF Labelled

LEMMA LabelledTail ==
  ASSUME NEW w, NEW L, Labelled(w, L), w # <<>>
  PROVE  Labelled(Tail(w), L)
<1>1. PICK S : w \in Seq(S)
  BY DEF Labelled, IsSeq
<1>2. /\ Tail(w) \in Seq(S) /\ Len(Tail(w)) = Len(w) - 1
      /\ \A i \in 1..Len(Tail(w)) : Tail(w)[i] = w[i + 1]
  BY <1>1, HeadTailProperties
<1>3. Len(w) \in Nat
  BY <1>1, LenProperties
<1>4. \A i \in 1..Len(Tail(w)) : i + 1 \in 1..Len(w)
  BY <1>2, <1>3
<1> QED
  BY <1>2, <1>4 DEF Labelled, IsSeq

------------------------------------------------------------------------------
(* What the operations leave *)

Versioned(e) == [a \in Addresses |-> IF a = 0 THEN Version ELSE e[a]]
Global(e, s) == StoredAt(Versioned(e), GlobalAddr, s)

\* g holds other bytes than e in the areas of these records at most.
Leaves(e, g, rs) == \A r \in Records \ rs : Alike(e, g, r)

\* write_global_settings()
LEMMA FinalGlobal ==
  ASSUME NEW e, NEW record, NEW s, Pair(s)
  PROVE  Final(e, WriteGlobal(record, s)) = Global(e, s)
<1>1. Final(e, <<Put(record, 0, Version)>>) = Versioned(e)
  <2>1. Put(record, 0, Version).addr = 0 /\ Put(record, 0, Version).byte = Version
    BY DEF Put
  <2> QED
    BY <2>1, FinalOne DEF Versioned
<1>2. IsSeq(<<Put(record, 0, Version)>>)
  <2>1. <<Put(record, 0, Version)>> \in Seq({Put(record, 0, Version)})
    OBVIOUS
  <2> QED
    BY <2>1 DEF IsSeq
<1>3. IsSeq(PutRecord(record, GlobalAddr, s))
  BY PairWritten DEF GlobalAddr
<1>4. Final(e, WriteGlobal(record, s)) = Final(Versioned(e), PutRecord(record, GlobalAddr, s))
  BY <1>1, <1>2, <1>3, FinalJoined DEF WriteGlobal
<1> QED
  BY <1>4, FinalRecord DEF Global, GlobalAddr

LEMMA GlobalRead ==
  ASSUME NEW e, NEW s, Pair(s)
  PROVE  /\ Readable(Global(e, s)) /\ BytesAt(Global(e, s), GlobalAddr, SettingsSize) = s
         /\ Leaves(e, Global(e, s), {"settings"})
<1>1. /\ Valid(Global(e, s), GlobalAddr, 2) /\ BytesAt(Global(e, s), GlobalAddr, 2) = s
  <2>1. GlobalAddr \in Nat /\ GlobalAddr + 2 \in Addresses
    BY DEF GlobalAddr, Addresses
  <2> QED
    BY <2>1, StoredRead DEF Global
<1>2. Global(e, s)[0] = Version
  BY DEF Global, StoredAt, Versioned, GlobalAddr, Addresses
<1>3. \A a \in 5..15 : Global(e, s)[a] = e[a]
  BY DEF Global, StoredAt, Versioned, GlobalAddr, Addresses
<1>4. \A r \in Records \ {"settings"} : AreaOf(r) \subseteq 5..15
  BY Areas DEF Records
<1>5. Leaves(e, Global(e, s), {"settings"})
  BY <1>3, <1>4 DEF Leaves, Alike
<1> QED
  BY <1>1, <1>2, <1>5 DEF Readable, SettingsSize

LEMMA StoredLeaves ==
  ASSUME NEW e, NEW b
  PROVE  /\ Leaves(e, StoredAt(e, ParamsAddr, b), {"params"})
         /\ Leaves(e, StoredAt(e, CoordAddr, b), {"coord"})
         /\ Leaves(e, StoredAt(e, LineAddr, b), {"line"})
<1>1. \A a \in 0..10 : StoredAt(e, ParamsAddr, b)[a] = e[a]
  BY DEF StoredAt, ParamsAddr, Addresses
<1>2. \A a \in (0..4) \cup (8..15) : StoredAt(e, CoordAddr, b)[a] = e[a]
  BY DEF StoredAt, CoordAddr, Addresses
<1>3. \A a \in (0..7) \cup (11..15) : StoredAt(e, LineAddr, b)[a] = e[a]
  BY DEF StoredAt, LineAddr, Addresses
<1>4. Leaves(e, StoredAt(e, ParamsAddr, b), {"params"})
  <2>1. \A r \in Records \ {"params"} : AreaOf(r) \subseteq 0..10
    BY Areas DEF Records
  <2> QED
    BY <1>1, <2>1 DEF Leaves, Alike
<1>5. Leaves(e, StoredAt(e, CoordAddr, b), {"coord"})
  <2>1. \A r \in Records \ {"coord"} : AreaOf(r) \subseteq (0..4) \cup (8..15)
    BY Areas DEF Records
  <2> QED
    BY <1>2, <2>1 DEF Leaves, Alike
<1>6. Leaves(e, StoredAt(e, LineAddr, b), {"line"})
  <2>1. \A r \in Records \ {"line"} : AreaOf(r) \subseteq (0..7) \cup (11..15)
    BY Areas DEF Records
  <2> QED
    BY <1>3, <2>1 DEF Leaves, Alike
<1> QED
  BY <1>4, <1>5, <1>6

LEMMA LeavesTwice ==
  ASSUME NEW e, NEW g, NEW h, NEW rs, NEW qs, Leaves(e, g, rs), Leaves(g, h, qs)
  PROVE  Leaves(e, h, rs \cup qs)
  BY DEF Leaves, Alike

\* The parameters a table of today's size gives.
LEMMA ParamsRead ==
  ASSUME NEW e, NEW b, Pair(b), e[HeaderAddr] = Header, e[SizeAddr] = StorageSize
  PROVE  LET g == StoredAt(e, ParamsAddr, b)
         IN  StoredParams(g) = b /\ g[HeaderAddr] = Header /\ g[SizeAddr] = StorageSize
<1> DEFINE g == StoredAt(e, ParamsAddr, b)
<1>1. g[HeaderAddr] = Header /\ g[SizeAddr] = StorageSize
  BY DEF StoredAt, HeaderAddr, SizeAddr, ParamsAddr, Addresses
<1>2. BytesAt(g, ParamsAddr, 2) = b /\ Valid(g, ParamsAddr, 2)
  <2>1. ParamsAddr \in Nat /\ ParamsAddr + 2 \in Addresses
    BY DEF ParamsAddr, Addresses
  <2> QED
    BY <2>1, StoredRead
<1> HIDE DEF g
<1>3. ParamsFound(g)
  BY <1>1, StorageAssumption DEF ParamsFound, StorageSize, Version
<1>4. StoredParams(g) = [i \in 1..2 |-> IF i <= 2 THEN g[ParamsAddr + i - 1] ELSE DefaultParams[i]]
  BY <1>1, <1>2, <1>3 DEF StoredParams, StorageSize
<1>5. [i \in 1..2 |-> IF i <= 2 THEN g[ParamsAddr + i - 1] ELSE DefaultParams[i]]
      = [i \in 1..2 |-> g[ParamsAddr + i - 1]]
  OBVIOUS
<1>6. StoredParams(g) = BytesAt(g, ParamsAddr, 2)
  BY <1>4, <1>5 DEF BytesAt
<1>7. StoredParams(g) = b /\ g[HeaderAddr] = Header /\ g[SizeAddr] = StorageSize
  BY <1>1, <1>2, <1>6
<1> QED
  BY <1>7 DEF g

\* ps_settings_restore()
LEMMA FinalParams ==
  ASSUME NEW e, NEW size \in {0, StorageSize}
  PROVE  LET g == Final(e, RestoreParams(size))
         IN  /\ StoredParams(g) = DefaultParams /\ g[HeaderAddr] = Header /\ g[SizeAddr] = size
             /\ Leaves(e, g, {"params"})
<1> DEFINE first == Put("params", HeaderAddr, Header)
           second == Put("params", SizeAddr, size)
           h == [a \in Addresses |-> IF a = HeaderAddr THEN Header
                                     ELSE IF a = SizeAddr THEN size ELSE e[a]]
           rest == IF size = 0 THEN <<>> ELSE PutRecord("params", ParamsAddr, DefaultParams)
           g == Final(e, RestoreParams(size))
<1>1. IsSeq(<<first>>) /\ IsSeq(<<second>>) /\ IsSeq(<<first, second>>) /\ IsSeq(rest)
  <2>1. <<first>> \in Seq({first}) /\ <<second>> \in Seq({second})
        /\ <<first, second>> \in Seq({first, second}) /\ <<>> \in Seq({first})
    OBVIOUS
  <2>2. IsSeq(PutRecord("params", ParamsAddr, DefaultParams))
    BY PairWritten, DefaultsSound DEF ParamsAddr
  <2> QED
    BY <2>1, <2>2 DEF IsSeq
<1>2. Final(e, <<first, second>>) = h
  <2>1. Final(e, <<first>>) = [a \in Addresses |-> IF a = HeaderAddr THEN Header ELSE e[a]]
    <3>1. first.addr = HeaderAddr /\ first.byte = Header
      BY DEF Put
    <3> QED
      BY <3>1, FinalOne
  <2>2. Final(Final(e, <<first>>), <<second>>)
        = [a \in Addresses |-> IF a = SizeAddr THEN size ELSE Final(e, <<first>>)[a]]
    <3>1. second.addr = SizeAddr /\ second.byte = size
      BY DEF Put
    <3> QED
      BY <3>1, FinalOne
  <2>3. Final(e, <<first, second>>) = Final(Final(e, <<first>>), <<second>>)
    <3>1. Final(e, <<first>> \o <<second>>) = Final(Final(e, <<first>>), <<second>>)
      BY <1>1, FinalJoined
    <3>2. <<first, second>> = <<first>> \o <<second>>
      BY TwoWrites
    <3> QED
      BY <3>1, <3>2
  <2>4. [a \in Addresses |-> IF a = SizeAddr THEN size ELSE Final(e, <<first>>)[a]] = h
    BY <2>1 DEF HeaderAddr, SizeAddr
  <2> QED
    BY <2>2, <2>3, <2>4
<1>3. g = Final(h, rest)
  BY <1>1, <1>2, FinalJoined DEF RestoreParams
<1>4. h[HeaderAddr] = Header /\ h[SizeAddr] = size /\ Leaves(e, h, {"params"})
  <2>1. \A a \in 0..10 : h[a] = e[a]
    BY DEF HeaderAddr, SizeAddr, Addresses
  <2>2. \A r \in Records \ {"params"} : AreaOf(r) \subseteq 0..10
    BY Areas DEF Records
  <2>3. Leaves(e, h, {"params"})
    BY <2>1, <2>2 DEF Leaves, Alike
  <2> QED
    BY <2>3 DEF HeaderAddr, SizeAddr, Addresses
<1>5. Image(h)
  BY DEF Image
<1> HIDE DEF h, rest
<1>6. CASE size = 0
  <2>1. g = h
    BY <1>3, <1>5, <1>6, FinalDone DEF rest
  <2>2. StoredParams(h) = DefaultParams
    BY <1>4, <1>6 DEF StoredParams, ParamsFound
  <2> QED
    BY <1>4, <2>1, <2>2
<1>7. CASE size = StorageSize
  <2>1. g = StoredAt(h, ParamsAddr, DefaultParams)
    <3>1. rest = PutRecord("params", ParamsAddr, DefaultParams)
      BY <1>7 DEF rest, StorageSize
    <3> QED
      BY <1>3, <3>1, DefaultsSound, FinalRecord DEF ParamsAddr
  <2>2. StoredParams(g) = DefaultParams /\ g[HeaderAddr] = Header /\ g[SizeAddr] = StorageSize
    BY <1>4, <1>7, <2>1, DefaultsSound, ParamsRead
  <2>3. Leaves(e, g, {"params"})
    <3>1. Leaves(h, g, {"params"})
      BY <2>1, StoredLeaves
    <3> QED
      BY <1>4, <3>1, LeavesTwice
  <2> QED
    BY <1>7, <2>2, <2>3
<1> QED
  BY <1>6, <1>7

\* settings_restore() for the settings and the parameters
LEMMA FinalDefaults ==
  ASSUME NEW e, NEW size \in {0, StorageSize}
  PROVE  LET g == Final(e, RestoreDefaults(size))
         IN  /\ Readable(g) /\ BytesAt(g, GlobalAddr, SettingsSize) = DefaultSettings
             /\ StoredParams(g) = DefaultParams /\ g[HeaderAddr] = Header /\ g[SizeAddr] = size
             /\ Leaves(e, g, {"settings", "params"})
<1> DEFINE h == Global(e, DefaultSettings)
           g == Final(e, RestoreDefaults(size))
<1>1. Pair(DefaultSettings)
  BY DefaultsSound DEF SoundSettings
<1>2. Final(e, WriteGlobal("settings", DefaultSettings)) = h
  BY <1>1, FinalGlobal
<1>3. g = Final(h, RestoreParams(size))
  <2>1. IsSeq(WriteGlobal("settings", DefaultSettings))
    BY <1>1, LabelledGlobal DEF Labelled
  <2>2. IsSeq(RestoreParams(size))
    BY LabelledRestores DEF Labelled
  <2> QED
    BY <1>2, <2>1, <2>2, FinalJoined DEF RestoreDefaults
<1>4. /\ Readable(h) /\ BytesAt(h, GlobalAddr, SettingsSize) = DefaultSettings
      /\ Leaves(e, h, {"settings"})
  BY <1>1, GlobalRead
<1> HIDE DEF g, h
<1>5. /\ StoredParams(g) = DefaultParams /\ g[HeaderAddr] = Header /\ g[SizeAddr] = size
      /\ Leaves(h, g, {"params"})
  BY <1>3, FinalParams
<1>6. Alike(h, g, "settings")
  BY <1>5 DEF Leaves, Records
<1>7. Readable(g) /\ BytesAt(g, GlobalAddr, SettingsSize) = DefaultSettings
  BY <1>4, <1>6, SameSettings
<1>8. Leaves(e, g, {"settings", "params"})
  BY <1>4, <1>5 DEF Leaves, Alike
<1> QED
  BY <1>5, <1>7, <1>8 DEF g

\* ... for coordinate data and for startup lines
LEMMA FinalCoord ==
  ASSUME NEW e
  PROVE  LET g == Final(e, RestoreCoord)
         IN  Reads(g)["coord"] = DefaultCoord /\ Leaves(e, g, {"coord"})
<1> DEFINE h == StoredAt(e, CoordAddr, ZeroCoord)
           g == StoredAt(h, CoordAddr, DefaultCoord)
<1>1. Pair(ZeroCoord) /\ Pair(DefaultCoord) /\ CoordAddr \in Nat /\ CoordAddr + 2 \in Addresses
  BY DefaultsSound DEF CoordAddr, Addresses
<1>2. Final(e, RestoreCoord) = g
  <2>1. IsSeq(PutRecord("coord", CoordAddr, ZeroCoord))
        /\ IsSeq(PutRecord("coord", CoordAddr, DefaultCoord))
    BY <1>1, PairWritten
  <2> QED
    BY <1>1, <2>1, FinalJoined, FinalRecord DEF RestoreCoord
<1>3. BytesAt(g, CoordAddr, 2) = DefaultCoord /\ Valid(g, CoordAddr, 2)
  BY <1>1, StoredRead
<1>4. Leaves(e, g, {"coord"})
  <2>1. Leaves(e, h, {"coord"}) /\ Leaves(h, g, {"coord"})
    BY StoredLeaves
  <2> QED
    BY <2>1, LeavesTwice
<1>5. Reads(g)["coord"] = DefaultCoord
  BY <1>3, ReadsFields DEF CoordSize
<1> QED
  BY <1>2, <1>4, <1>5

LEMMA FinalLine ==
  ASSUME NEW e
  PROVE  LET g == Final(e, RestoreLine)
         IN  Reads(g)["line"] = <<>> /\ Leaves(e, g, {"line"})
<1> DEFINE first == Put("line", LineAddr, 0)
           second == Put("line", LineAddr + 1, 0)
           h == Final(e, <<first>>)
           g == Final(e, RestoreLine)
<1>1. IsSeq(<<first>>) /\ IsSeq(<<second>>)
  <2>1. <<first>> \in Seq({first}) /\ <<second>> \in Seq({second})
    OBVIOUS
  <2> QED
    BY <2>1 DEF IsSeq
<1>2. h = [a \in Addresses |-> IF a = LineAddr THEN 0 ELSE e[a]]
  <2>1. first.addr = LineAddr /\ first.byte = 0
    BY DEF Put
  <2> QED
    BY <2>1, FinalOne
<1>3. g = [a \in Addresses |-> IF a = LineAddr + 1 THEN 0 ELSE h[a]]
  <2>1. second.addr = LineAddr + 1 /\ second.byte = 0
    BY DEF Put
  <2>2. g = Final(h, <<second>>)
    <3>1. Final(e, <<first>> \o <<second>>) = Final(h, <<second>>)
      BY <1>1, FinalJoined
    <3>2. RestoreLine = <<first>> \o <<second>>
      BY TwoWrites DEF RestoreLine
    <3> QED
      BY <3>1, <3>2
  <2> QED
    BY <2>1, <2>2, FinalOne
<1> HIDE DEF g, h
<1>4. g[8] = 0 /\ \A a \in (0..7) \cup (11..15) : g[a] = e[a]
  BY <1>2, <1>3 DEF LineAddr, Addresses
<1>5. Leaves(e, g, {"line"})
  <2>1. \A r \in Records \ {"line"} : AreaOf(r) \subseteq (0..7) \cup (11..15)
    BY Areas DEF Records
  <2> QED
    BY <1>4, <2>1 DEF Leaves, Alike
<1>6. LineOf(BytesAt(g, LineAddr, LineSize)) = <<>>
  BY <1>4 DEF LineOf, BytesAt, LineAddr, LineSize
<1>7. Reads(g)["line"] = <<>>
  BY <1>6, ReadsFields
<1> QED
  BY <1>5, <1>7 DEF g

LEMMA FinalAll ==
  ASSUME NEW e, NEW size \in {0, StorageSize}, e[SizeAddr] \in Sizes
  PROVE  LET g == Final(e, RestoreAll(size))
         IN  /\ Readable(g) /\ BytesAt(g, GlobalAddr, SettingsSize) = DefaultSettings
             /\ StoredParams(g) = DefaultParams /\ g[HeaderAddr] = Header /\ g[SizeAddr] = size
             /\ Reads(g)["coord"] = DefaultCoord /\ Reads(g)["line"] = <<>>
<1> DEFINE h == Final(e, RestoreDefaults(size))
           k == Final(h, RestoreCoord)
           g == Final(e, RestoreAll(size))
<1>1. IsSeq(RestoreDefaults(size)) /\ IsSeq(RestoreCoord) /\ IsSeq(RestoreLine)
      /\ IsSeq(RestoreDefaults(size) \o RestoreCoord)
  BY LabelledRestores, LabelledJoined DEF Labelled
<1>2. g = Final(k, RestoreLine)
  BY <1>1, FinalJoined DEF RestoreAll
<1>3. /\ Readable(h) /\ BytesAt(h, GlobalAddr, SettingsSize) = DefaultSettings
      /\ StoredParams(h) = DefaultParams /\ h[HeaderAddr] = Header /\ h[SizeAddr] = size
  BY FinalDefaults
<1> HIDE DEF g, h, k
<1>4. Reads(k)["coord"] = DefaultCoord /\ Leaves(h, k, {"coord"})
  BY FinalCoord DEF k
<1>5. Reads(g)["line"] = <<>> /\ Leaves(k, g, {"line"})
  BY <1>2, FinalLine
<1>6. Alike(h, g, "settings") /\ Alike(h, g, "params") /\ Alike(k, g, "coord")
  BY <1>4, <1>5 DEF Leaves, Alike, Records
<1>7. Readable(g) /\ BytesAt(g, GlobalAddr, SettingsSize) = DefaultSettings
  BY <1>3, <1>6, SameSettings
<1>8. g[HeaderAddr] = Header /\ g[SizeAddr] = size
  BY <1>3, <1>6, Areas DEF Alike, HeaderAddr, SizeAddr
<1>9. size \in Sizes
  BY DEF Sizes, StorageSize
<1>10. StoredParams(g) = DefaultParams
  BY <1>3, <1>6, <1>9, SameParams
<1>11. Reads(k)["coord"] = Reads(g)["coord"]
  <2>1. \A a \in 5..7 : k[a] = g[a]
    BY <1>6, Areas DEF Alike
  <2>2. /\ BytesAt(k, CoordAddr, CoordSize) = BytesAt(g, CoordAddr, CoordSize)
        /\ Valid(k, CoordAddr, CoordSize) = Valid(g, CoordAddr, CoordSize)
    <3>1. \A a \in CoordAddr..(CoordAddr + CoordSize) : k[a] = g[a]
      BY <2>1 DEF CoordAddr, CoordSize
    <3>2. CoordAddr \in Nat /\ CoordSize \in Nat
      BY DEF CoordAddr, CoordSize
    <3> QED
      BY <3>1, <3>2, SameBytes
  <2> QED
    BY <2>2, ReadsFields
<1> QED
  BY <1>4, <1>5, <1>7, <1>8, <1>10, <1>11 DEF g

\* ps_settings_init(): the parameters it takes are those that are found from then on.
LEMMA FinalParamsWrites ==
  ASSUME NEW e, Image(e), e[SizeAddr] \in Sizes, Pair(StoredParams(e))
  PROVE  LET g == Final(e, ParamsWrites(e))
         IN  /\ StoredParams(g) = StoredParams(e)
             /\ g[HeaderAddr] = Header /\ g[SizeAddr] = StorageSize
             /\ Leaves(e, g, {"params"}) /\ Labelled(ParamsWrites(e), Records)
<1> DEFINE g == Final(e, ParamsWrites(e))
<1>1. CASE ~ParamsFound(e)
  <2>1. ParamsWrites(e) = RestoreParams(StorageSize) /\ StoredParams(e) = DefaultParams
    BY <1>1 DEF ParamsWrites, StoredParams
  <2> QED
    BY <2>1, FinalParams, LabelledRestores
<1>2. CASE ParamsFound(e) /\ e[SizeAddr] = StorageSize
  <2>1. ParamsWrites(e) = <<>> /\ g = e
    BY <1>2, FinalDone DEF ParamsWrites
  <2> QED
    BY <1>2, <2>1, LabelledNothing DEF ParamsFound, Leaves, Alike
<1>3. CASE ParamsFound(e) /\ e[SizeAddr] # StorageSize
  <2> DEFINE first == Put("params", SizeAddr, StorageSize)
             rest == PutRecord("params", ParamsAddr, StoredParams(e))
             h == [a \in Addresses |-> IF a = SizeAddr THEN StorageSize ELSE e[a]]
  <2>1. e[SizeAddr] < StorageSize
    BY <1>3, FoundSize DEF StorageSize
  <2>2. ParamsWrites(e) = <<first>> \o rest
    BY <1>3, <2>1 DEF ParamsWrites
  <2>3. Labelled(<<first>>, Records) /\ Labelled(rest, Records)
    <3>1. SizeAddr \in AreaOf("params") /\ "params" \in Records /\ StorageSize \in Sizes
      BY Areas DEF SizeAddr, Records, Sizes, StorageSize
    <3> QED
      BY <3>1, LabelledOne, LabelledPairs
  <2>4. Final(e, <<first>>) = h
    <3>1. first.addr = SizeAddr /\ first.byte = StorageSize
      BY DEF Put
    <3> QED
      BY <3>1, FinalOne
  <2>5. g = StoredAt(h, ParamsAddr, StoredParams(e))
    <3>1. g = Final(h, rest)
      BY <2>2, <2>3, <2>4, FinalJoined DEF Labelled
    <3> QED
      BY <3>1, FinalRecord DEF ParamsAddr
  <2>6. h[HeaderAddr] = Header /\ h[SizeAddr] = StorageSize /\ \A a \in 0..10 : h[a] = e[a]
    BY <1>3 DEF ParamsFound, HeaderAddr, SizeAddr, Addresses
  <2>7. Leaves(e, h, {"params"})
    <3>1. \A r \in Records \ {"params"} : AreaOf(r) \subseteq 0..10
      BY Areas DEF Records
    <3> QED
      BY <2>6, <3>1 DEF Leaves, Alike
  <2> HIDE DEF h, g
  <2>8. StoredParams(g) = StoredParams(e) /\ g[HeaderAddr] = Header /\ g[SizeAddr] = StorageSize
    BY <2>5, <2>6, ParamsRead
  <2>9. Leaves(e, g, {"params"})
    <3>1. Leaves(h, g, {"params"})
      BY <2>5, StoredLeaves
    <3> QED
      BY <2>7, <3>1, LeavesTwice
  <2>10. Labelled(ParamsWrites(e), Records)
    BY <2>2, <2>3, LabelledJoined
  <2> QED
    BY <2>8, <2>9, <2>10 DEF g
<1> QED
  BY <1>1, <1>2, <1>3

------------------------------------------------------------------------------
(* What a restart would find *)

\* The bytes once the operation under way is done.
After == Final(eeprom, todo)

\* The copies in use are what a restart would find then; a start restores what it cannot
\* read before it uses it.
UseInv ==
  /\ FlagsInv
  /\ Image(eeprom) /\ eeprom[SizeAddr] \in Sizes /\ Labelled(todo, Records \cup {"none"})
  /\ DOMAIN kept = Records /\ torn \subseteq Records
  /\ pc \in {"settings", "params", "ready"}
  /\ pc = "settings" => todo = <<>>
  /\ pc # "settings" => Readable(After) /\ settings = BytesAt(After, GlobalAddr, SettingsSize)
  /\ pc = "ready" => /\ params = StoredParams(After)
                     /\ After[HeaderAddr] = Header /\ After[SizeAddr] = StorageSize

\* An upgrade of version 10 writes again what is there already, but for the version.
Repeats ==
  /\ eeprom[0] \in {10, Version} /\ Valid(eeprom, GlobalAddr, SettingsSize)
  /\ \A i \in 1..Len(todo) :
       todo[i].byte = IF todo[i].addr = 0 THEN Version ELSE eeprom[todo[i].addr]

\* Every record that is not cut will be what it should be, unless the settings cannot be read
\* and everything is restored.
KeptInv ==
  /\ Labelled(todo, Records) \/ (Labelled(todo, {"none"}) /\ (converting \/ Repeats))
  /\ Readable(After) => \A r \in Records \ torn : Reads(After)[r] = kept[r]
  /\ ~Readable(After) /\ "settings" \notin torn => \A r \in Records : kept[r] = Defaults[r]

LEMMA LabelledMore ==
  ASSUME NEW w, NEW L, NEW M, L \subseteq M, Labelled(w, L)
  PROVE  Labelled(w, M)
  BY DEF Labelled

LEMMA UseInit == Init => UseInv
<1> SUFFICES ASSUME Init PROVE UseInv
  OBVIOUS
<1>1. FlagsInv
  BY FlagsInit
<1>2. eeprom \in Images /\ eeprom \in [Addresses -> Bytes]
  BY StorageAssumption DEF Init
<1>3. Image(eeprom)
  BY <1>2 DEF Image
<1>4. eeprom[SizeAddr] \in Sizes
  <2>1. eeprom[SizeAddr] \in Nat
    BY <1>2, StorageAssumption DEF Bytes, Addresses, SizeAddr
  <2>2. eeprom[SizeAddr] <= StorageSize \/ eeprom[SizeAddr] = Base - 1
    BY <1>2, TableAssumption
  <2> QED
    BY <2>1, <2>2 DEF Sizes, StorageSize
<1>5. DOMAIN kept = Records
  BY ReadsFields, DefaultsFields DEF Init
<1>6. pc = "settings" /\ todo = <<>> /\ torn = {}
  BY DEF Init
<1> QED
  BY <1>1, <1>3, <1>4, <1>5, <1>6, LabelledNothing DEF UseInv

LEMMA KeptInit == Init => KeptInv
<1> SUFFICES ASSUME Init PROVE KeptInv
  OBVIOUS
<1>1. UseInv /\ todo = <<>>
  BY UseInit DEF Init
<1>2. After = eeprom
  BY <1>1, FinalDone DEF UseInv, After
<1>3. kept = IF Readable(eeprom) THEN Reads(eeprom) ELSE Defaults
  BY DEF Init
<1> QED
  BY <1>1, <1>2, <1>3, LabelledNothing DEF KeptInv

LEMMA PutCharUse ==
  ASSUME UseInv, PutChar
  PROVE  UseInv' /\ After' = After
<1>1. FlagsInv'
  BY PutCharSound DEF UseInv
<1> DEFINE w == Head(todo)
<1>2. PICK S : todo \in Seq(S)
  BY DEF UseInv, Labelled, IsSeq
<1>3. todo # <<>> /\ todo' = Tail(todo) /\ eeprom' = [eeprom EXCEPT ![w.addr] = w.byte]
      /\ UNCHANGED <<pc, settings, params, kept, torn>>
  BY DEF PutChar, ram, history
<1>4. 1 \in 1..Len(todo) /\ w = todo[1]
  <2>1. Len(todo) \in Nat /\ Len(todo) >= 1
    BY <1>2, <1>3, EmptySeq, LenProperties
  <2> QED
    BY <1>2, <2>1
<1>5. w.addr = SizeAddr => w.byte \in Sizes
  BY <1>4 DEF UseInv, Labelled
<1> HIDE DEF w
<1>6. Image(eeprom') /\ eeprom'[SizeAddr] \in Sizes
  <2>1. eeprom' = [a \in Addresses |-> IF a = w.addr THEN w.byte ELSE eeprom[a]]
    BY <1>3 DEF UseInv, Image
  <2>2. eeprom'[SizeAddr] = IF SizeAddr = w.addr THEN w.byte ELSE eeprom[SizeAddr]
    BY <2>1 DEF SizeAddr, Addresses
  <2> QED
    BY <1>5, <2>1, <2>2 DEF UseInv, Image
<1>7. Labelled(todo', Records \cup {"none"})
  BY <1>3, LabelledTail DEF UseInv
<1>8. After' = After
  <2>1. IsSeq(todo) /\ Image(eeprom)
    BY DEF UseInv, Labelled
  <2> QED
    BY <1>3, <2>1, FinalPut DEF After, w
<1>9. pc # "settings"
  BY <1>3 DEF UseInv
<1> QED
  BY <1>1, <1>3, <1>6, <1>7, <1>8, <1>9 DEF UseInv

LEMMA PutCharKept ==
  ASSUME UseInv, KeptInv, PutChar
  PROVE  KeptInv'
<1> DEFINE w == Head(todo)
<1>1. After' = After
  BY PutCharUse
<1>2. PICK S : todo \in Seq(S)
  BY DEF UseInv, Labelled, IsSeq
<1>3. /\ todo # <<>> /\ todo' = Tail(todo) /\ eeprom' = [eeprom EXCEPT ![w.addr] = w.byte]
      /\ converting' = (converting /\ todo' # <<>>) /\ UNCHANGED <<kept, torn>>
  BY DEF PutChar, ram, history
<1>4. /\ Len(todo') = Len(todo) - 1 /\ Len(todo) \in Nat /\ Len(todo) >= 1 /\ w = todo[1]
      /\ \A i \in 1..Len(todo') : todo'[i] = todo[i + 1]
  <2>1. Len(todo) \in Nat /\ Len(todo) >= 1
    BY <1>2, <1>3, EmptySeq, LenProperties
  <2> QED
    BY <1>2, <1>3, <2>1, HeadTailProperties
<1>5. Labelled(todo', Records) \/ (Labelled(todo', {"none"}) /\ (converting' \/ Repeats'))
  <2>1. CASE Labelled(todo, Records)
    BY <1>3, <2>1, LabelledTail
  <2>2. CASE Labelled(todo, {"none"}) /\ converting
    BY <1>3, <2>2, LabelledTail, LabelledNothing
  <2>3. CASE Labelled(todo, {"none"}) /\ Repeats
    <3>1. Labelled(todo', {"none"})
      BY <1>3, <2>3, LabelledTail
    <3>2. 1 \in 1..Len(todo)
      BY <1>4
    <3>3. w.byte = IF w.addr = 0 THEN Version ELSE eeprom[w.addr]
      BY <1>4, <2>3, <3>2 DEF Repeats
    <3> HIDE DEF w
    <3>4. \A a \in Addresses \ {0} : eeprom'[a] = eeprom[a]
      BY <1>3, <3>3 DEF UseInv, Image
    <3>5. eeprom'[0] \in {10, Version}
      <4>1. eeprom'[0] \in {eeprom[0], Version}
        <5>1. 0 \in Addresses
          BY DEF Addresses
        <5> QED
          BY <1>3, <3>3, <5>1 DEF UseInv, Image
      <4> QED
        BY <2>3, <4>1 DEF Repeats
    <3>6. Valid(eeprom', GlobalAddr, SettingsSize)
      <4>1. \A a \in GlobalAddr..(GlobalAddr + SettingsSize) : eeprom'[a] = eeprom[a]
        BY <3>4 DEF GlobalAddr, SettingsSize, Addresses
      <4>2. GlobalAddr \in Nat /\ SettingsSize \in Nat
        BY DEF GlobalAddr, SettingsSize
      <4> QED
        BY <2>3, <4>1, <4>2, SameBytes DEF Repeats
    <3>7. ASSUME NEW i \in 1..Len(todo')
          PROVE  todo'[i].byte = IF todo'[i].addr = 0 THEN Version ELSE eeprom'[todo'[i].addr]
      <4>1. i + 1 \in 1..Len(todo) /\ todo'[i] = todo[i + 1]
        BY <1>4
      <4>2. todo[i + 1].byte = IF todo[i + 1].addr = 0 THEN Version ELSE eeprom[todo[i + 1].addr]
        BY <2>3, <4>1 DEF Repeats
      <4>3. todo[i + 1].addr \in Addresses
        <5>1. todo[i + 1].record = "none" /\ todo[i + 1].addr \in AreaOf(todo[i + 1].record)
          BY <2>3, <4>1 DEF Labelled
        <5> QED
          BY <5>1, Areas DEF Addresses
      <4> QED
        BY <3>4, <4>1, <4>2, <4>3
    <3>8. Repeats'
      BY <3>5, <3>6, <3>7 DEF Repeats
    <3> QED
      BY <3>1, <3>8
  <2> QED
    BY <2>1, <2>2, <2>3 DEF KeptInv
<1> QED
  BY <1>1, <1>3, <1>5 DEF KeptInv

LEMMA PowerLossUse ==
  ASSUME UseInv, FlagsInv', PowerLoss
  PROVE  UseInv' /\ After' = eeprom
<1>1. /\ pc' = "settings" /\ todo' = <<>> /\ UNCHANGED <<eeprom, kept>>
      /\ torn' = torn \cup ({todo[i].record : i \in DOMAIN todo} \cap Records)
  BY DEF PowerLoss
<1>2. After' = eeprom
  BY <1>1, FinalDone DEF After, UseInv
<1> QED
  BY <1>1, <1>2, LabelledNothing DEF UseInv

\* The records that are not cut are as they will be; settings that an upgrade repeats, too.
LEMMA PowerLossKept ==
  ASSUME UseInv, KeptInv, FlagsInv', PowerLoss, ~LossInOldUpgrade
  PROVE  KeptInv'
<1>1. /\ todo' = <<>> /\ UNCHANGED <<eeprom, kept>> /\ ~converting
      /\ torn' = torn \cup ({todo[i].record : i \in DOMAIN todo} \cap Records)
  BY DEF PowerLoss
<1>2. After' = eeprom
  BY PowerLossUse
<1>3. DOMAIN todo = 1..Len(todo)
  <2>1. PICK S : todo \in Seq(S)
    BY DEF UseInv, Labelled, IsSeq
  <2> QED
    BY <2>1, LenProperties
<1>4. After[SizeAddr] \in Sizes
  <2>1. Len(todo) \in Nat /\ SizeAddr \in Addresses
    BY LenProperties DEF UseInv, Labelled, IsSeq, SizeAddr, Addresses
  <2>2. CASE \E k \in 1..Len(todo) : todo[k].addr = SizeAddr
    <3>1. PICK i \in 1..Len(todo) : LastWrite(todo, SizeAddr, i)
      BY <2>1, <2>2, LastExists
    <3>2. After[SizeAddr] = todo[i].byte
      BY <2>1, <3>1, FinalAt DEF After
    <3> QED
      BY <3>1, <3>2 DEF LastWrite, UseInv, Labelled
  <2>3. CASE ~\E k \in 1..Len(todo) : todo[k].addr = SizeAddr
    BY <2>1, <2>3, FinalElse DEF After, UseInv
  <2> QED
    BY <2>2, <2>3
\* What has no write to come is there already.
<1>5. ASSUME NEW r \in Records, \A i \in 1..Len(todo) : todo[i].addr \notin AreaOf(r)
      PROVE  Alike(After, eeprom, r)
  <2>1. ASSUME NEW a \in AreaOf(r)
        PROVE  After[a] = eeprom[a]
    <3>1. a \in Addresses
      BY Areas DEF Records, Addresses
    <3>2. \A i \in 1..Len(todo) : todo[i].addr # a
      BY <1>5
    <3> QED
      BY <3>1, <3>2, FinalElse DEF After
  <2> QED
    BY <2>1 DEF Alike
<1>6. pc = "settings" \/ Readable(After)
  BY DEF UseInv
<1>7. CASE pc = "settings"
  <2>1. todo = <<>> /\ After = eeprom
    BY <1>7, FinalDone DEF UseInv, After
  <2>2. torn' = torn
    BY <1>1, <1>3, <2>1
  <2> QED
    BY <1>1, <1>2, <2>1, <2>2, LabelledNothing DEF KeptInv
<1>8. CASE Readable(After) /\ Labelled(todo, Records)
  <2>1. ASSUME NEW r \in Records, r \notin torn'
        PROVE  Alike(After, eeprom, r) /\ Reads(eeprom)[r] = kept[r]
    <3>1. \A i \in 1..Len(todo) : todo[i].record \in Records /\ todo[i].record # r
      BY <1>1, <1>3, <1>8, <2>1 DEF Labelled
    <3>2. \A q \in Records : q # r => \A a \in AreaOf(q) : a \notin AreaOf(r)
      BY Areas DEF Records
    <3>3. \A i \in 1..Len(todo) : todo[i].addr \notin AreaOf(r)
      BY <1>8, <3>1, <3>2 DEF Labelled
    <3>4. Alike(After, eeprom, r)
      BY <1>5, <3>3
    <3>5. Reads(After)[r] = kept[r]
      BY <1>1, <1>8, <2>1 DEF KeptInv
    <3> QED
      BY <1>4, <3>4, <3>5, SameRecord
  <2>2. "settings" \notin torn' => Readable(eeprom)
    BY <1>8, <2>1, SameSettings DEF Records
  <2> QED
    BY <1>1, <1>2, <2>1, <2>2, LabelledNothing DEF KeptInv
<1>9. CASE Readable(After) /\ Labelled(todo, {"none"}) /\ Repeats
  <2>1. \A i \in 1..Len(todo) : todo[i].record = "none" /\ todo[i].addr \in 0..4
    BY <1>9, Areas DEF Labelled
  <2>2. torn' = torn
    BY <1>1, <1>3, <2>1 DEF Records
  <2>3. ASSUME NEW a \in Addresses \ {0}
        PROVE  After[a] = eeprom[a]
    <3>1. CASE \E k \in 1..Len(todo) : todo[k].addr = a
      <4>1. Len(todo) \in Nat
        BY LenProperties DEF UseInv, Labelled, IsSeq
      <4>2. PICK i \in 1..Len(todo) : LastWrite(todo, a, i)
        BY <3>1, <4>1, LastExists
      <4>3. After[a] = todo[i].byte
        BY <4>1, <4>2, FinalAt DEF After
      <4>4. todo[i].byte = IF todo[i].addr = 0 THEN Version ELSE eeprom[todo[i].addr]
        BY <1>9 DEF Repeats
      <4> QED
        BY <2>3, <4>2, <4>3, <4>4 DEF LastWrite
    <3>2. CASE ~\E k \in 1..Len(todo) : todo[k].addr = a
      BY <2>3, <3>2, FinalElse DEF After
    <3> QED
      BY <3>1, <3>2
  <2>4. Readable(eeprom)
    BY <1>9 DEF Repeats, Readable
  <2>5. ASSUME NEW r \in Records
        PROVE  Reads(eeprom)[r] = Reads(After)[r]
    <3>1. CASE r = "settings"
      <4>1. BytesAt(After, GlobalAddr, SettingsSize) = BytesAt(eeprom, GlobalAddr, SettingsSize)
        <5>1. \A a \in GlobalAddr..(GlobalAddr + SettingsSize) : After[a] = eeprom[a]
          BY <2>3 DEF GlobalAddr, SettingsSize, Addresses
        <5>2. GlobalAddr \in Nat /\ SettingsSize \in Nat
          BY DEF GlobalAddr, SettingsSize
        <5> QED
          BY <5>1, <5>2, SameBytes
      <4> QED
        BY <1>9, <2>4, <3>1, <4>1, ReadsFields
    <3>2. CASE r # "settings"
      <4>1. AreaOf(r) \subseteq Addresses \ {0}
        BY <3>2, Areas DEF Records, Addresses
      <4>2. Alike(After, eeprom, r)
        BY <2>3, <4>1 DEF Alike
      <4> QED
        BY <1>4, <4>2, SameRecord
    <3> QED
      BY <3>1, <3>2
  <2> QED
    BY <1>1, <1>2, <1>9, <2>2, <2>4, <2>5, LabelledNothing DEF KeptInv
<1> QED
  BY <1>1, <1>6, <1>7, <1>8, <1>9 DEF KeptInv

\* settings_init()
LEMMA SettingsInitUse ==
  ASSUME UseInv, FlagsInv', SettingsInit
  PROVE  /\ UseInv'
         /\ Readable(eeprom) => /\ todo' = <<>> \/ todo' = WriteGlobal("none", settings')
                                /\ \A r \in Records : Reads(After')[r] = Reads(eeprom)[r]
         /\ ~Readable(eeprom) => /\ Labelled(todo', Records)
                                 /\ \A r \in Records : Reads(After')[r] = Defaults[r]
<1>1. /\ pc = "settings" /\ todo = <<>> /\ pc' = "params" /\ UNCHANGED <<eeprom, params>>
      /\ settings' = Reads(eeprom)["settings"]
  BY DEF SettingsInit
<1>2. Image(eeprom) /\ eeprom[SizeAddr] \in Sizes /\ DOMAIN kept = Records
  BY DEF UseInv
<1>3. Pair(settings')
  BY DEF FlagsInv, SoundSettings
<1>4. CASE Readable(eeprom)
  <2>1. /\ todo' = IF eeprom[0] = Version THEN <<>> ELSE WriteGlobal("none", settings')
        /\ UNCHANGED <<kept, torn>>
    BY <1>4 DEF SettingsInit, history
  <2>2. settings' = BytesAt(eeprom, GlobalAddr, SettingsSize)
    BY <1>1, <1>4, ReadsFields
  <2>3. CASE todo' = <<>>
    <3>1. After' = eeprom
      BY <1>1, <1>2, <2>3, FinalDone DEF After
    <3> QED
      BY <1>1, <1>2, <1>4, <2>1, <2>2, <2>3, <3>1, LabelledNothing DEF UseInv
  <2>4. CASE todo' = WriteGlobal("none", settings')
    <3>1. After' = Global(eeprom, settings')
      BY <1>1, <1>3, <2>4, FinalGlobal DEF After
    <3>2. /\ Readable(After') /\ BytesAt(After', GlobalAddr, SettingsSize) = settings'
          /\ Leaves(eeprom, After', {"settings"})
      BY <1>3, <3>1, GlobalRead
    <3>3. Labelled(todo', Records \cup {"none"})
      BY <1>3, <2>4, LabelledGlobal
    <3>4. UseInv'
      BY <1>1, <1>2, <2>1, <3>2, <3>3 DEF UseInv
    <3>5. ASSUME NEW r \in Records
          PROVE  Reads(After')[r] = Reads(eeprom)[r]
      <4>1. CASE r = "settings"
        BY <1>1, <3>2, <4>1, ReadsFields
      <4>2. CASE r # "settings"
        BY <1>2, <3>2, <4>2, SameRecord DEF Leaves
      <4> QED
        BY <4>1, <4>2
    <3> QED
      BY <1>4, <2>4, <3>4, <3>5
  <2> QED
    BY <2>1, <2>3, <2>4
<1>5. CASE ~Readable(eeprom)
  <2>1. todo' = RestoreAll(0) /\ kept' \in {Defaults, kept} /\ torn' = {}
    BY <1>5 DEF SettingsInit
  <2>2. After' = Final(eeprom, RestoreAll(0))
    BY <1>1, <2>1 DEF After
  <2>3. 0 \in {0, StorageSize}
    OBVIOUS
  <2>4. /\ Readable(After') /\ BytesAt(After', GlobalAddr, SettingsSize) = DefaultSettings
        /\ StoredParams(After') = DefaultParams
        /\ Reads(After')["coord"] = DefaultCoord /\ Reads(After')["line"] = <<>>
    BY <1>2, <2>2, <2>3, FinalAll
  <2>5. settings' = DefaultSettings
    BY <1>1, <1>5, ReadsFields
  <2>6. Labelled(todo', Records)
    BY <2>1, <2>3, LabelledRestores
  <2>7. Labelled(todo', Records \cup {"none"})
    BY <2>6, LabelledMore
  <2>8. DOMAIN kept' = Records
    BY <1>2, <2>1, DefaultsFields
  <2>9. UseInv'
    BY <1>1, <1>2, <2>1, <2>4, <2>5, <2>7, <2>8 DEF UseInv
  <2>10. \A r \in Records : Reads(After')[r] = Defaults[r]
    BY <2>4, ReadsFields, DefaultsFields DEF Records
  <2> QED
    BY <1>5, <2>6, <2>9, <2>10
<1> QED
  BY <1>4, <1>5

LEMMA SettingsInitKept ==
  ASSUME UseInv, KeptInv, FlagsInv', SettingsInit
  PROVE  KeptInv'
<1>1. pc = "settings" /\ todo = <<>> /\ pc' = "params" /\ eeprom' = eeprom
  BY DEF SettingsInit
<1>2. After = eeprom
  BY <1>1, FinalDone DEF UseInv, After
<1>3. UseInv' /\ Readable(After')
  <2>1. UseInv'
    BY SettingsInitUse
  <2> QED
    BY <1>1, <2>1 DEF UseInv
<1>4. CASE Readable(eeprom)
  <2>1. /\ UNCHANGED <<kept, torn>>
        /\ todo' = IF eeprom[0] = Version THEN <<>> ELSE WriteGlobal("none", settings')
        /\ converting' = (eeprom[0] = 11)
    BY <1>4 DEF SettingsInit, history
  <2>2. \A r \in Records : Reads(After')[r] = Reads(eeprom)[r]
    BY <1>4, SettingsInitUse
  <2>3. Labelled(todo', Records) \/ (Labelled(todo', {"none"}) /\ (converting' \/ Repeats'))
    <3>1. CASE eeprom[0] = Version
      BY <2>1, <3>1, LabelledNothing
    <3>2. CASE eeprom[0] # Version
      <4>1. Pair(settings') /\ settings' = BytesAt(eeprom, GlobalAddr, SettingsSize)
        <5>1. Pair(settings')
          BY DEF FlagsInv, SoundSettings
        <5>2. settings' = Reads(eeprom)["settings"]
          BY DEF SettingsInit
        <5> QED
          BY <1>4, <5>1, <5>2, ReadsFields
      <4>2. Labelled(todo', {"none"})
        BY <2>1, <3>2, <4>1, LabelledGlobal
      <4>3. ASSUME eeprom[0] # 11
            PROVE  Repeats'
        <5>1. eeprom[0] = 10 /\ Valid(eeprom, GlobalAddr, SettingsSize)
          BY <1>4, <3>2, <4>3 DEF Readable
        <5> DEFINE first == Put("none", 0, Version)
                   rest == PutRecord("none", GlobalAddr, settings')
        <5>2. /\ IsSeq(rest) /\ Len(rest) = 3
              /\ rest[1] = Put("none", 1, settings'[1]) /\ rest[2] = Put("none", 2, settings'[2])
              /\ rest[3] = Put("none", 3, Checksum(settings'))
          <6>1. GlobalAddr \in Nat /\ GlobalAddr = 1 /\ GlobalAddr + 1 = 2 /\ GlobalAddr + 2 = 3
            BY DEF GlobalAddr
          <6> QED
            BY <4>1, <6>1, PairWritten
        <5>3. /\ settings'[1] = eeprom[1] /\ settings'[2] = eeprom[2]
              /\ Checksum(settings') = eeprom[3]
          <6>1. Checksum(settings') = eeprom[3]
            BY <4>1, <5>1 DEF Valid, GlobalAddr, SettingsSize
          <6> QED
            BY <4>1, <6>1 DEF BytesAt, GlobalAddr, SettingsSize
        <5>4. todo' = <<first>> \o rest
          BY <2>1, <3>2 DEF WriteGlobal
        <5>5. /\ first.addr = 0 /\ first.byte = Version
              /\ rest[1].addr = 1 /\ rest[1].byte = eeprom[1]
              /\ rest[2].addr = 2 /\ rest[2].byte = eeprom[2]
              /\ rest[3].addr = 3 /\ rest[3].byte = eeprom[3]
          BY <5>2, <5>3 DEF Put
        <5> HIDE DEF first, rest
        <5>6. PICK S : rest \in Seq(S)
          BY <5>2 DEF IsSeq
        <5>7. <<first>> \in Seq(S \cup {first}) /\ rest \in Seq(S \cup {first})
              /\ Len(<<first>>) = 1 /\ <<first>>[1] = first
          <6>1. <<first>> \in Seq({first}) /\ Len(<<first>>) = 1 /\ <<first>>[1] = first
            OBVIOUS
          <6> QED
            BY <5>6, <6>1, SeqMonotonic
        <5>8. /\ Len(todo') = 4
              /\ \A i \in 1..4 : todo'[i] = IF i <= 1 THEN <<first>>[i] ELSE rest[i - 1]
          <6> DEFINE one == <<first>>
          <6> HIDE DEF one
          <6>1. one \in Seq(S \cup {first}) /\ rest \in Seq(S \cup {first}) /\ Len(one) = 1
            BY <5>7 DEF one
          <6>2. /\ Len(one \o rest) = Len(one) + Len(rest)
                /\ \A i \in 1..Len(one) + Len(rest) :
                     (one \o rest)[i] = IF i <= Len(one) THEN one[i] ELSE rest[i - Len(one)]
            BY <6>1, ConcatProperties
          <6>3. /\ Len(one \o rest) = 4
                /\ \A i \in 1..4 : (one \o rest)[i] = IF i <= 1 THEN one[i] ELSE rest[i - 1]
            BY <5>2, <6>1, <6>2
          <6> QED
            BY <5>4, <6>3 DEF one
        <5>9. todo'[1] = first /\ todo'[2] = rest[1] /\ todo'[3] = rest[2] /\ todo'[4] = rest[3]
          BY <5>7, <5>8
        <5>10. \A i \in 1..Len(todo') : i = 1 \/ i = 2 \/ i = 3 \/ i = 4
          BY <5>8
        <5>11. \A i \in 1..Len(todo') :
                 todo'[i].byte = IF todo'[i].addr = 0 THEN Version ELSE eeprom[todo'[i].addr]
          BY <5>5, <5>9, <5>10
        <5> QED
          BY <1>1, <5>1, <5>11 DEF Repeats
      <4> QED
        BY <2>1, <4>2, <4>3
    <3> QED
      BY <3>1, <3>2
  <2> QED
    BY <1>2, <1>3, <1>4, <2>1, <2>2, <2>3 DEF KeptInv
<1>5. CASE ~Readable(eeprom)
  <2>1. kept' = (IF "settings" \in torn THEN Defaults ELSE kept)
    BY <1>5 DEF SettingsInit
  <2>2. \A r \in Records : kept'[r] = Defaults[r]
    BY <1>2, <1>5, <2>1 DEF KeptInv
  <2>3. Labelled(todo', Records) /\ \A r \in Records : Reads(After')[r] = Defaults[r]
    BY <1>5, SettingsInitUse
  <2> QED
    BY <1>3, <2>2, <2>3 DEF KeptInv
<1> QED
  BY <1>4, <1>5

\* ps_settings_init()
LEMMA ParamsInitUse ==
  ASSUME UseInv, FlagsInv', ParamsInit
  PROVE  /\ UseInv' /\ Labelled(todo', Records)
         /\ \A r \in Records : Reads(After')[r] = Reads(eeprom)[r]
<1>1. /\ pc = "params" /\ todo = <<>> /\ pc' = "ready" /\ params' = StoredParams(eeprom)
      /\ todo' = ParamsWrites(eeprom) /\ UNCHANGED <<eeprom, settings, kept, torn>>
  BY DEF ParamsInit, history
<1>2. Image(eeprom) /\ eeprom[SizeAddr] \in Sizes
  BY DEF UseInv
<1>3. After = eeprom /\ After' = Final(eeprom, ParamsWrites(eeprom))
  BY <1>1, <1>2, FinalDone DEF After
<1>4. /\ StoredParams(After') = StoredParams(eeprom)
      /\ After'[HeaderAddr] = Header /\ After'[SizeAddr] = StorageSize
      /\ Leaves(eeprom, After', {"params"}) /\ Labelled(todo', Records)
  BY <1>1, <1>2, <1>3, StoredParamsPair, FinalParamsWrites
<1>5. Alike(eeprom, After', "settings")
  BY <1>4 DEF Leaves, Records
<1>6. Readable(After') /\ settings' = BytesAt(After', GlobalAddr, SettingsSize)
  BY <1>1, <1>3, <1>5, SameSettings DEF UseInv
<1>7. Labelled(todo', Records \cup {"none"})
  BY <1>4, LabelledMore
<1>8. UseInv'
  BY <1>1, <1>2, <1>4, <1>6, <1>7 DEF UseInv
<1>9. ASSUME NEW r \in Records
      PROVE  Reads(After')[r] = Reads(eeprom)[r]
  <2>1. CASE r = "params"
    BY <1>4, <2>1, ReadsFields
  <2>2. CASE r # "params"
    BY <1>2, <1>4, <2>2, SameRecord DEF Leaves
  <2> QED
    BY <2>1, <2>2
<1> QED
  BY <1>4, <1>8, <1>9

LEMMA ParamsInitKept ==
  ASSUME UseInv, KeptInv, FlagsInv', ParamsInit
  PROVE  KeptInv'
<1>1. /\ pc = "params" /\ todo = <<>> /\ pc' = "ready" /\ UNCHANGED <<kept, torn>>
  BY DEF ParamsInit, history
<1>2. After = eeprom /\ Readable(eeprom)
  BY <1>1, FinalDone DEF UseInv, After
<1>3. UseInv' /\ Labelled(todo', Records) /\ \A r \in Records : Reads(After')[r] = Reads(eeprom)[r]
  BY ParamsInitUse
<1>4. Readable(After')
  BY <1>1, <1>3 DEF UseInv
<1> QED
  BY <1>1, <1>2, <1>3, <1>4 DEF KeptInv

------------------------------------------------------------------------------
(* Commands *)

\* A command that writes the records rs, which will hold what it says and are no longer cut.
Writes(rs) ==
  /\ Labelled(todo', Records)
  /\ Readable(After') /\ settings' = BytesAt(After', GlobalAddr, SettingsSize)
  /\ params' = StoredParams(After')
  /\ After'[HeaderAddr] = Header /\ After'[SizeAddr] = StorageSize
  /\ DOMAIN kept' = Records /\ torn' \subseteq Records
  /\ \A r \in Records \ rs : /\ Reads(After')[r] = Reads(eeprom)[r]
                             /\ kept'[r] = kept[r] /\ (r \in torn => r \in torn')
  /\ \A r \in rs : Reads(After')[r] = kept'[r]

LEMMA CommandUse ==
  ASSUME UseInv, FlagsInv', Command, NEW rs, Writes(rs)
  PROVE  UseInv'
<1>1. Labelled(todo', Records \cup {"none"})
  BY LabelledMore DEF Writes
<1> QED
  BY <1>1 DEF UseInv, Command, Writes

LEMMA CommandKept ==
  ASSUME UseInv, KeptInv, Command, NEW rs, Writes(rs)
  PROVE  KeptInv'
<1>1. After = eeprom /\ Readable(eeprom)
  BY FinalDone DEF UseInv, After, Command
<1>2. \A r \in Records \ torn' : Reads(After')[r] = kept'[r]
  BY <1>1 DEF KeptInv, Writes
<1> QED
  BY <1>2 DEF KeptInv, Writes

\* What a command leaves alone is as it was.
LEMMA Unwritten ==
  ASSUME UseInv, Command, NEW g, NEW rs, Leaves(eeprom, g, rs)
  PROVE  /\ "settings" \notin rs => Readable(g) /\ settings = BytesAt(g, GlobalAddr, SettingsSize)
         /\ "params" \notin rs => /\ params = StoredParams(g)
                                  /\ g[HeaderAddr] = Header /\ g[SizeAddr] = StorageSize
         /\ \A r \in Records \ rs : Reads(g)[r] = Reads(eeprom)[r]
<1>1. /\ Readable(eeprom) /\ settings = BytesAt(eeprom, GlobalAddr, SettingsSize)
      /\ params = StoredParams(eeprom)
      /\ eeprom[HeaderAddr] = Header /\ eeprom[SizeAddr] = StorageSize
  BY FinalDone DEF UseInv, After, Command
<1>2. eeprom[SizeAddr] \in Sizes
  BY DEF UseInv
<1>3. ASSUME "settings" \notin rs
      PROVE  Readable(g) /\ settings = BytesAt(g, GlobalAddr, SettingsSize)
  <2>1. Alike(eeprom, g, "settings")
    BY <1>3 DEF Leaves, Records
  <2> QED
    BY <1>1, <2>1, SameSettings
<1>4. ASSUME "params" \notin rs
      PROVE  params = StoredParams(g) /\ g[HeaderAddr] = Header /\ g[SizeAddr] = StorageSize
  <2>1. Alike(eeprom, g, "params")
    BY <1>4 DEF Leaves, Records
  <2>2. g[HeaderAddr] = Header /\ g[SizeAddr] = StorageSize
    BY <1>1, <2>1, Areas DEF Alike, HeaderAddr, SizeAddr
  <2> QED
    BY <1>1, <1>2, <2>1, <2>2, SameParams
<1>5. \A r \in Records \ rs : Reads(g)[r] = Reads(eeprom)[r]
  BY <1>2, SameRecord DEF Leaves
<1> QED
  BY <1>3, <1>4, <1>5

LEMMA KeptStored ==
  ASSUME UseInv, NEW record \in Records, NEW value, NEW writes, Stores(record, value, writes)
  PROVE  /\ DOMAIN kept' = Records /\ torn' \subseteq Records /\ todo' = writes
         /\ kept'[record] = value
         /\ \A r \in Records \ {record} : kept'[r] = kept[r] /\ (r \in torn => r \in torn')
  BY DEF UseInv, Stores

LEMMA StoreSettingWrites ==
  ASSUME UseInv, FlagsInv', StoreSetting
  PROVE  Writes({"settings"})
<1>1. /\ Command /\ eeprom' = eeprom /\ params' = params
      /\ Stores("settings", settings', WriteGlobal("settings", settings'))
  BY DEF StoreSetting, Command
<1>2. Pair(settings')
  BY DEF FlagsInv, SoundSettings
<1>3. "settings" \in Records
  BY DEF Records
<1>4. /\ DOMAIN kept' = Records /\ torn' \subseteq Records
      /\ todo' = WriteGlobal("settings", settings') /\ kept'["settings"] = settings'
      /\ \A r \in Records \ {"settings"} : kept'[r] = kept[r] /\ (r \in torn => r \in torn')
  BY <1>1, <1>3, KeptStored
<1>5. After' = Global(eeprom, settings')
  BY <1>1, <1>2, <1>4, FinalGlobal DEF After
<1>6. /\ Readable(After') /\ BytesAt(After', GlobalAddr, SettingsSize) = settings'
      /\ Leaves(eeprom, After', {"settings"})
  BY <1>2, <1>5, GlobalRead
<1>7. /\ params = StoredParams(After')
      /\ After'[HeaderAddr] = Header /\ After'[SizeAddr] = StorageSize
      /\ \A r \in Records \ {"settings"} : Reads(After')[r] = Reads(eeprom)[r]
  BY <1>1, <1>6, Unwritten
<1>8. Labelled(todo', Records)
  BY <1>2, <1>3, <1>4, LabelledGlobal
<1>9. Reads(After')["settings"] = kept'["settings"]
  BY <1>4, <1>6, ReadsFields
<1> QED
  BY <1>1, <1>4, <1>6, <1>7, <1>8, <1>9 DEF Writes

LEMMA StoreParamWrites ==
  ASSUME UseInv, FlagsInv', StoreParam
  PROVE  Writes({"params"})
<1>1. /\ Command /\ eeprom' = eeprom /\ settings' = settings
      /\ Stores("params", params', PutRecord("params", ParamsAddr, params'))
  BY DEF StoreParam, Command
<1>2. Pair(params')
  BY DEF FlagsInv
<1>3. "params" \in Records
  BY DEF Records
<1>4. /\ DOMAIN kept' = Records /\ torn' \subseteq Records
      /\ todo' = PutRecord("params", ParamsAddr, params') /\ kept'["params"] = params'
      /\ \A r \in Records \ {"params"} : kept'[r] = kept[r] /\ (r \in torn => r \in torn')
  BY <1>1, <1>3, KeptStored
<1>5. After' = StoredAt(eeprom, ParamsAddr, params')
  BY <1>1, <1>2, <1>4, FinalRecord DEF After, ParamsAddr
<1>6. eeprom[HeaderAddr] = Header /\ eeprom[SizeAddr] = StorageSize
  BY <1>1, FinalDone DEF UseInv, After, Command
<1>7. /\ StoredParams(After') = params'
      /\ After'[HeaderAddr] = Header /\ After'[SizeAddr] = StorageSize
  BY <1>2, <1>5, <1>6, ParamsRead
<1>8. Leaves(eeprom, After', {"params"})
  BY <1>5, StoredLeaves
<1>9. /\ Readable(After') /\ settings = BytesAt(After', GlobalAddr, SettingsSize)
      /\ \A r \in Records \ {"params"} : Reads(After')[r] = Reads(eeprom)[r]
  BY <1>1, <1>8, Unwritten
<1>10. Labelled(todo', Records)
  BY <1>2, <1>4, LabelledPairs
<1>11. Reads(After')["params"] = kept'["params"]
  BY <1>4, <1>7, ReadsFields
<1> QED
  BY <1>1, <1>4, <1>7, <1>9, <1>10, <1>11 DEF Writes

\* The other two records.
LEMMA CoordWritten ==
  ASSUME UseInv, Command, NEW b, Pair(b), UNCHANGED <<settings, params>>,
         todo' = PutRecord("coord", CoordAddr, b)
  PROVE  /\ Labelled(todo', Records)
         /\ Readable(After') /\ settings' = BytesAt(After', GlobalAddr, SettingsSize)
         /\ params' = StoredParams(After')
         /\ After'[HeaderAddr] = Header /\ After'[SizeAddr] = StorageSize
         /\ \A r \in Records \ {"coord"} : Reads(After')[r] = Reads(eeprom)[r]
         /\ Reads(After')["coord"] = b
<1>1. CoordAddr \in Nat /\ CoordAddr + 2 \in Addresses /\ eeprom' = eeprom
  BY DEF CoordAddr, Addresses, Command
<1>2. After' = StoredAt(eeprom, CoordAddr, b)
  BY <1>1, FinalRecord DEF After
<1>3. Leaves(eeprom, After', {"coord"})
  BY <1>2, StoredLeaves
<1>4. BytesAt(After', CoordAddr, 2) = b /\ Valid(After', CoordAddr, 2)
  BY <1>1, <1>2, StoredRead
<1>5. Reads(After')["coord"] = b
  BY <1>4, ReadsFields DEF CoordSize
<1> QED
  BY <1>3, <1>5, Unwritten, LabelledPairs

LEMMA LineWritten ==
  ASSUME UseInv, Command, NEW b, Pair(b), UNCHANGED <<settings, params>>,
         todo' = PutRecord("line", LineAddr, b)
  PROVE  /\ Labelled(todo', Records)
         /\ Readable(After') /\ settings' = BytesAt(After', GlobalAddr, SettingsSize)
         /\ params' = StoredParams(After')
         /\ After'[HeaderAddr] = Header /\ After'[SizeAddr] = StorageSize
         /\ \A r \in Records \ {"line"} : Reads(After')[r] = Reads(eeprom)[r]
         /\ Reads(After')["line"] = LineOf(b)
<1>1. LineAddr \in Nat /\ LineAddr + 2 \in Addresses /\ eeprom' = eeprom
  BY DEF LineAddr, Addresses, Command
<1>2. After' = StoredAt(eeprom, LineAddr, b)
  BY <1>1, FinalRecord DEF After
<1>3. Leaves(eeprom, After', {"line"})
  BY <1>2, StoredLeaves
<1>4. BytesAt(After', LineAddr, 2) = b /\ Valid(After', LineAddr, 2)
  BY <1>1, <1>2, StoredRead
<1>5. Reads(After')["line"] = LineOf(b)
  BY <1>4, ReadsFields DEF LineSize
<1> QED
  BY <1>3, <1>5, Unwritten, LabelledPairs

LEMMA TwoBytes ==
  ASSUME NEW first, NEW second
  PROVE  Pair(<<first, second>>)
<1>1. <<first, second>> \in Seq({first, second}) /\ Len(<<first, second>>) = 2
  OBVIOUS
<1> QED
  BY <1>1, SequenceIsPair

LEMMA StoreCoordWrites ==
  ASSUME UseInv, StoreCoord
  PROVE  Writes({"coord"})
<1>1. PICK v \in Values : Stores("coord", <<v, v>>, PutRecord("coord", CoordAddr, <<v, v>>))
  BY DEF StoreCoord
<1>2. Command /\ UNCHANGED <<settings, params>>
  BY DEF StoreCoord, ram
<1>3. "coord" \in Records
  BY DEF Records
<1>4. /\ DOMAIN kept' = Records /\ torn' \subseteq Records
      /\ todo' = PutRecord("coord", CoordAddr, <<v, v>>) /\ kept'["coord"] = <<v, v>>
      /\ \A r \in Records \ {"coord"} : kept'[r] = kept[r] /\ (r \in torn => r \in torn')
  BY <1>1, <1>3, KeptStored
<1>5. Pair(<<v, v>>)
  BY TwoBytes
<1> QED
  BY <1>2, <1>4, <1>5, CoordWritten DEF Writes

LEMMA StoreLineWrites ==
  ASSUME UseInv, StoreLine
  PROVE  Writes({"line"})
<1>1. PICK v \in Values, rest \in Values \cup {0} :
        Stores("line", LineOf(<<v, rest>>), PutRecord("line", LineAddr, <<v, rest>>))
  BY DEF StoreLine
<1>2. Command /\ UNCHANGED <<settings, params>>
  BY DEF StoreLine, ram
<1>3. "line" \in Records
  BY DEF Records
<1>4. /\ DOMAIN kept' = Records /\ torn' \subseteq Records
      /\ todo' = PutRecord("line", LineAddr, <<v, rest>>) /\ kept'["line"] = LineOf(<<v, rest>>)
      /\ \A r \in Records \ {"line"} : kept'[r] = kept[r] /\ (r \in torn => r \in torn')
  BY <1>1, <1>3, KeptStored
<1>5. Pair(<<v, rest>>)
  BY TwoBytes
<1> QED
  BY <1>2, <1>4, <1>5, LineWritten DEF Writes

\* A record that cannot be read is read as what is then written.
LEMMA ReadCoordWrites ==
  ASSUME UseInv, ReadCoord
  PROVE  Writes({})
<1>1. /\ Command /\ UNCHANGED <<settings, params, kept, torn>>
      /\ todo' = PutRecord("coord", CoordAddr, ZeroCoord) /\ ~Valid(eeprom, CoordAddr, CoordSize)
  BY DEF ReadCoord, ram, history
<1>2. Pair(ZeroCoord)
  BY DefaultsSound
<1>3. Reads(eeprom)["coord"] = ZeroCoord
  BY <1>1, ReadsFields
<1>4. /\ \A r \in Records \ {"coord"} : Reads(After')[r] = Reads(eeprom)[r]
      /\ Reads(After')["coord"] = ZeroCoord
  BY <1>1, <1>2, CoordWritten
<1>5. \A r \in Records : Reads(After')[r] = Reads(eeprom)[r]
  BY <1>3, <1>4
<1> QED
  BY <1>1, <1>2, <1>5, CoordWritten DEF Writes, UseInv

LEMMA ReadLineWrites ==
  ASSUME UseInv, ReadLine
  PROVE  Writes({})
<1> DEFINE b == <<0, eeprom[LineAddr + 1]>>
<1>1. /\ Command /\ UNCHANGED <<settings, params, kept, torn>>
      /\ todo' = PutRecord("line", LineAddr, b) /\ ~Valid(eeprom, LineAddr, LineSize)
  BY DEF ReadLine, ram, history
<1>2. Pair(b) /\ LineOf(b) = <<>>
  BY TwoBytes DEF LineOf
<1>3. Reads(eeprom)["line"] = <<>>
  BY <1>1, ReadsFields
<1>4. /\ \A r \in Records \ {"line"} : Reads(After')[r] = Reads(eeprom)[r]
      /\ Reads(After')["line"] = LineOf(b)
  BY <1>1, <1>2, LineWritten
<1>5. \A r \in Records : Reads(After')[r] = Reads(eeprom)[r]
  BY <1>2, <1>3, <1>4
<1> QED
  BY <1>1, <1>2, <1>5, LineWritten DEF Writes, UseInv

\* $RST=$, $RST=# and $RST=*
LEMMA RestoreWrites ==
  ASSUME UseInv, Restore
  PROVE  \E rs \in SUBSET Records : Writes(rs)
<1>1. Command /\ eeprom' = eeprom
  BY DEF Restore, Command
<1>2. PICK only \in {{"settings", "params"}, {"coord"}, Records} :
        /\ todo' = CASE only = {"settings", "params"} -> RestoreDefaults(StorageSize)
                     [] only = {"coord"} -> RestoreCoord
                     [] OTHER -> RestoreAll(StorageSize)
        /\ kept' = [r \in Records |-> IF r \in only THEN Defaults[r] ELSE kept[r]]
        /\ torn' = torn \ only
        /\ settings' = IF "settings" \in only THEN DefaultSettings ELSE settings
        /\ params' = IF "params" \in only THEN DefaultParams ELSE params
  BY DEF Restore
<1>3. /\ DOMAIN kept' = Records /\ torn' \subseteq Records
      /\ \A r \in Records \ only : kept'[r] = kept[r] /\ (r \in torn => r \in torn')
      /\ \A r \in Records \cap only : kept'[r] = Defaults[r]
  BY <1>2 DEF UseInv
<1>4. /\ "settings" \in Records /\ "params" \in Records /\ "coord" \in Records
      /\ "line" \in Records /\ StorageSize \in {0, StorageSize} /\ eeprom[SizeAddr] \in Sizes
  BY DEF Records, UseInv
<1>5. CASE only = {"settings", "params"}
  <2>1. /\ todo' = RestoreDefaults(StorageSize)
        /\ settings' = DefaultSettings /\ params' = DefaultParams
    BY <1>2, <1>5
  <2>2. After' = Final(eeprom, RestoreDefaults(StorageSize))
    BY <1>1, <2>1 DEF After
  <2>3. /\ Readable(After') /\ BytesAt(After', GlobalAddr, SettingsSize) = DefaultSettings
        /\ StoredParams(After') = DefaultParams
        /\ After'[HeaderAddr] = Header /\ After'[SizeAddr] = StorageSize
        /\ Leaves(eeprom, After', {"settings", "params"})
    BY <1>4, <2>2, FinalDefaults
  <2>4. \A r \in Records \ only : Reads(After')[r] = Reads(eeprom)[r]
    BY <1>1, <1>5, <2>3, Unwritten
  <2>5. \A r \in only : Reads(After')[r] = kept'[r]
    BY <1>3, <1>4, <1>5, <2>3, ReadsFields, DefaultsFields
  <2>6. Labelled(todo', Records)
    BY <1>4, <2>1, LabelledRestores
  <2>7. Writes(only)
    BY <1>3, <2>1, <2>3, <2>4, <2>5, <2>6 DEF Writes
  <2> QED
    BY <1>4, <1>5, <2>7
<1>6. CASE only = {"coord"}
  <2>1. todo' = RestoreCoord /\ settings' = settings /\ params' = params
    BY <1>2, <1>6
  <2>2. After' = Final(eeprom, RestoreCoord)
    BY <1>1, <2>1 DEF After
  <2>3. Reads(After')["coord"] = DefaultCoord /\ Leaves(eeprom, After', {"coord"})
    BY <2>2, FinalCoord
  <2>4. /\ Readable(After') /\ settings = BytesAt(After', GlobalAddr, SettingsSize)
        /\ params = StoredParams(After')
        /\ After'[HeaderAddr] = Header /\ After'[SizeAddr] = StorageSize
        /\ \A r \in Records \ only : Reads(After')[r] = Reads(eeprom)[r]
    BY <1>1, <1>6, <2>3, Unwritten
  <2>5. \A r \in only : Reads(After')[r] = kept'[r]
    BY <1>3, <1>4, <1>6, <2>3, DefaultsFields
  <2>6. Labelled(todo', Records)
    BY <1>4, <2>1, LabelledRestores
  <2>7. Writes(only)
    BY <1>3, <2>1, <2>4, <2>5, <2>6 DEF Writes
  <2> QED
    BY <1>4, <1>6, <2>7
<1>7. CASE only = Records
  <2>1. /\ todo' = RestoreAll(StorageSize)
        /\ settings' = DefaultSettings /\ params' = DefaultParams
    <3>1. "line" \notin {"settings", "params"} /\ "line" \notin {"coord"}
      OBVIOUS
    <3>2. only # {"settings", "params"} /\ only # {"coord"}
      BY <1>4, <1>7, <3>1
    <3> QED
      BY <1>2, <1>4, <1>7, <3>2
  <2>2. After' = Final(eeprom, RestoreAll(StorageSize))
    BY <1>1, <2>1 DEF After
  <2>3. /\ Readable(After') /\ BytesAt(After', GlobalAddr, SettingsSize) = DefaultSettings
        /\ StoredParams(After') = DefaultParams
        /\ After'[HeaderAddr] = Header /\ After'[SizeAddr] = StorageSize
        /\ Reads(After')["coord"] = DefaultCoord /\ Reads(After')["line"] = <<>>
    BY <1>4, <2>2, FinalAll
  <2>4. \A r \in Records : Reads(After')[r] = Defaults[r]
    BY <2>3, ReadsFields, DefaultsFields DEF Records
  <2>5. Labelled(todo', Records)
    BY <1>4, <2>1, LabelledRestores
  <2>6. \A r \in Records : Reads(After')[r] = kept'[r]
    BY <1>3, <1>7, <2>4
  <2>7. Writes(only)
    BY <1>3, <1>7, <2>1, <2>3, <2>5, <2>6 DEF Writes
  <2> QED
    BY <1>7, <2>7
<1> QED
  BY <1>2, <1>5, <1>6, <1>7

Commands ==
  StoreSetting \/ StoreParam \/ StoreCoord \/ StoreLine \/ ReadCoord \/ ReadLine \/ Restore

LEMMA CommandsWrite ==
  ASSUME UseInv, FlagsInv', Commands
  PROVE  Command /\ \E rs : Writes(rs)
<1>1. Command
  BY DEF Commands, StoreSetting, StoreParam, StoreCoord, StoreLine, ReadCoord, ReadLine, Restore
<1>2. CASE StoreSetting
  BY <1>1, <1>2, StoreSettingWrites
<1>3. CASE StoreParam
  BY <1>1, <1>3, StoreParamWrites
<1>4. CASE StoreCoord
  BY <1>1, <1>4, StoreCoordWrites
<1>5. CASE StoreLine
  BY <1>1, <1>5, StoreLineWrites
<1>6. CASE ReadCoord
  BY <1>1, <1>6, ReadCoordWrites
<1>7. CASE ReadLine
  BY <1>1, <1>7, ReadLineWrites
<1>8. CASE Restore
  BY <1>1, <1>8, RestoreWrites
<1> QED
  BY <1>2, <1>3, <1>4, <1>5, <1>6, <1>7, <1>8 DEF Commands

LEMMA UseNext == UseInv /\ [Next]_vars => UseInv'
<1> SUFFICES ASSUME UseInv, [Next]_vars
             PROVE  UseInv'
  OBVIOUS
<1>1. FlagsInv'
  BY FlagsNext DEF UseInv
<1>2. CASE PutChar
  BY <1>2, PutCharUse
<1>3. CASE PowerLoss
  BY <1>1, <1>3, PowerLossUse
<1>4. CASE SettingsInit
  BY <1>1, <1>4, SettingsInitUse
<1>5. CASE ParamsInit
  BY <1>1, <1>5, ParamsInitUse
<1>6. CASE Commands
  BY <1>1, <1>6, CommandsWrite, CommandUse
<1>7. CASE UNCHANGED vars
  BY <1>1, <1>7 DEF UseInv, After, vars, ram, history
<1> QED
  BY <1>2, <1>3, <1>4, <1>5, <1>6, <1>7 DEF Next, Commands

LEMMA KeptNext ==
  ASSUME ~LossInOldUpgrade
  PROVE  UseInv /\ KeptInv /\ [Next]_vars => KeptInv'
<1> SUFFICES ASSUME UseInv, KeptInv, [Next]_vars
             PROVE  KeptInv'
  OBVIOUS
<1>1. FlagsInv'
  BY FlagsNext DEF UseInv
<1>2. CASE PutChar
  BY <1>2, PutCharKept
<1>3. CASE PowerLoss
  BY <1>1, <1>3, PowerLossKept
<1>4. CASE SettingsInit
  BY <1>1, <1>4, SettingsInitKept
<1>5. CASE ParamsInit
  BY <1>1, <1>5, ParamsInitKept
<1>6. CASE Commands
  BY <1>1, <1>6, CommandsWrite, CommandKept
<1>7. CASE UNCHANGED vars
  BY <1>7 DEF KeptInv, After, Repeats, vars, ram, history
<1> QED
  BY <1>2, <1>3, <1>4, <1>5, <1>6, <1>7 DEF Next, Commands

\* A restart finds the settings and parameters that are in use: after any commands, restores
\* and upgrades, and wherever the power was lost, for every contents a chip may come with.
THEOREM InUseHolds == Spec => []InUse
<1>1. UseInv => InUse
  <2> SUFFICES ASSUME UseInv, Ready
               PROVE  settings = Reads(eeprom).settings /\ params = Reads(eeprom).params
    BY DEF InUse
  <2>1. pc = "ready" /\ After = eeprom
    BY FinalDone DEF Ready, UseInv, After
  <2>2. /\ Readable(eeprom) /\ settings = BytesAt(eeprom, GlobalAddr, SettingsSize)
        /\ params = StoredParams(eeprom)
    BY <2>1 DEF UseInv
  <2>3. Reads(eeprom)["settings"] = settings /\ Reads(eeprom)["params"] = params
    BY <2>2, ReadsFields
  <2> QED
    BY <2>3
<1> QED
  BY <1>1, UseInit, UseNext, PTL DEF Spec

\* A loss of power costs no record but the one that was being written, unless the settings
\* are left unreadable or version 11 was being converted.
THEOREM RecordsKeptHolds ==
  ASSUME ~LossInOldUpgrade
  PROVE  Spec => []RecordsKept
<1>1. UseInv /\ KeptInv => RecordsKept
  <2> SUFFICES ASSUME UseInv, KeptInv, Ready
               PROVE  \A r \in Records \ torn : Reads(eeprom)[r] = kept[r]
    BY DEF RecordsKept
  <2>1. After = eeprom /\ Readable(eeprom)
    BY FinalDone DEF Ready, UseInv, After
  <2> QED
    BY <2>1 DEF KeptInv
<1>2. UseInv /\ KeptInv /\ [Next]_vars => UseInv' /\ KeptInv'
  BY UseNext, KeptNext
<1> QED
  BY <1>1, <1>2, UseInit, KeptInit, PTL DEF Spec
==============================================================================
