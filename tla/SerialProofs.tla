---------------------------- MODULE SerialProofs ----------------------------
(***************************************************************************)
(* Proofs about the serial rings, for rings of any size: types, the room   *)
(* reported to the sender, the transmit interrupt, and that the rings are  *)
(* queues.                                                                 *)
(***************************************************************************)
EXTENDS SerialRing, SequenceTheorems, TLAPS

(* Rings: what the indices say about the queue between them. *)

\* What is stored is a sequence, as long as the indices say.
LEMMA StoredSeq ==
  ASSUME NEW size \in Nat \ {0}, NEW head \in 0..size, NEW tail \in 0..size,
         NEW buf \in [0..size -> Bytes]
  PROVE  /\ Used(head, tail, size) \in 0..size
         /\ Stored(buf, head, tail, size) \in Seq(Bytes)
         /\ Len(Stored(buf, head, tail, size)) = Used(head, tail, size)
         /\ \A i \in 1..Used(head, tail, size) :
              Stored(buf, head, tail, size)[i] = buf[Place(tail, i, size)]
<1> DEFINE n == Used(head, tail, size)
<1>1. n \in 0..size
  BY DEF Used
<1>2. \A i \in 1..n : Place(tail, i, size) \in 0..size
  BY <1>1 DEF Place
<1>3. Stored(buf, head, tail, size) \in [1..n -> Bytes]
  BY <1>2 DEF Stored
<1>4. Stored(buf, head, tail, size) \in Seq(Bytes)
  BY <1>1, <1>3, SeqDef
<1>5. DOMAIN Stored(buf, head, tail, size) = 1..n
  BY DEF Stored
<1>6. Len(Stored(buf, head, tail, size)) = n
  <2>1. Len(Stored(buf, head, tail, size)) \in Nat
        /\ 1..Len(Stored(buf, head, tail, size)) = 1..n
    BY <1>4, <1>5, LenProperties
  <2> HIDE DEF n
  <2> QED
    BY <2>1, <1>1
<1> QED
  BY <1>1, <1>4, <1>6 DEF Stored

\* One more byte at the head.
LEMMA StoredPut ==
  ASSUME NEW size \in Nat \ {0}, NEW head \in 0..size, NEW tail \in 0..size,
         NEW buf \in [0..size -> Bytes], NEW b \in Bytes, After(head, size) # tail
  PROVE  /\ Used(head, tail, size) < size
         /\ Stored([buf EXCEPT ![head] = b], After(head, size), tail, size)
              = Append(Stored(buf, head, tail, size), b)
<1> DEFINE new == [buf EXCEPT ![head] = b]
           s == Stored(buf, head, tail, size)
           t == Stored(new, After(head, size), tail, size)
           n == Used(head, tail, size)
<1>1. After(head, size) \in 0..size /\ new \in [0..size -> Bytes]
  BY DEF After
<1>2. n \in Nat /\ n < size /\ Used(After(head, size), tail, size) = n + 1
  BY DEF Used, After
<1>3. s \in Seq(Bytes) /\ Len(s) = n /\ \A i \in 1..n : s[i] = buf[Place(tail, i, size)]
  BY StoredSeq
<1>4. t \in Seq(Bytes) /\ Len(t) = n + 1 /\ \A i \in 1..n + 1 : t[i] = new[Place(tail, i, size)]
  <2> DEFINE h == After(head, size)
             k == Used(h, tail, size)
  <2>1. h \in 0..size /\ new \in [0..size -> Bytes] /\ k = n + 1
    BY <1>1, <1>2
  <2> HIDE DEF new, h
  <2>2. /\ Stored(new, h, tail, size) \in Seq(Bytes)
        /\ Len(Stored(new, h, tail, size)) = k
        /\ \A i \in 1..k : Stored(new, h, tail, size)[i] = new[Place(tail, i, size)]
    BY <2>1, StoredSeq
  <2> HIDE DEF k, n
  <2> QED
    BY <2>1, <2>2 DEF h
<1>5. \A i \in 1..n : Place(tail, i, size) \in 0..size /\ Place(tail, i, size) # head
  BY DEF Used, Place
<1>6. Place(tail, n + 1, size) = head
  BY DEF Used, Place
<1>7. Append(s, b) \in Seq(Bytes) /\ Len(Append(s, b)) = n + 1
      /\ \A i \in 1..n + 1 : Append(s, b)[i] = IF i <= n THEN s[i] ELSE b
  <2> HIDE DEF s, n
  <2> QED
    BY <1>2, <1>3
<1>8. \A i \in 1..n + 1 : t[i] = Append(s, b)[i]
  <2> TAKE i \in 1..n + 1
  <2>0. i \in 1..n \/ i = n + 1
    <3> HIDE DEF n
    <3> QED
      BY <1>2
  <2>1. CASE i \in 1..n
    <3>1. new[Place(tail, i, size)] = buf[Place(tail, i, size)]
      BY <2>1, <1>5
    <3> HIDE DEF s, t, n, new
    <3> QED
      BY <2>1, <3>1, <1>2, <1>3, <1>4, <1>7
  <2>2. CASE i = n + 1
    <3>1. new[Place(tail, i, size)] = b
      BY <2>2, <1>6
    <3> HIDE DEF s, t, n, new
    <3> QED
      BY <2>2, <3>1, <1>2, <1>4, <1>7
  <2> QED
    BY <2>0, <2>1, <2>2
<1>9. t = Append(s, b)
  <2> HIDE DEF s, t, n
  <2> QED
    BY <1>4, <1>7, <1>8, SeqEqual
<1> QED
  BY <1>2, <1>9

\* The reader moves on to a place m bytes from the tail: what it passes is gone.
LEMMA StoredSkip ==
  ASSUME NEW size \in Nat \ {0}, NEW head \in 0..size, NEW tail \in 0..size,
         NEW buf \in [0..size -> Bytes], NEW new \in 0..size,
         Used(new, tail, size) <= Used(head, tail, size)
  PROVE  Stored(buf, head, new, size)
           = SubSeq(Stored(buf, head, tail, size), Used(new, tail, size) + 1,
                    Used(head, tail, size))
<1> DEFINE s == Stored(buf, head, tail, size)
           t == Stored(buf, head, new, size)
           n == Used(head, tail, size)
           m == Used(new, tail, size)
           r == SubSeq(s, m + 1, n)
<1>1. n \in Nat /\ m \in Nat /\ m <= n /\ Used(head, new, size) = n - m
  BY DEF Used
<1>2. s \in Seq(Bytes) /\ Len(s) = n /\ \A i \in 1..n : s[i] = buf[Place(tail, i, size)]
  BY StoredSeq
<1>3. t \in Seq(Bytes) /\ Len(t) = n - m /\ \A i \in 1..n - m : t[i] = buf[Place(new, i, size)]
  <2> DEFINE k == Used(head, new, size)
  <2>1. /\ t \in Seq(Bytes)
        /\ Len(t) = k
        /\ \A i \in 1..k : t[i] = buf[Place(new, i, size)]
    BY StoredSeq
  <2>2. k = n - m
    BY <1>1
  <2> HIDE DEF k, n, m, t
  <2> QED
    BY <2>1, <2>2
<1>4. \A i \in 1..n - m : Place(new, i, size) = Place(tail, m + i, size)
  BY DEF Used, Place
<1>5. r \in Seq(Bytes) /\ Len(r) = n - m /\ \A i \in 1..n - m : r[i] = s[m + i]
  <2> HIDE DEF s, n, m
  <2>1. \A i \in m + 1..n : s[i] \in Bytes
    BY <1>1, <1>2, ElementOfSeq
  <2>2. m + 1 \in Int /\ n \in Int
    BY <1>1
  <2>3. r \in Seq(Bytes)
    BY <2>1, <2>2, SubSeqProperties
  <2>4. Len(r) = IF m + 1 <= n THEN n - (m + 1) + 1 ELSE 0
    BY <2>1, <2>2, SubSeqProperties
  <2>5. \A i \in 1..n - (m + 1) + 1 : r[i] = s[m + 1 + i - 1]
    BY <2>1, <2>2, SubSeqProperties
  <2>6. Len(r) = n - m
    BY <1>1, <2>4
  <2>7. \A i \in 1..n - m : r[i] = s[m + i]
    <3> TAKE i \in 1..n - m
    <3>1. i \in 1..n - (m + 1) + 1 /\ m + 1 + i - 1 = m + i
      BY <1>1
    <3> QED
      BY <3>1, <2>5
  <2> QED
    BY <2>3, <2>6, <2>7
<1>6. \A i \in 1..n - m : t[i] = r[i]
  <2> TAKE i \in 1..n - m
  <2>1. m + i \in 1..n
    <3> HIDE DEF n, m
    <3> QED
      BY <1>1
  <2> HIDE DEF s, t, n, m, r
  <2> QED
    BY <2>1, <1>2, <1>3, <1>4, <1>5
<1>7. t = r
  <2> HIDE DEF s, t, n, m, r
  <2> QED
    BY <1>1, <1>3, <1>5, <1>6, SeqEqual
<1> QED
  BY <1>7

\* One byte less at the tail.
LEMMA StoredTake ==
  ASSUME NEW size \in Nat \ {0}, NEW head \in 0..size, NEW tail \in 0..size,
         NEW buf \in [0..size -> Bytes], head # tail
  PROVE  /\ Stored(buf, head, tail, size) # <<>>
         /\ Head(Stored(buf, head, tail, size)) = buf[tail]
         /\ Stored(buf, head, After(tail, size), size) = Tail(Stored(buf, head, tail, size))
<1> DEFINE s == Stored(buf, head, tail, size)
           n == Used(head, tail, size)
<1>1. /\ After(tail, size) \in 0..size /\ Used(After(tail, size), tail, size) = 1
      /\ n \in Nat /\ n >= 1
  BY DEF Used, After
<1>2. Stored(buf, head, After(tail, size), size) = SubSeq(s, 2, n)
  <2>1. Stored(buf, head, After(tail, size), size) = SubSeq(s, 1 + 1, n)
    BY <1>1, StoredSkip
  <2> HIDE DEF s, n
  <2> QED
    BY <2>1
<1>3. s \in Seq(Bytes) /\ Len(s) = n /\ s[1] = buf[Place(tail, 1, size)]
  <2>1. 1 \in 1..n
    BY <1>1
  <2> QED
    BY <2>1, StoredSeq
<1>4. Place(tail, 1, size) = tail
  BY DEF Place
<1> HIDE DEF s, n
<1>5. s # <<>>
  BY <1>1, <1>3, EmptySeq
<1>6. Tail(s) = SubSeq(s, 2, n)
  BY <1>3, <1>5, TailIsSubSeq
<1>7. Head(s) = buf[tail]
  BY <1>1, <1>3, <1>4, <1>5
<1> QED
  BY <1>2, <1>5, <1>6, <1>7 DEF s

-----------------------------------------------------------------------------
(* Types. *)

\* What the main program holds in its registers, at each of its points: the place it
\* read is still the one it takes, and the place it empties to is still in the queue.
Registers ==
  /\ at = "readStore" =>
       rxHead # rxTail /\ byte = rxBuf[rxTail] /\ index = After(rxTail, RxSize)
  /\ at = "read" => byte \in Bytes
  /\ at = "resetStore" =>
       index \in RxPlaces /\ Used(index, rxTail, RxSize) <= Used(rxHead, rxTail, RxSize)
  /\ at \in {"writeWait", "writeByte", "writeHead"} => byte \in Bytes /\ index \in TxPlaces

RingInv == TypeOK /\ Registers

LEMMA AfterPlace ==
  ASSUME NEW size \in Nat \ {0}, NEW i \in 0..size
  PROVE  After(i, size) \in 0..size
BY DEF After

LEMMA RingInvInit == ASSUME Bytes # {}, Init PROVE RingInv
<1>1. (CHOOSE b \in Bytes : TRUE) \in Bytes
  OBVIOUS
<1>2. TypeOK
  <2>1. rxBuf \in [RxPlaces -> Bytes] /\ txBuf \in [TxPlaces -> Bytes]
    BY <1>1 DEF Init
  <2>2. 0 \in RxPlaces /\ 0 \in TxPlaces /\ 0 \in 0..Message
    BY SerialAssumption DEF RxPlaces, TxPlaces
  <2> QED
    BY <2>1, <2>2 DEF Init, TypeOK
<1> QED
  BY <1>2 DEF Init, RingInv, Registers

LEMMA RingInvStep == ASSUME RingInv, [Next]_vars PROVE RingInv'
<1> USE SerialAssumption DEF RingInv, RxPlaces, TxPlaces, rxVars, txVars, mainVars, At, Goto
<1>1. CASE ReadFetch
  <2>1. TypeOK'
    BY <1>1, AfterPlace DEF ReadFetch, TypeOK
  <2>2. Registers'
    BY <1>1 DEF ReadFetch, Registers, TypeOK
  <2> QED
    BY <2>1, <2>2
<1>2. CASE ReadStore
  <2>1. TypeOK'
    BY <1>2, AfterPlace DEF ReadStore, TypeOK, Registers
  <2>2. Registers'
    BY <1>2 DEF ReadStore, Registers, TypeOK
  <2> QED
    BY <2>1, <2>2
<1>3. CASE ReadReturn
  BY <1>3 DEF ReadReturn, TypeOK, Registers
<1>4. CASE ResetFetch
  <2>1. Used(rxHead, rxTail, RxSize) \in Nat
    BY DEF TypeOK, Used
  <2>2. TypeOK'
    BY <1>4 DEF ResetFetch, TypeOK
  <2>3. Registers'
    BY <1>4, <2>1 DEF ResetFetch, TypeOK, Registers
  <2> QED
    BY <2>2, <2>3
<1>5. CASE ResetStore
  BY <1>5 DEF ResetStore, TypeOK, Registers
<1>6. CASE WriteBegin
  <2>1. TypeOK'
    BY <1>6, AfterPlace DEF WriteBegin, TypeOK
  <2>2. Registers'
    BY <1>6, AfterPlace DEF WriteBegin, TypeOK, Registers
  <2> QED
    BY <2>1, <2>2
<1>7. CASE WriteRoom
  BY <1>7 DEF WriteRoom, TypeOK, Registers
<1>8. CASE WriteAbort
  BY <1>8 DEF WriteAbort, TypeOK, Registers
<1>9. CASE WriteByte
  <2>1. txBuf' \in [TxPlaces -> Bytes]
    BY <1>9 DEF WriteByte, TypeOK, Registers
  <2> QED
    BY <1>9, <2>1 DEF WriteByte, TypeOK, Registers
<1>10. CASE WriteHead
  BY <1>10 DEF WriteHead, TypeOK, Registers
<1>11. CASE WriteEnable
  BY <1>11 DEF WriteEnable, TypeOK, Registers
<1>12. CASE Receive
  <2>1. PICK b \in Bytes : rxBuf' = [rxBuf EXCEPT ![rxHead] = b]
    BY <1>12 DEF Receive
  <2>2. rxBuf' \in [RxPlaces -> Bytes] /\ rxHead' \in RxPlaces
    BY <1>12, <2>1, AfterPlace DEF Receive, TypeOK
  <2>3. TypeOK'
    BY <1>12, <2>2 DEF Receive, TypeOK
  <2>4. rxHead # rxTail => rxHead' # rxTail /\ rxBuf'[rxTail] = rxBuf[rxTail]
    BY <1>12, <2>1 DEF Receive, TypeOK
  <2>5. Used(rxHead, rxTail, RxSize) <= Used(rxHead', rxTail, RxSize)
        /\ Used(rxHead, rxTail, RxSize) \in Nat /\ Used(rxHead', rxTail, RxSize) \in Nat
    BY <1>12 DEF Receive, TypeOK, Used, After
  <2>6. index \in RxPlaces => Used(index, rxTail, RxSize) \in Nat
    BY DEF TypeOK, Used
  <2>7. Registers'
    BY <1>12, <2>4, <2>5, <2>6 DEF Receive, Registers
  <2> QED
    BY <2>3, <2>7
<1>13. CASE ReceiveReset \/ ResetDrop
  BY <1>13 DEF ReceiveReset, ResetDrop, TypeOK, Registers
<1>14. CASE Transmit
  <2>1. txTail' \in TxPlaces /\ udr' \in Bytes
    BY <1>14, AfterPlace DEF Transmit, TypeOK
  <2> QED
    BY <1>14, <2>1 DEF Transmit, TypeOK, Registers
<1>15. CASE Shift
  BY <1>15 DEF Shift, TypeOK, Registers
<1>16. CASE Trip
  BY <1>16 DEF Trip, TypeOK, Registers
<1>17. CASE TripWrite
  <2>1. txBuf' \in [TxPlaces -> Bytes] /\ txHead' \in TxPlaces /\ udrie' \in BOOLEAN
    BY <1>17, AfterPlace DEF TripWrite, TypeOK
  <2>2. isr' \in 0..Message
    BY <1>17 DEF TripWrite, TypeOK
  <2> QED
    BY <1>17, <2>1, <2>2 DEF TripWrite, TypeOK, Registers
<1>18. CASE UNCHANGED vars
  BY <1>18 DEF vars, TypeOK, Registers
<1> QED
  BY <1>1, <1>2, <1>3, <1>4, <1>5, <1>6, <1>7, <1>8, <1>9, <1>10, <1>11, <1>12, <1>13, <1>14,
     <1>15, <1>16, <1>17, <1>18 DEF Next, Read, Write

\* Whatever the sizes of the rings, and whenever the interrupts come, no access of
\* serial.c is outside a ring.
THEOREM SerialTypeCorrect == ASSUME Bytes # {} PROVE Spec => []TypeOK
<1>1. Init => RingInv
  BY RingInvInit
<1>2. RingInv /\ [Next]_vars => RingInv'
  BY RingInvStep
<1>3. RingInv => TypeOK
  BY DEF RingInv
<1> QED
  BY <1>1, <1>2, <1>3, PTL DEF Spec

-----------------------------------------------------------------------------
(* The receive ring. *)

\* The room the status report tells the sender is the room there is: a sender that
\* counts on it loses no byte.
THEOREM RoomReportedHolds == ASSUME Bytes # {} PROVE Spec => []RoomReported
<1>1. Init => RingInv
  BY RingInvInit
<1>2. RingInv /\ [Next]_vars => RingInv'
  BY RingInvStep
<1>3. RingInv => RoomReported
  <2> SUFFICES ASSUME RingInv PROVE RoomReported
    OBVIOUS
  <2>1. rxHead \in 0..RxSize /\ rxTail \in 0..RxSize /\ rxBuf \in [0..RxSize -> Bytes]
    BY DEF RingInv, TypeOK, RxPlaces
  <2>2. Len(RxQueue) = Used(rxHead, rxTail, RxSize)
    BY <2>1, SerialAssumption, StoredSeq DEF RxQueue
  <2>3. RxAvailable = RxSize - Used(rxHead, rxTail, RxSize)
    BY <2>1, SerialAssumption DEF RxAvailable, Used
  <2> QED
    BY <2>2, <2>3 DEF RoomReported
<1> QED
  BY <1>1, <1>2, <1>3, PTL DEF Spec

LEMMA RxStep == ASSUME RingInv, [Next]_vars PROVE [Rx!Next]_<<RxQueue, RxOut>>
<1>1. /\ rxHead \in 0..RxSize /\ rxTail \in 0..RxSize /\ rxBuf \in [0..RxSize -> Bytes]
      /\ RxSize \in Nat \ {0} /\ NoByte \notin Bytes
  BY SerialAssumption DEF RingInv, TypeOK, RxPlaces
<1>2. /\ RxQueue \in Seq(Bytes) /\ Len(RxQueue) = Used(rxHead, rxTail, RxSize)
      /\ Used(rxHead, rxTail, RxSize) \in 0..RxSize
  BY <1>1, StoredSeq DEF RxQueue
<1>3. ASSUME UNCHANGED rxVars PROVE UNCHANGED RxQueue
  BY <1>3 DEF rxVars, RxQueue
<1>4. CASE Receive
  <2>1. PICK b \in Bytes : rxBuf' = [rxBuf EXCEPT ![rxHead] = b]
    BY <1>4 DEF Receive
  <2>2. rxHead' = After(rxHead, RxSize) /\ rxTail' = rxTail /\ After(rxHead, RxSize) # rxTail
    BY <1>4 DEF Receive
  <2>3. Len(RxQueue) < RxSize
    BY <1>1, <1>2, <2>2, StoredPut
  <2>4. RxQueue' = Append(RxQueue, b)
    <3>1. Stored([rxBuf EXCEPT ![rxHead] = b], After(rxHead, RxSize), rxTail, RxSize)
            = Append(Stored(rxBuf, rxHead, rxTail, RxSize), b)
      BY <1>1, <2>2, StoredPut
    <3> QED
      BY <2>1, <2>2, <3>1 DEF RxQueue
  <2>5. UNCHANGED RxOut
    BY <1>4 DEF Receive, mainVars, RxOut
  <2> QED
    BY <2>3, <2>4, <2>5 DEF Rx!Next, Rx!Put
<1>5. CASE ReadFetch
  <2>1. UNCHANGED RxQueue
    BY <1>3, <1>5 DEF ReadFetch
  <2>2. UNCHANGED RxOut
    BY <1>5 DEF ReadFetch, At, Goto, RxOut
  <2> QED
    BY <2>1, <2>2
<1>6. CASE ReadStore
  <2>1. /\ rxHead # rxTail /\ byte = rxBuf[rxTail] /\ rxTail' = After(rxTail, RxSize)
        /\ UNCHANGED <<rxBuf, rxHead>>
    BY <1>6 DEF ReadStore, At, RingInv, Registers
  <2>2. RxQueue # <<>> /\ Head(RxQueue) = rxBuf[rxTail] /\ RxQueue' = Tail(RxQueue)
    <3>1. /\ Stored(rxBuf, rxHead, rxTail, RxSize) # <<>>
          /\ Head(Stored(rxBuf, rxHead, rxTail, RxSize)) = rxBuf[rxTail]
          /\ Stored(rxBuf, rxHead, After(rxTail, RxSize), RxSize)
               = Tail(Stored(rxBuf, rxHead, rxTail, RxSize))
      BY <1>1, <2>1, StoredTake
    <3> QED
      BY <2>1, <3>1 DEF RxQueue
  <2>3. RxOut' = byte
    BY <1>6 DEF ReadStore, Goto, RxOut
  <2> QED
    BY <2>1, <2>2, <2>3 DEF Rx!Next, Rx!Take
<1>7. CASE ReadReturn
  <2>1. UNCHANGED RxQueue
    BY <1>3, <1>7 DEF ReadReturn
  <2>2. RxOut # NoByte /\ RxOut' = NoByte
    BY <1>1, <1>7 DEF ReadReturn, At, Goto, RxOut, RingInv, Registers
  <2> QED
    BY <2>1, <2>2 DEF Rx!Next, Rx!HandOver
<1>8. CASE ResetFetch
  <2>1. UNCHANGED RxQueue
    BY <1>3, <1>8 DEF ResetFetch
  <2>2. UNCHANGED RxOut
    BY <1>8 DEF ResetFetch, At, Goto, RxOut
  <2> QED
    BY <2>1, <2>2
<1>9. CASE ResetStore
  <2> DEFINE m == Used(index, rxTail, RxSize)
             n == Used(rxHead, rxTail, RxSize)
  <2>1. index \in 0..RxSize /\ m <= n
    BY <1>9 DEF ResetStore, At, RingInv, Registers, RxPlaces
  <2>2. m \in Nat /\ (m = 0 => index = rxTail)
    BY <1>1, <2>1 DEF Used
  <2>3. rxTail' = index /\ UNCHANGED <<rxBuf, rxHead>>
    BY <1>9 DEF ResetStore
  <2>4. UNCHANGED RxOut
    BY <1>9 DEF ResetStore, At, Goto, RxOut
  <2>5. RxQueue' = SubSeq(RxQueue, m + 1, Len(RxQueue))
    <3>1. Stored(rxBuf, rxHead, index, RxSize)
            = SubSeq(Stored(rxBuf, rxHead, rxTail, RxSize), m + 1, n)
      BY <1>1, <2>1, StoredSkip
    <3> HIDE DEF m, n
    <3>2. RxQueue' = Stored(rxBuf, rxHead, index, RxSize)
      BY <2>3 DEF RxQueue
    <3> QED
      BY <1>2, <3>1, <3>2 DEF RxQueue, n
  <2>6. CASE m = 0
    <3>1. UNCHANGED rxVars
      BY <2>2, <2>3, <2>6 DEF rxVars
    <3> QED
      BY <1>3, <2>4, <3>1
  <2>7. CASE m # 0
    <3>1. m \in 1..Len(RxQueue)
      <4> HIDE DEF m
      <4> QED
        BY <1>2, <2>1, <2>2, <2>7
    <3> HIDE DEF m
    <3> QED
      BY <2>4, <2>5, <3>1 DEF Rx!Next, Rx!Forget
  <2> QED
    BY <2>6, <2>7
<1>10. CASE UNCHANGED rxVars /\ UNCHANGED RxOut
  BY <1>3, <1>10
<1>11. CASE ReceiveReset \/ ResetDrop \/ Transmit \/ Shift \/ Trip \/ TripWrite
  BY <1>10, <1>11 DEF ReceiveReset, ResetDrop, Transmit, Shift, Trip, TripWrite, mainVars, RxOut
<1>12. CASE Write
  BY <1>10, <1>12 DEF Write, WriteBegin, WriteRoom, WriteAbort, WriteByte, WriteHead, WriteEnable,
                      At, Goto, RxOut
<1>13. CASE UNCHANGED vars
  BY <1>10, <1>13 DEF vars, mainVars, RxOut
<1> QED
  BY <1>4, <1>5, <1>6, <1>7, <1>8, <1>9, <1>11, <1>12, <1>13 DEF Next, Read

\* The receive ring is a queue: with the receive interrupt between any two accesses of
\* serial_read() or of the reset, no byte is lost but for a full ring, none is read
\* twice, and none is out of order.
THEOREM RxIsQueueHolds == ASSUME Bytes # {} PROVE Spec => RxIsQueue
<1>1. Init => Rx!Init
  <2> SUFFICES ASSUME Init PROVE Rx!Init
    OBVIOUS
  <2>1. rxHead = 0 /\ rxTail = 0 /\ RxOut = NoByte
    BY DEF Init, RxOut
  <2>2. RxQueue \in Seq(Bytes) /\ Len(RxQueue) = 0
    <3>1. rxBuf \in [0..RxSize -> Bytes]
      BY RingInvInit DEF RingInv, TypeOK, RxPlaces
    <3>2. RxQueue \in Seq(Bytes) /\ Len(RxQueue) = Used(rxHead, rxTail, RxSize)
      BY <2>1, <3>1, SerialAssumption, StoredSeq DEF RxQueue
    <3> QED
      BY <2>1, <3>2 DEF Used
  <2> QED
    BY <2>1, <2>2, EmptySeq DEF Rx!Init
<1>2. Init => RingInv
  BY RingInvInit
<1>3. RingInv /\ [Next]_vars => RingInv'
  BY RingInvStep
<1>4. RingInv /\ [Next]_vars => [Rx!Next]_<<RxQueue, RxOut>>
  BY RxStep
<1> QED
  BY <1>1, <1>2, <1>3, <1>4, PTL DEF Spec, RxIsQueue, Rx!Spec

-----------------------------------------------------------------------------
(* The transmit ring. *)

\* What serial_write() has found out stays true until it uses it, since only it moves
\* the head: the place it writes is free, and what it wrote there is still there.
Writing ==
  /\ at \in {"writeWait", "writeByte", "writeHead"} => isr = 0 /\ index = After(txHead, TxSize)
  /\ at \in {"writeByte", "writeHead"} => index # txTail
  /\ at = "writeHead" => txBuf[txHead] = byte
  /\ at = "writeEnable" => isr = 0 /\ txHead # txTail

TxInv == RingInv /\ Writing /\ TxArmed

\* The order of the accesses is enough as long as the timer 5 interrupt leaves
\* serial_write() alone and the writer turns on the interrupt in time.
InTime == Bytes # {} /\ Trips # "any" /\ ~LateWriter

LEMMA AfterDiffers ==
  ASSUME NEW size \in Nat \ {0}, NEW i \in 0..size, NEW j \in 0..size
  PROVE  After(i, size) # i /\ (i # j => After(i, size) # After(j, size))
BY DEF After

LEMMA TxInvInit == ASSUME InTime, Init PROVE TxInv
BY RingInvInit DEF InTime, Init, TxInv, Writing, TxArmed

LEMMA TxInvStep == ASSUME InTime, TxInv, [Next]_vars PROVE TxInv'
<1>1. RingInv'
  BY RingInvStep DEF TxInv
<1>2. /\ txHead \in 0..TxSize /\ txTail \in 0..TxSize /\ TxSize \in Nat \ {0}
      /\ txBuf \in [0..TxSize -> Bytes] /\ udrie \in BOOLEAN
  BY SerialAssumption DEF TxInv, RingInv, TypeOK, TxPlaces
<1>3. Writing /\ TxArmed
  BY DEF TxInv
<1> SUFFICES Writing' /\ TxArmed'
  BY <1>1 DEF TxInv
<1> USE DEF rxVars, txVars, mainVars, At, Goto
<1>4. CASE WriteBegin
  <2>1. Writing'
    BY <1>3, <1>4 DEF WriteBegin, Writing
  <2>2. TxArmed'
    BY <1>3, <1>4 DEF WriteBegin, TxArmed
  <2> QED
    BY <2>1, <2>2
<1>5. CASE WriteRoom
  BY <1>3, <1>5 DEF WriteRoom, Writing, TxArmed
<1>6. CASE WriteAbort
  BY <1>3, <1>6 DEF WriteAbort, Writing, TxArmed
<1>7. CASE WriteByte
  <2>1. txBuf'[txHead] = byte
    BY <1>2, <1>7 DEF WriteByte
  <2> QED
    BY <1>3, <1>7, <2>1 DEF WriteByte, Writing, TxArmed
<1>8. CASE WriteHead
  <2>1. txHead' # txTail
    BY <1>3, <1>8 DEF WriteHead, Writing
  <2> QED
    BY <1>3, <1>8, <2>1 DEF WriteHead, Writing, TxArmed
<1>9. CASE WriteEnable
  BY <1>3, <1>9 DEF WriteEnable, Writing, TxArmed
<1>10. CASE Transmit
  <2>1. txHead # txTail
    BY <1>3, <1>10 DEF Transmit, TxArmed
  <2>2. txTail' = After(txTail, TxSize) /\ After(txHead, TxSize) # txTail'
    BY <1>2, <1>10, <2>1, AfterDiffers DEF Transmit
  <2>3. at = "writeEnable" => txHead # txTail'
    BY <1>10, <2>2 DEF Transmit, InTime, Hurried
  <2>4. Writing'
    BY <1>3, <1>10, <2>2, <2>3 DEF Transmit, Writing
  <2>5. TxArmed'
    BY <1>10, <2>2 DEF Transmit, TxArmed
  <2> QED
    BY <2>4, <2>5
<1>11. CASE Trip
  <2>1. at \notin {"writeWait", "writeByte", "writeHead", "writeEnable"}
    BY <1>11 DEF Trip, InTime
  <2> QED
    BY <1>3, <1>11, <2>1 DEF Trip, Writing, TxArmed
<1>12. CASE TripWrite
  <2>1. isr # 0
    BY <1>12 DEF TripWrite
  <2>2. at \notin {"writeWait", "writeByte", "writeHead", "writeEnable"}
    BY <1>3, <2>1 DEF Writing
  <2>3. TxArmed'
    BY <1>3, <1>12 DEF TripWrite, TxArmed
  <2> QED
    BY <1>12, <2>2, <2>3 DEF TripWrite, Writing
<1>13. CASE Read
  BY <1>3, <1>13 DEF Read, ReadFetch, ReadStore, ReadReturn, ResetFetch, ResetStore, ResetDrop,
                     Writing, TxArmed
<1>14. CASE Receive \/ ReceiveReset \/ Shift
  BY <1>3, <1>14 DEF Receive, ReceiveReset, Shift, Writing, TxArmed
<1>15. CASE UNCHANGED vars
  BY <1>3, <1>15 DEF vars, Writing, TxArmed
<1> QED
  BY <1>4, <1>5, <1>6, <1>7, <1>8, <1>9, <1>10, <1>11, <1>12, <1>13, <1>14, <1>15 DEF Next, Write

\* While there is something to send the transmit interrupt is on, or about to be turned
\* on; with nothing to send it is off: no byte is left behind in the ring, and the ring
\* is never sent a second time.
THEOREM TxArmedHolds == ASSUME InTime PROVE Spec => []TxArmed
<1>1. Init => TxInv
  BY TxInvInit
<1>2. TxInv /\ [Next]_vars => TxInv'
  BY TxInvStep
<1>3. TxInv => TxArmed
  BY DEF TxInv
<1> QED
  BY <1>1, <1>2, <1>3, PTL DEF Spec

\* A byte stored at the head, and the head moved: the queue has one byte more.
LEMMA TxPut ==
  ASSUME RingInv, NEW b \in Bytes, After(txHead, TxSize) # txTail,
         txBuf' = [txBuf EXCEPT ![txHead] = b], txHead' = After(txHead, TxSize), UNCHANGED txTail
  PROVE  Len(TxQueue) < TxSize /\ TxQueue' = Append(TxQueue, b)
<1>1. /\ txHead \in 0..TxSize /\ txTail \in 0..TxSize /\ txBuf \in [0..TxSize -> Bytes]
      /\ TxSize \in Nat \ {0}
  BY SerialAssumption DEF RingInv, TypeOK, TxPlaces
<1>2. Len(TxQueue) = Used(txHead, txTail, TxSize)
  BY <1>1, StoredSeq DEF TxQueue
<1>3. /\ Used(txHead, txTail, TxSize) < TxSize
      /\ Stored([txBuf EXCEPT ![txHead] = b], After(txHead, TxSize), txTail, TxSize)
           = Append(Stored(txBuf, txHead, txTail, TxSize), b)
  BY <1>1, StoredPut
<1> QED
  BY <1>2, <1>3 DEF TxQueue

LEMMA TxStep == ASSUME InTime, TxInv, [Next]_vars PROVE [Tx!Next]_<<TxQueue, udr>>
<1>1. /\ txHead \in 0..TxSize /\ txTail \in 0..TxSize /\ txBuf \in [0..TxSize -> Bytes]
      /\ TxSize \in Nat \ {0} /\ NoByte \notin Bytes
  BY SerialAssumption DEF TxInv, RingInv, TypeOK, TxPlaces
<1>2. ASSUME UNCHANGED <<txBuf, txHead, txTail>> PROVE UNCHANGED TxQueue
  BY <1>2 DEF TxQueue
<1>3. CASE WriteByte
  <2> DEFINE new == [txBuf EXCEPT ![txHead] = byte]
  <2>1. txBuf' = new /\ UNCHANGED <<txHead, txTail, udr>>
    BY <1>3 DEF WriteByte
  <2>2. \A i \in 1..Used(txHead, txTail, TxSize) :
          new[Place(txTail, i, TxSize)] = txBuf[Place(txTail, i, TxSize)]
    <3>1. \A i \in 1..Used(txHead, txTail, TxSize) :
            Place(txTail, i, TxSize) \in 0..TxSize /\ Place(txTail, i, TxSize) # txHead
      BY <1>1 DEF Used, Place
    <3> QED
      BY <1>1, <3>1
  <2>3. Stored(new, txHead, txTail, TxSize) = Stored(txBuf, txHead, txTail, TxSize)
    <3> HIDE DEF new
    <3> QED
      BY <2>2 DEF Stored
  <2> HIDE DEF new
  <2> QED
    BY <2>1, <2>3 DEF TxQueue
<1>4. CASE WriteHead
  <2>1. /\ After(txHead, TxSize) # txTail /\ txHead' = After(txHead, TxSize)
        /\ UNCHANGED <<txBuf, txTail, udr>> /\ txBuf[txHead] = byte /\ byte \in Bytes
    BY <1>4 DEF WriteHead, At, TxInv, RingInv, Registers, Writing
  <2>2. txBuf' = [txBuf EXCEPT ![txHead] = byte]
    BY <1>1, <2>1
  <2>3. Len(TxQueue) < TxSize /\ TxQueue' = Append(TxQueue, byte)
    BY <2>1, <2>2, TxPut DEF TxInv
  <2> QED
    BY <2>1, <2>3 DEF Tx!Next, Tx!Put
<1>5. CASE TripWrite
  <2>1. CASE After(txHead, TxSize) # txTail
    <3>1. PICK b \in Bytes : txBuf' = [txBuf EXCEPT ![txHead] = b]
      BY <1>5, <2>1 DEF TripWrite
    <3>2. txHead' = After(txHead, TxSize) /\ UNCHANGED <<txTail, udr>>
      BY <1>5, <2>1 DEF TripWrite
    <3>3. Len(TxQueue) < TxSize /\ TxQueue' = Append(TxQueue, b)
      BY <2>1, <3>1, <3>2, TxPut DEF TxInv
    <3> QED
      BY <3>2, <3>3 DEF Tx!Next, Tx!Put
  <2>2. CASE After(txHead, TxSize) = txTail
    BY <1>2, <1>5, <2>2 DEF TripWrite
  <2> QED
    BY <2>1, <2>2
<1>6. CASE Transmit
  <2>1. /\ txHead # txTail /\ txTail' = After(txTail, TxSize) /\ udr' = txBuf[txTail]
        /\ UNCHANGED <<txBuf, txHead>>
    BY <1>6 DEF Transmit, TxInv, TxArmed
  <2>2. /\ Stored(txBuf, txHead, txTail, TxSize) # <<>>
        /\ Head(Stored(txBuf, txHead, txTail, TxSize)) = txBuf[txTail]
        /\ Stored(txBuf, txHead, After(txTail, TxSize), TxSize)
             = Tail(Stored(txBuf, txHead, txTail, TxSize))
    BY <1>1, <2>1, StoredTake
  <2>3. TxQueue # <<>> /\ Head(TxQueue) = txBuf[txTail] /\ TxQueue' = Tail(TxQueue)
    BY <2>1, <2>2 DEF TxQueue
  <2> QED
    BY <2>1, <2>3 DEF Tx!Next, Tx!Take
<1>7. CASE Shift
  <2>1. UNCHANGED TxQueue
    BY <1>2, <1>7 DEF Shift, txVars
  <2> QED
    BY <1>7, <2>1 DEF Shift, Tx!Next, Tx!HandOver
<1>8. CASE UNCHANGED <<txBuf, txHead, txTail, udr>>
  BY <1>2, <1>8
<1>9. CASE Read
  BY <1>8, <1>9 DEF Read, ReadFetch, ReadStore, ReadReturn, ResetFetch, ResetStore, ResetDrop,
                    txVars
<1>10. CASE WriteBegin \/ WriteRoom \/ WriteAbort \/ WriteEnable
  BY <1>8, <1>10 DEF WriteBegin, WriteRoom, WriteAbort, WriteEnable, txVars
<1>11. CASE Receive \/ ReceiveReset \/ Trip \/ UNCHANGED vars
  BY <1>8, <1>11 DEF Receive, ReceiveReset, Trip, vars, txVars
<1> QED
  BY <1>3, <1>4, <1>5, <1>6, <1>7, <1>9, <1>10, <1>11 DEF Next, Write

\* The transmit ring is a queue: with the transmit interrupt between any two accesses of
\* serial_write(), every byte is sent once and in order.
THEOREM TxIsQueueHolds == ASSUME InTime PROVE Spec => TxIsQueue
<1>1. Init => Tx!Init
  <2> SUFFICES ASSUME Init PROVE Tx!Init
    OBVIOUS
  <2>1. txHead = 0 /\ txTail = 0 /\ udr = NoByte
    BY DEF Init
  <2>2. TxQueue \in Seq(Bytes) /\ Len(TxQueue) = 0
    <3>1. txBuf \in [0..TxSize -> Bytes]
      BY TxInvInit DEF TxInv, RingInv, TypeOK, TxPlaces
    <3>2. TxQueue \in Seq(Bytes) /\ Len(TxQueue) = Used(txHead, txTail, TxSize)
      BY <2>1, <3>1, SerialAssumption, StoredSeq DEF TxQueue
    <3> QED
      BY <2>1, <3>2 DEF Used
  <2> QED
    BY <2>1, <2>2, EmptySeq DEF Tx!Init
<1>2. Init => TxInv
  BY TxInvInit
<1>3. TxInv /\ [Next]_vars => TxInv'
  BY TxInvStep
<1>4. TxInv /\ [Next]_vars => [Tx!Next]_<<TxQueue, udr>>
  BY TxStep
<1> QED
  BY <1>1, <1>2, <1>3, <1>4, PTL DEF Spec, TxIsQueue, Tx!Spec
=============================================================================
