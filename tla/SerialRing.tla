----------------------------- MODULE SerialRing -----------------------------
(***************************************************************************)
(* The serial port of gCarvin (serial.c): a receive ring, filled by an     *)
(* interrupt and read by the main program, and a transmit ring, written by *)
(* the main program and emptied by an interrupt.  Neither end takes a      *)
(* lock: each index is written by one side only, one place stays free, and *)
(* the order of the main program's accesses keeps the other side off.      *)
(*                                                                         *)
(* The main program is one thread: at is its point in serial_read(),       *)
(* serial_write() or serial_reset_read_buffer(); byte and index are the    *)
(* registers these hold across an access.  The interrupt of timer 5 prints *)
(* too (carvin.c), with interrupts disabled: isr counts the bytes it has   *)
(* left, and nothing else of the processor runs until it is 0.             *)
(***************************************************************************)
EXTENDS Naturals, Sequences

CONSTANTS
  RxSize, TxSize,  \* RX_BUFFER_SIZE and TX_BUFFER_SIZE: a ring has a place more
  Bytes, NoByte,
  Message,         \* length of what the timer 5 interrupt prints
  Trips,           \* when it may print: "never", "quiet" or "any" (Trip)
  LateWriter       \* a byte may leave the ring before its writer has turned on
                   \* the transmit interrupt (Transmit)

ASSUME SerialAssumption ==
  /\ RxSize \in Nat \ {0} /\ TxSize \in Nat \ {0}
  /\ NoByte \notin Bytes
  /\ Message \in Nat \ {0}
  /\ Trips \in {"never", "quiet", "any"}
  /\ LateWriter \in BOOLEAN

VARIABLES
  rxBuf, rxHead, rxTail,
  txBuf, txHead, txTail,
  udrie,               \* the transmit interrupt is enabled
  udr,                 \* the transmit register; NoByte when it is free
  reset,               \* EXEC_RESET of sys_rt_exec_state
  at, byte, index,
  isr

rxVars   == <<rxBuf, rxHead, rxTail>>
txVars   == <<txBuf, txHead, txTail, udrie>>
mainVars == <<at, byte, index>>
vars == <<rxVars, txVars, udr, reset, mainVars, isr>>

RxPlaces == 0..RxSize      \* RX_RING_BUFFER = RX_BUFFER_SIZE + 1 places
TxPlaces == 0..TxSize

\* Mutant: the ring does not wrap.
AfterUnwrapped(i, size) == i + 1

\* The place after i in a ring with places 0..size.
After(i, size) == IF i = size THEN 0 ELSE i + 1

\* What is stored between tail and head, in order.
Used(head, tail, size) == IF head >= tail THEN head - tail ELSE size + 1 - (tail - head)

\* The i-th place from tail on.
Place(tail, i, size) == IF tail + i - 1 > size THEN tail + i - 2 - size ELSE tail + i - 1

Stored(buf, head, tail, size) ==
  [i \in 1..Used(head, tail, size) |-> buf[Place(tail, i, size)]]

RxQueue == Stored(rxBuf, rxHead, rxTail, RxSize)
TxQueue == Stored(txBuf, txHead, txTail, TxSize)

\* Mutant: the free place is counted too.
RxAvailableOneMore ==
  IF rxHead >= rxTail THEN RxSize - (rxHead - rxTail) ELSE rxTail - rxHead

\* serial_get_rx_buffer_available().
RxAvailable ==
  IF rxHead >= rxTail THEN RxSize - (rxHead - rxTail) ELSE rxTail - rxHead - 1

Init ==
  /\ rxBuf \in [RxPlaces -> {CHOOSE b \in Bytes : TRUE}] /\ rxHead = 0 /\ rxTail = 0
  /\ txBuf \in [TxPlaces -> {CHOOSE b \in Bytes : TRUE}] /\ txHead = 0 /\ txTail = 0
  /\ udrie = FALSE /\ udr = NoByte /\ reset = FALSE
  /\ at = "idle" /\ byte = NoByte /\ index = 0
  /\ isr = 0

\* The main program is at point l and not interrupted.
At(l) == at = l /\ isr = 0

Goto(l) == at' = l

-----------------------------------------------------------------------------
(* Receiving. *)

\* Mutant: the ring is not looked at.
ReceiveUnchecked ==
  /\ isr = 0
  /\ \E b \in Bytes : rxBuf' = [rxBuf EXCEPT ![rxHead] = b]
  /\ rxHead' = After(rxHead, RxSize)
  /\ UNCHANGED <<rxTail, txVars, udr, reset, mainVars, isr>>

\* Receive interrupt, a plain character: kept unless the ring is full.
Receive ==
  /\ isr = 0
  /\ After(rxHead, RxSize) # rxTail
  /\ \E b \in Bytes : rxBuf' = [rxBuf EXCEPT ![rxHead] = b]
  /\ rxHead' = After(rxHead, RxSize)
  /\ UNCHANGED <<rxTail, txVars, udr, reset, mainVars, isr>>

\* Receive interrupt, the reset character.
ReceiveReset ==
  /\ isr = 0 /\ ~reset
  /\ reset' = TRUE
  /\ UNCHANGED <<rxVars, txVars, udr, mainVars, isr>>

\* serial_read(): fetch the byte and the next tail; store the tail; return.  With
\* nothing in the ring it returns SERIAL_NO_DATA and changes nothing.
ReadFetch ==
  /\ At("idle") /\ rxHead # rxTail
  /\ byte' = rxBuf[rxTail]
  /\ index' = After(rxTail, RxSize)
  /\ Goto("readStore")
  /\ UNCHANGED <<rxVars, txVars, udr, reset, isr>>

ReadStore ==
  /\ At("readStore")
  /\ rxTail' = index
  /\ Goto("read")
  /\ UNCHANGED <<rxBuf, rxHead, txVars, udr, reset, byte, index, isr>>

ReadReturn ==
  /\ At("read")
  /\ byte' = NoByte
  /\ Goto("idle")
  /\ UNCHANGED <<rxVars, txVars, udr, reset, index, isr>>

\* The reset loop of main(): clear the flags, then serial_reset_read_buffer(), which
\* loads the head and stores it as the tail.
ResetFetch ==
  /\ At("idle") /\ reset
  /\ reset' = FALSE
  /\ index' = rxHead
  /\ Goto("resetStore")
  /\ UNCHANGED <<rxVars, txVars, udr, byte, isr>>

ResetStore ==
  /\ At("resetStore")
  /\ rxTail' = index
  /\ Goto("idle")
  /\ UNCHANGED <<rxBuf, rxHead, txVars, udr, reset, byte, index, isr>>

\* The executor, on its way into the critical-alarm loop, drops a reset.
ResetDrop ==
  /\ At("idle") /\ reset
  /\ reset' = FALSE
  /\ UNCHANGED <<rxVars, txVars, udr, mainVars, isr>>

-----------------------------------------------------------------------------
(* Transmitting. *)

\* serial_write(): compute the next head, wait for it to be free, store the byte,
\* store the head, turn on the transmit interrupt.
WriteBegin ==
  /\ At("idle")
  /\ byte' \in Bytes
  /\ index' = After(txHead, TxSize)
  /\ Goto("writeWait")
  /\ UNCHANGED <<rxVars, txVars, udr, reset, isr>>

\* Mutant: the ring is not looked at.
WriteRoomUnchecked ==
  /\ At("writeWait")
  /\ Goto("writeByte")
  /\ UNCHANGED <<rxVars, txVars, udr, reset, byte, index, isr>>

WriteRoom ==
  /\ At("writeWait") /\ index # txTail
  /\ Goto("writeByte")
  /\ UNCHANGED <<rxVars, txVars, udr, reset, byte, index, isr>>

\* A reset drops the byte that waits.
WriteAbort ==
  /\ At("writeWait") /\ index = txTail /\ reset
  /\ byte' = NoByte
  /\ Goto("idle")
  /\ UNCHANGED <<rxVars, txVars, udr, reset, index, isr>>

WriteByte ==
  /\ At("writeByte")
  /\ txBuf' = [txBuf EXCEPT ![txHead] = byte]
  /\ Goto("writeHead")
  /\ UNCHANGED <<rxVars, txHead, txTail, udrie, udr, reset, byte, index, isr>>

WriteHead ==
  /\ At("writeHead")
  /\ txHead' = index
  /\ byte' = NoByte
  /\ Goto("writeEnable")
  /\ UNCHANGED <<rxVars, txBuf, txTail, udrie, udr, reset, index, isr>>

\* Mutant: the interrupt is taken to run already.
WriteEnableNot ==
  /\ At("writeEnable")
  /\ Goto("idle")
  /\ UNCHANGED <<rxVars, txVars, udr, reset, byte, index, isr>>

WriteEnable ==
  /\ At("writeEnable")
  /\ udrie' = TRUE
  /\ Goto("idle")
  /\ UNCHANGED <<rxVars, txBuf, txHead, txTail, udr, reset, byte, index, isr>>

\* Whether this byte, the last one, is the one whose writer is still to turn on the
\* interrupt.  It leaves by then only if two bytes are sent within the three
\* instructions that takes.
Hurried == at = "writeEnable" /\ After(txTail, TxSize) = txHead

\* Mutant: the interrupt turns itself off a byte early.
TransmitOffEarly ==
  /\ isr = 0 /\ udrie /\ udr = NoByte
  /\ LateWriter \/ ~Hurried
  /\ udr' = txBuf[txTail]
  /\ txTail' = After(txTail, TxSize)
  /\ udrie' = (After(After(txTail, TxSize), TxSize) # txHead /\ After(txTail, TxSize) # txHead)
  /\ UNCHANGED <<rxVars, txBuf, txHead, reset, mainVars, isr>>

\* Transmit interrupt: send a byte, and turn itself off when the ring is empty.
Transmit ==
  /\ isr = 0 /\ udrie /\ udr = NoByte
  /\ LateWriter \/ ~Hurried
  /\ udr' = txBuf[txTail]
  /\ txTail' = After(txTail, TxSize)
  /\ udrie' = (After(txTail, TxSize) # txHead)
  /\ UNCHANGED <<rxVars, txBuf, txHead, reset, mainVars, isr>>

\* The port has shifted out the byte of its register.
Shift ==
  /\ udr # NoByte
  /\ udr' = NoByte
  /\ UNCHANGED <<rxVars, txVars, reset, mainVars, isr>>

-----------------------------------------------------------------------------
(* The timer 5 interrupt prints when the spindle current trips. *)

\* "any": at every point; "quiet": while the main program is not in serial_write()
\* and with room for the message.
Trip ==
  /\ isr = 0
  /\ \/ Trips = "any"
     \/ /\ Trips = "quiet" /\ at \notin {"writeWait", "writeByte", "writeHead", "writeEnable"}
        /\ Len(TxQueue) + Message <= TxSize
  /\ isr' = Message
  /\ UNCHANGED <<rxVars, txVars, udr, reset, mainVars>>

\* One serial_write() of the message; it spins when the ring is full, unless a reset
\* was raised before.
TripWrite ==
  /\ isr > 0
  /\ IF After(txHead, TxSize) # txTail
     THEN /\ \E b \in Bytes : txBuf' = [txBuf EXCEPT ![txHead] = b]
          /\ txHead' = After(txHead, TxSize)
          /\ udrie' = TRUE
     ELSE reset /\ UNCHANGED <<txBuf, txHead, udrie>>
  /\ isr' = isr - 1
  /\ UNCHANGED <<rxVars, txTail, udr, reset, mainVars>>

-----------------------------------------------------------------------------
Read  == ReadFetch \/ ReadStore \/ ReadReturn \/ ResetFetch \/ ResetStore \/ ResetDrop
Write == WriteBegin \/ WriteRoom \/ WriteAbort \/ WriteByte \/ WriteHead \/ WriteEnable

Next == Read \/ Write \/ Receive \/ ReceiveReset \/ Transmit \/ Shift \/ Trip \/ TripWrite

Spec == Init /\ [][Next]_vars

\* Each call goes on, the interrupts are served, the port sends.
Fairness ==
  /\ WF_vars(ReadStore \/ ReadReturn \/ ResetStore)
  /\ WF_vars(WriteRoom \/ WriteAbort \/ WriteByte \/ WriteHead \/ WriteEnable)
  /\ WF_vars(Transmit) /\ WF_vars(Shift) /\ WF_vars(TripWrite)

FairSpec == Spec /\ Fairness

-----------------------------------------------------------------------------
(* Properties. *)

\* The indices stay within their rings and the registers hold what they should: no access
\* of serial.c is outside a ring.
TypeOK ==
  /\ rxBuf \in [RxPlaces -> Bytes] /\ rxHead \in RxPlaces /\ rxTail \in RxPlaces
  /\ txBuf \in [TxPlaces -> Bytes] /\ txHead \in TxPlaces /\ txTail \in TxPlaces
  /\ udrie \in BOOLEAN /\ udr \in Bytes \union {NoByte} /\ reset \in BOOLEAN
  /\ at \in {"idle", "readStore", "read", "resetStore", "writeWait", "writeByte", "writeHead",
             "writeEnable"}
  /\ byte \in Bytes \union {NoByte} /\ index \in RxPlaces \union TxPlaces
  /\ isr \in 0..Message

\* The byte serial_read() has taken and not yet returned.
RxOut == IF at = "read" THEN byte ELSE NoByte

\* The receive ring is a queue of RX_BUFFER_SIZE bytes, whatever the interrupt does
\* between two accesses of serial_read() or of the reset.
Rx == INSTANCE ByteQueue WITH
  Capacity <- RxSize, queue <- RxQueue, out <- RxOut
RxIsQueue == Rx!Spec

\* The transmit ring is a queue of TX_BUFFER_SIZE bytes, with the transmit register
\* behind it: nothing is sent twice, lost or out of order.
Tx == INSTANCE ByteQueue WITH Capacity <- TxSize, queue <- TxQueue, out <- udr
TxIsQueue == Tx!Spec

\* The transmit interrupt is on while there is something to send, unless its writer is
\* about to turn it on, and never with nothing to send: it would send the whole ring
\* again.
TxArmed ==
  /\ txHead # txTail => udrie \/ at = "writeEnable"
  /\ udrie => txHead # txTail

\* The room that is reported to the sender is the room there is.
RoomReported == RxAvailable = RxSize - Len(RxQueue)

\* serial_write() comes to its end when the main program calls it, full ring or not.
WriteReturns == (at = "writeWait") ~> (at # "writeWait")

\* It comes to its end in the timer 5 interrupt too: "Only check for abort to avoid an
\* endless loop."
TripReturns == (isr > 0) ~> (isr = 0)
=============================================================================
