----------------------------- MODULE ByteQueue -----------------------------
(***************************************************************************)
(* What a serial ring promises: a first-in first-out queue of bytes with a *)
(* bound, and the one byte that has left it and is not yet handed over     *)
(* (returned by serial_read(), or in the transmit register).               *)
(***************************************************************************)
EXTENDS Naturals, Sequences

CONSTANTS Bytes, NoByte, Capacity

VARIABLES queue, out

Init == queue = <<>> /\ out = NoByte

Put ==
  /\ Len(queue) < Capacity
  /\ \E b \in Bytes : queue' = Append(queue, b)
  /\ UNCHANGED out

Take ==
  /\ queue # <<>>
  /\ out' = Head(queue) /\ queue' = Tail(queue)

HandOver == out # NoByte /\ out' = NoByte /\ UNCHANGED queue

\* The reader forgets what it knows of; what comes in the meantime stays.
Forget ==
  /\ \E n \in 1..Len(queue) : queue' = SubSeq(queue, n + 1, Len(queue))
  /\ UNCHANGED out

Next == Put \/ Take \/ HandOver \/ Forget

Spec == Init /\ [][Next]_<<queue, out>>
=============================================================================
