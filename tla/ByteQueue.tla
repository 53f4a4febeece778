------------------------------ MODULE ByteQueue ------------------------------
(***************************************************************************)
(* What the clients' CircularBuffers promise: each is a bounded FIFO queue  *)
(* of bytes.  A write appends some bytes, a read removes the oldest ones,   *)
(* and neither touches another client's queue.                              *)
(***************************************************************************)
EXTENDS Naturals, Sequences, SequencesExt

CONSTANTS Clients, Byte, capacity

VARIABLE bytes

Init == bytes = [c \in Clients |-> <<>>]

Write(c) == \E q \in {bytes'[c]} : /\ q \in Seq(Byte) /\ Len(q) <= capacity
                                   /\ IsPrefix(bytes[c], q)
                                   /\ bytes' = [bytes EXCEPT ![c] = q]

Read(c) == \E n \in 0..Len(bytes[c]) :
             bytes' = [bytes EXCEPT ![c] = SubSeq(@, n + 1, Len(@))]

Next == \E c \in Clients : Write(c) \/ Read(c)

Spec == Init /\ [][Next]_bytes
=============================================================================
