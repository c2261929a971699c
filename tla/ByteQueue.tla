----------------------------- MODULE ByteQueue -----------------------------
(***************************************************************************)
(* What an I/O buffer promises: bytes come out in the order they went in,  *)
(* and taking more than there is takes nothing.                            *)
(***************************************************************************)
EXTENDS Naturals, Sequences

CONSTANT Chunks   \* what may be put in at once

VARIABLE bytes

Init == bytes = <<>>

Put(c) == bytes' = bytes \o c

Get(n) == n <= Len(bytes) /\ bytes' = SubSeq(bytes, n + 1, Len(bytes))

Next == (\E c \in Chunks : Put(c)) \/ \E n \in 0 .. Len(bytes) : Get(n)

Spec == Init /\ [][Next]_bytes
=============================================================================
