----------------------------- MODULE ByteQueue ------------------------------
(***************************************************************************)
(* What a Buffer promises: a queue of bytes that grows at both ends and is *)
(* consumed from the front.  Bytes leave only when they are asked for, and *)
(* nothing else that is done to the buffer changes its contents.           *)
(***************************************************************************)
EXTENDS Integers, Sequences

CONSTANT Strings  \* what may be put in at once

VARIABLES
    q,    \* the contents
    out   \* what the last operation took out

Init == q = <<>> /\ out = <<>>

AppendTo(s) == q' = q \o s /\ out' = <<>>
Prepend(s) == q' = s \o q /\ out' = <<>>
Retrieve(n) == q' = SubSeq(q, n + 1, Len(q)) /\ out' = SubSeq(q, 1, n)
Rearrange == q' = q /\ out' = <<>>

Next ==
    \/ \E s \in Strings : AppendTo(s) \/ Prepend(s)
    \/ \E n \in 1 .. Len(q) : Retrieve(n)
    \/ Rearrange

Spec == Init /\ [][Next]_<<q, out>>
=============================================================================
