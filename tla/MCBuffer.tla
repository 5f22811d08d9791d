------------------------------ MODULE MCBuffer ------------------------------
(***************************************************************************)
(* A buffer driven through its operations, and shown to be a ByteQueue.    *)
(***************************************************************************)
EXTENDS Buffer

CONSTANTS
    Strings,  \* what is put in
    MaxLen,   \* longest contents (a bound)
    MaxCap,   \* largest allocation an explicit reserve or resize asks for
    Ops       \* the operations in use beside append, prepend where there is
              \* room, and retrieve

\* The bytes that are put in.
Bytes == UNION {{s[i] : i \in DOMAIN s} : s \in Strings}

ASSUME StringsAssumption == \A s \in Strings : s \in Seq(Bytes)
ASSUME BufferBounds == MaxLen \in Nat /\ MaxCap \in Nat

\* Every string of one or two of the bytes 1 and 2.
MCStrings == {<<1>>, <<2>>, <<1, 2>>, <<2, 1>>}

VARIABLES
    b,        \* the buffer
    out       \* history: the bytes the last operation took out

bufferVars == <<b, out>>

BufferTypeOK ==
    /\ {b.left, b.right} \subseteq 0 .. b.cap
    /\ b.left <= b.right
    /\ out \in Seq(Bytes)

BufferInit == b \in {Null} \cup {OfCapacity(n) : n \in 1 .. MaxCap} /\ out = <<>>

Becomes(c) == b' = c /\ out' = <<>>

Fits(s) == Len(s) > 0 /\ Size(b) + Len(s) <= MaxLen

DoAppend == \E s \in Strings : Fits(s) /\ Becomes(AppendTo(b, s))

\* handleReadEvent reads at most availbleSize() bytes to wdata().
DoAppendInPlace ==
    \E s \in Strings : Fits(s) /\ Len(s) <= Available(b) /\ Becomes(AppendInPlace(b, s))

DoPrepend ==
    \E s \in Strings :
        /\ Fits(s)
        /\ Len(s) + Size(b) <= b.cap \/ b.left >= Len(s) \/ "prepend" \in Ops
        /\ Becomes(Prepend(b, s))

DoRetrieve ==
    \/ \E n \in 0 .. MaxLen :
         /\ b' = Retrieve(b, n)
         /\ out' = SubSeq(Contents(b), 1, IF n > Size(b) THEN Size(b) ELSE n)
    \/ b' = RetrieveAll(b) /\ out' = Contents(b)

DoTake ==
    /\ ~Empty(b)
    /\ \E n \in 0 .. MaxLen :
         b' = Retrieve(b, Asked(b, n)) /\ out' = AsString(b, n)

\* Offsets that keep the contents, or any offset where Ops says so.
DoMove ==
    \/ \E n \in 0 .. MaxCap :
         /\ n <= b.left \/ "forward" \in Ops
         /\ Becomes(Forward(b, n))
    \/ \E n \in 0 .. MaxCap :
         /\ \/ n > 0 /\ n <= Available(b)
            \/ n = 0 /\ Available(b) \in {0, Size(b)}
            \/ "backward" \in Ops
         /\ Becomes(Backward(b, n))

DoAllocate ==
    \/ \E n \in 1 .. MaxCap : Becomes(Resize(b, n))
    \/ /\ b.cap \in 1 .. MaxCap
       /\ \E n \in 1 .. MaxCap : Becomes(Reserve(b, n))
    \/ \E n \in 0 .. MaxCap :
         /\ n >= Size(b) \/ "shrink_to_fit" \in Ops
         /\ Becomes(ShrinkToFit(b, n))

DoCopy == \E n \in 0 .. MaxCap : Becomes(DeepCopy(OfCapacity(n), b))

BufferNext ==
    \/ DoAppend \/ DoAppendInPlace \/ DoPrepend \/ DoRetrieve \/ DoTake
    \/ DoMove \/ DoAllocate \/ DoCopy

\* No copy the buffer makes writes outside its allocation.
CopiesInBounds == DOMAIN b.mem = 0 .. b.cap - 1

BufferInv == BufferTypeOK /\ CopiesInBounds

\* The buffer is a queue of bytes: appending, prepending and retrieving do to the
\* contents what they say, what is handed out is what leaves, and moving, growing,
\* shrinking and copying lose, repeat and reorder nothing.
Queue == INSTANCE ByteQueue WITH q <- Contents(b)
IsByteQueue == Queue!Spec
=============================================================================
