------------------------------- MODULE Buffer -------------------------------
(***************************************************************************)
(* The byte buffer, as operators: an allocation of cap bytes, of which     *)
(* those from left up to right (excluded) are the contents.  A copy that   *)
(* writes outside the allocation is visible: mem then has bytes at other   *)
(* indices than 0 .. cap - 1.                                              *)
(***************************************************************************)
EXTENDS Integers, Sequences

CONSTANT Junk  \* a byte nothing was written to

Buf(mem, left, right, cap) ==
    [mem |-> mem, left |-> left, right |-> right, cap |-> cap]

Size(b) == b.right - b.left
Empty(b) == b.left = b.right
Available(b) == b.cap - b.right

Contents(b) == [i \in 1 .. Size(b) |-> b.mem[b.left + i - 1]]

\* Sound indices, and no byte outside the allocation.
InBounds(b) ==
    /\ b.left \in Int /\ b.right \in Int /\ b.cap \in Nat
    /\ 0 <= b.left /\ b.left <= b.right /\ b.right <= b.cap
    /\ b.mem = [i \in 0 .. b.cap - 1 |-> b.mem[i]]

\* memmove inside the allocation, memcpy of s into it, and what new[] and memcpy
\* of the n bytes at from to the same place give.
Move(b, dst, src, n) ==
    LET to == dst .. dst + n - 1
    IN [i \in DOMAIN b.mem \cup to |->
          IF i \notin to THEN b.mem[i]
          ELSE IF i - dst + src \in DOMAIN b.mem THEN b.mem[i - dst + src] ELSE Junk]

Copy(b, at, s) ==
    LET to == at .. at + Len(s) - 1
    IN [i \in DOMAIN b.mem \cup to |->
          IF i \in to THEN s[i - at + 1] ELSE b.mem[i]]

Realloc(b, from, n, cap) ==
    [i \in 0 .. cap - 1 |-> IF i \in from .. from + n - 1 THEN b.mem[i] ELSE Junk]

-----------------------------------------------------------------------------
(* Constructors.                                                           *)

\* Buffer(length); Buffer(), which allocates nothing.
OfCapacity(n) == Buf([i \in 0 .. n - 1 |-> Junk], 0, 0, n)
Null == OfCapacity(0)

\* Buffer(buf, length)
Of(s) == Buf([i \in 0 .. Len(s) - 1 |-> s[i + 1]], 0, Len(s), Len(s))

\* deepCopy: an empty buffer empties this one, which keeps its allocation.
DeepCopy(this, that) ==
    IF Empty(that) THEN Buf(this.mem, 0, 0, this.cap) ELSE Of(Contents(that))

-----------------------------------------------------------------------------
(* Moving the contents.                                                    *)

\* forward(): the contents go to the start of the allocation.
Compact(b) ==
    IF b.left = 0 THEN b
    ELSE Buf(Move(b, 0, b.left, Size(b)), 0, Size(b), b.cap)

\* forward(offset)
Forward(b, offset) ==
    IF offset = 0 THEN Compact(b)
    ELSE IF offset >= b.right THEN Buf(b.mem, 0, 0, b.cap)
    ELSE IF offset <= b.left
    THEN Buf(Move(b, b.left - offset, b.left, Size(b)),
             b.left - offset, b.right - offset, b.cap)
    ELSE Buf(Move(b, 0, b.right - offset, b.right - offset),
             0, b.right - offset, b.cap)

\* backward(): as many bytes as there is room behind the contents are moved.
ToTheEnd(b) ==
    IF b.right = b.cap THEN b
    ELSE Buf(Move(b, b.left + Available(b), b.left, Available(b)),
             b.left + Available(b), b.cap, b.cap)

\* (Mutant of Backward: the end moves, the start does not.)
BackwardEndOnly(b, offset) ==
    IF offset > 0 /\ offset <= Available(b)
    THEN Buf(Move(b, b.left + offset, b.left, Size(b)), b.left, b.right + offset, b.cap)
    ELSE b

\* backward(offset)
Backward(b, offset) ==
    IF offset = 0 THEN ToTheEnd(b)
    ELSE IF offset >= b.cap - b.left THEN Buf(b.mem, b.cap, b.cap, b.cap)
    ELSE IF offset <= Available(b)
    THEN Buf(Move(b, b.left + offset, b.left, Size(b)),
             b.left + offset, b.right + offset, b.cap)
    ELSE Buf(Move(b, b.left + offset, b.left, b.cap - b.left - offset),
             b.cap - offset, b.cap, b.cap)

-----------------------------------------------------------------------------
(* The allocation.                                                         *)

Resize(b, n) ==
    IF n < b.cap THEN b
    ELSE Buf(Realloc(b, b.left, Size(b), n), b.left, b.right, n)

\* The first of 2 cap, 4 cap, ... that is not below n (cap > 0).
Grown(cap, n) ==
    LET double[c \in Nat] == IF c >= n THEN c ELSE double[2 * c]
    IN double[2 * cap]

Reserve(b, n) == IF n < b.cap THEN b ELSE Resize(b, Grown(b.cap, n))

\* shrink: the first n bytes of the allocation are copied, and forgotten.
Shrink(b, n) == IF n < b.cap THEN Buf(Realloc(b, 0, n, n), 0, 0, n) ELSE b

ShrinkToFit(b, n) ==
    IF n < Size(b) THEN Shrink(b, Size(b))
    ELSE IF n < b.cap - b.left
    THEN Buf(Realloc(b, b.left, Size(b), n + b.left), b.left, b.right, n + b.left)
    ELSE b

-----------------------------------------------------------------------------
(* Putting bytes in and taking them out.                                   *)

\* append(n) after something wrote the bytes s at wdata().
AppendInPlace(b, s) == Buf(Copy(b, b.right, s), b.left, b.right + Len(s), b.cap)

\* What append(buf, len) asks reserve() for when the contents must move.
Needed(b, s) == Size(b) + Len(s) + b.left

\* (Mutant of AppendGrown: the test for room at the end is off by one.)
AppendOffByOne(b, s, grown) ==
    IF Empty(b) THEN Of(s)
    ELSE IF Available(b) + 1 >= Len(s) THEN AppendInPlace(b, s)
    ELSE IF Len(s) + Size(b) <= b.cap THEN AppendInPlace(Compact(b), s)
    ELSE AppendInPlace(Resize(b, grown), s)

\* append(buf, len) with an allocation of grown bytes if it needs a new one.
AppendGrown(b, s, grown) ==
    IF Empty(b) THEN Of(s)
    ELSE IF Available(b) >= Len(s) THEN AppendInPlace(b, s)
    ELSE IF Len(s) + Size(b) <= b.cap THEN AppendInPlace(Compact(b), s)
    ELSE AppendInPlace(Resize(b, grown), s)

AppendTo(b, s) == AppendGrown(b, s, Grown(b.cap, Needed(b, s)))

\* prepend(buf, len).  The new buffer of the last branch is empty, so its append
\* swaps in an allocation without room in front.
MakeRoom(b, n) ==
    IF b.left >= n THEN b
    ELSE IF n + Size(b) <= b.cap THEN Backward(b, n - b.left)
    ELSE IF Empty(b) THEN OfCapacity(n)
    ELSE Of(Contents(b))

PrependAt(r, s) == Buf(Copy(r, r.left - Len(s), s), r.left - Len(s), r.right, r.cap)

Prepend(b, s) == PrependAt(MakeRoom(b, Len(s)), s)

\* retrieve(n); retrieve()
Retrieve(b, n) ==
    IF Empty(b) THEN b
    ELSE IF n > Size(b) THEN Buf(b.mem, 0, 0, b.cap)
    ELSE Buf(b.mem, b.left + n, b.right, b.cap)

RetrieveAll(b) == Buf(b.mem, 0, 0, b.cap)

\* retriveveAsString of a buffer that is not empty (it never returns otherwise):
\* how much is taken, and what is returned.
Asked(b, n) == IF n = 0 \/ n > Size(b) THEN Size(b) ELSE n
AsString(b, n) == SubSeq(Contents(b), 1, Asked(b, n))
=============================================================================
