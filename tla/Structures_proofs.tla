------------------------- MODULE Structures_proofs --------------------------
(***************************************************************************)
(* The data structures.                                                    *)
(* Buffer: what its operations do to its contents, for buffers and strings *)
(* of any length, and so that a Buffer is a ByteQueue.  How far the        *)
(* allocation grows (Grown) is a recursion: that it ends, and gives what   *)
(* is asked for, is shown by induction over a set of numbers.              *)
(* Timestamp: sums, differences and the order are right for every          *)
(* resolution of the clock, although the constructor leaves a full second  *)
(* of microseconds as it is.                                               *)
(* BinaryHeap and the timers: percolation only moves elements, whatever    *)
(* order it is given - the one of the timers is none; with what it does to *)
(* the root, that is enough for a queue that loses no timer.               *)
(***************************************************************************)
EXTENDS MCValues, TimerMixin, SequenceTheorems, FunctionTheorems, WellFoundedInduction, TLAPS

-----------------------------------------------------------------------------
(* Buffer                                                                   *)

\* A record with the fields of a buffer, sound indices and no byte outside.
Sound(buf) == buf = Buf(buf.mem, buf.left, buf.right, buf.cap) /\ InBounds(buf)

\* What an operation must have made: a sound buffer whose contents are s.
Holds(r, s) == Sound(r) /\ Contents(r) = s

\* The parts of a sound buffer.
LEMMA Parts ==
    ASSUME NEW buf, Sound(buf)
    PROVE  /\ buf.left \in Nat /\ buf.right \in Nat /\ buf.cap \in Nat
           /\ buf.left <= buf.right /\ buf.right <= buf.cap
           /\ DOMAIN buf.mem = 0 .. buf.cap - 1
           /\ Size(buf) \in Nat
           /\ Contents(buf) = [i \in 1 .. Size(buf) |-> buf.mem[buf.left + i - 1]]
           /\ Len(Contents(buf)) = Size(buf)
  <1>1. /\ buf.left \in Nat /\ buf.right \in Nat /\ buf.cap \in Nat
        /\ buf.left <= buf.right /\ buf.right <= buf.cap
        /\ buf.mem = [i \in 0 .. buf.cap - 1 |-> buf.mem[i]]
    BY DEF Sound, InBounds
  <1>2. DOMAIN buf.mem = 0 .. buf.cap - 1
    BY <1>1
  <1>3. Size(buf) \in Nat
    BY <1>1 DEF Size
  <1> QED  BY <1>1, <1>2, <1>3 DEF Contents

\* An allocation of c bytes, and a string of n.
Alloc(m, c) == m = [i \in 0 .. c - 1 |-> m[i]]
String(s, n) == s = [i \in 1 .. n |-> s[i]]

LEMMA BufferParts ==
    ASSUME NEW buf, Sound(buf)
    PROVE  Alloc(buf.mem, buf.cap) /\ String(Contents(buf), Size(buf))
  <1>1. Alloc(buf.mem, buf.cap)
    BY DEF Sound, InBounds, Alloc
  <1>2. String(Contents(buf), Size(buf))
    BY DEF Contents, String
  <1> QED  BY <1>1, <1>2

\* A byte of the contents, and where it is.
LEMMA ByteAt ==
    ASSUME NEW buf, Sound(buf), NEW i \in 1 .. Size(buf)
    PROVE  Contents(buf)[i] = buf.mem[buf.left + i - 1]
  BY DEF Contents

\* The first n bytes of s are those from l on in m.
Reads(s, n, m, l) == \A i \in 1 .. n : s[i] = m[l + i - 1]

\* How to establish Holds for a record built by Buf.
LEMMA HoldsIntro ==
    ASSUME NEW m, NEW l \in Nat, NEW r \in Nat, NEW c \in Nat, NEW n \in Nat,
           l + n = r, r <= c, Alloc(m, c), NEW s, String(s, n),
           Reads(s, n, m, l)
    PROVE  Holds(Buf(m, l, r, c), s)
  <1> DEFINE buf == Buf(m, l, r, c)
  <1>1. buf.mem = m /\ buf.left = l /\ buf.right = r /\ buf.cap = c
    BY DEF Buf
  <1>2. buf = Buf(buf.mem, buf.left, buf.right, buf.cap)
    BY DEF Buf
  <1> HIDE DEF buf
  <1>3. Size(buf) = n
    BY <1>1 DEF Size
  <1>4. Sound(buf)
    BY <1>1, <1>2 DEF Sound, InBounds, Alloc
  <1>5. Contents(buf) = [i \in 1 .. n |-> m[l + i - 1]]
    BY <1>1, <1>3 DEF Contents
  <1>6. Contents(buf) = [i \in 1 .. n |-> s[i]]
    BY <1>5 DEF Reads
  <1>7. Contents(buf) = s
    BY <1>6 DEF String
  <1> QED  BY <1>4, <1>7 DEF Holds, buf

\* A buffer made from a string holds that string.
LEMMA OfHolds ==
    ASSUME NEW S, NEW s \in Seq(S)
    PROVE  Holds(Of(s), s)
  <1> DEFINE m == [i \in 0 .. Len(s) - 1 |-> s[i + 1]]
  <1>1. Len(s) \in Nat /\ String(s, Len(s))
    BY DEF String
  <1>2. Alloc(m, Len(s))
    BY DEF Alloc
  <1>3. Reads(s, Len(s), m, 0)
    BY <1>1 DEF Reads
  <1> HIDE DEF m
  <1>4. Holds(Buf(m, 0, Len(s), Len(s)), s)
    BY <1>1, <1>2, <1>3, HoldsIntro
  <1> QED  BY <1>4 DEF Of, m

\* forward() keeps the contents and puts all free room behind them.
THEOREM CompactKeeps ==
    ASSUME NEW buf, Sound(buf)
    PROVE  /\ Holds(Compact(buf), Contents(buf))
           /\ Compact(buf).left = 0
           /\ Compact(buf).cap = buf.cap
  <1>1. CASE buf.left = 0
    BY <1>1 DEF Compact, Holds
  <1>2. CASE buf.left # 0
    <2> DEFINE m == Move(buf, 0, buf.left, Size(buf))
               n == Size(buf)
    <2>1. n = buf.right - buf.left
      BY DEF Size
    <2>2. m = [i \in 0 .. buf.cap - 1 |->
                 IF i \notin 0 .. n - 1 THEN buf.mem[i] ELSE buf.mem[i + buf.left]]
      BY <2>1, Parts, SMTT(60) DEF Move
    <2>3. Alloc(m, buf.cap)
      BY <2>2 DEF Alloc
    <2>4. ASSUME NEW i \in 1 .. n
          PROVE  Contents(buf)[i] = m[0 + i - 1]
      <3>1. i - 1 \in 0 .. buf.cap - 1 /\ i - 1 \in 0 .. n - 1
        BY <2>1, Parts
      <3>2. m[i - 1] = buf.mem[i - 1 + buf.left]
        BY <2>2, <3>1
      <3>3. i - 1 + buf.left = buf.left + i - 1 /\ 0 + i - 1 = i - 1
        BY Parts
      <3> QED  BY <3>2, <3>3, ByteAt
    <2> HIDE DEF m
    <2>5. n \in Nat /\ 0 + n = n /\ n <= buf.cap /\ buf.cap \in Nat
      BY <2>1, Parts
    <2>6. Holds(Buf(m, 0, n, buf.cap), Contents(buf))
      <3>1. String(Contents(buf), n)
        BY BufferParts
      <3> HIDE DEF n
      <3>2. Reads(Contents(buf), n, m, 0)
        BY <2>4 DEF Reads
      <3> QED  BY <2>3, <2>5, <3>1, <3>2, HoldsIntro
    <2>7. Compact(buf) = Buf(m, 0, n, buf.cap)
      BY <1>2 DEF Compact, m
    <2> QED  BY <2>6, <2>7 DEF Buf
  <1> QED  BY <1>1, <1>2

\* reserve() keeps the contents, whatever it grows the allocation to.
THEOREM ResizeKeeps ==
    ASSUME NEW buf, Sound(buf), NEW n \in Nat
    PROVE  /\ Holds(Resize(buf, n), Contents(buf))
           /\ Resize(buf, n).left = buf.left /\ Resize(buf, n).right = buf.right
           /\ Resize(buf, n).cap >= n /\ Resize(buf, n).cap >= buf.cap
  <1>1. CASE n < buf.cap
    BY <1>1, Parts DEF Resize, Holds
  <1>2. CASE ~(n < buf.cap)
    <2> DEFINE m == Realloc(buf, buf.left, Size(buf), n)
    <2>1. Size(buf) = buf.right - buf.left
      BY DEF Size
    <2>2. m = [i \in 0 .. n - 1 |->
                 IF i \in buf.left .. buf.left + Size(buf) - 1 THEN buf.mem[i] ELSE Junk]
      BY DEF Realloc
    <2>3. Alloc(m, n)
      BY <2>2 DEF Alloc
    <2>4. ASSUME NEW i \in 1 .. Size(buf)
          PROVE  Contents(buf)[i] = m[buf.left + i - 1]
      <3>1. /\ buf.left + i - 1 \in 0 .. n - 1
            /\ buf.left + i - 1 \in buf.left .. buf.left + Size(buf) - 1
        BY <1>2, <2>1, Parts, SMTT(60)
      <3>2. m[buf.left + i - 1] = buf.mem[buf.left + i - 1]
        BY <2>2, <3>1
      <3> QED  BY <3>2, ByteAt
    <2> HIDE DEF m
    <2>5. buf.left + Size(buf) = buf.right /\ buf.right <= n
      BY <1>2, <2>1, Parts
    <2>6. Holds(Buf(m, buf.left, buf.right, n), Contents(buf))
      <3>1. String(Contents(buf), Size(buf))
        BY BufferParts
      <3>2. Reads(Contents(buf), Size(buf), m, buf.left)
        BY <2>4 DEF Reads
      <3>3. buf.left \in Nat /\ buf.right \in Nat /\ Size(buf) \in Nat
        BY Parts
      <3> QED  BY <2>3, <2>5, <3>1, <3>2, <3>3, HoldsIntro
    <2>7. Resize(buf, n) = Buf(m, buf.left, buf.right, n)
      BY <1>2 DEF Resize, m
    <2> QED  BY <1>2, <2>6, <2>7, Parts DEF Buf
  <1> QED  BY <1>1, <1>2

\* What concatenation makes of two sequences, byte for byte.
LEMMA Joined ==
    ASSUME NEW T, NEW x \in Seq(T), NEW y \in Seq(T)
    PROVE  /\ String(x \o y, Len(x) + Len(y))
           /\ \A i \in 1 .. Len(x) + Len(y) :
                (x \o y)[i] = IF i <= Len(x) THEN x[i] ELSE y[i - Len(x)]
  <1>1. x \o y \in Seq(T) /\ Len(x \o y) = Len(x) + Len(y)
    BY ConcatProperties
  <1>2. \A i \in 1 .. Len(x) + Len(y) :
            (x \o y)[i] = IF i <= Len(x) THEN x[i] ELSE y[i - Len(x)]
    BY ConcatProperties
  <1> DEFINE t == x \o y
  <1> HIDE DEF t
  <1>3. t \in Seq(T) /\ Len(t) = Len(x) + Len(y)
    BY <1>1 DEF t
  <1>4. t = [i \in 1 .. Len(t) |-> t[i]]
    BY <1>3
  <1>5. String(t, Len(x) + Len(y))
    BY <1>3, <1>4 DEF String
  <1> QED  BY <1>2, <1>5 DEF t

\* With room behind the contents, what is written there joins them.
LEMMA AppendInPlaceHolds ==
    ASSUME NEW buf, Sound(buf), NEW S, NEW s \in Seq(S), Len(s) <= Available(buf)
    PROVE  Holds(AppendInPlace(buf, s), Contents(buf) \o s)
  <1> DEFINE m == Copy(buf, buf.right, s)
             t == Contents(buf) \o s
             n == Size(buf) + Len(s)
  <1>1. Len(s) \in Nat /\ buf.right + Len(s) <= buf.cap
    BY Parts DEF Available
  <1>2. m = [i \in 0 .. buf.cap - 1 |->
               IF i \in buf.right .. buf.right + Len(s) - 1 THEN s[i - buf.right + 1]
                                                       ELSE buf.mem[i]]
    BY <1>1, Parts, SMTT(60) DEF Copy
  <1>3. Alloc(m, buf.cap)
    BY <1>2 DEF Alloc
  <1>4. Size(buf) = buf.right - buf.left
    BY DEF Size
  <1>a. /\ buf.left \in Nat /\ buf.right \in Nat /\ buf.cap \in Nat
        /\ buf.left <= buf.right
    BY Parts
  <1>5. /\ String(t, n)
        /\ \A i \in 1 .. n : t[i] = IF i <= Size(buf) THEN Contents(buf)[i] ELSE s[i - Size(buf)]
    <2> DEFINE T == {Contents(buf)[i] : i \in 1 .. Size(buf)} \cup S
    <2>1. Contents(buf) \in Seq(T) /\ s \in Seq(T)
      BY BufferParts, Parts, SMTT(60) DEF String
    <2> HIDE DEF T
    <2>2. Len(Contents(buf)) = Size(buf)
      BY Parts
    <2> QED  BY <2>1, <2>2, Joined
  <1>6. ASSUME NEW i \in 1 .. n
        PROVE  t[i] = m[buf.left + i - 1]
    <2>1. CASE i <= Size(buf)
      <3>1. /\ buf.left + i - 1 \in 0 .. buf.cap - 1
            /\ buf.left + i - 1 \notin buf.right .. buf.right + Len(s) - 1
        BY <1>1, <1>4, <1>a, <2>1, SMTT(60)
      <3>2. m[buf.left + i - 1] = buf.mem[buf.left + i - 1]
        BY <1>2, <3>1
      <3>3. i \in 1 .. Size(buf)
        BY <1>1, <2>1, Parts
      <3>4. Contents(buf)[i] = buf.mem[buf.left + i - 1]
        BY <3>3, ByteAt
      <3> QED  BY <1>5, <2>1, <3>2, <3>4
    <2>2. CASE ~(i <= Size(buf))
      <3>1. /\ buf.left + i - 1 \in 0 .. buf.cap - 1
            /\ buf.left + i - 1 \in buf.right .. buf.right + Len(s) - 1
            /\ (buf.left + i - 1) - buf.right + 1 = i - Size(buf)
        <4>1. i \in Int /\ Size(buf) < i /\ i <= Size(buf) + Len(s)
          BY <1>1, <1>4, <1>a, <2>2
        <4> QED  BY ONLY <1>1, <1>4, <1>a, <4>1, SMTT(60)
      <3>2. m[buf.left + i - 1] = s[(buf.left + i - 1) - buf.right + 1]
        BY <1>2, <3>1
      <3> QED  BY <1>5, <2>2, <3>1, <3>2
    <2> QED  BY <2>1, <2>2
  <1>7. /\ n \in Nat /\ buf.left + n = buf.right + Len(s) /\ buf.right + Len(s) \in Nat
        /\ buf.left \in Nat /\ buf.cap \in Nat
    BY <1>1, <1>4, Parts, SMTT(60)
  <1>8. String(t, n)
    BY <1>5
  <1>9. Reads(t, n, m, buf.left)
    BY <1>6 DEF Reads
  <1> HIDE DEF m, t, n
  <1>10. Holds(Buf(m, buf.left, buf.right + Len(s), buf.cap), t)
    BY <1>1, <1>3, <1>7, <1>8, <1>9, HoldsIntro
  <1> QED  BY <1>10 DEF AppendInPlace, m, t

\* append(buf, len) writes inside the allocation and puts s behind the contents,
\* whichever of its four ways it takes, for every buffer, every string and every
\* growth that gives at least what it asked for.
THEOREM AppendAppends ==
    ASSUME NEW buf, Sound(buf), NEW S, NEW s \in Seq(S), s # <<>>,
           NEW grown \in Nat, grown >= Needed(buf, s)
    PROVE  Holds(AppendGrown(buf, s, grown), Contents(buf) \o s)
  <1>0. Size(buf) = buf.right - buf.left /\ Available(buf) = buf.cap - buf.right /\ Len(s) \in Nat
    BY DEF Size, Available
  <1>1. CASE Empty(buf)
    <2>1. Contents(buf) = <<>>
      BY <1>0, <1>1, Parts DEF Empty
    <2>2. Contents(buf) \o s = s
      BY <2>1
    <2> QED  BY <1>1, <2>2, OfHolds DEF AppendGrown
  <1>2. CASE ~Empty(buf) /\ Available(buf) >= Len(s)
    BY <1>2, <1>0, Parts, AppendInPlaceHolds DEF AppendGrown
  <1>3. CASE ~Empty(buf) /\ ~(Available(buf) >= Len(s)) /\ Len(s) + Size(buf) <= buf.cap
    <2> DEFINE r == Compact(buf)
    <2>1. Sound(r) /\ Contents(r) = Contents(buf) /\ r.left = 0 /\ r.cap = buf.cap
      BY CompactKeeps DEF Holds
    <2>2. Size(r) = Size(buf)
      BY <2>1, Parts
    <2>3. Len(s) <= Available(r)
      BY <1>0, <1>3, <2>1, <2>2, Parts DEF Available, Size
    <2> HIDE DEF r
    <2>4. Holds(AppendInPlace(r, s), Contents(buf) \o s)
      BY <2>1, <2>3, AppendInPlaceHolds
    <2> QED  BY <1>3, <2>4 DEF AppendGrown, r
  <1>4. CASE ~Empty(buf) /\ ~(Available(buf) >= Len(s)) /\ ~(Len(s) + Size(buf) <= buf.cap)
    <2> DEFINE r == Resize(buf, grown)
    <2>1. Sound(r) /\ Contents(r) = Contents(buf)
      BY ResizeKeeps DEF Holds
    <2>2. r.right = buf.right /\ r.cap >= grown
      BY ResizeKeeps
    <2> HIDE DEF r
    <2>3. Len(s) <= Available(r)
      BY <1>0, <2>1, <2>2, Parts, SMTT(60) DEF Available, Needed
    <2>4. Holds(AppendInPlace(r, s), Contents(buf) \o s)
      BY <2>1, <2>3, AppendInPlaceHolds
    <2> QED  BY <1>4, <2>4 DEF AppendGrown, r
  <1> QED  BY <1>1, <1>2, <1>3, <1>4

\* retrieve(n) takes the first n bytes, or all of them, and no other.
THEOREM RetrieveTakes ==
    ASSUME NEW buf, Sound(buf), NEW n \in Nat
    PROVE  /\ n <= Size(buf) => Holds(Retrieve(buf, n), SubSeq(Contents(buf), n + 1, Size(buf)))
           /\ n >= Size(buf) => Holds(Retrieve(buf, n), <<>>)
  <1>0. Size(buf) = buf.right - buf.left
    BY DEF Size
  <1> DEFINE t == SubSeq(Contents(buf), n + 1, Size(buf))
  <1>1. CASE Empty(buf)
    <2>1. Size(buf) = 0 /\ Contents(buf) = <<>>
      BY <1>0, <1>1, Parts DEF Empty
    <2>2. n <= Size(buf) => t = <<>>
      BY <2>1
    <2> QED  BY <1>1, <2>1, <2>2 DEF Retrieve, Holds
  <1>2. CASE ~Empty(buf) /\ n > Size(buf)
    <2>1. String(<<>>, 0)
      BY DEF String
    <2>2. Holds(Buf(buf.mem, 0, 0, buf.cap), <<>>)
      <3>1. Reads(<<>>, 0, buf.mem, 0)
        BY DEF Reads
      <3>2. 0 \in Nat /\ 0 + 0 = 0 /\ 0 <= buf.cap /\ buf.cap \in Nat
        BY Parts
      <3> QED  BY <2>1, <3>1, <3>2, BufferParts, HoldsIntro
    <2> QED  BY <1>2, <2>2, Parts DEF Retrieve
  <1>3. CASE ~Empty(buf) /\ ~(n > Size(buf))
    <2> DEFINE k == Size(buf) - n
    <2>1. k \in Nat /\ buf.left + n \in Nat /\ (buf.left + n) + k = buf.right
      BY <1>0, <1>3, Parts, SMTT(60)
    <2>2. t = [i \in 1 .. k |-> Contents(buf)[i + n]]
      BY <1>3, Parts
    <2>3. String(t, k)
      BY <2>2 DEF String
    <2>4. ASSUME NEW i \in 1 .. k
          PROVE  t[i] = buf.mem[(buf.left + n) + i - 1]
      <3>1. i + n \in 1 .. Size(buf) /\ buf.left + (i + n) - 1 = (buf.left + n) + i - 1
        BY <1>3, Parts
      <3>2. Contents(buf)[i + n] = buf.mem[buf.left + (i + n) - 1]
        BY <3>1, ByteAt
      <3> QED  BY <2>2, <3>1, <3>2
    <2> HIDE DEF t, k
    <2>5. Holds(Buf(buf.mem, buf.left + n, buf.right, buf.cap), t)
      <3> DEFINE l == buf.left + n
      <3>1. l \in Nat /\ l + k = buf.right /\ k \in Nat
        BY <2>1
      <3>2. buf.right \in Nat /\ buf.right <= buf.cap /\ buf.cap \in Nat /\ Alloc(buf.mem, buf.cap)
        BY Parts, BufferParts
      <3>3. Reads(t, k, buf.mem, l)
        BY <2>4 DEF Reads
      <3> HIDE DEF l
      <3>4. Holds(Buf(buf.mem, l, buf.right, buf.cap), t)
        BY <2>3, <3>1, <3>2, <3>3, HoldsIntro
      <3> QED  BY <3>4 DEF l
    <2>6. Retrieve(buf, n) = Buf(buf.mem, buf.left + n, buf.right, buf.cap)
      BY <1>3 DEF Retrieve
    <2>7. n >= Size(buf) => t = <<>>
      <3>1. SUFFICES ASSUME n >= Size(buf) PROVE t = <<>>
        OBVIOUS
      <3>2. k = 0
        BY <1>3, <3>1, Parts DEF k
      <3> QED  BY <2>2, <3>2
    <2> QED  BY <2>5, <2>6, <2>7 DEF t
  <1> QED  BY <1>1, <1>2, <1>3

\* An empty buffer, wherever its ends are.
LEMMA EmptyHolds ==
    ASSUME NEW m, NEW c \in Nat, Alloc(m, c), NEW l \in 0 .. c
    PROVE  Holds(Buf(m, l, l, c), <<>>)
  <1>1. String(<<>>, 0)
    BY DEF String
  <1>2. Reads(<<>>, 0, m, l)
    BY DEF Reads
  <1>3. l \in Nat /\ l + 0 = l /\ l <= c
    OBVIOUS
  <1> QED  BY <1>1, <1>2, <1>3, HoldsIntro

LEMMA OfCapacityHolds ==
    ASSUME NEW n \in Nat
    PROVE  Holds(OfCapacity(n), <<>>) /\ OfCapacity(n).cap = n
  <1> DEFINE m == [i \in 0 .. n - 1 |-> Junk]
  <1>1. Alloc(m, n)
    BY DEF Alloc
  <1> HIDE DEF m
  <1>2. Holds(Buf(m, 0, 0, n), <<>>)
    BY <1>1, EmptyHolds
  <1>3. Buf(m, 0, 0, n).cap = n
    BY DEF Buf
  <1> QED  BY <1>2, <1>3 DEF OfCapacity, m

\* memmove to a place where the contents have room.
LEMMA MoveKeeps ==
    ASSUME NEW buf, Sound(buf), NEW d \in Nat, d + Size(buf) <= buf.cap
    PROVE  Holds(Buf(Move(buf, d, buf.left, Size(buf)), d, d + Size(buf), buf.cap), Contents(buf))
  <1> DEFINE n == Size(buf)
             m == Move(buf, d, buf.left, n)
  <1>1. n = buf.right - buf.left
    BY DEF Size
  <1>2. m = [i \in 0 .. buf.cap - 1 |->
               IF i \notin d .. d + n - 1 THEN buf.mem[i] ELSE buf.mem[i - d + buf.left]]
    <2>1. DOMAIN buf.mem = 0 .. buf.cap - 1 /\ n \in Nat /\ buf.left \in Nat /\ buf.cap \in Nat
      BY Parts
    <2>2. (0 .. buf.cap - 1) \cup (d .. d + n - 1) = 0 .. buf.cap - 1
      BY <2>1
    <2>3. ASSUME NEW i \in d .. d + n - 1
          PROVE  i - d + buf.left \in 0 .. buf.cap - 1
      <3>1. buf.left + n <= buf.cap
        BY <1>1, Parts
      <3> HIDE DEF n
      <3> QED  BY <2>1, <3>1, SMTT(60)
    <2> DEFINE D == 0 .. buf.cap - 1
               to == d .. d + n - 1
               f(i) == IF i \notin to THEN buf.mem[i]
                       ELSE IF i - d + buf.left \in D THEN buf.mem[i - d + buf.left] ELSE Junk
               g(i) == IF i \notin to THEN buf.mem[i] ELSE buf.mem[i - d + buf.left]
    <2>4. m = [i \in D |-> f(i)]
      BY <2>1, <2>2 DEF Move
    <2>5. \A i \in D : f(i) = g(i)
      BY <2>3
    <2> HIDE DEF D, f, g, m
    <2>6. m = [i \in D |-> g(i)]
      BY <2>4, <2>5
    <2> QED  BY <2>6 DEF D, g
  <1>3. Alloc(m, buf.cap)
    BY <1>2 DEF Alloc
  <1>4. ASSUME NEW i \in 1 .. n
        PROVE  Contents(buf)[i] = m[d + i - 1]
    <2>1. d + i - 1 \in 0 .. buf.cap - 1 /\ d + i - 1 \in d .. d + n - 1
      BY <1>1, Parts, SMTT(60)
    <2>2. m[d + i - 1] = buf.mem[(d + i - 1) - d + buf.left]
      BY <1>2, <2>1
    <2>3. (d + i - 1) - d + buf.left = buf.left + i - 1
      BY Parts
    <2> QED  BY <2>2, <2>3, ByteAt
  <1>5. n \in Nat /\ d + n \in Nat /\ buf.cap \in Nat /\ String(Contents(buf), n)
    BY Parts, BufferParts
  <1>6. Reads(Contents(buf), n, m, d)
    BY <1>4 DEF Reads
  <1> HIDE DEF n, m
  <1>7. d + n <= buf.cap
    BY DEF n
  <1>8. Holds(Buf(m, d, d + n, buf.cap), Contents(buf))
    BY <1>3, <1>5, <1>6, <1>7, HoldsIntro
  <1> QED  BY <1>8 DEF n, m

\* forward(offset) inside the allocation.
THEOREM ForwardKeeps ==
    ASSUME NEW buf, Sound(buf), NEW n \in Nat, n <= buf.left
    PROVE  Holds(Forward(buf, n), Contents(buf))
  <1>0. Size(buf) = buf.right - buf.left
    BY DEF Size
  <1>1. CASE n = 0
    BY <1>1, CompactKeeps DEF Forward
  <1>2. CASE n # 0 /\ n >= buf.right
    <2>1. Contents(buf) = <<>>
      BY <1>0, <1>2, Parts
    <2>2. Holds(Buf(buf.mem, 0, 0, buf.cap), <<>>)
      BY Parts, BufferParts, EmptyHolds
    <2> QED  BY <1>2, <2>1, <2>2 DEF Forward
  <1>3. CASE n # 0 /\ ~(n >= buf.right)
    <2> DEFINE d == buf.left - n
               k == Size(buf)
    <2>1. d \in Nat /\ d + k <= buf.cap /\ d + k = buf.right - n
      BY <1>0, Parts, SMTT(60)
    <2>2. Holds(Buf(Move(buf, d, buf.left, Size(buf)), d, d + Size(buf), buf.cap), Contents(buf))
      BY <2>1, MoveKeeps
    <2> QED  BY <1>3, <2>1, <2>2 DEF Forward
  <1> QED  BY <1>1, <1>2, <1>3

\* backward(offset), as far as there is room; backward(), when all of the contents
\* move.
THEOREM BackwardKeeps ==
    ASSUME NEW buf, Sound(buf), NEW n \in Nat,
           \/ n > 0 /\ n <= Available(buf)
           \/ n = 0 /\ Available(buf) \in {0, Size(buf)}
    PROVE  /\ Holds(Backward(buf, n), Contents(buf))
           /\ n > 0 /\ buf.left + n < buf.cap => Backward(buf, n).left = buf.left + n
           /\ n > 0 /\ buf.left + n >= buf.cap => Backward(buf, n).left = buf.cap
  <1>0. Size(buf) = buf.right - buf.left /\ Available(buf) = buf.cap - buf.right
    BY DEF Size, Available
  <1> DEFINE k == Size(buf)
  <1>1. CASE n = 0 /\ buf.right = buf.cap
    BY <1>1 DEF Backward, ToTheEnd, Holds
  <1>2. CASE n = 0 /\ buf.right # buf.cap
    <2> DEFINE a == Available(buf)
               d == buf.left + a
    <2>1. a = k /\ d \in Nat /\ d + k = buf.cap
      BY <1>0, <1>2, Parts
    <2>2. Holds(Buf(Move(buf, d, buf.left, k), d, d + k, buf.cap), Contents(buf))
      <3>1. d + Size(buf) <= buf.cap
        BY <2>1, Parts
      <3> HIDE DEF d
      <3> QED  BY <2>1, <3>1, MoveKeeps
    <2>3. Backward(buf, n) = Buf(Move(buf, d, buf.left, k), d, d + k, buf.cap)
      BY <1>2, <2>1 DEF Backward, ToTheEnd
    <2> QED  BY <1>2, <2>2, <2>3
  <1>3. CASE n > 0 /\ n >= buf.cap - buf.left
    <2>1. Contents(buf) = <<>> /\ buf.left + n >= buf.cap /\ ~(buf.left + n < buf.cap) /\ n # 0
      BY <1>0, <1>3, Parts
    <2>2. Holds(Buf(buf.mem, buf.cap, buf.cap, buf.cap), <<>>)
      BY Parts, BufferParts, EmptyHolds
    <2>3. Backward(buf, n) = Buf(buf.mem, buf.cap, buf.cap, buf.cap)
      BY <1>3, <2>1 DEF Backward
    <2> QED  BY <2>1, <2>2, <2>3 DEF Buf
  <1>4. CASE n > 0 /\ ~(n >= buf.cap - buf.left)
    <2> DEFINE d == buf.left + n
    <2>1. d \in Nat /\ d + k <= buf.cap /\ d + k = buf.right + n /\ n <= Available(buf) /\ n # 0 /\ ~(d >= buf.cap)
      BY <1>0, <1>4, Parts, SMTT(60)
    <2>2. Holds(Buf(Move(buf, d, buf.left, Size(buf)), d, d + Size(buf), buf.cap), Contents(buf))
      BY <2>1, MoveKeeps
    <2>3. Backward(buf, n) = Buf(Move(buf, d, buf.left, k), d, d + k, buf.cap)
      BY <1>4, <2>1 DEF Backward
    <2> QED  BY <1>4, <2>1, <2>2, <2>3 DEF Buf
  <1> QED  BY <1>1, <1>2, <1>3, <1>4, Parts

\* An allocation of c bytes instead, with the contents where they were.
LEMMA ReallocKeeps ==
    ASSUME NEW buf, Sound(buf), NEW c \in Nat, buf.right <= c
    PROVE  Holds(Buf(Realloc(buf, buf.left, Size(buf), c), buf.left, buf.right, c), Contents(buf))
  <1> DEFINE m == Realloc(buf, buf.left, Size(buf), c)
  <1>1. Size(buf) = buf.right - buf.left
    BY DEF Size
  <1>2. m = [i \in 0 .. c - 1 |->
               IF i \in buf.left .. buf.left + Size(buf) - 1 THEN buf.mem[i] ELSE Junk]
    BY DEF Realloc
  <1>3. Alloc(m, c)
    BY <1>2 DEF Alloc
  <1>4. ASSUME NEW i \in 1 .. Size(buf)
        PROVE  Contents(buf)[i] = m[buf.left + i - 1]
    <2>1. /\ buf.left + i - 1 \in 0 .. c - 1
          /\ buf.left + i - 1 \in buf.left .. buf.left + Size(buf) - 1
      BY <1>1, Parts, SMTT(60)
    <2>2. m[buf.left + i - 1] = buf.mem[buf.left + i - 1]
      BY <1>2, <2>1
    <2> QED  BY <2>2, ByteAt
  <1> HIDE DEF m
  <1>5. buf.left + Size(buf) = buf.right /\ String(Contents(buf), Size(buf))
        /\ buf.left \in Nat /\ buf.right \in Nat /\ Size(buf) \in Nat
    BY <1>1, Parts, BufferParts
  <1>6. Reads(Contents(buf), Size(buf), m, buf.left)
    BY <1>4 DEF Reads
  <1>7. Holds(Buf(m, buf.left, buf.right, c), Contents(buf))
    BY <1>3, <1>5, <1>6, HoldsIntro
  <1> QED  BY <1>7 DEF m

\* shrink_to_fit(n), unless n is less than what there is.
THEOREM ShrinkToFitKeeps ==
    ASSUME NEW buf, Sound(buf), NEW n \in Nat, n >= Size(buf)
    PROVE  Holds(ShrinkToFit(buf, n), Contents(buf))
  <1>0. Size(buf) = buf.right - buf.left
    BY DEF Size
  <1>1. CASE n < buf.cap - buf.left
    <2> DEFINE c == n + buf.left
    <2>1. c \in Nat /\ buf.right <= c /\ ~(n < Size(buf))
      BY <1>0, Parts
    <2>2. ShrinkToFit(buf, n) = Buf(Realloc(buf, buf.left, Size(buf), c), buf.left, buf.right, c)
      BY <1>1, <2>1 DEF ShrinkToFit
    <2> HIDE DEF c
    <2> QED  BY <2>1, <2>2, ReallocKeeps
  <1>2. CASE ~(n < buf.cap - buf.left)
    <2>1. ShrinkToFit(buf, n) = buf
      BY <1>0, <1>2, Parts DEF ShrinkToFit
    <2> QED  BY <2>1 DEF Holds
  <1> QED  BY <1>1, <1>2

\* deepCopy: the one then holds what the other holds.
THEOREM DeepCopyCopies ==
    ASSUME NEW this, Sound(this), NEW that, Sound(that), NEW S, Contents(that) \in Seq(S)
    PROVE  Holds(DeepCopy(this, that), Contents(that))
  <1>1. CASE Empty(that)
    <2>1. Contents(that) = <<>>
      BY <1>1, Parts DEF Empty, Size
    <2>2. Holds(Buf(this.mem, 0, 0, this.cap), <<>>)
      <3>1. this.cap \in Nat /\ Alloc(this.mem, this.cap) /\ 0 \in 0 .. this.cap
        BY Parts, BufferParts
      <3> QED  BY <3>1, EmptyHolds
    <2> QED  BY <1>1, <2>1, <2>2 DEF DeepCopy
  <1>2. CASE ~Empty(that)
    BY <1>2, OfHolds DEF DeepCopy
  <1> QED  BY <1>1, <1>2

\* With room in front of the contents, what is written there goes before them.
LEMMA PrependAtHolds ==
    ASSUME NEW buf, Sound(buf), NEW S, NEW s \in Seq(S), Len(s) <= buf.left,
           Contents(buf) \in Seq(S)
    PROVE  Holds(PrependAt(buf, s), s \o Contents(buf))
  <1> DEFINE w == Len(s)
             d == buf.left - w
             m == Copy(buf, d, s)
             c == Contents(buf)
             t == s \o c
             n == w + Size(buf)
  <1>1. /\ w \in Nat /\ d \in Nat /\ d + w = buf.left /\ d <= buf.cap
        /\ Size(buf) = buf.right - buf.left /\ Size(buf) \in Nat
        /\ buf.right \in Nat /\ buf.cap \in Nat /\ buf.left \in Nat /\ buf.right <= buf.cap
        /\ DOMAIN buf.mem = 0 .. buf.cap - 1
        /\ Len(c) = Size(buf)
    BY Parts DEF Size
  <1>2. n \in Nat /\ d + n = buf.right
    <2> DEFINE z == Size(buf)
    <2>1. w \in Nat /\ z \in Nat /\ d \in Nat /\ d + w = buf.left /\ z = buf.right - buf.left
          /\ buf.left \in Nat /\ buf.right \in Nat
      BY <1>1
    <2> HIDE DEF d, w, z
    <2>2. n = w + z
      BY DEF z
    <2> HIDE DEF n
    <2>3. n \in Nat
      BY <2>1, <2>2, SMTT(60)
    <2>4. d + n = buf.right
      BY <2>1, <2>2, SMTT(60)
    <2> QED  BY <2>3, <2>4
  <1>3. m = [i \in 0 .. buf.cap - 1 |-> IF i \in d .. d + w - 1 THEN s[i - d + 1] ELSE buf.mem[i]]
    <2>1. (0 .. buf.cap - 1) \cup (d .. d + w - 1) = 0 .. buf.cap - 1
      <3> HIDE DEF d, w
      <3> QED  BY <1>1, SMTT(60)
    <2> HIDE DEF d
    <2> QED  BY <1>1, <2>1 DEF Copy
  <1>4. Alloc(m, buf.cap)
    BY <1>3 DEF Alloc
  <1>5. String(t, n) /\ \A i \in 1 .. n : t[i] = IF i <= w THEN s[i] ELSE c[i - w]
    <2> HIDE DEF c
    <2>1. /\ String(s \o c, Len(s) + Len(c))
          /\ \A i \in 1 .. Len(s) + Len(c) :
               (s \o c)[i] = IF i <= Len(s) THEN s[i] ELSE c[i - Len(s)]
      BY Joined DEF c
    <2> QED  BY <1>1, <2>1
  <1> HIDE DEF m, t
  <1>6. ASSUME NEW i \in 1 .. n
        PROVE  t[i] = m[d + i - 1]
    <2> HIDE DEF w, d, c, n
    <2>0. i \in Nat /\ i >= 1 /\ i <= n
      BY <1>2
    <2>1. d + i - 1 \in 0 .. buf.cap - 1
      <3>1. d \in Nat /\ n \in Nat /\ buf.cap \in Nat /\ d + n <= buf.cap
        BY <1>1, <1>2
      <3> QED  BY <2>0, <3>1
    <2>2. CASE i <= w
      <3>1. d + i - 1 \in d .. d + w - 1 /\ (d + i - 1) - d + 1 = i
        BY <1>1, <2>0, <2>2
      <3>2. m[d + i - 1] = s[(d + i - 1) - d + 1]
        BY <1>3, <2>1, <3>1
      <3> QED  BY <1>5, <2>2, <3>1, <3>2
    <2>3. CASE ~(i <= w)
      <3>1. d + i - 1 \notin d .. d + w - 1
        BY <1>1, <2>0, <2>3
      <3>2. i - w \in 1 .. Size(buf) /\ buf.left + (i - w) - 1 = d + i - 1
        <4>1. w \in Nat /\ Size(buf) \in Nat /\ buf.left \in Nat /\ d \in Nat /\ n = Size(buf) + w
          BY <1>1 DEF n
        <4>2. i - w \in 1 .. Size(buf)
          BY <2>0, <2>3, <4>1
        <4>3. buf.left = d + w
          BY <1>1
        <4> QED  BY <2>0, <4>1, <4>2, <4>3
      <3>3. m[d + i - 1] = buf.mem[d + i - 1]
        BY <1>3, <2>1, <3>1
      <3>4. c[i - w] = buf.mem[buf.left + (i - w) - 1]
        BY <3>2, ByteAt DEF c
      <3>5. t[i] = c[i - w]
        BY <1>5, <2>3
      <3> QED  BY <3>2, <3>3, <3>4, <3>5
    <2> QED  BY <2>2, <2>3
  <1>7. Reads(t, n, m, d)
    BY <1>6 DEF Reads
  <1>8. PrependAt(buf, s) = Buf(m, d, buf.right, buf.cap)
    BY DEF PrependAt, m
  <1> HIDE DEF w, d, c, n
  <1>9. Holds(Buf(m, d, buf.right, buf.cap), t)
    BY <1>1, <1>2, <1>4, <1>5, <1>7, HoldsIntro
  <1> QED  BY <1>8, <1>9 DEF t, c

\* prepend(buf, len), where there is room in front or where the contents can be
\* moved back: the one branch that loses bytes is the one that reallocates.
THEOREM PrependPrepends ==
    ASSUME NEW buf, Sound(buf), NEW S, NEW s \in Seq(S), s # <<>>, Contents(buf) \in Seq(S),
           Len(s) + Size(buf) <= buf.cap \/ buf.left >= Len(s)
    PROVE  Holds(Prepend(buf, s), s \o Contents(buf))
  <1> DEFINE w == Len(s)
             r == MakeRoom(buf, w)
             k == w - buf.left
  <1>0. w \in Nat /\ Size(buf) = buf.right - buf.left /\ Available(buf) = buf.cap - buf.right
    BY DEF Size, Available
  <1>1. Sound(r) /\ Contents(r) = Contents(buf) /\ w <= r.left
    <2>1. CASE buf.left >= w
      BY <2>1 DEF MakeRoom
    <2>2. CASE ~(buf.left >= w) /\ w + Size(buf) <= buf.cap
      <3>1. r = Backward(buf, k)
        BY <2>2 DEF MakeRoom
      <3> HIDE DEF r, w
      <3>0. /\ buf.left \in Nat /\ buf.right \in Nat /\ buf.cap \in Nat
            /\ buf.left <= buf.right /\ buf.right <= buf.cap
        BY Parts
      <3>2. k \in Nat /\ k > 0 /\ k <= Available(buf) /\ buf.left + k = w /\ w <= buf.cap
        <4>1. k \in Nat /\ k > 0 /\ buf.left + k = w
          BY <1>0, <2>2, <3>0
        <4>2. k <= Available(buf)
          BY <1>0, <2>2, <3>0
        <4>3. w <= buf.cap
          BY <1>0, <2>2, <3>0
        <4> QED  BY <4>1, <4>2, <4>3
      <3> HIDE DEF k
      <3>3. /\ Holds(Backward(buf, k), Contents(buf))
            /\ (buf.left + k < buf.cap) => Backward(buf, k).left = buf.left + k
            /\ (buf.left + k >= buf.cap) => Backward(buf, k).left = buf.cap
        BY <3>2, BackwardKeeps
      <3>4. buf.left + k < buf.cap \/ buf.left + k >= buf.cap
        BY <1>0, <3>2, Parts
      <3>5. w <= r.left
        BY <1>0, <3>1, <3>2, <3>3, <3>4, Parts
      <3> QED  BY <3>1, <3>3, <3>5 DEF Holds
    <2> QED  BY <1>0, <2>1, <2>2
  <1> HIDE DEF r
  <1>2. Holds(PrependAt(r, s), s \o Contents(r))
    BY <1>1, PrependAtHolds
  <1> QED  BY <1>1, <1>2 DEF Prepend, r

\* retrieve(): nothing is left.
LEMMA RetrieveAllEmpties ==
    ASSUME NEW buf, Sound(buf)
    PROVE  Holds(RetrieveAll(buf), <<>>)
  <1>1. buf.cap \in Nat /\ Alloc(buf.mem, buf.cap) /\ 0 \in 0 .. buf.cap
    BY Parts, BufferParts
  <1> QED  BY <1>1, EmptyHolds DEF RetrieveAll

-----------------------------------------------------------------------------
(* How far reserve() grows: the recursion has a solution, found from the    *)
(* large sizes down, and every solution is large enough.                    *)

\* Induction over the numbers, for a set of them.
LEMMA NatMin ==
    ASSUME NEW Ns, Ns \subseteq Nat, Ns # {}
    PROVE  \E n \in Ns : \A m \in Ns : n <= m
<1>1. PICK n \in Ns : \A m \in Ns : ~ (<<m, n>> \in OpToRel(<, Nat))
  BY NatLessThanWellFounded, WFMin
<1>2. \A m \in Ns : ~ (m < n)
  BY <1>1 DEF OpToRel
<1> QED
  BY <1>2

LEMMA NatInduct ==
    ASSUME NEW Ns, 0 \in Ns, \A n \in Nat : n \in Ns => n + 1 \in Ns
    PROVE  Nat \subseteq Ns
<1> DEFINE B == {n \in Nat : n \notin Ns}
<1> SUFFICES ASSUME B # {} PROVE FALSE
  OBVIOUS
<1>1. PICK n \in B : \A m \in B : n <= m
  BY NatMin, B \subseteq Nat
<1>2. n # 0 /\ n \in Nat /\ n - 1 \in Nat
  OBVIOUS
<1>3. n - 1 \in Ns
  BY <1>1, <1>2
<1> QED
  BY <1>2, <1>3

Doubles(f, n) == f = [c \in Nat |-> IF c >= n THEN c ELSE f[2 * c]]

LEMMA DoublesExists ==
    ASSUME NEW n \in Nat
    PROVE  \E f : Doubles(f, n)
  <1> DEFINE Upto(f, k) == \A c \in Nat : c + k >= n => f[c] = IF c >= n THEN c ELSE f[2 * c]
             Ks == {k \in Nat : \E f \in [Nat -> Nat] : Upto(f, k)}
  <1>1. 0 \in Ks
    <2>1. [c \in Nat |-> c] \in [Nat -> Nat] /\ Upto([c \in Nat |-> c], 0)
      OBVIOUS
    <2> QED  BY <2>1
  <1>2. ASSUME NEW k \in Nat, k \in Ks
        PROVE  k + 1 \in Ks
    <2>1. PICK f \in [Nat -> Nat] : Upto(f, k)
      BY <1>2
    <2>2. CASE n <= k
      <3>1. Upto(f, k + 1)
        BY <2>1, <2>2
      <3> QED  BY <3>1
    <2>3. CASE ~(n <= k)
      <3> DEFINE d == n - (k + 1)
                 g == [f EXCEPT ![d] = f[2 * d]]
      <3>1. d \in Nat /\ 2 * d \in Nat /\ d < n
        BY <2>3
      <3>2. g \in [Nat -> Nat]
        BY <3>1
      <3>3. ASSUME NEW c \in Nat, c + (k + 1) >= n
            PROVE  g[c] = IF c >= n THEN c ELSE g[2 * c]
        <4>0. c >= d /\ 2 * c \in Nat
          BY <3>3
        <4> HIDE DEF d
        <4>1. CASE c = d
          <5>1. g[c] = f[2 * d]
            BY <4>1
          <5>2. g[2 * d] = f[2 * d]
            BY <3>1
          <5> QED  BY <3>1, <4>1, <5>1, <5>2
        <4>2. CASE c # d
          <5>1. c + k >= n /\ 2 * c # d
            BY <3>1, <4>0, <4>2, <3>3 DEF d
          <5>2. f[c] = IF c >= n THEN c ELSE f[2 * c]
            BY <2>1, <5>1
          <5>3. g[c] = f[c] /\ g[2 * c] = f[2 * c]
            BY <4>0, <4>2, <5>1
          <5> QED  BY <5>2, <5>3
        <4> QED  BY <4>1, <4>2
      <3> HIDE DEF g, d
      <3>4. Upto(g, k + 1)
        BY <3>3
      <3> QED  BY <3>2, <3>4
    <2> QED  BY <2>2, <2>3
  <1>3. n \in Ks
    <2> HIDE DEF Ks
    <2> QED  BY <1>1, <1>2, NatInduct
  <1>4. PICK f \in [Nat -> Nat] : Upto(f, n)
    BY <1>3
  <1>5. \A c \in Nat : f[c] = IF c >= n THEN c ELSE f[2 * c]
    BY <1>4
  <1>6. f = [c \in Nat |-> IF c >= n THEN c ELSE f[2 * c]]
    BY <1>5
  <1> QED  BY <1>6 DEF Doubles

LEMMA DoublesEnough ==
    ASSUME NEW n \in Nat, NEW f, Doubles(f, n), NEW c \in Nat \ {0}
    PROVE  f[c] \in Nat /\ f[c] >= n
  <1> DEFINE Ks == {k \in Nat : \A e \in Nat \ {0} : e + k >= n => f[e] \in Nat /\ f[e] >= n}
  <1>0. ASSUME NEW e \in Nat
        PROVE  f[e] = IF e >= n THEN e ELSE f[2 * e]
    BY DEF Doubles
  <1>1. 0 \in Ks
    BY <1>0
  <1>2. ASSUME NEW k \in Nat, k \in Ks
        PROVE  k + 1 \in Ks
    <2>1. ASSUME NEW e \in Nat \ {0}, e + (k + 1) >= n
          PROVE  f[e] \in Nat /\ f[e] >= n
      <3>1. CASE e >= n
        BY <1>0, <3>1
      <3>2. CASE ~(e >= n)
        <4>1. 2 * e \in Nat \ {0} /\ 2 * e + k >= n
          BY <2>1
        <4>2. f[2 * e] \in Nat /\ f[2 * e] >= n
          BY <1>2, <4>1
        <4> QED  BY <1>0, <3>2, <4>2
      <3> QED  BY <3>1, <3>2
    <2> QED  BY <2>1
  <1>3. n \in Ks
    <2> HIDE DEF Ks
    <2> QED  BY <1>1, <1>2, NatInduct
  <1> QED  BY <1>3

\* reserve() of a buffer that has an allocation gives at least what is asked for.
LEMMA GrownEnough ==
    ASSUME NEW cap \in Nat \ {0}, NEW n \in Nat
    PROVE  Grown(cap, n) \in Nat /\ Grown(cap, n) >= n
  <1> DEFINE f == CHOOSE g : g = [c \in Nat |-> IF c >= n THEN c ELSE g[2 * c]]
  <1>1. \E g : g = [c \in Nat |-> IF c >= n THEN c ELSE g[2 * c]]
    BY DoublesExists DEF Doubles
  <1>2. f = [c \in Nat |-> IF c >= n THEN c ELSE f[2 * c]]
    BY <1>1
  <1>3. Grown(cap, n) = f[2 * cap]
    BY DEF Grown
  <1> HIDE DEF f
  <1>4. Doubles(f, n) /\ 2 * cap \in Nat \ {0}
    BY <1>2 DEF Doubles
  <1> QED  BY <1>3, <1>4, DoublesEnough

\* append(buf, len), with the growth it asks for.
THEOREM AppendToAppends ==
    ASSUME NEW buf, Sound(buf), NEW S, NEW s \in Seq(S), s # <<>>
    PROVE  Holds(AppendTo(buf, s), Contents(buf) \o s)
  <1> DEFINE n == Needed(buf, s)
             g == Grown(buf.cap, n)
  <1>1. CASE Empty(buf)
    <2>1. AppendTo(buf, s) = Of(s)
      BY <1>1 DEF AppendTo, AppendGrown
    <2>2. AppendGrown(buf, s, n) = Of(s)
      BY <1>1 DEF AppendGrown
    <2>3. n \in Nat /\ n >= Needed(buf, s)
      BY Parts DEF Needed
    <2> HIDE DEF n
    <2>4. Holds(AppendGrown(buf, s, n), Contents(buf) \o s)
      BY <2>3, AppendAppends
    <2> QED  BY <2>1, <2>2, <2>4
  <1>2. CASE ~Empty(buf)
    <2>1. n \in Nat /\ buf.cap \in Nat \ {0}
      BY <1>2, Parts DEF Needed, Empty
    <2>2. g \in Nat /\ g >= n
      BY <2>1, GrownEnough
    <2>3. AppendTo(buf, s) = AppendGrown(buf, s, g)
      BY DEF AppendTo
    <2> HIDE DEF g
    <2>4. Holds(AppendGrown(buf, s, g), Contents(buf) \o s)
      BY <2>2, AppendAppends
    <2> QED  BY <2>3, <2>4
  <1> QED  BY <1>1, <1>2

-----------------------------------------------------------------------------
(* The buffer through any number of operations: what is shown of each of    *)
(* them makes every step one of ByteQueue.  Ops names the four operations   *)
(* that do lose bytes in some states.                                       *)

BufferIInv == Sound(b) /\ Contents(b) \in Seq(Bytes) /\ out \in Seq(Bytes)

Lossy == {"prepend", "forward", "backward", "shrink_to_fit"}

\* What every step must be.
QueueStep == BufferIInv' /\ [Queue!Next]_<<Contents(b), out>>

LEMMA InitHolds == BufferInit => BufferIInv /\ Queue!Init
  <1> SUFFICES ASSUME BufferInit PROVE BufferIInv /\ Queue!Init
    OBVIOUS
  <1>1. \E n \in Nat : b = OfCapacity(n)
    BY BufferBounds DEF BufferInit, Null
  <1>2. Holds(b, <<>>)
    BY <1>1, OfCapacityHolds
  <1>3. <<>> \in Seq(Bytes) /\ out = <<>>
    BY DEF BufferInit
  <1> QED  BY <1>2, <1>3 DEF BufferIInv, Holds, Queue!Init

\* The contents stay, and nothing is handed out.
LEMMA Rearranges ==
    ASSUME BufferIInv, NEW c, Holds(c, Contents(b)), Becomes(c)
    PROVE  QueueStep
  <1>1. b' = c /\ out' = <<>>
    BY DEF Becomes
  <1>2. Contents(b)' = Contents(b') /\ Sound(b)' = Sound(b')
    BY DEF Contents, Size, Sound, InBounds, Buf
  <1>3. Sound(b)' /\ Contents(b)' = Contents(b)
    BY <1>1, <1>2 DEF Holds
  <1>4. BufferIInv'
    <2>1. <<>> \in Seq(Bytes)
      OBVIOUS
    <2> QED  BY <1>1, <1>3, <2>1 DEF BufferIInv
  <1>5. Queue!Next
    BY <1>1, <1>3 DEF Queue!Next, Queue!Rearrange
  <1> QED  BY <1>4, <1>5 DEF QueueStep

\* s joins the contents, at either end.
LEMMA PutsIn ==
    ASSUME BufferIInv, NEW c, NEW s \in Strings, Becomes(c),
           Holds(c, Contents(b) \o s) \/ Holds(c, s \o Contents(b))
    PROVE  QueueStep
  <1>1. b' = c /\ out' = <<>>
    BY DEF Becomes
  <1>2. Contents(b)' = Contents(b') /\ Sound(b)' = Sound(b')
    BY DEF Contents, Size, Sound, InBounds, Buf
  <1>3. Sound(b)' /\ (Contents(b)' = Contents(b) \o s \/ Contents(b)' = s \o Contents(b))
    BY <1>1, <1>2 DEF Holds
  <1>4. Contents(b)' \in Seq(Bytes)
    <2> DEFINE q == Contents(b)
    <2>1. q \in Seq(Bytes) /\ s \in Seq(Bytes)
      BY StringsAssumption DEF BufferIInv
    <2> HIDE DEF q
    <2>2. q \o s \in Seq(Bytes) /\ s \o q \in Seq(Bytes)
      BY <2>1
    <2> QED  BY <1>3, <2>2 DEF q
  <1>5. BufferIInv'
    <2>1. <<>> \in Seq(Bytes)
      OBVIOUS
    <2> QED  BY <1>1, <1>3, <1>4, <2>1 DEF BufferIInv
  <1>6. Queue!Next
    BY <1>1, <1>3 DEF Queue!Next, Queue!AppendTo, Queue!Prepend
  <1> QED  BY <1>5, <1>6 DEF QueueStep

\* The first n bytes leave and are handed out.
LEMMA TakesOut ==
    ASSUME BufferIInv, NEW c, NEW n \in 0 .. Size(b), b' = c,
           Holds(c, SubSeq(Contents(b), n + 1, Size(b))),
           out' = SubSeq(Contents(b), 1, n)
    PROVE  QueueStep
  <1> DEFINE q == Contents(b)
             k == Size(b)
  <1>1. q \in Seq(Bytes) /\ Len(q) = k /\ k \in Nat
    BY Parts DEF BufferIInv
  <1>2. Contents(b)' = Contents(b') /\ Sound(b)' = Sound(b')
    BY DEF Contents, Size, Sound, InBounds, Buf
  <1>3. Sound(b)' /\ Contents(b)' = SubSeq(q, n + 1, k)
    BY <1>2 DEF Holds
  <1>4. SubSeq(q, n + 1, k) \in Seq(Bytes) /\ SubSeq(q, 1, n) \in Seq(Bytes)
    <2>1. n \in 0 .. k
      OBVIOUS
    <2> HIDE DEF q, k
    <2>2. SubSeq(q, n + 1, k) \in Seq(Bytes)
      BY <1>1, <2>1, SubSeqProperties
    <2>3. SubSeq(q, 1, n) \in Seq(Bytes)
      BY <1>1, <2>1, SubSeqProperties
    <2> QED  BY <2>2, <2>3
  <1>5. BufferIInv'
    BY <1>3, <1>4 DEF BufferIInv
  <1>6. Queue!Next
    <2>1. CASE n = 0
      <3>1. SubSeq(q, 1, n) = <<>> /\ SubSeq(q, n + 1, k) = q
        <4> HIDE DEF q, k
        <4> QED  BY <1>1, <2>1
      <3> QED  BY <1>3, <3>1 DEF Queue!Next, Queue!Rearrange
    <2>2. CASE n # 0
      <3>1. n \in 1 .. Len(q)
        BY <1>1, <2>2
      <3>2. Queue!Retrieve(n)
        BY <1>1, <1>3 DEF Queue!Retrieve
      <3> QED  BY <3>1, <3>2 DEF Queue!Next
    <2> QED  BY <2>1, <2>2
  <1> QED  BY <1>5, <1>6 DEF QueueStep

\* All of them do.
LEMMA TakesAll ==
    ASSUME BufferIInv, NEW c, b' = c, Holds(c, <<>>), out' = Contents(b)
    PROVE  QueueStep
  <1> DEFINE q == Contents(b)
             n == Size(b)
  <1>1. q \in Seq(Bytes) /\ Len(q) = n /\ n \in Nat
    BY Parts DEF BufferIInv
  <1>2. SubSeq(q, n + 1, n) = <<>> /\ SubSeq(q, 1, n) = q
    <2> HIDE DEF q, n
    <2> QED  BY <1>1
  <1>3. n \in 0 .. Size(b)
    BY <1>1
  <1>4. Holds(c, SubSeq(Contents(b), n + 1, Size(b))) /\ out' = SubSeq(Contents(b), 1, n)
    BY <1>2
  <1> HIDE DEF n
  <1> QED  BY <1>3, <1>4, TakesOut

LEMMA BufferStep ==
    ASSUME BufferIInv, BufferNext, Ops \cap Lossy = {}
    PROVE  QueueStep
  <1>0. Sound(b) /\ Contents(b) \in Seq(Bytes)
    BY DEF BufferIInv
  <1>1. CASE DoAppend
    <2>1. PICK s \in Strings : Fits(s) /\ Becomes(AppendTo(b, s))
      BY <1>1 DEF DoAppend
    <2>2. s \in Seq(Bytes) /\ s # <<>>
      BY <2>1, StringsAssumption DEF Fits
    <2>3. Holds(AppendTo(b, s), Contents(b) \o s)
      BY <1>0, <2>2, AppendToAppends
    <2> QED  BY <2>1, <2>3, PutsIn
  <1>2. CASE DoAppendInPlace
    <2>1. PICK s \in Strings : Len(s) <= Available(b) /\ Becomes(AppendInPlace(b, s))
      BY <1>2 DEF DoAppendInPlace
    <2>2. Holds(AppendInPlace(b, s), Contents(b) \o s)
      BY <1>0, <2>1, StringsAssumption, AppendInPlaceHolds
    <2> QED  BY <2>1, <2>2, PutsIn
  <1>3. CASE DoPrepend
    <2>1. PICK s \in Strings :
            /\ Fits(s)
            /\ Len(s) + Size(b) <= b.cap \/ b.left >= Len(s)
            /\ Becomes(Prepend(b, s))
      BY <1>3 DEF DoPrepend, Lossy
    <2>2. s \in Seq(Bytes) /\ s # <<>>
      BY <2>1, StringsAssumption DEF Fits
    <2>3. Holds(Prepend(b, s), s \o Contents(b))
      BY <1>0, <2>1, <2>2, PrependPrepends
    <2> QED  BY <2>1, <2>3, PutsIn
  <1>4. CASE DoRetrieve
    <2>1. ASSUME NEW n \in 0 .. MaxLen, b' = Retrieve(b, n),
                 out' = SubSeq(Contents(b), 1, IF n > Size(b) THEN Size(b) ELSE n)
          PROVE  QueueStep
      <3>1. n \in Nat /\ Size(b) \in Nat
        BY <1>0, BufferBounds, Parts
      <3>2. CASE n > Size(b)
        <4>1. Holds(Retrieve(b, n), <<>>)
          BY <1>0, <3>1, <3>2, RetrieveTakes
        <4>2. SubSeq(Contents(b), 1, Size(b)) = Contents(b)
          <5> DEFINE q == Contents(b)
          <5>1. q \in Seq(Bytes) /\ Len(q) = Size(b)
            BY <1>0, Parts
          <5> HIDE DEF q
          <5>2. SubSeq(q, 1, Len(q)) = q
            BY <5>1
          <5> QED  BY <5>1, <5>2 DEF q
        <4> QED  BY <2>1, <3>2, <4>1, <4>2, TakesAll
      <3>3. CASE ~(n > Size(b))
        <4>1. Holds(Retrieve(b, n), SubSeq(Contents(b), n + 1, Size(b))) /\ n \in 0 .. Size(b)
          BY <1>0, <3>1, <3>3, RetrieveTakes
        <4> QED  BY <2>1, <3>3, <4>1, TakesOut
      <3> QED  BY <3>2, <3>3
    <2>2. ASSUME b' = RetrieveAll(b), out' = Contents(b)
          PROVE  QueueStep
      BY <1>0, <2>2, RetrieveAllEmpties, TakesAll
    <2> QED  BY <1>4, <2>1, <2>2 DEF DoRetrieve
  <1>5. CASE DoTake
    <2>1. PICK n \in 0 .. MaxLen : b' = Retrieve(b, Asked(b, n)) /\ out' = AsString(b, n)
      BY <1>5 DEF DoTake
    <2> DEFINE m == Asked(b, n)
    <2>2. m \in 0 .. Size(b) /\ m \in Nat /\ m <= Size(b)
      BY <1>0, BufferBounds, Parts DEF Asked
    <2>3. out' = SubSeq(Contents(b), 1, m)
      BY <2>1 DEF AsString
    <2> HIDE DEF m
    <2>4. Holds(Retrieve(b, m), SubSeq(Contents(b), m + 1, Size(b)))
      BY <1>0, <2>2, RetrieveTakes
    <2>5. b' = Retrieve(b, m)
      BY <2>1 DEF m
    <2> QED  BY <2>2, <2>3, <2>4, <2>5, TakesOut
  <1>6. CASE DoMove
    <2>1. ASSUME NEW n \in 0 .. MaxCap, n <= b.left, Becomes(Forward(b, n))
          PROVE  QueueStep
      BY <1>0, <2>1, BufferBounds, ForwardKeeps, Rearranges
    <2>2. ASSUME NEW n \in 0 .. MaxCap, Becomes(Backward(b, n)),
                 \/ n > 0 /\ n <= Available(b)
                 \/ n = 0 /\ Available(b) \in {0, Size(b)}
          PROVE  QueueStep
      <3>1. Holds(Backward(b, n), Contents(b))
        BY <1>0, <2>2, BufferBounds, BackwardKeeps
      <3> QED  BY <2>2, <3>1, Rearranges
    <2> QED  BY <1>6, <2>1, <2>2 DEF DoMove, Lossy
  <1>7. CASE DoAllocate
    <2>1. ASSUME NEW n \in Nat, Becomes(Resize(b, n))
          PROVE  QueueStep
      BY <1>0, <2>1, ResizeKeeps, Rearranges
    <2>2. ASSUME NEW n \in 1 .. MaxCap, b.cap \in 1 .. MaxCap, Becomes(Reserve(b, n))
          PROVE  QueueStep
      <3> DEFINE g == Grown(b.cap, n)
      <3>1. b.cap \in Nat \ {0} /\ n \in Nat
        BY <2>2, BufferBounds
      <3>2. g \in Nat
        BY <3>1, GrownEnough
      <3> HIDE DEF g
      <3>3. Holds(Resize(b, g), Contents(b)) /\ Holds(b, Contents(b))
        BY <1>0, <3>2, ResizeKeeps DEF Holds
      <3>4. Holds(Reserve(b, n), Contents(b))
        BY <3>3 DEF Reserve, g
      <3> QED  BY <2>2, <3>4, Rearranges
    <2>3. ASSUME NEW n \in 0 .. MaxCap, n >= Size(b), Becomes(ShrinkToFit(b, n))
          PROVE  QueueStep
      BY <1>0, <2>3, BufferBounds, ShrinkToFitKeeps, Rearranges
    <2> QED  BY <1>7, <2>1, <2>2, <2>3, BufferBounds DEF DoAllocate, Lossy
  <1>8. CASE DoCopy
    <2>1. PICK n \in 0 .. MaxCap : Becomes(DeepCopy(OfCapacity(n), b))
      BY <1>8 DEF DoCopy
    <2> DEFINE this == OfCapacity(n)
    <2>2. Sound(this)
      BY BufferBounds, OfCapacityHolds DEF Holds
    <2> HIDE DEF this
    <2>3. Holds(DeepCopy(this, b), Contents(b))
      BY <1>0, <2>2, DeepCopyCopies
    <2> QED  BY <2>1, <2>3, Rearranges DEF this
  <1> QED  BY <1>1, <1>2, <1>3, <1>4, <1>5, <1>6, <1>7, <1>8 DEF BufferNext

LEMMA ValuesStep ==
    ASSUME BufferIInv, [ValuesNext]_<<bufferVars, time, micros>>, Ops \cap Lossy = {}
    PROVE  QueueStep
  <1>1. CASE BufferNext
    BY <1>1, BufferStep
  <1>2. CASE UNCHANGED bufferVars
    <2>1. b' = b /\ out' = out
      BY <1>2 DEF bufferVars
    <2>2. BufferIInv'
      BY <2>1 DEF BufferIInv, Sound, InBounds, Buf, Contents, Size, Bytes
    <2>3. UNCHANGED <<Contents(b), out>>
      BY <2>1 DEF Contents, Size
    <2> QED  BY <2>2, <2>3 DEF QueueStep
  <1> QED  BY <1>1, <1>2 DEF ValuesNext

\* No operation writes outside the allocation and the indices stay in order,
\* through any number of operations on strings of any length, as long as nothing
\* is asked that loses bytes (Buffer.cpp:9-310).
THEOREM BufferStaysSound ==
    ASSUME Ops \cap Lossy = {}
    PROVE  ValuesSpec => []BufferInv
  <1>1. ValuesInit => BufferIInv
    BY InitHolds DEF ValuesInit
  <1>2. BufferIInv /\ [ValuesNext]_<<bufferVars, time, micros>> => BufferIInv'
    BY ValuesStep DEF QueueStep
  <1>3. BufferIInv => BufferInv
    <2> SUFFICES ASSUME BufferIInv PROVE BufferInv
      OBVIOUS
    <2>1. Sound(b) /\ out \in Seq(Bytes)
      BY DEF BufferIInv
    <2> QED  BY <2>1, Parts DEF BufferInv, BufferTypeOK, CopiesInBounds
  <1> QED  BY <1>1, <1>2, <1>3, PTL DEF ValuesSpec

\* The buffer implements ByteQueue: bytes leave only when they are asked for, in
\* the order they were put in, and nothing else changes the contents
\* (Buffer.cpp:9-310).
THEOREM BufferIsByteQueue ==
    ASSUME Ops \cap Lossy = {}
    PROVE  ValuesSpec => IsByteQueue
  <1>1. ValuesInit => BufferIInv /\ Queue!Init
    BY InitHolds DEF ValuesInit
  <1>2. BufferIInv /\ [ValuesNext]_<<bufferVars, time, micros>>
          => BufferIInv' /\ [Queue!Next]_<<Contents(b), out>>
    BY ValuesStep DEF QueueStep
  <1> QED  BY <1>1, <1>2, PTL DEF ValuesSpec, IsByteQueue, Queue!Spec

-----------------------------------------------------------------------------
(* Timestamp                                                                *)

\* kMicrosecondsPerSecond is a positive number (util.h:158).
LEMMA MicroPositive == Micro \in Nat \ {0}
<1>1. \A m, n \in Nat \ {0} : m * n \in Nat \ {0}
  BY SMT
<1>2. QED
  BY <1>1, MilliAssumption, PerMilliAssumption DEF Micro

\* The carry of at most two seconds' microseconds (util.h:172).
LEMMA Carry ==
    ASSUME NEW m \in Nat \ {0}, NEW n \in m + 1 .. 2 * m
    PROVE  /\ n \div m \in Nat /\ n % m \in 0 .. m - 1
           /\ (n \div m) * m + (n % m) = n
<1>1. n = m * (n \div m) + (n % m)
  BY SMT
<1>2. n % m \in 0 .. m - 1
  BY SMT
<1>3. n \div m \in Int
  BY SMT
<1>4. n \div m \in Nat
  BY SMT
<1>5. QED
  BY <1>1, <1>2, <1>3, <1>4, SMT

\* A later second is at least a whole second later (util.h:222).
LEMMA LaterSecond ==
    ASSUME NEW m \in Nat \ {0}, NEW a \in Nat, NEW c \in Nat, a < c
    PROVE  a * m + m <= c * m
<1>1. \A k \in Nat : k * m \in Nat
  BY SMT
<1>2. PICK k \in Nat : c = a + 1 + k
  <2>1. c - a - 1 \in Nat /\ c = a + 1 + (c - a - 1)
    BY SMT
  <2>2. QED
    BY <2>1
<1>3. c * m = a * m + m + k * m
  BY <1>2, SMT
<1>4. a * m \in Nat /\ k * m \in Nat
  BY <1>1
<1>5. QED
  BY <1>3, <1>4, SMT

\* What the constructor makes of at most two seconds' microseconds is a
\* Timestamp of that time (util.h:168).
LEMMA MadeExact ==
    ASSUME NEW s \in Nat, NEW u \in 0 .. 2 * Micro
    PROVE  /\ Made(s, u) \in Timestamps
           /\ ToMicroSec(Made(s, u)) = s * Micro + u
<1>1. CASE u > Micro
  <2>1. u \in Micro + 1 .. 2 * Micro
    BY <1>1, MicroPositive, SMT
  <2> DEFINE q == u \div Micro
             r == u % Micro
  <2>2. q \in Nat /\ r \in 0 .. Micro - 1 /\ q * Micro + r = u
    BY <2>1, MicroPositive, Carry
  <2>3. Made(s, u) = [sec |-> s + q, usec |-> r]
    BY <1>1 DEF Made
  <2> HIDE DEF q, r
  <2>4. s + q \in Nat /\ r \in 0 .. Micro
    BY <2>2, MicroPositive, SMT
  <2>5. (s + q) * Micro + r = s * Micro + (q * Micro + r)
    BY <2>2, MicroPositive, SMT
  <2>6. QED
    BY <2>2, <2>3, <2>4, <2>5 DEF Timestamps, ToMicroSec
<1>2. CASE ~(u > Micro)
  <2>1. u \in 0 .. Micro
    BY <1>2, MicroPositive, SMT
  <2>2. Made(s, u) = [sec |-> s, usec |-> u]
    BY <1>2 DEF Made
  <2>3. QED
    BY <2>1, <2>2 DEF Timestamps, ToMicroSec
<1>3. QED
  BY <1>1, <1>2

\* operator+ is exact (util.h:288).
LEMMA PlusExact ==
    ASSUME NEW t \in Timestamps, NEW u \in Timestamps
    PROVE  /\ Plus(t, u) \in Timestamps
           /\ ToMicroSec(Plus(t, u)) = ToMicroSec(t) + ToMicroSec(u)
<1>1. /\ t.sec \in Nat /\ u.sec \in Nat
      /\ t.usec \in 0 .. Micro /\ u.usec \in 0 .. Micro
  BY DEF Timestamps
<1>2. t.sec + u.sec \in Nat /\ t.usec + u.usec \in 0 .. 2 * Micro
  BY <1>1, MicroPositive, SMT
<1>3. (t.sec + u.sec) * Micro + (t.usec + u.usec)
        = (t.sec * Micro + t.usec) + (u.sec * Micro + u.usec)
  BY <1>1, MicroPositive, SMT
<1>4. QED
  BY <1>2, <1>3, MadeExact DEF Plus, ToMicroSec

\* The order of Timestamps is that of the times, up to the two forms of a whole
\* second (util.h:221).
LEMMA CompareRight ==
    ASSUME NEW t \in Timestamps, NEW u \in Timestamps
    PROVE  /\ CompareTo(t, u) = -1 => ToMicroSec(t) <= ToMicroSec(u)
           /\ CompareTo(t, u) # -1 => ToMicroSec(u) <= ToMicroSec(t)
           /\ ToMicroSec(t) < ToMicroSec(u) => CompareTo(t, u) = -1
           /\ CompareTo(t, u) = -CompareTo(u, t)
<1> DEFINE ts == t.sec
           us == u.sec
           tu == t.usec
           uu == u.usec
<1>1. ts \in Nat /\ us \in Nat /\ tu \in 0 .. Micro /\ uu \in 0 .. Micro
  BY DEF Timestamps
<1>2. ts < us => ts * Micro + Micro <= us * Micro
  BY <1>1, MicroPositive, LaterSecond
<1>3. us < ts => us * Micro + Micro <= ts * Micro
  BY <1>1, MicroPositive, LaterSecond
<1>4. ts * Micro \in Nat /\ us * Micro \in Nat
  BY <1>1, MicroPositive, SMT
<1>5. /\ ToMicroSec(t) = ts * Micro + tu
      /\ ToMicroSec(u) = us * Micro + uu
  BY DEF ToMicroSec
<1>6. /\ CompareTo(t, u) = IF ts # us THEN IF ts < us THEN -1 ELSE 1
                           ELSE IF tu = uu THEN 0 ELSE IF tu < uu THEN -1 ELSE 1
      /\ CompareTo(u, t) = IF us # ts THEN IF us < ts THEN -1 ELSE 1
                           ELSE IF uu = tu THEN 0 ELSE IF uu < tu THEN -1 ELSE 1
  BY DEF CompareTo
<1> HIDE DEF ts, us, tu, uu
<1>7. CASE ts < us
  BY <1>1, <1>2, <1>4, <1>5, <1>6, <1>7, MicroPositive, SMT
<1>8. CASE us < ts
  BY <1>1, <1>3, <1>4, <1>5, <1>6, <1>8, MicroPositive, SMT
<1>9. CASE ts = us
  BY <1>1, <1>4, <1>5, <1>6, <1>9, MicroPositive, SMT
<1>10. QED
  BY <1>1, <1>7, <1>8, <1>9, SMT

\* operator- of times that compare as not earlier is exact (util.h:274).
LEMMA MinusExact ==
    ASSUME NEW t \in Timestamps, NEW u \in Timestamps, CompareTo(t, u) # -1
    PROVE  /\ Minus(t, u) \in Timestamps
           /\ ToMicroSec(Minus(t, u)) = ToMicroSec(t) - ToMicroSec(u)
<1>1. /\ t.sec \in Nat /\ u.sec \in Nat
      /\ t.usec \in 0 .. Micro /\ u.usec \in 0 .. Micro
  BY DEF Timestamps
<1>2. CASE t.usec < u.usec
  <2>1. u.sec < t.sec
    BY <1>1, <1>2, SMT DEF CompareTo
  <2>2. t.sec - u.sec - 1 \in Nat /\ t.usec + Micro - u.usec \in 0 .. 2 * Micro
    BY <1>1, <1>2, <2>1, MicroPositive, SMT
  <2>3. (t.sec - u.sec - 1) * Micro + (t.usec + Micro - u.usec)
          = (t.sec * Micro + t.usec) - (u.sec * Micro + u.usec)
    BY <1>1, MicroPositive, SMT
  <2>4. QED
    BY <1>2, <2>2, <2>3, MadeExact DEF Minus, ToMicroSec
<1>3. CASE ~(t.usec < u.usec)
  <2>1. u.sec <= t.sec
    BY <1>1, SMT DEF CompareTo
  <2>2. t.sec - u.sec \in Nat /\ t.usec - u.usec \in 0 .. 2 * Micro
    BY <1>1, <1>3, <2>1, MicroPositive, SMT
  <2>3. (t.sec - u.sec) * Micro + (t.usec - u.usec)
          = (t.sec * Micro + t.usec) - (u.sec * Micro + u.usec)
    BY <1>1, MicroPositive, SMT
  <2>4. QED
    BY <1>3, <2>2, <2>3, MadeExact DEF Minus, ToMicroSec
<1>4. QED
  BY <1>2, <1>3

\* What is left until a time is exact, and nothing once it has passed
\* (PollerSelect.cpp:76, PollerPoll.cpp:65).
LEMMA RemainingExact ==
    ASSUME NEW t \in Timestamps, NEW now \in Timestamps
    PROVE  /\ Remaining(t, now) \in Timestamps
           /\ ToMicroSec(Remaining(t, now))
                = IF ToMicroSec(t) < ToMicroSec(now) THEN 0
                  ELSE ToMicroSec(t) - ToMicroSec(now)
<1>1. ToMicroSec(t) \in Int /\ ToMicroSec(now) \in Int
  BY MicroPositive, SMT DEF ToMicroSec, Timestamps
<1>2. CASE CompareTo(t, now) = -1
  <2>1. 0 \in 0 .. 2 * Micro
    BY MicroPositive, SMT
  <2>2. /\ Made(0, 0) \in Timestamps
        /\ ToMicroSec(Made(0, 0)) = 0 * Micro + 0
    BY <2>1, MadeExact
  <2>3. 0 * Micro + 0 = 0
    BY MicroPositive, SMT
  <2>4. ToMicroSec(t) <= ToMicroSec(now)
    BY <1>2, CompareRight
  <2>5. Remaining(t, now) = Made(0, 0)
    BY <1>2 DEF Remaining
  <2>6. QED
    BY <1>1, <2>2, <2>3, <2>4, <2>5, SMT
<1>3. CASE CompareTo(t, now) # -1
  <2>1. ToMicroSec(now) <= ToMicroSec(t)
    BY <1>3, CompareRight
  <2>2. Remaining(t, now) = Minus(t, now)
    BY <1>3 DEF Remaining
  <2>3. QED
    BY <1>1, <1>3, <2>1, <2>2, MinusExact, SMT
<1>4. QED
  BY <1>2, <1>3

\* toMillSec drops less than a millisecond (util.h:207).
LEMMA MillSecBelow ==
    ASSUME NEW t \in Timestamps
    PROVE  /\ ToMillSec(t) * PerMilli <= ToMicroSec(t)
           /\ ToMicroSec(t) < (ToMillSec(t) + 1) * PerMilli
<1> DEFINE s == t.sec
           u == t.usec
           q == u \div PerMilli
           r == u % PerMilli
<1>1. s \in Nat /\ u \in Nat
  BY MicroPositive, SMT DEF Timestamps
<1>2. q \in Int /\ r \in 0 .. PerMilli - 1 /\ u = q * PerMilli + r
  <2>1. \A n \in Nat, m \in Nat \ {0} :
          n \div m \in Int /\ n % m \in 0 .. m - 1 /\ n = m * (n \div m) + (n % m)
    BY SMT
  <2>2. q \in Int /\ r \in 0 .. PerMilli - 1 /\ u = PerMilli * q + r
    BY <1>1, <2>1, PerMilliAssumption
  <2> HIDE DEF q, r
  <2>3. QED
    BY <2>2, PerMilliAssumption, SMT
<1>3. /\ ToMillSec(t) = s * Milli + q
      /\ ToMicroSec(t) = s * (Milli * PerMilli) + u
  BY DEF ToMillSec, ToMicroSec, Micro
<1> HIDE DEF s, u, q, r
<1>4. (s * Milli + q) * PerMilli = s * (Milli * PerMilli) + q * PerMilli
  BY <1>1, <1>2, MilliAssumption, PerMilliAssumption, SMT
<1>5. (s * Milli + q + 1) * PerMilli = (s * Milli + q) * PerMilli + PerMilli
  BY <1>1, <1>2, MilliAssumption, PerMilliAssumption, SMT
<1>6. /\ (s * Milli + q) * PerMilli \in Int
      /\ s * (Milli * PerMilli) \in Int /\ q * PerMilli \in Int
  BY <1>1, <1>2, MilliAssumption, PerMilliAssumption, SMT
<1>7. QED
  BY <1>2, <1>3, <1>4, <1>5, <1>6, PerMilliAssumption, SMT

-----------------------------------------------------------------------------

Exact == time \in Timestamps /\ ToMicroSec(time) = micros

LEMMA ZeroExact == Zero \in Timestamps /\ ToMicroSec(Zero) = 0
<1>1. 0 \in 0 .. 2 * Micro
  BY MicroPositive, SMT
<1>2. /\ Made(0, 0) \in Timestamps
      /\ ToMicroSec(Made(0, 0)) = 0 * Micro + 0
  BY <1>1, MadeExact
<1>3. 0 * Micro + 0 = 0
  BY MicroPositive, SMT
<1>4. QED
  BY <1>2, <1>3 DEF Zero

\* Whatever users construct, with up to two seconds' microseconds.
LEMMA GivenTimestamps == Given \subseteq Timestamps
<1>1. ASSUME NEW s \in 0 .. MaxSec, NEW u \in 0 .. 2 * Micro
      PROVE  Made(s, u) \in Timestamps
  BY MaxSecAssumption, MadeExact
<1>2. QED
  BY <1>1 DEF Given

LEMMA ExactStep ==
    ASSUME Exact, [ValuesNext]_<<bufferVars, time, micros>>
    PROVE  Exact'
<1>1. CASE DoPlus
  <2>1. PICK d \in Given : time' = Plus(time, d) /\ micros' = micros + ToMicroSec(d)
    BY <1>1 DEF DoPlus, TimeIs
  <2>2. d \in Timestamps
    BY GivenTimestamps
  <2>3. QED
    BY <2>1, <2>2, PlusExact DEF Exact, ToMicroSec, Micro
<1>2. CASE DoRemaining
  <2>1. PICK now \in Given :
          /\ time' = Remaining(time, now)
          /\ micros' = IF micros < ToMicroSec(now) THEN 0 ELSE micros - ToMicroSec(now)
    BY <1>2 DEF DoRemaining, TimeIs
  <2>2. now \in Timestamps
    BY GivenTimestamps
  <2>3. QED
    BY <2>1, <2>2, RemainingExact DEF Exact, ToMicroSec, Micro
<1>3. CASE UNCHANGED <<time, micros>>
  BY <1>3 DEF Exact, ToMicroSec, Micro
<1>4. QED
  BY <1>1, <1>2, <1>3 DEF ValuesNext

\* A Timestamp is exact through any number of sums and differences, and its order
\* and its milliseconds agree with the time it stands for (util.h:168-290).
THEOREM TimesAlwaysRight == ValuesSpec => []TimesRight
<1>1. ValuesInit => Exact
  BY ZeroExact DEF ValuesInit, Exact
<1>2. Exact /\ [ValuesNext]_<<bufferVars, time, micros>> => Exact'
  BY ExactStep
<1>3. Exact => TimesRight
  <2> SUFFICES ASSUME Exact PROVE TimesRight
    OBVIOUS
  <2>1. ASSUME NEW t \in Given
        PROVE  /\ CompareTo(time, t) = -1 => ToMicroSec(time) <= ToMicroSec(t)
               /\ ToMicroSec(time) < ToMicroSec(t) => CompareTo(time, t) = -1
               /\ CompareTo(time, t) = -CompareTo(t, time)
    BY GivenTimestamps, CompareRight DEF Exact
  <2>2. /\ ToMillSec(time) * PerMilli <= ToMicroSec(time)
        /\ ToMicroSec(time) < (ToMillSec(time) + 1) * PerMilli
    BY MillSecBelow DEF Exact
  <2>3. QED
    BY <2>1, <2>2 DEF TimesRight, Exact
<1>4. QED
  BY <1>1, <1>2, <1>3, PTL DEF ValuesSpec

-----------------------------------------------------------------------------
(* BinaryHeap: percolation only moves elements, whatever the comparison is. *)

\* A walk from position to position of an array, which takes an element along:
\* next[i][g] is where the element at i of g goes, i itself at the end.
Row(f, i, n, T, next) ==
    [g \in [1 .. n -> T] |->
        IF next[i][g] = i THEN g ELSE f[next[i][g]][H!Swap(g, i, next[i][g])]]

Walks(f, n, T, next) == f = [i \in 1 .. n |-> Row(f, i, n, T, next)]

\* It comes to an end.
Ends(n, T, next, rank) ==
    /\ next \in [1 .. n -> [[1 .. n -> T] -> 1 .. n]]
    /\ rank \in [1 .. n -> 0 .. n]
    /\ \A i \in 1 .. n : \A g \in [1 .. n -> T] :
         next[i][g] # i => rank[next[i][g]] < rank[i]

LEMMA SwapKeeps ==
    ASSUME NEW n \in Nat, NEW T, NEW g \in [1 .. n -> T], NEW i \in 1 .. n, NEW j \in 1 .. n
    PROVE  /\ H!Swap(g, i, j) \in [1 .. n -> T]
           /\ \A k \in 1 .. n : H!Swap(g, i, j)[k] = IF k = j THEN g[i] ELSE IF k = i THEN g[j]
                                                     ELSE g[k]
  BY DEF H!Swap

LEMMA WalkExists ==
    ASSUME NEW n \in Nat, NEW T, NEW next, NEW rank, Ends(n, T, next, rank)
    PROVE  \E f : Walks(f, n, T, next)
  <1> DEFINE G == [1 .. n -> T]
             Upto(f, k) == \A i \in 1 .. n : rank[i] < k => f[i] = Row(f, i, n, T, next)
             Ks == {k \in Nat : \E f \in [1 .. n -> [G -> G]] : Upto(f, k)}
  <1>1. 0 \in Ks
    <2> DEFINE f == [i \in 1 .. n |-> [g \in G |-> g]]
    <2>1. f \in [1 .. n -> [G -> G]]
      OBVIOUS
    <2>2. Upto(f, 0)
      BY DEF Ends
    <2> HIDE DEF f
    <2> QED  BY <2>1, <2>2
  <1>2. ASSUME NEW k \in Nat, k \in Ks
        PROVE  k + 1 \in Ks
    <2>1. PICK f \in [1 .. n -> [G -> G]] : Upto(f, k)
      BY <1>2
    <2> DEFINE h == [i \in 1 .. n |-> IF rank[i] = k THEN Row(f, i, n, T, next) ELSE f[i]]
    <2>2. h \in [1 .. n -> [G -> G]]
      <3>1. ASSUME NEW i \in 1 .. n
            PROVE  Row(f, i, n, T, next) \in [G -> G]
        <4>1. ASSUME NEW g \in G, next[i][g] # i
              PROVE  f[next[i][g]][H!Swap(g, i, next[i][g])] \in G
          <5>1. next[i][g] \in 1 .. n
            BY DEF Ends
          <5>2. H!Swap(g, i, next[i][g]) \in G
            BY <5>1, SwapKeeps
          <5> HIDE DEF G
          <5> QED  BY <5>1, <5>2
        <4> QED  BY <4>1 DEF Row
      <3> QED  BY <3>1
    <2>0. \A i \in 1 .. n : h[i] = IF rank[i] = k THEN Row(f, i, n, T, next) ELSE f[i]
      OBVIOUS
    <2> HIDE DEF h
    <2>3. ASSUME NEW i \in 1 .. n, rank[i] < k + 1
          PROVE  h[i] = Row(h, i, n, T, next)
      <3>1. rank[i] \in Nat
        BY DEF Ends
      <3>2. ASSUME NEW g \in G, next[i][g] # i
            PROVE  h[next[i][g]] = f[next[i][g]]
        <4>1. next[i][g] \in 1 .. n /\ rank[next[i][g]] \in Nat /\ rank[next[i][g]] < rank[i]
          BY <3>2 DEF Ends
        <4>2. rank[next[i][g]] # k
          BY <2>3, <3>1, <4>1
        <4> QED  BY <2>0, <4>1, <4>2
      <3>3. Row(h, i, n, T, next) = Row(f, i, n, T, next)
        BY <3>2 DEF Row
      <3>4. CASE rank[i] = k
        BY <2>0, <3>3, <3>4
      <3>5. CASE rank[i] # k
        <4>1. rank[i] < k
          BY <2>3, <3>1, <3>5
        <4> QED  BY <2>0, <2>1, <3>3, <3>5, <4>1
      <3> QED  BY <3>4, <3>5
    <2>4. Upto(h, k + 1)
      BY <2>3
    <2> HIDE DEF Upto, G
    <2>5. \E e \in [1 .. n -> [G -> G]] : Upto(e, k + 1)
      BY <2>2, <2>4
    <2> QED  BY <2>5
  <1>3. n + 1 \in Ks
    <2> HIDE DEF Ks
    <2>1. Nat \subseteq Ks
      BY <1>1, <1>2, NatInduct
    <2> QED  BY <2>1
  <1>4. PICK f \in [1 .. n -> [G -> G]] : Upto(f, n + 1)
    BY <1>3
  <1>5. ASSUME NEW i \in 1 .. n
        PROVE  f[i] = Row(f, i, n, T, next)
    <2>1. rank[i] < n + 1
      BY DEF Ends
    <2> QED  BY <1>4, <2>1
  <1>6. f = [i \in 1 .. n |-> Row(f, i, n, T, next)]
    BY <1>5
  <1> QED  BY <1>6 DEF Walks

\* Arrays g for which a walk from i leaves the root alone.
Spares(n, T, next, keep) ==
    \A i \in 1 .. n : \A g \in [1 .. n -> T] :
        g \in keep[i] /\ next[i][g] # i =>
            /\ i # 1 /\ next[i][g] # 1
            /\ H!Swap(g, i, next[i][g]) \in keep[next[i][g]]

\* a has the elements of g at other places; p says where they were.
Shuffles(p, a, g, n) ==
    p \in Bijection(1 .. n, 1 .. n) /\ \A j \in 1 .. n : a[j] = g[p[j]]

LEMMA WalkShuffles ==
    ASSUME NEW n \in Nat, NEW T, NEW next, NEW rank, Ends(n, T, next, rank),
           NEW keep, Spares(n, T, next, keep),
           NEW f, Walks(f, n, T, next),
           NEW i \in 1 .. n, NEW g \in [1 .. n -> T]
    PROVE  /\ f[i][g] \in [1 .. n -> T]
           /\ \E p : Shuffles(p, f[i][g], g, n) /\ (g \in keep[i] => p[1] = 1)
  <1> DEFINE G == [1 .. n -> T]
             Good(k, e) == /\ f[k][e] \in G
                           /\ \E p : Shuffles(p, f[k][e], e, n) /\ (e \in keep[k] => p[1] = 1)
             Ks == {m \in Nat : \A k \in 1 .. n : rank[k] < m => \A e \in G : Good(k, e)}
  <1>1. 0 \in Ks
    <2>1. \A k \in 1 .. n : ~(rank[k] < 0)
      BY DEF Ends
    <2> HIDE DEF Good
    <2> QED  BY <2>1
  <1>2. ASSUME NEW m \in Nat, m \in Ks
        PROVE  m + 1 \in Ks
    <2>1. ASSUME NEW k \in 1 .. n, rank[k] < m + 1, NEW e \in G
          PROVE  Good(k, e)
      <3>0. f[k][e] = IF next[k][e] = k THEN e ELSE f[next[k][e]][H!Swap(e, k, next[k][e])]
        <4>1. f[k] = Row(f, k, n, T, next)
          BY DEF Walks
        <4> QED  BY <4>1 DEF Row
      <3>1. CASE next[k][e] = k
        <4> DEFINE p == [j \in 1 .. n |-> j]
        <4>1. p \in Bijection(1 .. n, 1 .. n)
          BY DEF Bijection, Injection, Surjection, IsInjective
        <4>2. Shuffles(p, e, e, n)
          BY <4>1 DEF Shuffles
        <4>3. p[1] = 1
          OBVIOUS
        <4> HIDE DEF p
        <4> QED  BY <3>0, <3>1, <4>2, <4>3
      <3>2. CASE next[k][e] # k
        <4> DEFINE l == next[k][e]
                   s == H!Swap(e, k, l)
                   t == [j \in 1 .. n |-> IF j = l THEN k ELSE IF j = k THEN l ELSE j]
        <4>1. l \in 1 .. n /\ rank[l] \in Nat /\ rank[k] \in Nat /\ rank[l] < rank[k]
          BY <3>2 DEF Ends
        <4>2. rank[l] < m
          BY <2>1, <4>1
        <4>3. s \in G /\ \A j \in 1 .. n : s[j] = e[t[j]]
          <5> HIDE DEF l
          <5>1. s \in G
            BY <4>1, SwapKeeps
          <5>2. ASSUME NEW j \in 1 .. n
                PROVE  s[j] = IF j = l THEN e[k] ELSE IF j = k THEN e[l] ELSE e[j]
            BY <4>1 DEF H!Swap
          <5> HIDE DEF s
          <5> QED  BY <5>1, <5>2
        <4>4. t \in Bijection(1 .. n, 1 .. n)
          <5> HIDE DEF l
          <5>1. t \in [1 .. n -> 1 .. n]
            BY <4>1
          <5>2. \A x, y \in 1 .. n : t[x] = t[y] => x = y
            BY <4>1
          <5>3. \A y \in 1 .. n : t[t[y]] = y
            BY <4>1
          <5> HIDE DEF t
          <5>4. \A y \in 1 .. n : \E x \in 1 .. n : t[x] = y
            BY <5>1, <5>3
          <5> QED  BY <5>1, <5>2, <5>4, Fun_IsBij
        <4>5. e \in keep[k] => k # 1 /\ l # 1 /\ s \in keep[l]
          BY <3>2 DEF Spares
        <4>6. (k # 1 /\ l # 1) => t[1] = 1
          OBVIOUS
        <4> HIDE DEF l, s, t, G
        <4>7. Good(l, s)
          BY <1>2, <4>1, <4>2, <4>3
        <4>8. PICK q : Shuffles(q, f[l][s], s, n) /\ (s \in keep[l] => q[1] = 1)
          BY <4>7
        <4> DEFINE p == [j \in 1 .. n |-> t[q[j]]]
        <4>9. q \in [1 .. n -> 1 .. n]
          BY <4>8, Fun_BijectionProperties DEF Shuffles
        <4>10. p \in Bijection(1 .. n, 1 .. n)
          BY <4>4, <4>8, Fun_BijTransitive DEF Shuffles
        <4>11. ASSUME NEW j \in 1 .. n PROVE f[l][s][j] = e[p[j]]
          BY <4>3, <4>8, <4>9 DEF Shuffles
        <4>12. e \in keep[k] => p[1] = 1
          BY <4>5, <4>6, <4>8
        <4> HIDE DEF p
        <4>13. Shuffles(p, f[l][s], e, n)
          BY <4>10, <4>11 DEF Shuffles
        <4>14. f[k][e] = f[l][s]
          BY <3>0, <3>2 DEF l, s
        <4> QED  BY <4>7, <4>12, <4>13, <4>14
      <3> QED  BY <3>1, <3>2
    <2> HIDE DEF Good
    <2> QED  BY <2>1
  <1>3. n + 1 \in Ks
    <2> HIDE DEF Ks
    <2>1. Nat \subseteq Ks
      BY <1>1, <1>2, NatInduct
    <2> QED  BY <2>1
  <1>4. rank[i] < n + 1
    BY DEF Ends
  <1>5. Good(i, g)
    <2> HIDE DEF Good
    <2> QED  BY <1>3, <1>4
  <1> QED  BY <1>5

\* The functions that PercolateUp and PercolateDown apply.
IsUp(f, n, T) ==
    f = [i \in 1 .. n |->
           [g \in [1 .. n -> T] |->
              IF i > 1 /\ EntryLess(g[i], g[i \div 2])
              THEN f[i \div 2][H!Swap(g, i, i \div 2)] ELSE g]]

IsDown(f, n, T) ==
    f = [i \in 1 .. n |->
           [g \in [1 .. n -> T] |->
              IF 2 * i <= Len(g) /\ EntryLess(g[H!Child(g, i)], g[i])
              THEN f[H!Child(g, i)][H!Swap(g, i, H!Child(g, i))] ELSE g]]

UpNext(n, T) ==
    [i \in 1 .. n |-> [g \in [1 .. n -> T] |->
        IF i > 1 /\ EntryLess(g[i], g[i \div 2]) THEN i \div 2 ELSE i]]

DownNext(n, T) ==
    [i \in 1 .. n |-> [g \in [1 .. n -> T] |->
        IF 2 * i <= Len(g) /\ EntryLess(g[H!Child(g, i)], g[i]) THEN H!Child(g, i) ELSE i]]

LEMMA Halves == \A i \in Nat : i > 1 => i \div 2 \in Nat /\ i \div 2 >= 1 /\ i \div 2 < i
  OBVIOUS

LEMMA UpEnds ==
    ASSUME NEW n \in Nat, NEW T
    PROVE  Ends(n, T, UpNext(n, T), [i \in 1 .. n |-> i])
  <1> DEFINE G == [1 .. n -> T]
             next == UpNext(n, T)
  <1>1. ASSUME NEW i \in 1 .. n, NEW g \in G
        PROVE  next[i][g] = (IF i > 1 /\ EntryLess(g[i], g[i \div 2]) THEN i \div 2 ELSE i)
    BY DEF UpNext
  <1>2. next \in [1 .. n -> [G -> 1 .. n]]
    <2>1. \A i \in 1 .. n : i > 1 => i \div 2 \in 1 .. n
      BY Halves
    <2> QED  BY <2>1 DEF UpNext
  <1> HIDE DEF next
  <1> DEFINE rank == [i \in 1 .. n |-> i]
  <1>3. ASSUME NEW i \in 1 .. n, NEW g \in G, next[i][g] # i
        PROVE  rank[next[i][g]] < rank[i]
    <2>1. next[i][g] < i /\ next[i][g] \in 1 .. n
      BY <1>1, <1>3, Halves
    <2> QED  BY <2>1
  <1>4. rank \in [1 .. n -> 0 .. n]
    OBVIOUS
  <1> HIDE DEF rank
  <1>5. Ends(n, T, next, rank)
    BY <1>2, <1>3, <1>4 DEF Ends
  <1> QED  BY <1>5 DEF next, rank

LEMMA UpWalks ==
    ASSUME NEW n \in Nat, NEW T, NEW f
    PROVE  IsUp(f, n, T) <=> Walks(f, n, T, UpNext(n, T))
  <1> DEFINE up(i, g) == IF i > 1 /\ EntryLess(g[i], g[i \div 2])
                         THEN f[i \div 2][H!Swap(g, i, i \div 2)] ELSE g
             next == UpNext(n, T)
  <1>1. ASSUME NEW i \in 1 .. n, NEW g \in [1 .. n -> T]
        PROVE  (IF next[i][g] = i THEN g ELSE f[next[i][g]][H!Swap(g, i, next[i][g])]) = up(i, g)
    <2>1. next[i][g] = (IF i > 1 /\ EntryLess(g[i], g[i \div 2]) THEN i \div 2 ELSE i)
      BY DEF UpNext
    <2>2. i > 1 => i \div 2 # i
      BY Halves
    <2> QED  BY <2>1, <2>2
  <1> HIDE DEF up, next
  <1>2. ASSUME NEW i \in 1 .. n
        PROVE  Row(f, i, n, T, next) = [g \in [1 .. n -> T] |-> up(i, g)]
    BY <1>1 DEF Row
  <1>3. [i \in 1 .. n |-> Row(f, i, n, T, next)]
            = [i \in 1 .. n |-> [g \in [1 .. n -> T] |-> up(i, g)]]
    BY <1>2
  <1> QED  BY <1>3 DEF Walks, IsUp, up, next

LEMMA ChildIn ==
    ASSUME NEW n \in Nat, NEW T, NEW g \in [1 .. n -> T], NEW i \in 1 .. n, 2 * i <= Len(g)
    PROVE  H!Child(g, i) \in 1 .. n /\ H!Child(g, i) > i
  <1>1. Len(g) = n
    OBVIOUS
  <1> QED  BY <1>1 DEF H!Child

LEMMA DownEnds ==
    ASSUME NEW n \in Nat, NEW T
    PROVE  Ends(n, T, DownNext(n, T), [i \in 1 .. n |-> n - i])
  <1> DEFINE G == [1 .. n -> T]
             next == DownNext(n, T)
  <1>1. ASSUME NEW i \in 1 .. n, NEW g \in G
        PROVE  next[i][g] = (IF 2 * i <= Len(g) /\ EntryLess(g[H!Child(g, i)], g[i])
                             THEN H!Child(g, i) ELSE i)
    BY DEF DownNext
  <1>2. next \in [1 .. n -> [G -> 1 .. n]]
    <2>1. \A i \in 1 .. n : \A g \in G : 2 * i <= Len(g) => H!Child(g, i) \in 1 .. n
      BY ChildIn
    <2> QED  BY <2>1 DEF DownNext
  <1> HIDE DEF next
  <1> DEFINE rank == [i \in 1 .. n |-> n - i]
  <1>3. ASSUME NEW i \in 1 .. n, NEW g \in G, next[i][g] # i
        PROVE  rank[next[i][g]] < rank[i]
    <2>1. 2 * i <= Len(g) /\ next[i][g] = H!Child(g, i)
      BY <1>1, <1>3
    <2>2. H!Child(g, i) \in 1 .. n /\ H!Child(g, i) > i
      BY <2>1, ChildIn
    <2> QED  BY <2>1, <2>2
  <1>4. rank \in [1 .. n -> 0 .. n]
    OBVIOUS
  <1> HIDE DEF rank
  <1>5. Ends(n, T, next, rank)
    BY <1>2, <1>3, <1>4 DEF Ends
  <1> QED  BY <1>5 DEF next, rank

LEMMA DownWalks ==
    ASSUME NEW n \in Nat, NEW T, NEW f
    PROVE  IsDown(f, n, T) <=> Walks(f, n, T, DownNext(n, T))
  <1> DEFINE down(i, g) == IF 2 * i <= Len(g) /\ EntryLess(g[H!Child(g, i)], g[i])
                           THEN f[H!Child(g, i)][H!Swap(g, i, H!Child(g, i))] ELSE g
             next == DownNext(n, T)
  <1>1. ASSUME NEW i \in 1 .. n, NEW g \in [1 .. n -> T]
        PROVE  (IF next[i][g] = i THEN g ELSE f[next[i][g]][H!Swap(g, i, next[i][g])]) = down(i, g)
    <2>1. next[i][g] = (IF 2 * i <= Len(g) /\ EntryLess(g[H!Child(g, i)], g[i])
                        THEN H!Child(g, i) ELSE i)
      BY DEF DownNext
    <2>2. 2 * i <= Len(g) => H!Child(g, i) # i
      <3>1. 2 * i <= Len(g) => H!Child(g, i) > i
        BY ChildIn
      <3>2. \A x : x > i => x # i
        OBVIOUS
      <3> QED  BY <3>1, <3>2
    <2> QED  BY <2>1, <2>2
  <1> HIDE DEF down, next
  <1>2. ASSUME NEW i \in 1 .. n
        PROVE  Row(f, i, n, T, next) = [g \in [1 .. n -> T] |-> down(i, g)]
    BY <1>1 DEF Row
  <1>3. [i \in 1 .. n |-> Row(f, i, n, T, next)]
            = [i \in 1 .. n |-> [g \in [1 .. n -> T] |-> down(i, g)]]
    BY <1>2
  <1> QED  BY <1>3 DEF Walks, IsDown, down, next

\* The elements of an array are not changed by moving them.
HasElements(h, n, T, E) ==
    /\ n \in Nat /\ T \subseteq E /\ h \in [1 .. n -> T]
    /\ \A g \in [1 .. n -> T] : g \in Seq(E) /\ Len(g) = n

LEMMA SeqOf ==
    ASSUME NEW n \in Nat, NEW E, NEW g \in [1 .. n -> E]
    PROVE  g \in Seq(E) /\ Len(g) = n
  OBVIOUS

LEMMA ElementsOf ==
    ASSUME NEW E, NEW h \in Seq(E), NEW T, T = {h[i] : i \in 1 .. Len(h)}
    PROVE  HasElements(h, Len(h), T, E)
  <1> DEFINE n == Len(h)
  <1>1. n \in Nat /\ h \in [1 .. n -> E] /\ T \subseteq E
    OBVIOUS
  <1> HIDE DEF n
  <1>2. h \in [1 .. n -> T]
    BY <1>1 DEF n
  <1>3. ASSUME NEW g \in [1 .. n -> T]
        PROVE  g \in Seq(E) /\ Len(g) = n
    <2>1. g \in [1 .. n -> E]
      BY <1>1
    <2>2. n \in Nat
      BY <1>1
    <2> QED  BY <2>1, <2>2, SeqOf
  <1> QED  BY <1>1, <1>2, <1>3 DEF HasElements, n

\* An element moves up past those it is less than, which are then further down;
\* one that is not less than the root leaves the root where it is.
LEMMA PercolateUpShuffles ==
    ASSUME NEW E, NEW h \in Seq(E), NEW p \in 1 .. Len(h)
    PROVE  /\ H!PercolateUp(h, p) \in Seq(E) /\ Len(H!PercolateUp(h, p)) = Len(h)
           /\ \E q : /\ Shuffles(q, H!PercolateUp(h, p), h, Len(h))
                     /\ ~EntryLess(h[p], h[1]) => q[1] = 1
  <1> DEFINE n == Len(h)
             T == {h[i] : i \in 1 .. Len(h)}
             next == UpNext(n, T)
             rank == [i \in 1 .. n |-> i]
             keep == [i \in 1 .. n |-> {g \in [1 .. n -> T] : ~EntryLess(g[i], g[1])}]
             f == CHOOSE u : IsUp(u, n, T)
  <1>1. /\ n \in Nat /\ T \subseteq E /\ h \in [1 .. n -> T]
        /\ \A g \in [1 .. n -> T] : g \in Seq(E) /\ Len(g) = n
    <2> HIDE DEF T
    <2>1. T = {h[i] : i \in 1 .. Len(h)}
      BY DEF T
    <2>2. HasElements(h, Len(h), T, E)
      BY <2>1, ElementsOf
    <2> QED  BY <2>2 DEF HasElements
  <1>2. H!PercolateUp(h, p) = f[p][h]
    BY DEF H!PercolateUp, H!Arrays, IsUp
  <1> HIDE DEF n, T, f
  <1>3. Ends(n, T, next, rank)
    BY <1>1, UpEnds
  <1>4. Spares(n, T, next, keep)
    <2>1. ASSUME NEW i \in 1 .. n, NEW g \in [1 .. n -> T], g \in keep[i], next[i][g] # i
          PROVE  /\ i # 1 /\ next[i][g] # 1
                 /\ H!Swap(g, i, next[i][g]) \in keep[next[i][g]]
      <3> DEFINE k == i \div 2
                 s == H!Swap(g, i, k)
      <3>1. i > 1 /\ EntryLess(g[i], g[k]) /\ next[i][g] = k
        BY <2>1 DEF UpNext
      <3>2. ~EntryLess(g[i], g[1])
        BY <2>1
      <3>3. k # 1
        BY <3>1, <3>2
      <3>4. k \in 1 .. n /\ k # i
        BY <1>1, <3>1, Halves
      <3> HIDE DEF k
      <3>5. s \in [1 .. n -> T]
        BY <1>1, <3>4, SwapKeeps
      <3>6. s[k] = g[i] /\ s[1] = g[1]
        BY <1>1, <3>1, <3>3, <3>4 DEF H!Swap
      <3> HIDE DEF s
      <3>7. s \in keep[k]
        BY <3>2, <3>4, <3>5, <3>6
      <3> QED  BY <3>1, <3>3, <3>7 DEF s
    <2> HIDE DEF next, keep
    <2> QED  BY <2>1 DEF Spares
  <1>5. Walks(f, n, T, next)
    <2>1. \E u : Walks(u, n, T, next)
      <3> HIDE DEF next, rank
      <3> QED  BY <1>1, <1>3, WalkExists
    <2>2. \E u : IsUp(u, n, T)
      BY <1>1, <2>1, UpWalks
    <2>3. IsUp(f, n, T)
      BY <2>2 DEF f
    <2> QED  BY <1>1, <2>3, UpWalks
  <1>6. ~EntryLess(h[p], h[1]) => h \in keep[p]
    BY <1>1 DEF n
  <1>7. p \in 1 .. n
    BY DEF n
  <1> HIDE DEF next, rank, keep
  <1>8. /\ f[p][h] \in [1 .. n -> T]
        /\ \E q : Shuffles(q, f[p][h], h, n) /\ (h \in keep[p] => q[1] = 1)
    BY <1>1, <1>3, <1>4, <1>5, <1>7, WalkShuffles
  <1> QED  BY <1>1, <1>2, <1>6, <1>8 DEF n

LEMMA PercolateDownShuffles ==
    ASSUME NEW E, NEW h \in Seq(E), NEW p \in 1 .. Len(h)
    PROVE  /\ H!PercolateDown(h, p) \in Seq(E) /\ Len(H!PercolateDown(h, p)) = Len(h)
           /\ \E q : Shuffles(q, H!PercolateDown(h, p), h, Len(h))
  <1> DEFINE n == Len(h)
             T == {h[i] : i \in 1 .. Len(h)}
             next == DownNext(n, T)
             rank == [i \in 1 .. n |-> n - i]
             keep == [i \in 1 .. n |-> {}]
             f == CHOOSE u : IsDown(u, n, T)
  <1>1. /\ n \in Nat /\ T \subseteq E /\ h \in [1 .. n -> T]
        /\ \A g \in [1 .. n -> T] : g \in Seq(E) /\ Len(g) = n
    <2> HIDE DEF T
    <2>1. T = {h[i] : i \in 1 .. Len(h)}
      BY DEF T
    <2>2. HasElements(h, Len(h), T, E)
      BY <2>1, ElementsOf
    <2> QED  BY <2>2 DEF HasElements
  <1>2. H!PercolateDown(h, p) = f[p][h]
    BY DEF H!PercolateDown, H!Arrays, IsDown
  <1> HIDE DEF n, T, f
  <1>3. Ends(n, T, next, rank)
    BY <1>1, DownEnds
  <1>4. Spares(n, T, next, keep)
    BY DEF Spares
  <1>5. Walks(f, n, T, next)
    <2>1. \E u : Walks(u, n, T, next)
      <3> HIDE DEF next, rank
      <3> QED  BY <1>1, <1>3, WalkExists
    <2>2. \E u : IsDown(u, n, T)
      BY <1>1, <2>1, DownWalks
    <2>3. IsDown(f, n, T)
      BY <2>2 DEF f
    <2> QED  BY <1>1, <2>3, DownWalks
  <1>7. p \in 1 .. n
    BY DEF n
  <1> HIDE DEF next, rank, keep
  <1>8. f[p][h] \in [1 .. n -> T] /\ \E q : Shuffles(q, f[p][h], h, n)
    BY <1>1, <1>3, <1>4, <1>5, <1>7, WalkShuffles
  <1> QED  BY <1>1, <1>2, <1>8 DEF n

\* insert: what was in the array and the new element, the root where it was unless
\* the new element is less (BinaryHeap.h:44).
THEOREM InsertShuffles ==
    ASSUME NEW E, NEW h \in Seq(E), NEW x \in E
    PROVE  /\ H!Insert(h, x) \in Seq(E) /\ Len(H!Insert(h, x)) = Len(h) + 1
           /\ \E q : /\ Shuffles(q, H!Insert(h, x), Append(h, x), Len(h) + 1)
                     /\ h # <<>> /\ ~EntryLess(x, h[1]) => q[1] = 1
  <1> DEFINE g == Append(h, x)
             n == Len(h) + 1
  <1>1. g \in Seq(E) /\ Len(g) = n /\ g[n] = x /\ (h # <<>> => g[1] = h[1])
    BY AppendProperties
  <1>2. n \in 1 .. Len(g)
    BY <1>1
  <1>3. H!Insert(h, x) = H!PercolateUp(g, n)
    BY DEF H!Insert
  <1> HIDE DEF g, n
  <1>4. /\ H!PercolateUp(g, n) \in Seq(E) /\ Len(H!PercolateUp(g, n)) = Len(g)
        /\ \E q : /\ Shuffles(q, H!PercolateUp(g, n), g, Len(g))
                  /\ ~EntryLess(g[n], g[1]) => q[1] = 1
    BY <1>1, <1>2, PercolateUpShuffles
  <1> QED  BY <1>1, <1>3, <1>4 DEF g, n

\* delete_min: the root is gone, and every other element still there once
\* (BinaryHeap.h:71).
THEOREM DeleteMinShuffles ==
    ASSUME NEW E, NEW h \in Seq(E), h # <<>>
    PROVE  /\ H!DeleteMin(h) \in Seq(E) /\ Len(H!DeleteMin(h)) = Len(h) - 1
           /\ \E q \in Bijection(1 .. Len(h) - 1, 2 .. Len(h)) :
                \A j \in 1 .. Len(h) - 1 : H!DeleteMin(h)[j] = h[q[j]]
  <1> DEFINE n == Len(h)
             g == [h EXCEPT ![1] = h[n]]
             short == SubSeq(g, 1, n - 1)
             d == H!DeleteMin(h)
             t == [j \in 1 .. n - 1 |-> IF j = 1 THEN n ELSE j]
  <1>1. n \in Nat \ {0}
    OBVIOUS
  <1>2. /\ short \in Seq(E) /\ Len(short) = n - 1
        /\ \A j \in 1 .. n - 1 : short[j] = h[t[j]]
    <2>1. g \in Seq(E) /\ Len(g) = n /\ \A j \in 1 .. n : g[j] = IF j = 1 THEN h[n] ELSE h[j]
      OBVIOUS
    <2> HIDE DEF g, n
    <2>2. short \in Seq(E) /\ Len(short) = n - 1 /\ \A j \in 1 .. n - 1 : short[j] = g[j]
      BY <1>1, <2>1
    <2> HIDE DEF short
    <2> QED  BY <1>1, <2>1, <2>2
  <1>3. t \in Bijection(1 .. n - 1, 2 .. n)
    <2> HIDE DEF n
    <2>1. t \in [1 .. n - 1 -> 2 .. n]
      BY <1>1
    <2>2. \A x, y \in 1 .. n - 1 : t[x] = t[y] => x = y
      BY <1>1
    <2>3. ASSUME NEW y \in 2 .. n
          PROVE  \E x \in 1 .. n - 1 : t[x] = y
      <3>1. CASE y = n
        <4>1. 1 \in 1 .. n - 1 /\ t[1] = n
          BY <1>1, <3>1
        <4> HIDE DEF t
        <4> QED  BY <3>1, <4>1
      <3>2. CASE y # n
        <4>1. y \in 1 .. n - 1 /\ t[y] = y
          BY <1>1, <3>2
        <4> HIDE DEF t
        <4> QED  BY <4>1
      <3> QED  BY <3>1, <3>2
    <2> HIDE DEF t
    <2> QED  BY <2>1, <2>2, <2>3, Fun_IsBij
  <1>4. d = IF 1 = n THEN short ELSE H!PercolateDown(short, 1)
    BY DEF H!DeleteMin, H!EraseAt
  <1> HIDE DEF n, short, d, t
  <1>5. CASE n = 1
    BY <1>2, <1>3, <1>4, <1>5 DEF n, d
  <1>6. CASE n # 1
    <2>1. 1 \in 1 .. Len(short)
      BY <1>1, <1>2, <1>6
    <2>2. /\ d \in Seq(E) /\ Len(d) = n - 1
          /\ \E q : Shuffles(q, d, short, n - 1)
      BY <1>2, <1>4, <1>6, <2>1, PercolateDownShuffles
    <2>3. PICK q : Shuffles(q, d, short, n - 1)
      BY <2>2
    <2> DEFINE r == [j \in 1 .. n - 1 |-> t[q[j]]]
    <2>4. q \in Bijection(1 .. n - 1, 1 .. n - 1) /\ \A j \in 1 .. n - 1 : d[j] = short[q[j]]
      BY <2>3 DEF Shuffles
    <2>5. q \in [1 .. n - 1 -> 1 .. n - 1]
      BY <2>4 DEF Bijection, Injection
    <2>6. r \in Bijection(1 .. n - 1, 2 .. n)
      BY <1>3, <2>4, Fun_BijTransitive, ZenonT(60)
    <2>7. ASSUME NEW j \in 1 .. n - 1 PROVE d[j] = h[r[j]]
      BY <1>2, <2>4, <2>5
    <2> HIDE DEF r
    <2> QED  BY <2>2, <2>6, <2>7 DEF n, d
  <1> QED  BY <1>5, <1>6

-----------------------------------------------------------------------------
(* The timers of an object.  In the invariant an entry waits unless it is   *)
(* the root while its handler runs; every timer that has something to do    *)
(* has one entry that waits, and nothing but the root's handler runs while  *)
(* the root is out of order.                                                *)

Entry == [id : Nat, due : Int]

\* Where the entries that wait are, and whose they are.
Waits(h, at) == (1 .. Len(h)) \ (IF at = "handler" THEN {1} ELSE {})
Ids(h, W) == {h[i].id : i \in W}
Distinct(h, W) == \A i, j \in W : h[i].id = h[j].id => i = j

EntriesOK(h, ts) == \A i \in 1 .. Len(h) : h[i].id \in ts /\ h[i].due \in Dues

QueueOK ==
    /\ heap \in Seq(Entry) /\ period \in Seq(Periods \cup {0})
    /\ pc = "handler" => heap # <<>>
    /\ pc # "idle" => armed = None

WaitsOK(h, at, kept, done, per) ==
    /\ Distinct(h, Waits(h, at))
    /\ \A t \in kept : t \in Ids(h, Waits(h, at)) \/ (t \in done /\ per[t] = 0)
    /\ \A t \in Ids(h, Waits(h, at)) : per[t] = 0 => t \notin done

WaitingOK == WaitsOK(heap, pc, held, ran, period)

TimerIInv ==
    /\ MixinTypeOK /\ QueueOK /\ ArmedForRoot /\ WaitingOK
    /\ owner = "freed" => held \cap own = {}

LEMMA MaxDelayIs == MaxDelay \in Nat /\ \A e \in Delays \cup Periods : e <= MaxDelay
  <1>1. \E d \in Delays \cup Periods : \A e \in Delays \cup Periods : e <= d
    BY TimerAssumption
  <1>2. MaxDelay \in Delays \cup Periods /\ \A e \in Delays \cup Periods : e <= MaxDelay
    BY <1>1 DEF MaxDelay
  <1> QED  BY <1>2, TimerAssumption

LEMMA DueIn ==
    /\ Delays \cup {-p : p \in Pasts} \subseteq Dues /\ Periods \subseteq Dues
    /\ -MaxOverdue \in Dues
    /\ \A d \in Dues : d \in Int /\ d <= MaxDelay /\ Armed(d) \in 0 .. MaxDelay
  <1>1. Delays \cup {-p : p \in Pasts} \subseteq Dues
    <2>1. \A d \in Delays : d \in Nat /\ d <= MaxDelay
      BY MaxDelayIs, TimerAssumption
    <2>2. \A p \in Pasts : p \in 0 .. MaxOverdue
      BY TimerAssumption
    <2>3. MaxOverdue \in Nat /\ MaxDelay \in Nat
      BY MaxDelayIs, TimerAssumption
    <2>4. \A d \in Delays : d \in -MaxOverdue .. MaxDelay
      BY <2>1, <2>3
    <2>5. \A p \in Pasts : -p \in -MaxOverdue .. MaxDelay
      BY <2>2, <2>3
    <2> QED  BY <2>4, <2>5 DEF Dues
  <1>2. Periods \subseteq Dues
    BY MaxDelayIs, TimerAssumption DEF Dues
  <1>3. -MaxOverdue \in Dues
    BY MaxDelayIs, TimerAssumption DEF Dues
  <1>4. \A d \in Dues : d \in Int /\ d <= MaxDelay /\ Armed(d) \in 0 .. MaxDelay
    BY MaxDelayIs, TimerAssumption DEF Dues, Armed, AtLeast
  <1> QED  BY <1>1, <1>2, <1>3, <1>4

\* What an insertion that leaves the root alone does to the entries.
Inserted(g, h, x) ==
    /\ g \in Seq(Entry) /\ Len(g) = Len(h) + 1
    /\ \A i \in 1 .. Len(g) : g[i] = x \/ \E j \in 1 .. Len(h) : g[i] = h[j]
    /\ g[1] = IF h = <<>> THEN x ELSE h[1]

LEMMA AppendAt ==
    ASSUME NEW E, NEW h \in Seq(E), NEW x \in E
    PROVE  \A i \in 1 .. Len(h) + 1 : Append(h, x)[i] = IF i = Len(h) + 1 THEN x ELSE h[i]
  OBVIOUS

LEMMA HeapInsert ==
    ASSUME NEW h \in Seq(Entry), NEW x \in Entry, h # <<>> => ~EntryLess(x, h[1])
    PROVE  Inserted(H!Insert(h, x), h, x)
  <1> DEFINE g == H!Insert(h, x)
             n == Len(h) + 1
             a == Append(h, x)
  <1>1. g \in Seq(Entry) /\ Len(g) = n
    BY InsertShuffles
  <1>2. PICK q : Shuffles(q, g, a, n) /\ (h # <<>> => q[1] = 1)
    BY InsertShuffles
  <1>3. q \in [1 .. n -> 1 .. n] /\ \A i \in 1 .. n : g[i] = a[q[i]]
    BY <1>2 DEF Shuffles, Bijection, Injection
  <1>4. \A i \in 1 .. n : a[i] = IF i = n THEN x ELSE h[i]
    BY AppendAt
  <1>5. n \in Nat /\ n >= 1 /\ (h = <<>> <=> n = 1)
    OBVIOUS
  <1> HIDE DEF a
  <1>6. ASSUME NEW i \in 1 .. n
        PROVE  g[i] = x \/ \E j \in 1 .. Len(h) : g[i] = h[j]
    <2>1. q[i] \in 1 .. n /\ g[i] = a[q[i]]
      BY <1>3
    <2>2. CASE q[i] = n
      BY <1>4, <2>1, <2>2
    <2>3. CASE q[i] # n
      <3>1. q[i] \in 1 .. Len(h)
        BY <2>1, <2>3
      <3>2. g[i] = h[q[i]]
        BY <1>4, <2>1, <2>3
      <3> QED  BY <3>1, <3>2
    <2> QED  BY <2>2, <2>3
  <1>7. g[1] = IF h = <<>> THEN x ELSE h[1]
    <2>1. 1 \in 1 .. n /\ q[1] \in 1 .. n /\ g[1] = a[q[1]]
      BY <1>3, <1>5
    <2>2. CASE h = <<>>
      <3>1. n = 1 /\ q[1] = 1
        BY <1>5, <2>1, <2>2
      <3> QED  BY <1>4, <2>1, <2>2, <3>1
    <2>3. CASE h # <<>>
      <3>1. q[1] = 1 /\ n # 1
        BY <1>2, <1>5, <2>3
      <3> QED  BY <1>4, <2>1, <2>3, <3>1
    <2> QED  BY <2>2, <2>3
  <1> QED  BY <1>1, <1>6, <1>7 DEF Inserted

\* The new entry waits, and those that waited still do.
LEMMA InsertWaits ==
    ASSUME NEW h \in Seq(Entry), NEW x \in Entry, h # <<>> => ~EntryLess(x, h[1]),
           NEW at, at = "handler" => h # <<>>,
           Distinct(h, Waits(h, at)), x.id \notin Ids(h, Waits(h, at)),
           NEW g, g = H!Insert(h, x)
    PROVE  /\ Distinct(g, Waits(g, at))
           /\ Ids(g, Waits(g, at)) = Ids(h, Waits(h, at)) \cup {x.id}
  <1> DEFINE n == Len(h) + 1
             a == Append(h, x)
             V == Waits(h, at)
             W == Waits(g, at)
             R == IF at = "handler" THEN {1} ELSE {}
  <1>1. g \in Seq(Entry) /\ Len(g) = n
    BY InsertShuffles
  <1>2. PICK q : Shuffles(q, g, a, n) /\ (h # <<>> => q[1] = 1)
    BY InsertShuffles
  <1>3. /\ q \in [1 .. n -> 1 .. n] /\ \A i \in 1 .. n : g[i] = a[q[i]]
        /\ \A i, j \in 1 .. n : q[i] = q[j] => i = j
        /\ \A j \in 1 .. n : \E i \in 1 .. n : q[i] = j
    <2>1. q \in Bijection(1 .. n, 1 .. n) /\ \A i \in 1 .. n : g[i] = a[q[i]]
      BY <1>2 DEF Shuffles
    <2> QED  BY <2>1 DEF Bijection, Injection, Surjection, IsInjective
  <1>4. \A i \in 1 .. n : a[i] = IF i = n THEN x ELSE h[i]
    BY AppendAt
  <1>5. V = (1 .. n - 1) \ R /\ W = (1 .. n) \ R /\ n \in Nat \ {0}
    BY <1>1 DEF Waits
  <1>6. R \subseteq {1} /\ (1 \in R => (q[1] = 1 /\ n # 1))
    <2>1. CASE at = "handler"
      <3>1. n # 1
        BY <2>1
      <3> QED  BY <1>2, <2>1, <3>1
    <2>2. CASE at # "handler"
      BY <2>2
    <2> QED  BY <2>1, <2>2
  <1> HIDE DEF a, V, W, R, n
  <1>7. ASSUME NEW i \in W
        PROVE  i \in 1 .. n /\ q[i] \in W
    <2>1. i \in 1 .. n /\ q[i] \in 1 .. n
      BY <1>3, <1>5
    <2>2. ASSUME q[i] \in R PROVE FALSE
      <3>1. q[i] = 1 /\ 1 \in R /\ q[1] = 1 /\ 1 \in 1 .. n
        <4>1. q[i] = 1
          BY <1>6, <2>2
        <4>2. 1 \in R
          BY <2>2, <4>1
        <4>3. 1 \in 1 .. n
          BY <1>5
        <4> QED  BY <1>6, <4>1, <4>2, <4>3
      <3>2. i = 1
        BY <1>3, <2>1, <3>1
      <3> QED  BY <1>5, <3>1, <3>2
    <2> QED  BY <1>5, <2>1, <2>2
  <1>8. ASSUME NEW j \in W
        PROVE  \E i \in W : q[i] = j
    <2>1. PICK i \in 1 .. n : q[i] = j
      BY <1>3, <1>5
    <2>2. i \notin R
      BY <1>5, <1>6, <2>1
    <2> QED  BY <1>5, <2>1, <2>2
  <1>9. /\ V \subseteq 1 .. n /\ n \in W /\ n \notin V /\ W = V \cup {n}
        /\ \A i \in V : a[i] = h[i] /\ i # n
        /\ a[n] = x
    <2>1. n \notin R /\ n \in 1 .. n
      BY <1>5, <1>6
    <2>2. 1 .. n = (1 .. n - 1) \cup {n} /\ n \notin 1 .. n - 1
      BY <1>5
    <2>3. W = V \cup {n} /\ n \notin V /\ V \subseteq 1 .. n
      BY <1>5, <2>1, <2>2
    <2> QED  BY <1>4, <2>1, <2>3
  <1>10. \A i, j \in W : a[i].id = a[j].id => i = j
    <2>1. \A i, j \in V : h[i].id = h[j].id => i = j
      BY DEF Distinct, V
    <2>2. \A i \in V : h[i].id # x.id
      BY DEF Ids, V
    <2> QED  BY <1>9, <2>1, <2>2
  <1>11. Distinct(g, W)
    <2> SUFFICES ASSUME NEW i \in W, NEW j \in W, g[i].id = g[j].id
                 PROVE  i = j
      BY DEF Distinct
    <2>1. i \in 1 .. n /\ j \in 1 .. n /\ q[i] \in W /\ q[j] \in W
      BY <1>7
    <2>2. a[q[i]].id = a[q[j]].id
      BY <1>3, <2>1
    <2>3. q[i] = q[j]
      BY <1>10, <2>1, <2>2
    <2> QED  BY <1>3, <2>1, <2>3
  <1>12. Ids(g, W) = Ids(h, V) \cup {x.id}
    <2>1. ASSUME NEW i \in W
          PROVE  g[i].id \in Ids(h, V) \cup {x.id}
      <3>1. g[i] = a[q[i]] /\ q[i] \in W
        BY <1>3, <1>7
      <3> QED  BY <1>9, <3>1 DEF Ids
    <2>2. ASSUME NEW j \in W
          PROVE  a[j].id \in Ids(g, W)
      <3>1. PICK i \in W : q[i] = j
        BY <1>8
      <3>2. g[i] = a[j]
        BY <1>3, <1>7, <3>1
      <3> QED  BY <3>2 DEF Ids
    <2>3. x.id \in Ids(g, W)
      BY <1>9, <2>2
    <2>4. \A j \in V : h[j].id \in Ids(g, W)
      BY <1>9, <2>2
    <2>5. Ids(g, W) \subseteq Ids(h, V) \cup {x.id}
      BY <2>1 DEF Ids
    <2>6. Ids(h, V) \subseteq Ids(g, W)
      BY <2>4 DEF Ids
    <2> QED  BY <2>3, <2>5, <2>6
  <1> QED  BY <1>11, <1>12 DEF V, W

\* What the removal of the root leaves.
LEMMA HeapDelete ==
    ASSUME NEW h \in Seq(Entry), h # <<>>, NEW g, g = H!DeleteMin(h)
    PROVE  /\ g \in Seq(Entry) /\ Len(g) = Len(h) - 1
           /\ \A i \in 1 .. Len(g) : \E j \in 1 .. Len(h) : g[i] = h[j]
           /\ Distinct(h, 2 .. Len(h)) => Distinct(g, 1 .. Len(g))
           /\ Ids(g, 1 .. Len(g)) = Ids(h, 2 .. Len(h))
  <1> DEFINE n == Len(h)
  <1>1. g \in Seq(Entry) /\ Len(g) = n - 1 /\ n \in Nat \ {0}
    BY DeleteMinShuffles
  <1>2. PICK q \in Bijection(1 .. n - 1, 2 .. n) : \A j \in 1 .. n - 1 : g[j] = h[q[j]]
    BY DeleteMinShuffles
  <1>3. /\ q \in [1 .. n - 1 -> 2 .. n]
        /\ \A i, j \in 1 .. n - 1 : q[i] = q[j] => i = j
        /\ \A j \in 2 .. n : \E i \in 1 .. n - 1 : q[i] = j
    BY DEF Bijection, Injection, Surjection, IsInjective
  <1> HIDE DEF n
  <1>4. ASSUME NEW i \in 1 .. n - 1
        PROVE  \E j \in 1 .. n : g[i] = h[j]
    <2>1. q[i] \in 1 .. n
      BY <1>1, <1>3, SMTT(60)
    <2> QED  BY <1>2, <2>1
  <1>5. Distinct(h, 2 .. n) => Distinct(g, 1 .. n - 1)
    <2> SUFFICES ASSUME Distinct(h, 2 .. n), NEW i \in 1 .. n - 1, NEW j \in 1 .. n - 1,
                        g[i].id = g[j].id
                 PROVE  i = j
      BY DEF Distinct
    <2>1. q[i] \in 2 .. n /\ q[j] \in 2 .. n /\ h[q[i]].id = h[q[j]].id
      BY <1>2, <1>3
    <2>2. q[i] = q[j]
      BY <2>1 DEF Distinct
    <2> QED  BY <1>3, <2>2
  <1>6. Ids(g, 1 .. n - 1) = Ids(h, 2 .. n)
    <2>1. ASSUME NEW i \in 1 .. n - 1
          PROVE  g[i].id \in Ids(h, 2 .. n)
      BY <1>2, <1>3 DEF Ids
    <2>2. ASSUME NEW j \in 2 .. n
          PROVE  h[j].id \in Ids(g, 1 .. n - 1)
      <3>1. PICK i \in 1 .. n - 1 : q[i] = j
        BY <1>3
      <3>2. g[i] = h[j]
        BY <1>2, <3>1
      <3> QED  BY <3>2 DEF Ids
    <2> QED  BY <2>1, <2>2 DEF Ids
  <1> QED  BY <1>1, <1>4, <1>5, <1>6 DEF n

\* The root ceases to wait.
LEMMA RootOut ==
    ASSUME NEW h \in Seq(Entry), h # <<>>, Distinct(h, 1 .. Len(h))
    PROVE  /\ Distinct(h, 2 .. Len(h))
           /\ Ids(h, 2 .. Len(h)) = Ids(h, 1 .. Len(h)) \ {h[1].id}
           /\ h[1].id \in Ids(h, 1 .. Len(h))
  <1> DEFINE n == Len(h)
  <1>1. n \in Nat \ {0} /\ 1 \in 1 .. n /\ 1 .. n = (2 .. n) \cup {1} /\ 1 \notin 2 .. n
    OBVIOUS
  <1> HIDE DEF n
  <1>2. \A i, j \in 1 .. n : h[i].id = h[j].id => i = j
    BY DEF Distinct, n
  <1>3. \A i \in 2 .. n : h[i].id # h[1].id
    BY <1>1, <1>2
  <1>4. Ids(h, 2 .. n) = Ids(h, 1 .. n) \ {h[1].id}
    BY <1>1, <1>3 DEF Ids
  <1>5. Distinct(h, 2 .. n)
    BY <1>1, <1>2 DEF Distinct
  <1>6. h[1].id \in Ids(h, 1 .. n)
    BY <1>1 DEF Ids
  <1> QED  BY <1>4, <1>5, <1>6 DEF n

\* What the invariant says, in the terms of the lemmas above.
Sizes(n, h, per, kept, done, arm) ==
    /\ n \in Nat /\ n <= MaxTimers /\ Len(per) = n /\ DOMAIN per = 1 .. n
    /\ per \in Seq(Periods \cup {0})
    /\ h \in Seq(Entry) /\ EntriesOK(h, 1 .. n)
    /\ kept \subseteq 1 .. n /\ done \subseteq 1 .. n
    /\ arm \in 0 .. MaxDelay \cup {None}

Others ==
    /\ pc \in {"idle", "handle", "handler"} /\ lag \in 0 .. MaxOverdue
    /\ owner \in {"alive", "destroyed", "freed"} /\ refs \in BOOLEAN

OwnerOK(n, o, kept, mine) == mine \subseteq 1 .. n /\ (o = "freed" => kept \cap mine = {})

Root(h, at, arm) ==
    /\ at = "handler" => h # <<>>
    /\ at # "idle" => arm = None
    /\ at = "idle" => arm = IF h = <<>> THEN None ELSE Armed(h[1].due)

LEMMA InvParts ==
    TimerIInv <=> /\ Sizes(Len(period), heap, period, held, ran, armed) /\ Others
                  /\ Root(heap, pc, armed) /\ WaitsOK(heap, pc, held, ran, period)
                  /\ OwnerOK(Len(period), owner, held, own)
  <1>1. ASSUME period \in Seq(Periods \cup {0})
        PROVE  DOMAIN period = 1 .. Len(period) /\ Len(period) \in Nat
    BY <1>1
  <1>2. ASSUME TimerIInv
        PROVE  /\ Sizes(Len(period), heap, period, held, ran, armed) /\ Others
               /\ OwnerOK(Len(period), owner, held, own)
    BY <1>1, <1>2
    DEF TimerIInv, MixinTypeOK, TypeOK, QueueOK, Timers, Sizes, Others, OwnerOK, EntriesOK
  <1>3. ASSUME Sizes(Len(period), heap, period, held, ran, armed), Others,
               OwnerOK(Len(period), owner, held, own)
        PROVE  MixinTypeOK
    <2>1. \A t \in 1 .. Len(period) : period[t] \in Periods \cup {0}
      BY <1>3 DEF Sizes
    <2> QED  BY <1>3, <2>1 DEF MixinTypeOK, TypeOK, Timers, Sizes, Others, OwnerOK, EntriesOK
  <1>4. Root(heap, pc, armed)
            <=> /\ pc = "handler" => heap # <<>>
                /\ pc # "idle" => armed = None
                /\ ArmedForRoot
    BY DEF Root, ArmedForRoot, Min, H!FindMin
  <1> QED  BY <1>2, <1>3, <1>4 DEF TimerIInv, QueueOK, WaitingOK, Sizes, OwnerOK

\* The same of the next state.
LEMMA InvNext ==
    ASSUME Sizes(Len(period'), heap', period', held', ran', armed'), Others',
           Root(heap', pc', armed'), WaitsOK(heap', pc', held', ran', period'),
           OwnerOK(Len(period'), owner', held', own')
    PROVE  TimerIInv'
  <1>0. period' \in Seq(Periods \cup {0})
        => DOMAIN period' = 1 .. Len(period') /\ Len(period') \in Nat
    OBVIOUS
  <1>1. period' \in Seq(Periods \cup {0}) /\ DOMAIN period' = 1 .. Len(period')
    BY DEF Sizes
  <1>2. \A t \in 1 .. Len(period') : period'[t] \in Periods \cup {0}
    BY <1>1
  <1>3. MixinTypeOK'
    <2>1. Timers' = 1 .. Len(period')
      BY <1>1 DEF Timers
    <2>2. \A i \in 1 .. Len(heap') : heap'[i].id \in Timers' /\ heap'[i].due \in Dues
      BY <2>1 DEF Sizes, EntriesOK
    <2>3. /\ Len(period') <= MaxTimers
          /\ held' \subseteq Timers' /\ ran' \subseteq Timers'
          /\ armed' \in 0 .. MaxDelay \cup {None}
      BY <2>1 DEF Sizes
    <2>4. TypeOK'
      BY <1>2, <2>1, <2>2, <2>3 DEF TypeOK, Others, Dues, MaxDelay
    <2> QED  BY <2>1, <2>4 DEF MixinTypeOK, Others, OwnerOK
  <1>4. ArmedForRoot'
    BY DEF Root, ArmedForRoot, Min, H!FindMin, Armed, AtLeast
  <1>5. QueueOK'
    BY DEF QueueOK, Sizes, Root
  <1>6. WaitingOK'
    BY DEF WaitingOK, WaitsOK, Distinct, Waits, Ids
  <1> QED  BY <1>3, <1>4, <1>5, <1>6 DEF TimerIInv, OwnerOK

LEMMA WaitsIs ==
    ASSUME NEW h \in Seq(Entry)
    PROVE  /\ Waits(h, "handler") = 2 .. Len(h)
           /\ \A at : at # "handler" => Waits(h, at) = 1 .. Len(h)
  BY DEF Waits

\* One step of the timers each.
LEMMA NewKeeps ==
    ASSUME TimerIInv, NEW p \in Periods \cup {0}, NEW due \in Dues, New(p, due),
           UNCHANGED <<owner, refs>>,
           own' = own \/ (owner # "freed" /\ own' = own \cup {Len(period) + 1})
    PROVE  TimerIInv'
  <1> DEFINE n == Len(period)
             x == [id |-> n + 1, due |-> due]
  <1>1. /\ Sizes(n, heap, period, held, ran, armed) /\ Others /\ Root(heap, pc, armed)
        /\ WaitsOK(heap, pc, held, ran, period) /\ OwnerOK(n, owner, held, own)
    BY InvParts
  <1>2. /\ n \in Nat /\ n < MaxTimers /\ period' = Append(period, p) /\ held' = held \cup {n + 1}
        /\ heap' = H!Insert(heap, x) /\ armed' = (IF heap = <<>> THEN Armed(due) ELSE armed)
        /\ pc \in {"idle", "handler"} /\ ran' = ran /\ pc' = pc /\ lag' = lag
    BY <1>1 DEF New, Insert, UserCode, Sizes
  <1>3. x \in Entry /\ x.id = n + 1 /\ x.due = due
    BY <1>2, DueIn DEF Entry
  <1>4. heap \in Seq(Entry) /\ EntriesOK(heap, 1 .. n)
    BY <1>1 DEF Sizes
  <1>5. heap # <<>> => ~EntryLess(x, heap[1])
    <2>1. heap # <<>> => 1 \in 1 .. Len(heap)
      BY <1>4
    <2>2. heap # <<>> => heap[1].id \in 1 .. n
      BY <1>4, <2>1 DEF EntriesOK
    <2> QED  BY <1>2, <1>3, <2>2 DEF EntryLess
  <1>6. n + 1 \notin Ids(heap, Waits(heap, pc))
    BY <1>2, <1>4 DEF Ids, Waits, EntriesOK
  <1> HIDE DEF x
  <1>7. Inserted(heap', heap, x)
    BY <1>2, <1>3, <1>4, <1>5, HeapInsert
  <1>8. /\ Distinct(heap', Waits(heap', pc))
        /\ Ids(heap', Waits(heap', pc)) = Ids(heap, Waits(heap, pc)) \cup {n + 1}
    <2>1. Distinct(heap, Waits(heap, pc))
      BY <1>1 DEF WaitsOK
    <2>2. pc = "handler" => heap # <<>>
      BY <1>1 DEF Root
    <2> QED  BY <1>2, <1>3, <1>4, <1>5, <1>6, <2>1, <2>2, InsertWaits
  <1>9. /\ period' \in Seq(Periods \cup {0}) /\ Len(period') = n + 1 /\ DOMAIN period' = 1 .. n + 1
        /\ \A t \in 1 .. n : period'[t] = period[t]
    BY <1>1, <1>2 DEF Sizes
  <1>10. EntriesOK(heap', 1 .. n + 1)
    <2> SUFFICES ASSUME NEW i \in 1 .. Len(heap')
                 PROVE  heap'[i].id \in 1 .. n + 1 /\ heap'[i].due \in Dues
      BY DEF EntriesOK
    <2>1. heap'[i] = x \/ \E j \in 1 .. Len(heap) : heap'[i] = heap[j]
      BY <1>7 DEF Inserted
    <2>2. \A j \in 1 .. Len(heap) : heap[j].id \in 1 .. n /\ heap[j].due \in Dues
      BY <1>4 DEF EntriesOK
    <2> QED  BY <1>2, <1>3, <2>1, <2>2
  <1>11. Sizes(n + 1, heap', period', held', ran', armed')
    <2>1. armed' \in 0 .. MaxDelay \cup {None}
      BY <1>1, <1>2, DueIn DEF Sizes
    <2>2. held' \subseteq 1 .. n + 1 /\ ran' \subseteq 1 .. n + 1
      <3>1. held \subseteq 1 .. n /\ ran \subseteq 1 .. n
        BY <1>1 DEF Sizes
      <3>2. 1 .. n + 1 = (1 .. n) \cup {n + 1}
        BY <1>2
      <3> QED  BY <1>2, <3>1, <3>2
    <2>3. heap' \in Seq(Entry)
      BY <1>7 DEF Inserted
    <2>4. n + 1 <= MaxTimers
      BY <1>2, TimerAssumption
    <2> QED  BY <1>2, <1>9, <1>10, <2>1, <2>2, <2>3, <2>4 DEF Sizes
  <1>12. Root(heap', pc', armed')
    <2>1. heap' # <<>> /\ heap'[1] = IF heap = <<>> THEN x ELSE heap[1]
      BY <1>4, <1>7 DEF Inserted
    <2> QED  BY <1>1, <1>2, <1>3, <2>1 DEF Root
  <1>13. WaitsOK(heap', pc', held', ran', period')
    <2>1. held \subseteq 1 .. n /\ ran \subseteq 1 .. n /\ n + 1 \notin 1 .. n
      BY <1>1, <1>2 DEF Sizes
    <2>2. Ids(heap, Waits(heap, pc)) \subseteq 1 .. n
      BY <1>4 DEF Ids, Waits, EntriesOK
    <2>3. \A t \in held : t \in Ids(heap, Waits(heap, pc)) \/ (t \in ran /\ period[t] = 0)
      BY <1>1 DEF WaitsOK
    <2>4. \A t \in Ids(heap, Waits(heap, pc)) : period[t] = 0 => t \notin ran
      BY <1>1 DEF WaitsOK
    <2> DEFINE W == Ids(heap, Waits(heap, pc))
               V == Ids(heap', Waits(heap', pc))
    <2>5. V = W \cup {n + 1}
      BY <1>8
    <2> HIDE DEF V, W
    <2>6. \A t \in held' : t \in V \/ (t \in ran' /\ period'[t] = 0)
      BY <1>2, <1>9, <2>1, <2>3, <2>5 DEF W
    <2>7. \A t \in V : period'[t] = 0 => t \notin ran'
      BY <1>2, <1>9, <2>1, <2>2, <2>4, <2>5 DEF W
    <2> QED  BY <1>2, <1>8, <2>6, <2>7 DEF WaitsOK, V
  <1>14. Others'
    BY <1>1, <1>2 DEF Others
  <1>15. OwnerOK(n + 1, owner', held', own')
    <2>1. own \subseteq 1 .. n /\ n + 1 \notin own /\ 1 .. n \subseteq 1 .. n + 1
      BY <1>1, <1>2 DEF OwnerOK
    <2>2. owner = "freed" => held \cap own = {}
      BY <1>1 DEF OwnerOK
    <2>3. own' \subseteq 1 .. n + 1
      <3> HIDE DEF n
      <3>1. own' = own \/ own' = own \cup {n + 1}
        BY DEF n
      <3>2. own \subseteq 1 .. n + 1 /\ n + 1 \in 1 .. n + 1
        <4>1. n + 1 \in 1 .. n + 1
          BY <1>2
        <4> QED  BY <2>1, <4>1
      <3> QED  BY <3>1, <3>2
    <2>4. owner' = "freed" => held' \cap own' = {}
      BY <1>2, <2>1, <2>2
    <2> QED  BY <2>3, <2>4 DEF OwnerOK
  <1> QED  BY <1>9, <1>11, <1>12, <1>13, <1>14, <1>15, InvNext

LEMMA RunMinKeeps ==
    ASSUME TimerIInv, RunMin, UNCHANGED mixinVars
    PROVE  TimerIInv'
  <1> DEFINE n == Len(period)
             id == heap[1].id
             x == [id |-> id, due |-> period[id]]
             all == Ids(heap, 1 .. Len(heap))
  <1>1. /\ Sizes(n, heap, period, held, ran, armed) /\ Others /\ Root(heap, pc, armed)
        /\ WaitsOK(heap, pc, held, ran, period) /\ OwnerOK(Len(period), owner, held, own)
    BY InvParts
  <1>2. /\ pc = "handle" /\ heap # <<>> /\ id \in held
        /\ IF period[id] = 0 THEN heap' = heap /\ armed' = armed
           ELSE heap' = H!Insert(heap, x) /\ armed' = (IF heap = <<>> THEN Armed(x.due) ELSE armed)
        /\ ran' = ran \cup {id} /\ pc' = "handler" /\ period' = period /\ held' = held /\ lag' = lag
        /\ owner' = owner /\ refs' = refs /\ own' = own
    BY DEF RunMin, Insert, mixinVars, Min, H!FindMin
  <1>3. /\ heap \in Seq(Entry) /\ EntriesOK(heap, 1 .. n) /\ n \in Nat
        /\ held \subseteq 1 .. n /\ id \in 1 .. n /\ 1 \in 1 .. Len(heap)
    <2>1. heap \in Seq(Entry) /\ EntriesOK(heap, 1 .. n) /\ n \in Nat /\ held \subseteq 1 .. n
      BY <1>1 DEF Sizes
    <2>2. 1 \in 1 .. Len(heap)
      BY <1>2, <2>1
    <2> QED  BY <2>1, <2>2 DEF EntriesOK
  <1>4. armed = None
    BY <1>1, <1>2 DEF Root
  <1>5. /\ Distinct(heap, 1 .. Len(heap))
        /\ \A t \in held : t \in all \/ (t \in ran /\ period[t] = 0)
        /\ \A t \in all : period[t] = 0 => t \notin ran
    <2>1. Waits(heap, pc) = 1 .. Len(heap)
      BY <1>2, <1>3, WaitsIs
    <2> QED  BY <1>1, <2>1 DEF WaitsOK
  <1>6. /\ Distinct(heap, 2 .. Len(heap))
        /\ Ids(heap, 2 .. Len(heap)) = all \ {id} /\ id \in all
    BY <1>2, <1>3, <1>5, RootOut
  <1>7. Others' /\ OwnerOK(Len(period'), owner', held', own')
    BY <1>1, <1>2 DEF Others, OwnerOK
  <1>8. Waits(heap, "handler") = 2 .. Len(heap)
    BY <1>3, WaitsIs
  <1>9. ran' \subseteq 1 .. n
    BY <1>1, <1>2, <1>3 DEF Sizes
  <1> HIDE DEF id, all
  <1>10. CASE period[id] = 0
    <2>1. Sizes(n, heap', period', held', ran', armed')
      BY <1>1, <1>2, <1>9, <1>10 DEF Sizes
    <2>2. Root(heap', pc', armed')
      BY <1>2, <1>4, <1>10 DEF Root
    <2>3. WaitsOK(heap', pc', held', ran', period')
      <3>1. \A t \in held : t \in all \ {id} \/ (t \in ran \cup {id} /\ period[t] = 0)
        BY <1>5, <1>10
      <3>2. \A t \in all \ {id} : period[t] = 0 => t \notin ran \cup {id}
        BY <1>5
      <3> QED  BY <1>2, <1>6, <1>8, <1>10, <3>1, <3>2 DEF WaitsOK
    <2> QED  BY <1>2, <1>7, <2>1, <2>2, <2>3, InvNext
  <1>11. CASE period[id] # 0
    <2>1. period[id] \in Periods /\ period[id] \in Dues /\ period[id] \in Int
      <3>1. period[id] \in Periods \cup {0}
        BY <1>1, <1>3 DEF Sizes
      <3> QED  BY <1>11, <3>1, DueIn
    <2>2. x \in Entry /\ x.id = id /\ x.due = period[id]
      BY <1>3, <2>1 DEF Entry
    <2>3. ~EntryLess(x, heap[1])
      <3>1. x.id = heap[1].id /\ heap[1].id \in Nat
        BY <1>3, <2>2 DEF id
      <3> QED  BY <3>1 DEF EntryLess
    <2>4. heap' = H!Insert(heap, x) /\ armed' = None
      BY <1>2, <1>4, <1>11
    <2> HIDE DEF x
    <2>5. Inserted(heap', heap, x)
      BY <1>3, <2>2, <2>3, <2>4, HeapInsert
    <2>6. /\ Distinct(heap', Waits(heap', "handler"))
          /\ Ids(heap', Waits(heap', "handler")) = all
      <3>1. x.id \notin Ids(heap, Waits(heap, "handler"))
        BY <1>6, <1>8, <2>2
      <3>2. Distinct(heap, Waits(heap, "handler"))
        BY <1>6, <1>8
      <3>3. /\ Distinct(heap', Waits(heap', "handler"))
            /\ Ids(heap', Waits(heap', "handler")) = Ids(heap, Waits(heap, "handler")) \cup {x.id}
        BY <1>2, <1>3, <2>2, <2>3, <2>4, <3>1, <3>2, InsertWaits
      <3> QED  BY <1>6, <1>8, <2>2, <3>3
    <2>7. Sizes(n, heap', period', held', ran', armed')
      <3>1. EntriesOK(heap', 1 .. n)
        <4> SUFFICES ASSUME NEW i \in 1 .. Len(heap')
                     PROVE  heap'[i].id \in 1 .. n /\ heap'[i].due \in Dues
          BY DEF EntriesOK
        <4>1. heap'[i] = x \/ \E j \in 1 .. Len(heap) : heap'[i] = heap[j]
          BY <2>5 DEF Inserted
        <4>2. \A j \in 1 .. Len(heap) : heap[j].id \in 1 .. n /\ heap[j].due \in Dues
          BY <1>3 DEF EntriesOK
        <4> QED  BY <1>3, <2>1, <2>2, <4>1, <4>2
      <3>2. heap' \in Seq(Entry)
        BY <2>5 DEF Inserted
      <3> QED  BY <1>1, <1>2, <1>9, <2>4, <3>1, <3>2 DEF Sizes
    <2>8. Root(heap', pc', armed')
      <3>1. heap' # <<>>
        BY <1>3, <2>5 DEF Inserted
      <3> QED  BY <1>2, <2>4, <3>1 DEF Root
    <2>9. WaitsOK(heap', pc', held', ran', period')
      <3>1. \A t \in held : t \in all \/ (t \in ran \cup {id} /\ period[t] = 0)
        BY <1>5
      <3>2. \A t \in all : period[t] = 0 => t \notin ran \cup {id}
        BY <1>5, <1>11
      <3> QED  BY <1>2, <2>6, <3>1, <3>2 DEF WaitsOK
    <2> QED  BY <1>2, <1>7, <2>7, <2>8, <2>9, InvNext
  <1> QED  BY <1>10, <1>11

\* The root leaves the queue: what remains, and who waits.
LEMMA RootGone ==
    ASSUME TimerIInv, heap # <<>>, heap' = H!DeleteMin(heap)
    PROVE  /\ heap' \in Seq(Entry) /\ EntriesOK(heap', 1 .. Len(period))
           /\ Distinct(heap, 2 .. Len(heap)) => Distinct(heap', 1 .. Len(heap'))
           /\ Ids(heap', 1 .. Len(heap')) = Ids(heap, 2 .. Len(heap))
  <1>1. heap \in Seq(Entry) /\ EntriesOK(heap, 1 .. Len(period))
    BY InvParts DEF Sizes
  <1>2. /\ heap' \in Seq(Entry)
        /\ \A i \in 1 .. Len(heap') : \E j \in 1 .. Len(heap) : heap'[i] = heap[j]
    BY <1>1, HeapDelete, SMTT(60)
  <1>3. Distinct(heap, 2 .. Len(heap)) => Distinct(heap', 1 .. Len(heap'))
    BY <1>1, HeapDelete
  <1>4. Ids(heap', 1 .. Len(heap')) = Ids(heap, 2 .. Len(heap))
    BY <1>1, HeapDelete
  <1>5. EntriesOK(heap', 1 .. Len(period))
    BY <1>1, <1>2 DEF EntriesOK
  <1> QED  BY <1>2, <1>3, <1>4, <1>5

LEMMA HandlerReturnsKeeps ==
    ASSUME TimerIInv, HandlerReturns, UNCHANGED mixinVars
    PROVE  TimerIInv'
  <1> DEFINE n == Len(period)
  <1>1. /\ Sizes(n, heap, period, held, ran, armed) /\ Others /\ Root(heap, pc, armed)
        /\ WaitsOK(heap, pc, held, ran, period) /\ OwnerOK(Len(period), owner, held, own)
    BY InvParts
  <1>2. /\ pc = "handler" /\ pc' = "handle" /\ heap' = H!DeleteMin(heap) /\ period' = period
        /\ held' = held /\ ran' = ran /\ armed' = armed /\ lag' = lag
        /\ owner' = owner /\ refs' = refs /\ own' = own
    BY DEF HandlerReturns, DeleteMin, mixinVars
  <1>3. heap # <<>> /\ armed = None
    BY <1>1, <1>2 DEF Root
  <1>4. heap \in Seq(Entry)
    BY <1>1 DEF Sizes
  <1>5. /\ heap' \in Seq(Entry) /\ EntriesOK(heap', 1 .. n)
        /\ Distinct(heap, 2 .. Len(heap)) => Distinct(heap', 1 .. Len(heap'))
        /\ Ids(heap', 1 .. Len(heap')) = Ids(heap, 2 .. Len(heap))
    BY <1>2, <1>3, RootGone
  <1>6. Sizes(n, heap', period', held', ran', armed')
    BY <1>1, <1>2, <1>5 DEF Sizes
  <1>7. Root(heap', pc', armed')
    BY <1>2, <1>3 DEF Root
  <1>8. Waits(heap, pc) = 2 .. Len(heap) /\ Waits(heap', pc') = 1 .. Len(heap')
    BY <1>2, <1>4, <1>5, WaitsIs
  <1>9. WaitsOK(heap', pc', held', ran', period')
    BY <1>1, <1>2, <1>5, <1>8 DEF WaitsOK
  <1>10. Others' /\ OwnerOK(Len(period'), owner', held', own')
    BY <1>1, <1>2 DEF Others, OwnerOK
  <1> QED  BY <1>2, <1>6, <1>7, <1>9, <1>10, InvNext

LEMMA DropExpiredKeeps ==
    ASSUME TimerIInv, DropExpired, UNCHANGED mixinVars
    PROVE  TimerIInv'
  <1> DEFINE n == Len(period)
             all == Ids(heap, 1 .. Len(heap))
  <1>1. /\ Sizes(n, heap, period, held, ran, armed) /\ Others /\ Root(heap, pc, armed)
        /\ WaitsOK(heap, pc, held, ran, period) /\ OwnerOK(Len(period), owner, held, own)
    BY InvParts
  <1>2. /\ pc = "handle" /\ heap # <<>> /\ heap[1].id \notin held
        /\ pc' = pc /\ heap' = H!DeleteMin(heap) /\ period' = period
        /\ held' = held /\ ran' = ran /\ armed' = armed /\ lag' = lag
        /\ owner' = owner /\ refs' = refs /\ own' = own
    BY DEF DropExpired, DeleteMin, mixinVars, Min, H!FindMin
  <1>3. heap \in Seq(Entry)
    BY <1>1 DEF Sizes
  <1>4. /\ heap' \in Seq(Entry) /\ EntriesOK(heap', 1 .. n)
        /\ Distinct(heap, 2 .. Len(heap)) => Distinct(heap', 1 .. Len(heap'))
        /\ Ids(heap', 1 .. Len(heap')) = Ids(heap, 2 .. Len(heap))
    BY <1>2, RootGone
  <1>5. Sizes(n, heap', period', held', ran', armed')
    BY <1>1, <1>2, <1>4 DEF Sizes
  <1>6. Root(heap', pc', armed')
    BY <1>1, <1>2 DEF Root
  <1>7. Waits(heap, pc) = 1 .. Len(heap) /\ Waits(heap', pc') = 1 .. Len(heap')
    BY <1>2, <1>3, <1>4, WaitsIs
  <1>8. /\ Distinct(heap, 1 .. Len(heap))
        /\ \A t \in held : t \in all \/ (t \in ran /\ period[t] = 0)
        /\ \A t \in all : period[t] = 0 => t \notin ran
    BY <1>1, <1>7 DEF WaitsOK
  <1>9. /\ Distinct(heap, 2 .. Len(heap))
        /\ Ids(heap, 2 .. Len(heap)) = all \ {heap[1].id}
    BY <1>2, <1>3, <1>8, RootOut
  <1> HIDE DEF all
  <1>10. WaitsOK(heap', pc', held', ran', period')
    <2>1. \A t \in held : t \in all \ {heap[1].id} \/ (t \in ran /\ period[t] = 0)
      BY <1>2, <1>8
    <2>2. \A t \in all \ {heap[1].id} : period[t] = 0 => t \notin ran
      BY <1>8
    <2>3. Ids(heap', Waits(heap', pc')) = all \ {heap[1].id} /\ Distinct(heap', Waits(heap', pc'))
      BY <1>4, <1>7, <1>9
    <2> QED  BY <1>2, <2>1, <2>2, <2>3 DEF WaitsOK
  <1>11. Others' /\ OwnerOK(Len(period'), owner', held', own')
    BY <1>1, <1>2 DEF Others, OwnerOK
  <1> QED  BY <1>2, <1>5, <1>6, <1>10, <1>11, InvNext

\* The entries wait, or the loop sleeps, on the same entries as before.
LEMMA SameWaits ==
    ASSUME TimerIInv, pc # "handler", pc' # "handler", UNCHANGED <<heap, period, held, ran>>
    PROVE  WaitsOK(heap', pc', held', ran', period')
  <1>1. WaitsOK(heap, pc, held, ran, period) /\ heap \in Seq(Entry)
    BY InvParts DEF Sizes
  <1>2. Waits(heap, pc) = Waits(heap, pc')
    BY <1>1, WaitsIs
  <1> QED  BY <1>1, <1>2 DEF WaitsOK

LEMMA ReadTimerfdKeeps ==
    ASSUME TimerIInv, ReadTimerfd, UNCHANGED mixinVars
    PROVE  TimerIInv'
  <1>1. /\ Sizes(Len(period), heap, period, held, ran, armed) /\ Others
        /\ OwnerOK(Len(period), owner, held, own)
    BY InvParts
  <1>2. /\ pc = "idle" /\ pc' = "handle" /\ armed' = None /\ lag' = 0
        /\ heap' = heap /\ period' = period /\ held' = held /\ ran' = ran
        /\ owner' = owner /\ refs' = refs /\ own' = own
    BY DEF ReadTimerfd, mixinVars
  <1>3. Sizes(Len(period), heap', period', held', ran', armed')
    BY <1>1, <1>2 DEF Sizes
  <1>4. Root(heap', pc', armed')
    BY <1>2 DEF Root
  <1>5. WaitsOK(heap', pc', held', ran', period')
    BY <1>2, SameWaits
  <1>6. Others' /\ OwnerOK(Len(period'), owner', held', own')
    BY <1>1, <1>2, TimerAssumption DEF Others, OwnerOK
  <1> QED  BY <1>2, <1>3, <1>4, <1>5, <1>6, InvNext

LEMMA RearmKeeps ==
    ASSUME TimerIInv, Rearm, UNCHANGED mixinVars
    PROVE  TimerIInv'
  <1>1. /\ Sizes(Len(period), heap, period, held, ran, armed) /\ Others /\ Root(heap, pc, armed)
        /\ OwnerOK(Len(period), owner, held, own)
    BY InvParts
  <1>2. /\ pc = "handle" /\ pc' = "idle" /\ lag' = 0
        /\ armed' = (IF heap = <<>> THEN armed ELSE Armed(heap[1].due))
        /\ heap' = heap /\ period' = period /\ held' = held /\ ran' = ran
        /\ owner' = owner /\ refs' = refs /\ own' = own
    BY DEF Rearm, mixinVars, Min, H!FindMin
  <1>3. armed = None
    BY <1>1, <1>2 DEF Root
  <1>4. armed' \in 0 .. MaxDelay \cup {None}
    <2>1. heap # <<>> => heap[1].due \in Dues
      <3>1. heap \in Seq(Entry) /\ EntriesOK(heap, 1 .. Len(period))
        BY <1>1 DEF Sizes
      <3>2. heap # <<>> => 1 \in 1 .. Len(heap)
        BY <3>1
      <3> QED  BY <3>1, <3>2 DEF EntriesOK
    <2> QED  BY <1>2, <1>3, <2>1, DueIn
  <1>5. Sizes(Len(period), heap', period', held', ran', armed')
    BY <1>1, <1>2, <1>4 DEF Sizes
  <1>6. Root(heap', pc', armed')
    BY <1>2, <1>3 DEF Root
  <1>7. WaitsOK(heap', pc', held', ran', period')
    BY <1>2, SameWaits
  <1>8. Others' /\ OwnerOK(Len(period'), owner', held', own')
    BY <1>1, <1>2, TimerAssumption DEF Others, OwnerOK
  <1> QED  BY <1>2, <1>5, <1>6, <1>7, <1>8, InvNext

\* Timers are cancelled, or go with their owner.
LEMMA CancelKeeps ==
    ASSUME TimerIInv, UNCHANGED <<heap, period, ran, armed, pc, lag>>, held' \subseteq held,
           owner' \in {"alive", "destroyed", "freed"}, refs' \in BOOLEAN,
           OwnerOK(Len(period), owner', held', own')
    PROVE  TimerIInv'
  <1>1. /\ Sizes(Len(period), heap, period, held, ran, armed) /\ Others /\ Root(heap, pc, armed)
        /\ WaitsOK(heap, pc, held, ran, period)
    BY InvParts
  <1>2. Sizes(Len(period), heap', period', held', ran', armed')
    BY <1>1 DEF Sizes
  <1>3. Root(heap', pc', armed')
    BY <1>1 DEF Root
  <1>4. WaitsOK(heap', pc', held', ran', period')
    BY <1>1 DEF WaitsOK
  <1>5. Others'
    BY <1>1 DEF Others
  <1> QED  BY <1>2, <1>3, <1>4, <1>5, InvNext

LEMMA TickKeeps ==
    ASSUME TimerIInv, Tick, UNCHANGED mixinVars
    PROVE  TimerIInv'
  <1> DEFINE n == Len(period)
             m == Len(heap)
  <1>1. /\ Sizes(n, heap, period, held, ran, armed) /\ Others /\ Root(heap, pc, armed)
        /\ WaitsOK(heap, pc, held, ran, period) /\ OwnerOK(Len(period), owner, held, own)
    BY InvParts
  <1>2. /\ pc \in {"idle", "handler"} /\ (pc = "handler" => lag < MaxOverdue)
        /\ heap' = [i \in 1 .. m |-> [heap[i] EXCEPT !.due = AtLeast(@ - 1, -MaxOverdue)]]
        /\ armed' = (IF armed = None THEN None ELSE AtLeast(armed - 1, 0))
        /\ lag' = (IF pc = "handler" THEN lag + 1 ELSE lag)
        /\ period' = period /\ held' = held /\ ran' = ran /\ pc' = pc
        /\ owner' = owner /\ refs' = refs /\ own' = own
    BY DEF Tick, UserCode, mixinVars
  <1>3. heap \in Seq(Entry) /\ EntriesOK(heap, 1 .. n) /\ m \in Nat
    BY <1>1 DEF Sizes
  <1>4. MaxOverdue \in Nat /\ MaxDelay \in Nat /\ None \notin Int
    BY MaxDelayIs, TimerAssumption
  <1>5. ASSUME NEW i \in 1 .. m
        PROVE  /\ heap[i] \in Entry /\ heap[i].due \in Dues /\ heap[i].id \in 1 .. n
               /\ heap'[i] = [heap[i] EXCEPT !.due = AtLeast(@ - 1, -MaxOverdue)]
    <2>1. heap[i] \in Entry
      BY <1>3
    <2>2. heap[i].due \in Dues /\ heap[i].id \in 1 .. n
      BY <1>3 DEF EntriesOK
    <2>3. heap'[i] = [heap[i] EXCEPT !.due = AtLeast(@ - 1, -MaxOverdue)]
      BY <1>2
    <2> QED  BY <2>1, <2>2, <2>3
  <1>6. \A d \in Dues : AtLeast(d - 1, -MaxOverdue) \in Dues
    BY <1>4 DEF AtLeast, Dues
  <1>6a. \A e \in Entry : \A d \in Int : /\ [e EXCEPT !.due = d] \in Entry
                                         /\ [e EXCEPT !.due = d].id = e.id
                                         /\ [e EXCEPT !.due = d].due = d
    BY DEF Entry
  <1>7. ASSUME NEW i \in 1 .. m
        PROVE  /\ heap'[i] \in Entry /\ heap'[i].id = heap[i].id /\ heap'[i].due \in Dues
               /\ heap'[i].due = AtLeast(heap[i].due - 1, -MaxOverdue)
    <2> DEFINE d == AtLeast(heap[i].due - 1, -MaxOverdue)
    <2>1. heap[i] \in Entry /\ heap'[i] = [heap[i] EXCEPT !.due = d]
      BY <1>5
    <2>2. d \in Dues /\ d \in Int
      <3>1. d \in Dues
        BY <1>5, <1>6
      <3> QED  BY <3>1, DueIn
    <2> HIDE DEF d
    <2>3. heap'[i] \in Entry /\ heap'[i].id = heap[i].id /\ heap'[i].due = d
      BY <1>6a, <2>1, <2>2
    <2> QED  BY <2>2, <2>3 DEF d
  <1>8. heap' \in Seq(Entry) /\ Len(heap') = m
    <2>1. heap' \in [1 .. m -> Entry]
      BY <1>2, <1>7
    <2> HIDE DEF m
    <2>2. heap' \in Seq(Entry)
      BY <1>3, <2>1
    <2> QED  BY <1>3, <2>1, <2>2
  <1>9. EntriesOK(heap', 1 .. n)
    BY <1>5, <1>7, <1>8 DEF EntriesOK
  <1>10. armed' \in 0 .. MaxDelay \cup {None}
    <2>1. armed \in 0 .. MaxDelay \cup {None}
      BY <1>1 DEF Sizes
    <2> QED  BY <1>2, <1>4, <2>1 DEF AtLeast
  <1>11. Sizes(n, heap', period', held', ran', armed')
    BY <1>1, <1>2, <1>8, <1>9, <1>10 DEF Sizes
  <1>12. Root(heap', pc', armed')
    <2>1. heap' = <<>> <=> heap = <<>>
      BY <1>3, <1>8
    <2>2. CASE heap = <<>>
      BY <1>1, <1>2, <2>1, <2>2 DEF Root
    <2>3. CASE heap # <<>>
      <3>1. 1 \in 1 .. m
        BY <1>3, <2>3
      <3>2. heap[1].due \in Int /\ heap'[1].due = AtLeast(heap[1].due - 1, -MaxOverdue)
        BY <1>5, <1>7, <3>1, DueIn
      <3>3. AtLeast(Armed(heap[1].due) - 1, 0) = Armed(heap'[1].due)
        BY <1>4, <3>2 DEF Armed, AtLeast
      <3>4. Armed(heap[1].due) \in Int
        <4>1. Armed(heap[1].due) \in 0 .. MaxDelay
          BY <1>5, <3>1, DueIn
        <4> QED  BY <1>4, <4>1
      <3> QED  BY <1>1, <1>2, <1>4, <2>1, <2>3, <3>3, <3>4 DEF Root
    <2> QED  BY <2>2, <2>3
  <1>13. WaitsOK(heap', pc', held', ran', period')
    <2>1. Waits(heap', pc') = Waits(heap, pc) /\ Waits(heap, pc) \subseteq 1 .. m
      BY <1>2, <1>8 DEF Waits
    <2>2. Ids(heap', Waits(heap', pc')) = Ids(heap, Waits(heap, pc))
      BY <1>7, <2>1 DEF Ids
    <2>3. Distinct(heap, Waits(heap, pc))
      BY <1>1 DEF WaitsOK
    <2>4. Distinct(heap', Waits(heap', pc'))
      BY <1>7, <2>1, <2>3 DEF Distinct
    <2> QED  BY <1>1, <1>2, <2>2, <2>4 DEF WaitsOK
  <1>14. Others' /\ OwnerOK(Len(period'), owner', held', own')
    BY <1>1, <1>2, <1>4 DEF Others, OwnerOK
  <1> QED  BY <1>2, <1>11, <1>12, <1>13, <1>14, InvNext

LEMMA TimersInit == MixinInit => TimerIInv
  <1> SUFFICES ASSUME MixinInit PROVE TimerIInv
    OBVIOUS
  <1>1. /\ heap = <<>> /\ period = <<>> /\ held = {} /\ ran = {} /\ armed = None /\ pc = "idle"
        /\ lag = 0 /\ owner = "alive" /\ refs \in BOOLEAN /\ own = {}
    BY DEF MixinInit, Init
  <1>2. Sizes(Len(period), heap, period, held, ran, armed)
    BY <1>1, TimerAssumption DEF Sizes, EntriesOK
  <1>3. WaitsOK(heap, pc, held, ran, period)
    BY <1>1 DEF WaitsOK, Distinct, Waits, Ids
  <1>4. Root(heap, pc, armed) /\ Others /\ OwnerOK(Len(period), owner, held, own)
    BY <1>1, TimerAssumption DEF Root, Others, OwnerOK
  <1> QED  BY <1>1, <1>2, <1>3, <1>4, InvParts

LEMMA TimersNext == TimerIInv /\ [MixinNext]_allVars => TimerIInv'
  <1> SUFFICES ASSUME TimerIInv, [MixinNext]_allVars PROVE TimerIInv'
    OBVIOUS
  <1>0. Others /\ held \subseteq 1 .. Len(period) /\ OwnerOK(Len(period), owner, held, own)
    BY InvParts DEF Sizes
  <1>1a. ASSUME MakeTimer
         PROVE  \E p \in Periods \cup {0} : \E due \in Dues : New(p, due)
    BY <1>1a, DueIn DEF MakeTimer, RunAt, RunEvery
  <1>1. CASE RunTimer
    <2>1. \E p \in Periods \cup {0} : \E due \in Dues : New(p, due)
      BY <1>1, <1>1a DEF RunTimer
    <2>2. UNCHANGED <<owner, refs>> /\ owner # "freed" /\ own' = own \cup {Len(period) + 1}
      BY <1>1 DEF RunTimer
    <2> QED  BY <2>1, <2>2, NewKeeps
  <1>2. ASSUME NEW t \in held, CancelTimer(t), UNCHANGED mixinVars
        PROVE  TimerIInv'
    <2>1. UNCHANGED <<heap, period, ran, armed, pc, lag>> /\ held' \subseteq held
      BY <1>2 DEF CancelTimer
    <2>2. owner' = owner /\ refs' = refs /\ own' = own
      BY <1>2 DEF mixinVars
    <2>3. OwnerOK(Len(period), owner', held', own')
      BY <1>0, <2>1, <2>2 DEF OwnerOK
    <2> QED  BY <1>0, <2>1, <2>2, <2>3, CancelKeeps DEF Others
  <1>2a. CASE MixinCancelTimer
    BY <1>2, <1>2a DEF MixinCancelTimer
  <1>3. CASE CancelAllTimer
    <2>1. UNCHANGED <<heap, period, ran, armed, pc, lag>> /\ held' = held \ own
      BY <1>3 DEF CancelAllTimer
    <2>2. owner' = owner /\ refs' = refs /\ own' = own
      BY <1>3 DEF CancelAllTimer, mixinVars
    <2>3. OwnerOK(Len(period), owner', held', own')
      BY <1>0, <2>1, <2>2 DEF OwnerOK
    <2> QED  BY <1>0, <2>1, <2>2, <2>3, CancelKeeps DEF Others
  <1>4. CASE Destroy
    <2>1. UNCHANGED <<heap, period, ran, armed, pc, lag, own>> /\ refs' = refs
      BY <1>4 DEF Destroy
    <2>2. (owner' = "destroyed" /\ held' = held) \/ (owner' = "freed" /\ held' = held \ own)
      BY <1>4 DEF Destroy, Freed
    <2>3. OwnerOK(Len(period), owner', held', own') /\ held' \subseteq held
      BY <1>0, <2>1, <2>2 DEF OwnerOK
    <2> QED  BY <1>0, <2>1, <2>2, <2>3, CancelKeeps DEF Others
  <1>5. CASE DropRef
    <2>1. UNCHANGED <<heap, period, ran, armed, pc, lag, own>> /\ refs' = FALSE
      BY <1>5 DEF DropRef
    <2>2. (owner' = owner /\ held' = held) \/ (owner' = "freed" /\ held' = held \ own)
      BY <1>5 DEF DropRef, Freed
    <2>3. OwnerOK(Len(period), owner', held', own') /\ held' \subseteq held
      BY <1>0, <2>1, <2>2 DEF OwnerOK
    <2> QED  BY <1>0, <2>1, <2>2, <2>3, CancelKeeps DEF Others
  <1>5a. CASE OthersTimer
    <2>1. UNCHANGED mixinVars
      BY <1>5a DEF OthersTimer
    <2>2. CASE MakeTimer
      BY <1>1a, <2>1, <2>2, NewKeeps DEF mixinVars
    <2>3. CASE \E t \in held \ own : CancelTimer(t)
      BY <1>2, <2>1, <2>3
    <2> QED  BY <1>5a, <2>2, <2>3 DEF OthersTimer
  <1>6. CASE QueueHandling
    BY <1>6, ReadTimerfdKeeps, RunMinKeeps, HandlerReturnsKeeps, DropExpiredKeeps, RearmKeeps
    DEF QueueHandling, Handling
  <1>7. CASE QueueTick
    BY <1>7, TickKeeps DEF QueueTick
  <1>8. CASE UNCHANGED allVars
    <2>1. /\ UNCHANGED <<heap, period, ran, armed, pc, lag>>
          /\ held' = held /\ owner' = owner /\ refs' = refs /\ own' = own
      BY <1>8 DEF allVars, vars, mixinVars
    <2> QED  BY <1>0, <2>1, CancelKeeps DEF Others
  <1> QED  BY <1>1, <1>2a, <1>3, <1>4, <1>5, <1>5a, <1>6, <1>7, <1>8 DEF MixinNext

LEMMA TimersInvariance == MixinSpec => []TimerIInv
  BY TimersInit, TimersNext, PTL DEF MixinSpec

\* The types, and the loop never sleeps on a wrong timeout: when entries wait, the
\* timerfd is set for the one at the root, or readable (TimerQueue.cpp:104-146).
THEOREM TimersSafe == MixinSpec => []MixinInv
  <1>1. TimerIInv => MixinInv
    BY DEF TimerIInv, MixinInv
  <1> QED  BY <1>1, TimersInvariance, PTL

\* What percolation does to the array, delete_min after a handler takes out the
\* entry that was run: a timer that still exists and has something to do has
\* exactly one entry that waits (TimerQueue.cpp:90-102).
THEOREM TimersKept == MixinSpec => []NoTimerLost
  <1>1. ASSUME TimerIInv
        PROVE  NoTimerLost
    <2>1. WaitsOK(heap, pc, held, ran, period)
      BY <1>1, InvParts
    <2> SUFFICES ASSUME NEW t \in held
                 PROVE  LET waiting == Entries(t) \ (IF pc = "handler" THEN {1} ELSE {})
                        IN  \/ \E i \in waiting : waiting = {i}
                            \/ waiting = {} /\ t \in ran /\ period[t] = 0
      BY DEF NoTimerLost
    <2> DEFINE W == Waits(heap, pc)
               waiting == Entries(t) \ (IF pc = "handler" THEN {1} ELSE {})
    <2>2. waiting = {i \in W : heap[i].id = t}
      BY DEF Entries, Waits
    <2>3. \A i, j \in W : heap[i].id = heap[j].id => i = j
      BY <2>1 DEF WaitsOK, Distinct
    <2>4. t \in Ids(heap, W) \/ (t \in ran /\ period[t] = 0)
      BY <2>1 DEF WaitsOK
    <2> HIDE DEF waiting, W
    <2>5. CASE t \in Ids(heap, W)
      <3>1. PICK i \in W : heap[i].id = t
        BY <2>5 DEF Ids
      <3>2. waiting = {i}
        BY <2>2, <2>3, <3>1
      <3> QED  BY <3>2 DEF waiting
    <2>6. CASE t \notin Ids(heap, W)
      <3>1. waiting = {}
        BY <2>2, <2>6 DEF Ids
      <3> QED  BY <2>4, <2>6, <3>1 DEF waiting
    <2> QED  BY <2>5, <2>6
  <1> QED  BY <1>1, TimersInvariance, PTL

\* Whatever the heap's order comes to, a handler is started only for a timer whose
\* time has come, that nobody has cancelled, that has not run unless it is
\* periodic, and a timer of the object only while the object still exists
\* (TimerQueue.cpp:84-102).
THEOREM TimersStartRightly == MixinSpec => StartedRightly
  <1>1. ASSUME TimerIInv, [MixinNext]_allVars, StartsHandler
        PROVE  /\ Min.due <= 0
               /\ Min.id \in held
               /\ period[Min.id] = 0 => Min.id \notin ran
               /\ Min.id \in own => owner # "freed"
    <2>1. pc = "handle" /\ pc' = "handler"
      BY <1>1 DEF StartsHandler
    <2>2. RunMin
      BY <1>1, <2>1
      DEF MixinNext, RunTimer, MakeTimer, OthersTimer, RunAt, RunEvery, New, MixinCancelTimer, CancelTimer, CancelAllTimer,
          Destroy, DropRef, QueueHandling, Handling, ReadTimerfd, HandlerReturns, DropExpired, Rearm,
          QueueTick, Tick, allVars, vars, UserCode
    <2>3. /\ Sizes(Len(period), heap, period, held, ran, armed) /\ Others
          /\ WaitsOK(heap, pc, held, ran, period) /\ OwnerOK(Len(period), owner, held, own)
      BY <1>1, InvParts
    <2>4. Min = heap[1] /\ heap # <<>> /\ ~(-lag < Min.due) /\ Min.id \in held
      BY <2>2 DEF RunMin, NotYet, Min, H!FindMin
    <2>5. heap \in Seq(Entry) /\ 1 \in 1 .. Len(heap) /\ heap[1] \in Entry
      BY <2>3, <2>4 DEF Sizes
    <2>6. Min.due <= 0
      <3>1. heap[1].due \in Int
        BY <2>5 DEF Entry
      <3>2. lag \in Nat
        BY <2>3, TimerAssumption DEF Others
      <3> QED  BY <2>4, <3>1, <3>2
    <2>7. Min.id \in Ids(heap, Waits(heap, pc))
      BY <2>1, <2>4, <2>5, WaitsIs DEF Ids
    <2>8. period[Min.id] = 0 => Min.id \notin ran
      BY <2>3, <2>7 DEF WaitsOK
    <2>9. Min.id \in own => owner # "freed"
      BY <2>3, <2>4 DEF OwnerOK
    <2> QED  BY <2>4, <2>6, <2>8, <2>9
  <1>2. TimerIInv /\ [MixinNext]_allVars =>
            [StartsHandler =>
                /\ Min.due <= 0
                /\ Min.id \in held
                /\ period[Min.id] = 0 => Min.id \notin ran
                /\ Min.id \in own => owner # "freed"]_allVars
    BY <1>1
  <1> QED  BY <1>2, TimersInvariance, PTL DEF MixinSpec, StartedRightly
=============================================================================
