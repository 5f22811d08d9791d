-------------------------- MODULE AsyncClient_proofs --------------------------
(***************************************************************************)
(* Every loop gets the answers to its requests once and in the order it    *)
(* made them, and a client's Connection, its count of names and its        *)
(* callbacks agree, for any number of loops, clients and requests.         *)
(*                                                                         *)
(* The lemmas before ResolverOK are about sequences: induction over Nat,   *)
(* and what FlattenSeq makes of a sequence that is put longer at an end.   *)
(***************************************************************************)
EXTENDS AsyncClient, SequenceTheorems, WellFoundedInduction, TLAPS

LEMMA NatMin ==
    ASSUME NEW S, S \subseteq Nat, S # {}
    PROVE  \E n \in S : \A m \in S : n <= m
<1>1. PICK n \in S : \A m \in S : ~ (<<m, n>> \in OpToRel(<, Nat))
  BY NatLessThanWellFounded, WFMin
<1>2. \A m \in S : ~ (m < n)
  BY <1>1 DEF OpToRel
<1> QED
  BY <1>2

LEMMA NatInduct ==
    ASSUME NEW S, 0 \in S, \A n \in Nat : n \in S => n + 1 \in S
    PROVE  Nat \subseteq S
<1> DEFINE B == {n \in Nat : n \notin S}
<1> SUFFICES ASSUME B # {} PROVE FALSE
  OBVIOUS
<1>1. PICK n \in B : \A m \in B : n <= m
  BY NatMin, B \subseteq Nat
<1>2. n # 0 /\ n \in Nat /\ n - 1 \in Nat
  OBVIOUS
<1>3. n - 1 \in S
  BY <1>1, <1>2
<1> QED
  BY <1>2, <1>3

\* The partial concatenations of ss.
Flattens(f, ss, T) ==
    /\ f \in [1 .. Len(ss) -> Seq(T)]
    /\ \A i \in 1 .. Len(ss) : f[i] = IF i = 1 THEN ss[i] ELSE f[i - 1] \o ss[i]

LEMMA FlattensExists ==
    ASSUME NEW T, NEW ss \in Seq(Seq(T))
    PROVE  \E f : Flattens(f, ss, T)
<1> DEFINE Good(n) == \E f : Flattens(f, SubSeq(ss, 1, n), T)
           S == {n \in Nat : n <= Len(ss) => Good(n)}
<1>1. 0 \in S
  <2>1. Flattens(<<>>, SubSeq(ss, 1, 0), T)
    BY DEF Flattens
  <2> QED
    BY <2>1
<1>2. ASSUME NEW n \in Nat, n \in S PROVE n + 1 \in S
  <2> SUFFICES ASSUME n + 1 <= Len(ss) PROVE Good(n + 1)
    OBVIOUS
  <2>1. PICK f : Flattens(f, SubSeq(ss, 1, n), T)
    BY <1>2
  <2>2. Len(SubSeq(ss, 1, n)) = n /\ Len(SubSeq(ss, 1, n + 1)) = n + 1
        /\ (\A i \in 1 .. n : SubSeq(ss, 1, n)[i] = ss[i])
        /\ (\A i \in 1 .. n + 1 : SubSeq(ss, 1, n + 1)[i] = ss[i] /\ ss[i] \in Seq(T))
    OBVIOUS
  <2> DEFINE g == [i \in 1 .. n + 1 |-> IF i <= n THEN f[i] ELSE
                                         IF i = 1 THEN ss[i] ELSE f[i - 1] \o ss[i]]
  <2>3. \A i \in 1 .. n : f[i] \in Seq(T) /\ f[i] = IF i = 1 THEN ss[i] ELSE f[i - 1] \o ss[i]
    BY <2>1, <2>2 DEF Flattens
  <2>4. ASSUME NEW i \in 1 .. n + 1
        PROVE  g[i] \in Seq(T) /\ g[i] = IF i = 1 THEN ss[i] ELSE g[i - 1] \o ss[i]
    <3>1. CASE i <= n
      BY <2>3, <3>1, SMTT(60)
    <3>2. CASE i = n + 1 /\ n = 0
      BY <2>2, <3>2
    <3>3. CASE i = n + 1 /\ n # 0
      <4>1. f[n] \in Seq(T) /\ ss[n + 1] \in Seq(T) /\ g[n + 1] = f[n] \o ss[n + 1] /\ g[n] = f[n]
        <5>1. n \in 1 .. n + 1 /\ n + 1 \in 1 .. n + 1 /\ n \in 1 .. n /\ ~ (n + 1 <= n) /\ n <= n /\ n + 1 # 1
          BY <3>3
        <5>2. (n + 1) - 1 = n
          OBVIOUS
        <5>3. f[n] \in Seq(T) /\ ss[n + 1] \in Seq(T)
          BY <2>2, <2>3, <5>1
        <5>4. g[n] = f[n] /\ g[n + 1] = f[(n + 1) - 1] \o ss[n + 1]
          BY <5>1
        <5> QED
          BY <5>2, <5>3, <5>4
      <4>2. f[n] \o ss[n + 1] \in Seq(T)
        BY <4>1, ConcatProperties
      <4> QED
        BY <3>3, <4>1, <4>2
    <3> QED
      BY <3>1, <3>2, <3>3
  <2>5. g \in [1 .. n + 1 -> Seq(T)]
    BY <2>4
  <2>6. Flattens(g, SubSeq(ss, 1, n + 1), T)
    <3> HIDE DEF g
    <3> QED
      BY <2>2, <2>4, <2>5 DEF Flattens
  <2> QED
    BY <2>6
<1> HIDE DEF S
<1>3. Nat \subseteq S
  BY <1>1, <1>2, NatInduct
<1>4. Len(ss) \in Nat /\ Len(ss) \in S /\ SubSeq(ss, 1, Len(ss)) = ss
  BY <1>3
<1>5. Good(Len(ss))
  BY <1>4 DEF S
<1> QED
  BY <1>4, <1>5

\* ss is a prefix of tt.
Begins(ss, tt) == Len(ss) <= Len(tt) /\ \A i \in 1 .. Len(ss) : ss[i] = tt[i]

LEMMA FlattensUnique ==
    ASSUME NEW T, NEW ss \in Seq(Seq(T)), NEW tt \in Seq(Seq(T)), NEW f, NEW g,
           Flattens(f, ss, T), Flattens(g, tt, T),
           Begins(ss, tt), NEW k \in 1 .. Len(ss)
    PROVE  f[k] = g[k]
<1> USE DEF Begins
<1> DEFINE m == Len(ss)
           S == {n \in Nat : n \in 1 .. m => f[n] = g[n]}
<1>1. 0 \in S
  OBVIOUS
<1>2. ASSUME NEW n \in Nat, n \in S PROVE n + 1 \in S
  <2> SUFFICES ASSUME n + 1 <= m PROVE f[n + 1] = g[n + 1]
    OBVIOUS
  <2>1. n + 1 \in 1 .. Len(ss) /\ n + 1 \in 1 .. Len(tt) /\ n + 1 \in 1 .. m
    OBVIOUS
  <2>2. /\ f[n + 1] = IF n + 1 = 1 THEN ss[n + 1] ELSE f[(n + 1) - 1] \o ss[n + 1]
        /\ g[n + 1] = IF n + 1 = 1 THEN tt[n + 1] ELSE g[(n + 1) - 1] \o tt[n + 1]
    BY <2>1 DEF Flattens
  <2>3. ss[n + 1] = tt[n + 1] /\ (n + 1) - 1 = n
    BY <2>1
  <2> QED
    BY <1>2, <2>1, <2>2, <2>3, SMTT(60)
<1> HIDE DEF S
<1>3. Nat \subseteq S
  BY <1>1, <1>2, NatInduct
<1> QED
  BY <1>3 DEF S

LEMMA FlattenIs ==
    ASSUME NEW T, NEW ss \in Seq(Seq(T)), ss # <<>>
    PROVE  \E f : Flattens(f, ss, T) /\ FlattenSeq(ss) = f[Len(ss)]
<1>1. PICK f : Flattens(f, ss, T)
  BY FlattensExists
<1> DEFINE Fun(g) == g = [i \in 1 .. Len(ss) |-> IF i = 1 THEN ss[i] ELSE g[i - 1] \o ss[i]]
           h == CHOOSE g : Fun(g)
<1>2. Fun(f)
  BY <1>1 DEF Flattens
<1>3. Fun(h)
  BY <1>2, Zenon
<1>4. FlattenSeq(ss) = h[Len(ss)]
  BY Len(ss) # 0 DEF FlattenSeq
<1>5. \A i \in 1 .. Len(ss) : h[i] = IF i = 1 THEN ss[i] ELSE h[i - 1] \o ss[i]
  BY <1>3
<1> HIDE DEF h
<1>6. \A i \in 1 .. Len(ss) : h[i] = f[i]
  <2> DEFINE S == {n \in Nat : n \in 1 .. Len(ss) => h[n] = f[n]}
  <2>1. 0 \in S
    OBVIOUS
  <2>2. ASSUME NEW n \in Nat, n \in S PROVE n + 1 \in S
    <3> SUFFICES ASSUME n + 1 <= Len(ss) PROVE h[n + 1] = f[n + 1]
      OBVIOUS
    <3>1. n + 1 \in 1 .. Len(ss)
      OBVIOUS
    <3>2. /\ h[n + 1] = IF n + 1 = 1 THEN ss[n + 1] ELSE h[(n + 1) - 1] \o ss[n + 1]
          /\ f[n + 1] = IF n + 1 = 1 THEN ss[n + 1] ELSE f[(n + 1) - 1] \o ss[n + 1]
      BY <1>1, <1>5, <3>1 DEF Flattens
    <3>3. (n + 1) - 1 = n /\ (n + 1 # 1 => n \in 1 .. Len(ss))
      BY <3>1
    <3> QED
      BY <2>2, <3>2, <3>3
  <2> HIDE DEF S
  <2>3. Nat \subseteq S
    BY <2>1, <2>2, NatInduct
  <2> QED
    BY <2>3 DEF S
<1> QED
  BY <1>1, <1>4, <1>6, Len(ss) \in 1 .. Len(ss)

\* Concatenation at the end.
LEMMA FlattenAppend ==
    ASSUME NEW T, NEW ss \in Seq(Seq(T)), NEW x \in Seq(T)
    PROVE  /\ FlattenSeq(ss) \in Seq(T)
           /\ FlattenSeq(Append(ss, x)) = FlattenSeq(ss) \o x
<1> DEFINE tt == Append(ss, x)
<1>1. tt \in Seq(Seq(T)) /\ Len(tt) = Len(ss) + 1 /\ tt[Len(tt)] = x
      /\ (\A i \in 1 .. Len(ss) : tt[i] = ss[i]) /\ Len(ss) \in Nat /\ tt # <<>>
  BY AppendProperties
<1> HIDE DEF tt
<1>2. PICK g : Flattens(g, tt, T) /\ FlattenSeq(tt) = g[Len(tt)]
  BY <1>1, FlattenIs
<1>3. CASE ss = <<>>
  <2>1. FlattenSeq(ss) = <<>>
    BY <1>3 DEF FlattenSeq
  <2>2. g[1] = x /\ Len(tt) = 1
    BY <1>1, <1>2, <1>3 DEF Flattens
  <2>3. <<>> \o x = x
    BY ConcatEmptySeq
  <2> QED
    BY <1>2, <2>1, <2>2, <2>3 DEF tt
<1>4. CASE ss # <<>>
  <2>1. PICK f : Flattens(f, ss, T) /\ FlattenSeq(ss) = f[Len(ss)]
    BY <1>4, FlattenIs
  <2>2. Len(ss) \in 1 .. Len(ss) /\ f[Len(ss)] \in Seq(T)
    <3>1. Len(ss) \in 1 .. Len(ss)
      BY <1>1, <1>4, EmptySeq
    <3> QED
      BY <2>1, <3>1 DEF Flattens
  <2>3. g[Len(ss)] = f[Len(ss)]
    <3>1. Begins(ss, tt)
      BY <1>1 DEF Begins
    <3>2. Flattens(f, ss, T) /\ Flattens(g, tt, T)
      BY <1>2, <2>1
    <3> QED
      BY <1>1, <2>2, <3>1, <3>2, FlattensUnique
  <2>4. g[Len(ss) + 1] = g[Len(ss)] \o x
    <3>1. /\ Len(ss) + 1 \in 1 .. Len(tt) /\ Len(ss) + 1 # 1 /\ (Len(ss) + 1) - 1 = Len(ss)
          /\ tt[Len(ss) + 1] = x
      BY <1>1, <2>2
    <3> QED
      BY <1>2, <3>1 DEF Flattens
  <2>5. g[Len(tt)] = FlattenSeq(ss) \o x
    BY <1>1, <2>1, <2>3, <2>4
  <2> QED
    BY <1>2, <2>1, <2>2, <2>5 DEF tt
<1> QED
  BY <1>3, <1>4

\* Concatenation in front.
LEMMA FlattenCons ==
    ASSUME NEW T, NEW ss \in Seq(Seq(T)), NEW x \in Seq(T)
    PROVE  FlattenSeq(<<x>> \o ss) = x \o FlattenSeq(ss)
<1> DEFINE Good(tt) == FlattenSeq(<<x>> \o tt) = x \o FlattenSeq(tt)
           S == {n \in Nat : \A tt \in Seq(Seq(T)) : Len(tt) = n => Good(tt)}
<1>1. 0 \in S
  <2> SUFFICES ASSUME NEW tt \in Seq(Seq(T)), Len(tt) = 0 PROVE Good(tt)
    OBVIOUS
  <2>1. tt = <<>> /\ <<x>> \o tt = Append(<<>>, x) /\ <<>> \in Seq(Seq(T))
    BY EmptySeq
  <2>2. FlattenSeq(<<>>) = <<>>
    BY DEF FlattenSeq
  <2>3. FlattenSeq(Append(<<>>, x)) = <<>> \o x
    BY <2>1, <2>2, FlattenAppend
  <2>4. <<>> \o x = x /\ x \o <<>> = x
    BY ConcatEmptySeq
  <2> QED
    BY <2>1, <2>2, <2>3, <2>4
<1>2. ASSUME NEW n \in Nat, n \in S PROVE n + 1 \in S
  <2>0. n + 1 \in Nat
    OBVIOUS
  <2> SUFFICES ASSUME NEW tt \in Seq(Seq(T)), Len(tt) = n + 1 PROVE Good(tt)
    BY <2>0, Zenon
  <2>1. PICK uu \in Seq(Seq(T)), y \in Seq(T) : tt = Append(uu, y) /\ Len(uu) = n
    <3> DEFINE uu == SubSeq(tt, 1, n)
               y == tt[n + 1]
    <3>1. uu \in Seq(Seq(T)) /\ Len(uu) = n /\ y \in Seq(T)
      OBVIOUS
    <3>2. Append(uu, y) \in Seq(Seq(T)) /\ Len(Append(uu, y)) = Len(tt)
      BY <3>1
    <3>3. \A i \in 1 .. Len(tt) : Append(uu, y)[i] = tt[i]
      BY <3>1
    <3>4. Append(uu, y) = tt
      BY <3>2, <3>3, SeqEqual
    <3> QED
      BY <3>1, <3>4
  <2>2. FlattenSeq(<<x>> \o uu) = x \o FlattenSeq(uu)
    BY <1>2, <2>1
  <2>3. FlattenSeq(tt) = FlattenSeq(uu) \o y /\ FlattenSeq(uu) \in Seq(T)
    BY <2>1, FlattenAppend
  <2>4. <<x>> \in Seq(Seq(T)) /\ <<x>> \o uu \in Seq(Seq(T))
    BY ConcatProperties
  <2>5. <<x>> \o tt = Append(<<x>> \o uu, y)
    <3>1. tt \in Seq(Seq(T)) /\ tt = uu \o <<y>> /\ <<y>> \in Seq(Seq(T))
      BY <2>1, AppendIsConcat
    <3>2. (<<x>> \o uu) \o <<y>> = <<x>> \o (uu \o <<y>>)
      BY <2>4, <3>1, ConcatAssociative
    <3>3. Append(<<x>> \o uu, y) = (<<x>> \o uu) \o <<y>>
      BY <2>4, AppendIsConcat
    <3> QED
      BY <3>1, <3>2, <3>3
  <2>6. FlattenSeq(<<x>> \o tt) = FlattenSeq(<<x>> \o uu) \o y
    BY <2>4, <2>5, FlattenAppend
  <2>7. (x \o FlattenSeq(uu)) \o y = x \o (FlattenSeq(uu) \o y)
    <3> DEFINE w == FlattenSeq(uu)
    <3>1. w \in Seq(T)
      BY <2>3
    <3> HIDE DEF w
    <3>2. (x \o w) \o y = x \o (w \o y)
      BY <3>1, ConcatAssociative, SMTT(60)
    <3> QED
      BY <3>2 DEF w
  <2> QED
    BY <2>2, <2>3, <2>6, <2>7
<1> HIDE DEF S
<1>3. Nat \subseteq S
  BY <1>1, <1>2, NatInduct
<1>4. Len(ss) \in S
  BY <1>3
<1> QED
  BY <1>4 DEF S

-----------------------------------------------------------------------------
(* The resolver                                                             *)

Ids == 1 .. MaxRequests
One(r, l) == IF r.loop = l THEN <<r.id>> ELSE <<>>

\* A request of the resolver's queue is that of a loop, or the empty one of stop().
Asking(r) == r \in Request /\ (r.loop # None => r.id \in Ids)

ResolverOK ==
    /\ TypeOK
    /\ {handlers, asked, ran} \subseteq [Loops -> Seq(Ids)]
    /\ \A i \in 1 .. Len(requests) : Asking(requests[i])
    /\ pc \in {"resolve", "post"} => Asking(cur)
    /\ pc = "post" => cur.loop # None

AnswersInv == ResolverOK /\ AnswersInOrder

-----------------------------------------------------------------------------

\* One more in front.
LEMMA InFront ==
    ASSUME NEW S, NEW s \in Seq(S), NEW x \in S
    PROVE  /\ <<x>> \o s \in Seq(S) /\ Len(<<x>> \o s) = Len(s) + 1
           /\ DOMAIN (<<x>> \o s) = 1 .. Len(s) + 1
           /\ \A i \in 1 .. Len(s) + 1 : (<<x>> \o s)[i] = IF i = 1 THEN x ELSE s[i - 1]
<1>1. <<x>> \in Seq(S) /\ Len(<<x>>) = 1 /\ <<x>>[1] = x
  OBVIOUS
<1> DEFINE y == <<x>>
<1> HIDE DEF y
<1>2. y \in Seq(S) /\ Len(y) = 1 /\ y[1] = x /\ Len(s) \in Nat
  BY <1>1, LenProperties DEF y
<1>3. y \o s \in Seq(S) /\ Len(y \o s) = Len(s) + 1
  BY <1>2, ConcatProperties, SMTT(60)
<1>4. DOMAIN (y \o s) = 1 .. Len(s) + 1
  BY <1>3, LenProperties
<1>5. ASSUME NEW i \in 1 .. Len(s) + 1
      PROVE  (y \o s)[i] = IF i = 1 THEN x ELSE s[i - 1]
  <2>1. i \in 1 .. Len(y) + Len(s)
    BY <1>2
  <2>2. (y \o s)[i] = IF i <= Len(y) THEN y[i] ELSE s[i - Len(y)]
    BY <1>2, <2>1, ConcatProperties
  <2> QED
    BY <1>2, <2>2
<1> QED
  BY <1>3, <1>4, <1>5 DEF y

LEMMA IdsOfAppend ==
    ASSUME NEW rs \in Seq(Request), NEW r \in Request, NEW l
    PROVE  /\ IdsOf(rs, l) \in Seq(0 .. MaxRequests) /\ One(r, l) \in Seq(0 .. MaxRequests)
           /\ IdsOf(Append(rs, r), l) = IdsOf(rs, l) \o One(r, l)
           /\ IdsOf(<<r>> \o rs, l) = One(r, l) \o IdsOf(rs, l)
<1> DEFINE S == 0 .. MaxRequests
           F(s) == [i \in DOMAIN s |-> IF s[i].loop = l THEN <<s[i].id>> ELSE <<>>]
<1>0. ASSUME NEW q \in Request PROVE One(q, l) \in Seq(S)
  <2>1. q.id \in S
    BY DEF Request
  <2> HIDE DEF S
  <2>2. <<q.id>> \in Seq(S) /\ <<>> \in Seq(S)
    BY <2>1
  <2> QED
    BY <2>2 DEF One
<1>1. F(rs) \in Seq(Seq(S)) /\ One(r, l) \in Seq(S) /\ Len(F(rs)) = Len(rs) /\ Len(rs) \in Nat
  <2>1. DOMAIN rs = 1 .. Len(rs) /\ Len(rs) \in Nat /\ \A i \in 1 .. Len(rs) : rs[i] \in Request
    BY LenProperties, ElementOfSeq
  <2>2. F(rs) = [i \in 1 .. Len(rs) |-> One(rs[i], l)]
    BY <2>1 DEF One
  <2>3. \A i \in 1 .. Len(rs) : One(rs[i], l) \in Seq(S)
    BY <1>0, <2>1
  <2> HIDE DEF F, S
  <2>4. F(rs) \in Seq(Seq(S)) /\ Len(F(rs)) = Len(rs)
    BY <2>1, <2>2, <2>3
  <2> QED
    BY <1>0, <2>1, <2>4
<1>2. F(Append(rs, r)) = Append(F(rs), One(r, l))
  <2>1. Append(rs, r) \in Seq(Request) /\ DOMAIN Append(rs, r) = 1 .. Len(rs) + 1
        /\ (\A i \in 1 .. Len(rs) : Append(rs, r)[i] = rs[i]) /\ Append(rs, r)[Len(rs) + 1] = r
    BY AppendProperties
  <2>2. F(Append(rs, r)) = [i \in 1 .. Len(rs) + 1 |-> One(Append(rs, r)[i], l)]
    BY <2>1 DEF One
  <2>3. \A i \in 1 .. Len(rs) : F(rs)[i] = One(rs[i], l)
    BY DEF One
  <2> DEFINE L == Append(F(rs), One(r, l))
  <2>4. L \in Seq(Seq(S)) /\ Len(L) = Len(rs) + 1
        /\ (\A i \in 1 .. Len(rs) : L[i] = F(rs)[i]) /\ L[Len(rs) + 1] = One(r, l)
    <3> HIDE DEF F, S
    <3> QED
      BY <1>1, AppendProperties
  <2>5. L = [i \in 1 .. Len(rs) + 1 |-> L[i]]
    <3> HIDE DEF L, S
    <3> QED
      BY <2>4
  <2>6. \A i \in 1 .. Len(rs) + 1 : L[i] = One(Append(rs, r)[i], l)
    <3> HIDE DEF L, F, S
    <3> QED
      BY <1>1, <2>1, <2>3, <2>4
  <2> HIDE DEF L, F
  <2> QED
    BY <2>2, <2>5, <2>6 DEF L
<1>3. F(<<r>> \o rs) = <<One(r, l)>> \o F(rs)
  <2>1. <<r>> \o rs \in Seq(Request) /\ DOMAIN (<<r>> \o rs) = 1 .. Len(rs) + 1
        /\ (\A i \in 1 .. Len(rs) + 1 : (<<r>> \o rs)[i] = IF i = 1 THEN r ELSE rs[i - 1])
    BY InFront
  <2>2. F(<<r>> \o rs) = [i \in 1 .. Len(rs) + 1 |-> One((<<r>> \o rs)[i], l)]
    BY <2>1 DEF One
  <2>3. \A i \in 1 .. Len(rs) : F(rs)[i] = One(rs[i], l)
    BY DEF One
  <2> DEFINE L == <<One(r, l)>> \o F(rs)
  <2>4. L \in Seq(Seq(S)) /\ Len(L) = Len(rs) + 1
        /\ (\A i \in 1 .. Len(rs) + 1 : L[i] = IF i = 1 THEN One(r, l) ELSE F(rs)[i - 1])
    <3> HIDE DEF F, S
    <3> QED
      BY <1>1, InFront
  <2>5. L = [i \in 1 .. Len(rs) + 1 |-> L[i]]
    <3> HIDE DEF L, S
    <3> QED
      BY <2>4
  <2>6. ASSUME NEW i \in 1 .. Len(rs) + 1
        PROVE  L[i] = One((<<r>> \o rs)[i], l)
    <3> HIDE DEF L, F, S
    <3>1. L[i] = IF i = 1 THEN One(r, l) ELSE F(rs)[i - 1]
      BY <2>4
    <3>2. (<<r>> \o rs)[i] = IF i = 1 THEN r ELSE rs[i - 1]
      BY <2>1
    <3>3. i # 1 => i - 1 \in 1 .. Len(rs)
      <4>1. Len(rs) \in Nat
        OBVIOUS
      <4> QED
        BY <4>1
    <3>4. i # 1 => F(rs)[i - 1] = One(rs[i - 1], l)
      BY <2>3, <3>3
    <3> QED
      BY <3>1, <3>2, <3>4
  <2> HIDE DEF L, F
  <2> QED
    BY <2>2, <2>5, <2>6 DEF L
<1>4. /\ FlattenSeq(F(rs)) \in Seq(S)
      /\ FlattenSeq(Append(F(rs), One(r, l))) = FlattenSeq(F(rs)) \o One(r, l)
      /\ FlattenSeq(<<One(r, l)>> \o F(rs)) = One(r, l) \o FlattenSeq(F(rs))
  <2> HIDE DEF F, S
  <2> QED
    BY <1>1, FlattenAppend, FlattenCons
<1> QED
  BY <1>1, <1>2, <1>3, <1>4 DEF IdsOf

\* Where one id goes when a handler is posted, run or asked for.
LEMMA HeadTail ==
    ASSUME NEW S, NEW h \in Seq(S), h # <<>>
    PROVE  <<Head(h)>> \o Tail(h) = h
<1>1. /\ Head(h) \in S /\ Tail(h) \in Seq(S) /\ Len(Tail(h)) = Len(h) - 1
      /\ Len(h) \in Nat /\ h[1] = Head(h)
      /\ \A i \in 1 .. Len(Tail(h)) : Tail(h)[i] = h[i + 1]
  BY HeadTailProperties, LenProperties
<1> DEFINE u == Tail(h)
           t == <<Head(h)>> \o u
<1>2. /\ t \in Seq(S) /\ Len(t) = Len(u) + 1
      /\ \A i \in 1 .. Len(u) + 1 : t[i] = IF i = 1 THEN Head(h) ELSE u[i - 1]
  BY <1>1, InFront
<1> HIDE DEF t, u
<1>3. Len(h) = Len(t)
  BY <1>1, <1>2 DEF u
<1>4. ASSUME NEW i \in 1 .. Len(h) PROVE h[i] = t[i]
  <2>1. i = 1 \/ i - 1 \in 1 .. Len(u)
    BY <1>1, <1>4 DEF u
  <2>2. i \in 1 .. Len(u) + 1
    BY <1>1, <1>4 DEF u
  <2> QED
    BY <1>1, <1>2, <2>1, <2>2 DEF u
<1>5. h = t
  BY <1>2, <1>3, <1>4, SeqEqual
<1> QED
  BY <1>5 DEF t, u

LEMMA RunOne ==
    ASSUME NEW S, NEW a \in Seq(S), NEW h \in Seq(S), NEW w \in Seq(S), h # <<>>
    PROVE  /\ Append(a, Head(h)) \o (Tail(h) \o w) = a \o (h \o w)
           /\ Append(a, Head(h)) \in Seq(S) /\ Tail(h) \in Seq(S) /\ Head(h) \in S
<1>1. Head(h) \in S /\ Tail(h) \in Seq(S)
  BY HeadTailProperties
<1> DEFINE y == <<Head(h)>>
           u == Tail(h)
<1>2. y \in Seq(S) /\ u \in Seq(S) /\ Append(a, Head(h)) = a \o y
  BY <1>1, AppendIsConcat
<1>3. h = y \o u
  BY HeadTail
<1> HIDE DEF y, u
<1>a. y \in Seq(S) /\ u \in Seq(S)
  BY <1>2
<1>4. (a \o y) \o (u \o w) = a \o (y \o (u \o w))
  <2>1. u \o w \in Seq(S)
    BY <1>2, ConcatProperties
  <2> DEFINE v == u \o w
  <2> HIDE DEF v
  <2>2. v \in Seq(S)
    BY <2>1 DEF v
  <2>3. (a \o y) \o v = a \o (y \o v)
    BY <1>a, <2>2, ConcatAssociative, SMTT(60)
  <2> QED
    BY <2>3 DEF v
<1>5. (y \o u) \o w = y \o (u \o w)
  BY <1>a, ConcatAssociative, SMTT(60)
<1>6. Append(a, Head(h)) \in Seq(S)
  BY <1>1, AppendProperties
<1> QED
  BY <1>1, <1>2, <1>3, <1>4, <1>5, <1>6 DEF u

\* Concatenation of four, from the left or from the right.
LEMMA AssociateBehind ==
    ASSUME NEW S, NEW a \in Seq(S), NEW h \in Seq(S), NEW w \in Seq(S), NEW y \in Seq(S)
    PROVE  a \o (h \o (w \o y)) = (a \o (h \o w)) \o y
<1>1. h \o w \in Seq(S)
  BY ConcatProperties
<1>2. h \o (w \o y) = (h \o w) \o y
  BY ConcatAssociative, SMTT(60)
<1>3. a \o ((h \o w) \o y) = (a \o (h \o w)) \o y
  BY <1>1, ConcatAssociative, SMTT(60)
<1> QED
  BY <1>2, <1>3

LEMMA AskOne ==
    ASSUME NEW S, NEW a \in Seq(S), NEW h \in Seq(S), NEW w \in Seq(S), NEW x \in S,
           NEW y \in Seq(S), y = <<x>>
    PROVE  a \o (h \o (w \o y)) = Append(a \o (h \o w), x)
<1>1. a \o (h \o w) \in Seq(S)
  BY ConcatProperties
<1>2. Append(a \o (h \o w), x) = (a \o (h \o w)) \o y
  BY <1>1, AppendIsConcat
<1> QED
  BY <1>2, AssociateBehind

-----------------------------------------------------------------------------
(* The requests of the resolver.                                           *)

IdOrNone == 0 .. MaxRequests

\* What the facts of a loop are made of.
LEMMA OfLoop ==
    ASSUME ResolverOK, NEW l \in Loops
    PROVE  /\ handlers[l] \in Seq(Ids) /\ asked[l] \in Seq(Ids) /\ ran[l] \in Seq(Ids)
           /\ handlers[l] \in Seq(IdOrNone) /\ asked[l] \in Seq(IdOrNone) /\ ran[l] \in Seq(IdOrNone)
           /\ requests \in Seq(Request) /\ IdsOf(requests, l) \in Seq(IdOrNone)
           /\ pc \in {"resolve", "post"} => One(cur, l) \in Seq(IdOrNone) /\ cur \in Request
<1>1. /\ handlers[l] \in Seq(Ids) /\ asked[l] \in Seq(Ids) /\ ran[l] \in Seq(Ids)
      /\ requests \in Seq(Request) /\ (pc \in {"resolve", "post"} => cur \in Request)
  BY DEF ResolverOK, TypeOK
<1>2. Ids \subseteq IdOrNone
  BY BoundAssumption DEF Ids, IdOrNone
<1>3. handlers[l] \in Seq(IdOrNone) /\ asked[l] \in Seq(IdOrNone) /\ ran[l] \in Seq(IdOrNone)
  BY <1>1, <1>2, SeqMonotonic
<1>4. [loop |-> None, id |-> 0] \in Request
  BY BoundAssumption DEF Request
<1>5. IdsOf(requests, l) \in Seq(IdOrNone)
  BY <1>1, <1>4, IdsOfAppend DEF IdOrNone
<1>6. pc \in {"resolve", "post"} => One(cur, l) \in Seq(IdOrNone)
  BY <1>1, IdsOfAppend DEF IdOrNone
<1> QED
  BY <1>1, <1>3, <1>5, <1>6

LEMMA WaitingIds ==
    ASSUME ResolverOK, NEW l \in Loops
    PROVE  IdsOf(Waiting, l) \in Seq(IdOrNone)
<1>1. /\ requests \in Seq(Request) /\ IdsOf(requests, l) \in Seq(IdOrNone)
      /\ pc \in {"resolve", "post"} => One(cur, l) \in Seq(IdOrNone) /\ cur \in Request
  BY OfLoop
<1>2. CASE pc \in {"resolve", "post"}
  <2>1. IdsOf(<<cur>> \o requests, l) = One(cur, l) \o IdsOf(requests, l)
    BY <1>1, <1>2, IdsOfAppend
  <2> QED
    BY <1>1, <1>2, <2>1, ConcatProperties DEF Waiting
<1>3. CASE pc \notin {"resolve", "post"}
  BY <1>1, <1>3 DEF Waiting
<1> QED
  BY <1>2, <1>3

LEMMA AnswersAtFirst == Init => AnswersInv
<1> SUFFICES ASSUME Init PROVE AnswersInv
  OBVIOUS
<1>1. /\ requests = <<>> /\ pc = "unborn" /\ cur = None /\ keepRunning = TRUE
      /\ main = "run" /\ alive = TRUE
  BY DEF Init
<1>2. {handlers, asked, ran} \subseteq [Loops -> Seq(Ids)]
  BY DEF Init
<1>3. requests \in Seq(Request) /\ Len(requests) = 0
  BY <1>1
<1>4. TypeOK
  BY <1>1, <1>2, <1>3 DEF TypeOK, Ids
<1>5. ResolverOK
  BY <1>1, <1>2, <1>3, <1>4 DEF ResolverOK
<1>6. ASSUME NEW l \in Loops
      PROVE  ran[l] \o (handlers[l] \o IdsOf(Waiting, l)) = asked[l]
  <2>1. IdsOf(<<>>, l) = <<>>
    <3>1. FlattenSeq(<<>>) = <<>>
      BY DEF FlattenSeq
    <3>2. [i \in DOMAIN <<>> |-> IF <<>>[i].loop = l THEN << <<>>[i].id >> ELSE <<>>] = <<>>
      OBVIOUS
    <3> QED
      BY <3>1, <3>2 DEF IdsOf
  <2>2. Waiting = <<>>
    BY <1>1 DEF Waiting
  <2>3. handlers[l] = <<>> /\ asked[l] = <<>> /\ ran[l] = <<>>
    BY DEF Init
  <2> QED
    BY <2>1, <2>2, <2>3
<1> QED
  BY <1>5, <1>6 DEF AnswersInv, AnswersInOrder

\* What the queue holds when a request has been put into it or taken from it.
LEMMA AskedFor ==
    ASSUME ResolverOK, NEW r, Asking(r)
    PROVE  /\ r \in Request /\ Append(requests, r) \in Seq(Request)
           /\ \A i \in 1 .. Len(Append(requests, r)) : Asking(Append(requests, r)[i])
<1>1. /\ requests \in Seq(Request) /\ Len(requests) \in Nat
      /\ \A i \in 1 .. Len(requests) : Asking(requests[i])
  BY LenProperties DEF ResolverOK, TypeOK
<1>2. r \in Request
  BY DEF Asking
<1>3. /\ Append(requests, r) \in Seq(Request) /\ Len(Append(requests, r)) = Len(requests) + 1
      /\ \A i \in 1 .. Len(requests) : Append(requests, r)[i] = requests[i]
      /\ Append(requests, r)[Len(requests) + 1] = r
  BY <1>1, <1>2, AppendProperties
<1>4. ASSUME NEW i \in 1 .. Len(Append(requests, r))
      PROVE  Asking(Append(requests, r)[i])
  <2>1. i \in 1 .. Len(requests) \/ i = Len(requests) + 1
    BY <1>1, <1>3
  <2> QED
    BY <1>1, <1>3, <2>1
<1> QED
  BY <1>2, <1>3, <1>4

LEMMA Taken ==
    ASSUME ResolverOK, requests # <<>>
    PROVE  /\ Asking(Head(requests)) /\ Tail(requests) \in Seq(Request)
           /\ \A i \in 1 .. Len(Tail(requests)) : Asking(Tail(requests)[i])
           /\ <<Head(requests)>> \o Tail(requests) = requests
<1>1. /\ requests \in Seq(Request) /\ Len(requests) \in Nat
      /\ \A i \in 1 .. Len(requests) : Asking(requests[i])
  BY LenProperties DEF ResolverOK, TypeOK
<1>2. /\ Tail(requests) \in Seq(Request) /\ Len(Tail(requests)) = Len(requests) - 1
      /\ \A i \in 1 .. Len(Tail(requests)) : Tail(requests)[i] = requests[i + 1]
  BY <1>1, HeadTailProperties
<1>3. Head(requests) = requests[1] /\ Len(requests) > 0
  BY <1>1, EmptySeq
<1>4. ASSUME NEW i \in 1 .. Len(Tail(requests)) PROVE Asking(Tail(requests)[i])
  <2>1. i + 1 \in 1 .. Len(requests)
    BY <1>1, <1>2
  <2> QED
    BY <1>1, <1>2, <2>1
<1>5. <<Head(requests)>> \o Tail(requests) = requests
  BY <1>1, HeadTail
<1> QED
  BY <1>1, <1>2, <1>3, <1>4, <1>5

\* No step of the resolver loses, doubles or reorders a request.
LEMMA AnswersStep == AnswersInv /\ [Next]_vars => AnswersInv'
<1> SUFFICES ASSUME AnswersInv, [Next]_vars PROVE AnswersInv'
  OBVIOUS
<1> USE DEF AnswersInv
<1>1. /\ ResolverOK /\ TypeOK /\ requests \in Seq(Request)
      /\ handlers \in [Loops -> Seq(Ids)] /\ asked \in [Loops -> Seq(Ids)]
      /\ ran \in [Loops -> Seq(Ids)]
      /\ \A i \in 1 .. Len(requests) : Asking(requests[i])
      /\ pc \in {"resolve", "post"} => Asking(cur) /\ cur \in Request
      /\ pc \notin {"resolve", "post"} => cur = None
      /\ pc = "post" => cur.loop # None
      /\ \A l \in Loops : pc # "ended" =>
            ran[l] \o (handlers[l] \o IdsOf(Waiting, l)) = asked[l]
  BY SMTT(60) DEF ResolverOK, AnswersInOrder, TypeOK
<1>2. CASE UNCHANGED vars
  <2>1. ResolverOK'
    BY <1>1, <1>2 DEF vars, thread, exit, ResolverOK, TypeOK, Request
  <2>2. AnswersInOrder'
    BY <1>1, <1>2 DEF vars, thread, exit, AnswersInOrder, IdsOf, Waiting
  <2> QED
    BY <2>1, <2>2
<1>3. CASE PopWait
  <2>1. UNCHANGED <<handlers, asked, ran, keepRunning, main, alive>> /\ pc = "wait"
    BY <1>3 DEF PopWait, exit
  <2>2. CASE requests = <<>>
    <3>1. pc' = "asleep" /\ UNCHANGED <<requests, cur>>
      BY <1>3, <2>2 DEF PopWait
    <3>2. ResolverOK'
      BY <1>1, <2>1, <3>1 DEF ResolverOK, TypeOK, Request
    <3>3. Waiting' = Waiting
      BY <2>1, <3>1 DEF Waiting
    <3> QED
      BY <1>1, <2>1, <3>2, <3>3 DEF AnswersInOrder
  <2>3. CASE requests # <<>>
    <3>1. cur' = Head(requests) /\ requests' = Tail(requests) /\ pc' = "resolve"
      BY <1>3, <2>3 DEF PopWait
    <3>2. /\ Asking(cur') /\ requests' \in Seq(Request) /\ cur' \in Request
          /\ \A i \in 1 .. Len(requests') : Asking(requests'[i])
          /\ <<cur'>> \o requests' = requests
      BY <1>1, <2>3, <3>1, Taken DEF Asking
    <3>3. ResolverOK'
      <4>1. TypeOK'
        BY <1>1, <2>1, <3>1, <3>2 DEF TypeOK, Request
      <4>2. Asking(cur)' /\ \A i \in 1 .. Len(requests') : Asking(requests[i])'
        BY <3>2 DEF Asking, Request
      <4> QED
        BY <1>1, <2>1, <3>1, <4>1, <4>2 DEF ResolverOK
    <3>4. Waiting' = Waiting
      BY <2>1, <3>1, <3>2 DEF Waiting
    <3> QED
      BY <1>1, <2>1, <3>3, <3>4 DEF AnswersInOrder
  <2> QED
    BY <2>2, <2>3
<1>4. CASE TestKeepRunning \/ SpuriousWakeup
  <2>1. /\ UNCHANGED <<requests, cur, handlers, asked, ran, keepRunning, main, alive>>
        /\ pc \in {"test", "asleep"} /\ pc' \in {"wait", "ended"}
    BY <1>4 DEF TestKeepRunning, SpuriousWakeup, exit
  <2>2. ResolverOK'
    BY <1>1, <2>1 DEF ResolverOK, TypeOK, Request
  <2>3. Waiting' = Waiting
    BY <2>1 DEF Waiting
  <2> QED
    BY <1>1, <2>1, <2>2, <2>3 DEF AnswersInOrder
<1>5. CASE Resolve
  <2>1. UNCHANGED <<requests, handlers, asked, ran, keepRunning, main, alive>> /\ pc = "resolve"
    BY <1>5 DEF Resolve, exit
  <2>2. CASE cur.loop = None
    <3>1. pc' = "test" /\ cur' = None
      BY <1>5, <2>2 DEF Resolve
    <3>2. ResolverOK'
      BY <1>1, <2>1, <3>1 DEF ResolverOK, TypeOK, Request
    <3>3. ASSUME NEW l \in Loops
          PROVE  IdsOf(Waiting', l) = IdsOf(Waiting, l)
      <4>1. One(cur, l) = <<>>
        BY <2>2, NoneAssumption DEF One
      <4>2. IdsOf(<<cur>> \o requests, l) = One(cur, l) \o IdsOf(requests, l)
        BY <1>1, <2>1, IdsOfAppend
      <4>3. IdsOf(requests, l) \in Seq(IdOrNone)
        BY <1>1, OfLoop
      <4>4. <<>> \o IdsOf(requests, l) = IdsOf(requests, l)
        BY <4>3, ConcatEmptySeq
      <4>5. Waiting = <<cur>> \o requests /\ Waiting' = requests
        BY <2>1, <3>1 DEF Waiting
      <4> QED
        BY <4>1, <4>2, <4>4, <4>5
    <3> QED
      BY <1>1, <2>1, <3>2, <3>3 DEF AnswersInOrder
  <2>3. CASE cur.loop # None
    <3>1. pc' = "post" /\ cur' = cur
      BY <1>5, <2>3 DEF Resolve
    <3>2. ResolverOK'
      BY <1>1, <2>1, <2>3, <3>1 DEF ResolverOK, TypeOK, Request
    <3>3. Waiting' = Waiting
      BY <2>1, <3>1 DEF Waiting
    <3> QED
      BY <1>1, <2>1, <3>2, <3>3 DEF AnswersInOrder
  <2> QED
    BY <2>2, <2>3
<1>6. CASE PostResult
  <2>1. /\ UNCHANGED <<requests, asked, ran, keepRunning, main, alive>> /\ pc = "post"
        /\ pc' = "test" /\ cur' = None
        /\ handlers' = [handlers EXCEPT ![cur.loop] = Append(@, cur.id)]
    BY <1>6 DEF PostResult, exit
  <2>2. cur.loop \in Loops /\ cur.id \in Ids
    BY <1>1, <2>1 DEF Asking, Request
  <2>3. handlers' \in [Loops -> Seq(Ids)]
    <3>1. Append(handlers[cur.loop], cur.id) \in Seq(Ids)
      BY <1>1, <2>2, AppendProperties
    <3> QED
      BY <1>1, <2>1, <2>2, <3>1
  <2>4. ResolverOK'
    BY <1>1, <2>1, <2>3, ZenonT(60) DEF ResolverOK, TypeOK, Request, Ids
  <2>5. ASSUME NEW l \in Loops
        PROVE  ran'[l] \o (handlers'[l] \o IdsOf(Waiting', l)) = asked'[l]
    <3>1. Waiting = <<cur>> \o requests /\ Waiting' = requests
      BY <2>1 DEF Waiting
    <3>2. IdsOf(Waiting, l) = One(cur, l) \o IdsOf(requests, l)
      BY <1>1, <2>1, <3>1, IdsOfAppend
    <3>3. /\ handlers[l] \in Seq(IdOrNone) /\ ran[l] \in Seq(IdOrNone) /\ IdsOf(requests, l) \in Seq(IdOrNone)
          /\ ran[l] \o (handlers[l] \o IdsOf(Waiting, l)) = asked[l]
      BY <1>1, <2>1, OfLoop
    <3>4. CASE l = cur.loop
      <4>1. One(cur, l) = <<cur.id>> /\ cur.id \in IdOrNone
        BY <2>2, <3>4, BoundAssumption DEF One, Ids, IdOrNone
      <4>2. handlers'[l] = Append(handlers[l], cur.id)
        BY <1>1, <2>1, <2>2, <3>4
      <4>3. ran[l] \o (Append(handlers[l], cur.id) \o IdsOf(requests, l))
              = ran[l] \o (handlers[l] \o (<<cur.id>> \o IdsOf(requests, l)))
        <5> DEFINE a == ran[l]
                   h == handlers[l]
                   w == IdsOf(requests, l)
                   x == cur.id
                   y == <<x>>
                   g == Append(h, x)
        <5>1. /\ a \in Seq(IdOrNone) /\ h \in Seq(IdOrNone) /\ w \in Seq(IdOrNone)
              /\ x \in IdOrNone /\ y \in Seq(IdOrNone) /\ y = <<x>> /\ g = Append(h, x)
          BY <3>3, <4>1
        <5> HIDE DEF a, h, w, x, y, g
        <5>2. a \o (g \o w) = a \o (h \o (y \o w))
          <6>1. g = h \o y
            BY <5>1, AppendIsConcat
          <6>2. (h \o y) \o w = h \o (y \o w)
            BY <5>1, ConcatAssociative
          <6> QED
            BY <6>1, <6>2
        <5> QED
          BY <5>2 DEF a, h, w, x, y, g
      <4> QED
        BY <2>1, <3>1, <3>2, <3>3, <4>1, <4>2, <4>3
    <3>5. CASE l # cur.loop
      <4>1. One(cur, l) = <<>> /\ handlers'[l] = handlers[l]
        BY <1>1, <2>1, <3>5 DEF One
      <4>2. <<>> \o IdsOf(requests, l) = IdsOf(requests, l)
        BY <3>3, ConcatEmptySeq
      <4> QED
        BY <2>1, <3>1, <3>2, <3>3, <4>1, <4>2
    <3> QED
      BY <3>4, <3>5
  <2> QED
    BY <2>4, <2>5 DEF AnswersInOrder
<1>7. ASSUME NEW r, Asking(r), requests' = Append(requests, r),
             pc \in {"resolve", "post"} <=> pc' \in {"resolve", "post"},
             cur' = cur, NEW l \in Loops
      PROVE  IdsOf(Waiting', l) = IdsOf(Waiting, l) \o One(r, l)
  <2>1. r \in Request /\ requests' \in Seq(Request)
    BY <1>1, <1>7, AskedFor
  <2>2. IdsOf(requests', l) = IdsOf(requests, l) \o One(r, l) /\ One(r, l) \in Seq(IdOrNone)
    BY <1>1, <1>7, <2>1, IdsOfAppend DEF IdOrNone
  <2>3. CASE pc \in {"resolve", "post"}
    <3>1. Waiting = <<cur>> \o requests /\ Waiting' = <<cur>> \o requests'
      BY <1>7, <2>3 DEF Waiting
    <3>2. /\ IdsOf(<<cur>> \o requests, l) = One(cur, l) \o IdsOf(requests, l)
          /\ IdsOf(<<cur>> \o requests', l) = One(cur, l) \o IdsOf(requests', l)
      BY <1>1, <2>1, <2>3, IdsOfAppend
    <3>3. IdsOf(requests, l) \in Seq(IdOrNone) /\ One(cur, l) \in Seq(IdOrNone)
      BY <1>1, <2>3, OfLoop
    <3>4. (One(cur, l) \o IdsOf(requests, l)) \o One(r, l)
            = One(cur, l) \o (IdsOf(requests, l) \o One(r, l))
      <4> DEFINE a == One(cur, l)
                 h == IdsOf(requests, l)
                 w == One(r, l)
      <4>1. a \in Seq(IdOrNone) /\ h \in Seq(IdOrNone) /\ w \in Seq(IdOrNone)
        BY <2>2, <3>3
      <4> HIDE DEF a, h, w
      <4>2. (a \o h) \o w = a \o (h \o w)
        BY <4>1, ConcatAssociative, SMTT(60)
      <4> QED
        BY <4>2 DEF a, h, w
    <3> QED
      BY <2>2, <3>1, <3>2, <3>4
  <2>4. CASE pc \notin {"resolve", "post"}
    BY <1>7, <2>2, <2>4 DEF Waiting
  <2> QED
    BY <2>3, <2>4
<1>8. ASSUME NEW k \in Loops, AsyncResolve(k) PROVE AnswersInv'
  <2>1. PICK id \in Ids :
          /\ asked' = [asked EXCEPT ![k] = Append(@, id)]
          /\ requests' = Append(requests, [loop |-> k, id |-> id]) /\ cur' = cur
          /\ pc' = IF pc = "unborn" THEN "test" ELSE IF pc = "asleep" THEN "wait" ELSE pc
    BY <1>8 DEF AsyncResolve, PushNotify, Ids
  <2>2. UNCHANGED <<handlers, ran, keepRunning, main, alive>>
    BY <1>8 DEF AsyncResolve, exit
  <2> DEFINE r == [loop |-> k, id |-> id]
  <2>3. Asking(r) /\ id \in IdOrNone
    BY BoundAssumption, NoneAssumption DEF Asking, Request, Ids, IdOrNone
  <2>4. /\ requests' \in Seq(Request)
        /\ \A i \in 1 .. Len(requests') : Asking(requests'[i])
    BY <1>1, <2>1, <2>3, AskedFor
  <2>5. asked' \in [Loops -> Seq(Ids)]
    <3>1. Append(asked[k], id) \in Seq(Ids)
      BY <1>1, <2>1, AppendProperties
    <3> QED
      BY <1>1, <2>1, <3>1
  <2>6. ResolverOK'
    <3>1. TypeOK'
      <4>1. pc' \in {"unborn", "test", "wait", "asleep", "resolve", "post", "ended"}
        BY <1>1, <2>1 DEF TypeOK
      <4>2. IF pc' \in {"resolve", "post"} THEN cur' \in Request ELSE cur' = None
        BY <1>1, <2>1 DEF TypeOK
      <4>3. \A l \in Loops : {handlers'[l], asked'[l], ran'[l]} \subseteq Seq(1 .. MaxRequests)
        BY <1>1, <2>2, <2>5 DEF Ids
      <4>4. keepRunning' \in BOOLEAN /\ alive' \in BOOLEAN
            /\ main' \in {"run", "over", "stop", "join", "exited"}
        BY <1>1, <2>2 DEF TypeOK
      <4> QED
        BY <2>4, <4>1, <4>2, <4>3, <4>4 DEF TypeOK, Request
    <3>2. (\A i \in 1 .. Len(requests) : Asking(requests[i]))'
      BY <2>4 DEF Asking, Request
    <3>3. (pc \in {"resolve", "post"} => Asking(cur))' /\ (pc = "post" => cur.loop # None)'
      BY <1>1, <2>1 DEF Asking, Request
    <3> QED
      BY <1>1, <2>2, <2>5, <3>1, <3>2, <3>3 DEF ResolverOK
  <2>7. ASSUME NEW l \in Loops, pc' # "ended"
        PROVE  ran'[l] \o (handlers'[l] \o IdsOf(Waiting', l)) = asked'[l]
    <3>1. IdsOf(Waiting', l) = IdsOf(Waiting, l) \o One(r, l)
      <4>1. pc \in {"resolve", "post"} <=> pc' \in {"resolve", "post"}
        BY <2>1
      <4> HIDE DEF r
      <4> QED
        BY <1>7, <2>1, <2>3, <4>1 DEF r
    <3>2. /\ handlers[l] \in Seq(IdOrNone) /\ ran[l] \in Seq(IdOrNone) /\ asked[l] \in Seq(IdOrNone)
          /\ IdsOf(Waiting, l) \in Seq(IdOrNone)
          /\ ran[l] \o (handlers[l] \o IdsOf(Waiting, l)) = asked[l]
      <4>1. pc # "ended"
        BY <2>1, <2>7
      <4>2. IdsOf(Waiting, l) \in Seq(IdOrNone)
        BY <1>1, WaitingIds
      <4> QED
        BY <1>1, <4>1, <4>2, OfLoop
    <3>3. CASE l = k
      <4>1. One(r, l) = <<id>> /\ asked'[l] = Append(asked[l], id)
        BY <1>1, <2>1, <3>3 DEF One
      <4>2. ran[l] \o (handlers[l] \o (IdsOf(Waiting, l) \o <<id>>))
              = Append(ran[l] \o (handlers[l] \o IdsOf(Waiting, l)), id)
        <5> DEFINE a == ran[l]
                   h == handlers[l]
                   w == IdsOf(Waiting, l)
                   y == <<id>>
        <5>1. /\ a \in Seq(IdOrNone) /\ h \in Seq(IdOrNone) /\ w \in Seq(IdOrNone)
              /\ y \in Seq(IdOrNone) /\ y = <<id>>
          BY <2>3, <3>2
        <5> HIDE DEF a, h, w, y
        <5>2. a \o (h \o (w \o y)) = Append(a \o (h \o w), id)
          BY <2>3, <5>1, AskOne, SMTT(60)
        <5> QED
          BY <5>2 DEF a, h, w, y
      <4> QED
        BY <2>2, <3>1, <3>2, <4>1, <4>2
    <3>4. CASE l # k
      <4>1. One(r, l) = <<>> /\ asked'[l] = asked[l]
        BY <1>1, <2>1, <3>4 DEF One
      <4>2. IdsOf(Waiting, l) \o <<>> = IdsOf(Waiting, l)
        BY <3>2, ConcatEmptySeq
      <4> QED
        BY <2>2, <3>1, <3>2, <4>1, <4>2
    <3> QED
      BY <3>3, <3>4
  <2> QED
    BY <2>6, <2>7 DEF AnswersInOrder
<1>9. ASSUME NEW k \in Loops, RunHandler(k) PROVE AnswersInv'
  <2>1. /\ handlers[k] # <<>> /\ ran' = [ran EXCEPT ![k] = Append(@, Head(handlers[k]))]
        /\ handlers' = [handlers EXCEPT ![k] = Tail(@)]
        /\ UNCHANGED <<requests, pc, cur, asked, keepRunning, main, alive>>
    BY <1>9 DEF RunHandler, exit, thread
  <2>2. ran' \in [Loops -> Seq(Ids)] /\ handlers' \in [Loops -> Seq(Ids)]
    <3>1. /\ Append(ran[k], Head(handlers[k])) \in Seq(Ids)
          /\ Tail(handlers[k]) \in Seq(Ids)
      BY <1>1, <2>1, HeadTailProperties, AppendProperties
    <3> QED
      BY <1>1, <2>1, <3>1
  <2>3. ResolverOK'
    <3>1. TypeOK'
      BY <1>1, <2>1, <2>2 DEF TypeOK, Ids, Request
    <3>2. (\A i \in 1 .. Len(requests) : Asking(requests[i]))'
          /\ (pc \in {"resolve", "post"} => Asking(cur))' /\ (pc = "post" => cur.loop # None)'
      BY <1>1, <2>1 DEF Asking, Request
    <3> QED
      BY <1>1, <2>1, <2>2, <3>1, <3>2 DEF ResolverOK
  <2>4. ASSUME NEW l \in Loops, pc' # "ended"
        PROVE  ran'[l] \o (handlers'[l] \o IdsOf(Waiting', l)) = asked'[l]
    <3>1. Waiting' = Waiting
      BY <2>1 DEF Waiting
    <3>2. /\ handlers[l] \in Seq(IdOrNone) /\ ran[l] \in Seq(IdOrNone) /\ IdsOf(Waiting, l) \in Seq(IdOrNone)
          /\ ran[l] \o (handlers[l] \o IdsOf(Waiting, l)) = asked[l]
      BY <1>1, <2>1, <2>4, WaitingIds, OfLoop
    <3>3. CASE l = k
      <4>1. ran'[l] = Append(ran[l], Head(handlers[l])) /\ handlers'[l] = Tail(handlers[l])
        BY <1>1, <2>1, <3>3
      <4>2. handlers[l] # <<>>
        BY <2>1, <3>3
      <4>3. Append(ran[l], Head(handlers[l])) \o (Tail(handlers[l]) \o IdsOf(Waiting, l))
              = ran[l] \o (handlers[l] \o IdsOf(Waiting, l))
        <5> DEFINE a == ran[l]
                   h == handlers[l]
                   w == IdsOf(Waiting, l)
        <5>1. a \in Seq(IdOrNone) /\ h \in Seq(IdOrNone) /\ w \in Seq(IdOrNone) /\ h # <<>>
          BY <3>2, <4>2
        <5> HIDE DEF a, h, w
        <5>2. Append(a, Head(h)) \o (Tail(h) \o w) = a \o (h \o w)
          BY <5>1, RunOne, SMTT(60)
        <5> QED
          BY <5>2 DEF a, h, w
      <4> QED
        BY <2>1, <3>1, <3>2, <4>1, <4>3
    <3>4. CASE l # k
      BY <1>1, <2>1, <3>1, <3>2, <3>4
    <3> QED
      BY <3>3, <3>4
  <2> QED
    BY <2>3, <2>4 DEF AnswersInOrder
<1>10. CASE StopRequest
  <2> DEFINE r == [loop |-> None, id |-> 0]
  <2>1. /\ requests' = Append(requests, r) /\ cur' = cur
        /\ pc' = IF pc = "asleep" THEN "wait" ELSE pc
        /\ main' = "join" /\ UNCHANGED <<handlers, asked, ran, keepRunning, alive>>
    BY <1>10 DEF StopRequest, PushNotify
  <2>2. Asking(r)
    BY BoundAssumption DEF Asking, Request
  <2>3. /\ requests' \in Seq(Request)
        /\ \A i \in 1 .. Len(requests') : Asking(requests'[i])
    BY <1>1, <2>1, <2>2, AskedFor
  <2>4. ResolverOK'
    <3>1. TypeOK'
      BY <1>1, <2>1, <2>3 DEF TypeOK, Request
    <3>2. (\A i \in 1 .. Len(requests) : Asking(requests[i]))'
          /\ (pc \in {"resolve", "post"} => Asking(cur))' /\ (pc = "post" => cur.loop # None)'
      BY <1>1, <2>1, <2>3 DEF Asking, Request
    <3> QED
      BY <1>1, <2>1, <3>1, <3>2 DEF ResolverOK
  <2>5. ASSUME NEW l \in Loops
        PROVE  IdsOf(Waiting', l) = IdsOf(Waiting, l)
    <3>1. IdsOf(Waiting', l) = IdsOf(Waiting, l) \o One(r, l)
      <4>1. pc \in {"resolve", "post"} <=> pc' \in {"resolve", "post"}
        BY <2>1
      <4> HIDE DEF r
      <4> QED
        BY <1>7, <2>1, <2>2, <4>1
    <3>2. One(r, l) = <<>>
      BY NoneAssumption DEF One
    <3>3. IdsOf(Waiting, l) \in Seq(IdOrNone)
      BY <1>1, WaitingIds
    <3> QED
      BY <3>1, <3>2, <3>3, ConcatEmptySeq
  <2> QED
    BY <1>1, <2>1, <2>4, <2>5 DEF AnswersInOrder
<1>11. CASE EndGroup \/ StopRunning \/ Join \/ Exited
  <2>1. /\ UNCHANGED <<requests, pc, cur, handlers, asked, ran>>
        /\ keepRunning' \in BOOLEAN /\ alive' \in BOOLEAN
        /\ main' \in {"run", "over", "stop", "join", "exited"}
    BY <1>1, <1>11 DEF EndGroup, StopRunning, Join, Exited, vars, thread, exit, TypeOK
  <2>2. ResolverOK'
    <3>1. TypeOK'
      BY <1>1, <2>1 DEF TypeOK, Request
    <3>2. (\A i \in 1 .. Len(requests) : Asking(requests[i]))'
          /\ (pc \in {"resolve", "post"} => Asking(cur))' /\ (pc = "post" => cur.loop # None)'
      BY <1>1, <2>1 DEF Asking, Request
    <3> QED
      BY <1>1, <2>1, <3>1, <3>2 DEF ResolverOK
  <2>3. Waiting' = Waiting
    BY <2>1 DEF Waiting
  <2> QED
    BY <1>1, <2>1, <2>2, <2>3 DEF AnswersInOrder
<1> QED
  BY <1>2, <1>3, <1>4, <1>5, <1>6, <1>8, <1>9, <1>10, <1>11 DEF Next, ThreadStep, ExitStep

-----------------------------------------------------------------------------
(* Who holds what of the client, step by step of its life.                 *)

ClientShape ==
    /\ Client!TypeOK
    /\ calls \in {<<>>, <<"null">>, <<"conn">>}
    /\ startedBy # None => startedBy = loop
    /\ calls = <<"null">> => connRefs = {}
    /\ clientPc \in {"asked", "unresolved", "posted"} =>
          /\ "self" \notin clientRefs /\ chanRefs = {} /\ connRefs = {}
          /\ bound = "none" /\ wants = {} /\ calls = <<>>
    /\ clientPc = "posted" => sockRefs = {"client"} /\ loop \in Loops
    /\ clientPc \in {"connecting", "refused"} =>
          /\ "self" \in clientRefs /\ chanRefs = {"client"} /\ sockRefs = {"client"}
          /\ connRefs = {} /\ bound = "client" /\ wants = {"out"} /\ calls # <<"conn">>
    /\ clientPc = "connecting" => calls = <<>>
    /\ clientPc = "closing" =>
          /\ chanRefs = {} /\ sockRefs = {"client"} /\ connRefs = {}
          /\ bound = "none" /\ wants = {} /\ calls # <<"conn">>
    /\ clientPc = "tick" =>
          /\ "self" \in clientRefs /\ connRefs = {"tick"} /\ calls = <<>>
          /\ chanRefs = {"client", "conn"} /\ sockRefs = {"client", "conn"}
          /\ bound = "client" /\ wants = {}
    /\ clientPc = "made" =>
          /\ clientRefs \subseteq {"app"} /\ connRefs = {"tick"} /\ calls = <<>>
          /\ chanRefs = {"conn"} /\ sockRefs = {"conn"} /\ bound = "none" /\ wants = {}
    /\ clientPc = "connector" => calls # <<"null">>
    /\ clientPc \in {"connector", "done"} =>
          /\ clientRefs \subseteq {"app"} /\ sockRefs = chanRefs
          /\ \/ bound = "conn" /\ chanRefs = {"conn"} /\ "self" \in connRefs
             \/ bound = "none" /\ chanRefs = {} /\ wants = {}

IInv == AnswersInv /\ ClientShape

LEMMA ShapeImplies == IInv => ClientInv
<1> SUFFICES ASSUME IInv PROVE ClientInv
  OBVIOUS
<1>1. TypeOK /\ Client!TypeOK /\ ClientShape
  BY DEF IInv, AnswersInv, ResolverOK, ClientShape
<1>2. clientPc \in {"asked", "unresolved", "posted", "connecting", "refused",
                   "closing", "tick", "made", "connector", "done"}
  BY <1>1 DEF Client!TypeOK
<1>3. Client!BoundExists
  BY <1>1, <1>2 DEF Client!BoundExists, ClientShape
<1>4. Client!FdOutlivesChannel
  BY <1>1, <1>2 DEF Client!FdOutlivesChannel, ClientShape
<1>5. Client!ConnectorOnce
  <2>1. Len(calls) <= 1
    BY <1>1 DEF ClientShape
  <2>2. calls = <<"conn">> => clientPc \in {"connector", "done"}
    BY <1>1, <1>2, <<"conn">> # <<>> DEF ClientShape
  <2>3. clientPc \in {"connector", "done"} =>
          clientRefs \subseteq {"app"} /\ "client" \notin chanRefs \cup sockRefs
    BY <1>1 DEF ClientShape
  <2>4. calls = <<"null">> => connRefs = {}
    BY <1>1 DEF ClientShape
  <2> QED
    BY <2>1, <2>2, <2>3, <2>4 DEF Client!ConnectorOnce
<1>6. Client!StartsOnItsLoop
  BY <1>1 DEF Client!StartsOnItsLoop, ClientShape
<1> QED
  BY <1>1, <1>3, <1>4, <1>5, <1>6 DEF ClientInv

LEMMA ShapeAtFirst == Client!Init => ClientShape
<1> SUFFICES ASSUME Client!Init PROVE ClientShape
  OBVIOUS
<1>1. /\ clientPc = "asked" /\ loop = None /\ startedBy = None /\ connector \in BOOLEAN
      /\ clientRefs = {"app"} /\ chanRefs = {} /\ sockRefs = {} /\ connRefs = {}
      /\ bound = "none" /\ wants = {} /\ calls = <<>>
  BY DEF Client!Init
<1>2. Client!TypeOK
  BY <1>1 DEF Client!TypeOK
<1> QED
  BY <1>1, <1>2 DEF ClientShape

LEMMA ShapeStep ==
    ASSUME ClientShape,
           Client!Answer \/ Client!LoopStep \/ Client!ApplicationStep \/ Client!DestroyConn
    PROVE  ClientShape'
<1> USE DEF ClientShape
<1>0. /\ Client!TypeOK
      /\ <<>> # <<"null">> /\ <<"null">> # <<"conn">> /\ <<>> # <<"conn">>
      /\ Append(<<>>, "null") = <<"null">> /\ Append(<<>>, "conn") = <<"conn">>
      /\ <<>> \in Seq({"null", "conn"}) /\ <<"null">> \in Seq({"null", "conn"})
      /\ <<"conn">> \in Seq({"null", "conn"})
  OBVIOUS
<1>1. CASE Client!Resolved
  <2>1. PICK l \in Loops :
          /\ clientPc = "asked" /\ sockRefs' = {"client"} /\ loop' = l
          /\ UNCHANGED <<connector, connRefs, calls>>
          /\ \/ /\ l = Home /\ startedBy' = Home
                /\ clientRefs' = (clientRefs \ {"start"}) \cup {"self"}
                /\ chanRefs' = {"client"} /\ bound' = "client" /\ wants' = {"out"}
                /\ clientPc' = "connecting"
             \/ /\ clientRefs' = clientRefs \cup {"start"} /\ clientPc' = "posted"
                /\ UNCHANGED <<startedBy, chanRefs, bound, wants>>
    BY <1>1, Zenon DEF Client!Resolved, Client!Start, Client!StartsHere, Client!channel
  <2>2. Client!TypeOK'
    BY <1>0, <2>1, NoneAssumption, HomeAssumption DEF Client!TypeOK
  <2> QED
    BY <1>0, <2>1, <2>2 DEF Client!TypeOK
<1>2. CASE Client!Unresolved
  <2>1. Client!TypeOK'
    BY <1>0, <1>2 DEF Client!TypeOK, Client!Unresolved, Client!refs, Client!channel
  <2> QED
    BY <1>0, <1>2, <2>1 DEF Client!Unresolved, Client!refs, Client!channel
<1>3. CASE Client!RunStart
  <2>1. Client!TypeOK'
    BY <1>0, <1>3, NoneAssumption DEF Client!TypeOK, Client!RunStart, Client!Start
  <2> QED
    BY <1>0, <1>3, <2>1 DEF Client!RunStart, Client!Start
<1>4. CASE Client!WritEvent
  <2>1. Client!TypeOK'
    BY <1>0, <1>4 DEF Client!TypeOK, Client!WritEvent
  <2> QED
    BY <1>0, <1>4, <2>1 DEF Client!WritEvent
<1>5. CASE Client!ErroEvent
  <2>1. calls' \in {<<>>, <<"null">>}
    BY <1>0, <1>5 DEF Client!ErroEvent
  <2>2. Client!TypeOK'
    BY <1>0, <1>5, <2>1 DEF Client!TypeOK, Client!ErroEvent, Client!refs, Client!channel
  <2> QED
    BY <1>0, <1>5, <2>1, <2>2 DEF Client!ErroEvent, Client!refs, Client!channel
<1>6. CASE Client!Refused
  <2>1. Client!TypeOK'
    BY <1>0, <1>6 DEF Client!TypeOK, Client!Refused, Client!ResetChan, Client!channel
  <2> QED
    BY <1>0, <1>6, <2>1 DEF Client!Refused, Client!ResetChan, Client!channel
<1>7. CASE Client!Closing
  <2>1. Client!TypeOK'
    BY <1>0, <1>7 DEF Client!TypeOK, Client!Closing, Client!ResetRest, Client!channel
  <2>2. clientRefs' \subseteq {"app"} /\ sockRefs' = chanRefs'
    BY <1>0, <1>7 DEF Client!TypeOK, Client!Closing, Client!ResetRest
  <2> QED
    BY <1>0, <1>7, <2>1, <2>2 DEF Client!Closing, Client!ResetRest, Client!channel
<1>8. CASE Client!Tick
  <2>1. Client!TypeOK'
    BY <1>0, <1>8 DEF Client!TypeOK, Client!Tick
  <2>2. clientRefs' \subseteq {"app"}
    BY <1>0, <1>8 DEF Client!TypeOK, Client!Tick
  <2> QED
    BY <1>0, <1>8, <2>1, <2>2 DEF Client!Tick
<1>9. CASE Client!InitConn
  <2>1. calls' \in {<<>>, <<"conn">>}
    BY <1>0, <1>9 DEF Client!InitConn
  <2>2. Client!TypeOK'
    BY <1>0, <1>9, <2>1 DEF Client!TypeOK, Client!InitConn
  <2> QED
    BY <1>0, <1>9, <2>1, <2>2 DEF Client!InitConn
<1>10. CASE Client!ConnectorReturns
  <2>1. Client!TypeOK'
    BY <1>0, <1>10 DEF Client!TypeOK, Client!ConnectorReturns, Client!channel
  <2> QED
    BY <1>0, <1>10, <2>1 DEF Client!ConnectorReturns, Client!channel
<1>11. CASE Client!ApplicationStep
  <2>1. Client!TypeOK'
    BY <1>0, <1>11 DEF Client!TypeOK, Client!ApplicationStep, Client!DropClient,
      Client!KeepConn, Client!DropConn, Client!channel
  <2> QED
    BY <1>0, <1>11, <2>1 DEF Client!ApplicationStep, Client!DropClient,
      Client!KeepConn, Client!DropConn, Client!channel
<1>12. CASE Client!DestroyConn
  <2>1. Client!TypeOK'
    BY <1>0, <1>12 DEF Client!TypeOK, Client!DestroyConn
  <2> QED
    BY <1>0, <1>12, <2>1 DEF Client!DestroyConn
<1> QED
  BY <1>1, <1>2, <1>3, <1>4, <1>5, <1>6, <1>7, <1>8, <1>9, <1>10, <1>11, <1>12
     DEF Client!Answer, Client!LoopStep

-----------------------------------------------------------------------------

LEMMA AllStep == IInv /\ [AllNext]_allVars => IInv'
<1> SUFFICES ASSUME IInv, [AllNext]_allVars PROVE IInv'
  OBVIOUS
<1>1. [Next]_vars
  BY HomeAssumption DEF AllNext, CreateClient, AskElse, RunClientHandler, RunElse, ClientLoopStep,
    ClientDestroyConn, ApplicationStep, ResolverThread, End, Next, allVars, resolverVars
<1>2. AnswersInv'
  BY <1>1, AnswersStep DEF IInv
<1>3. \/ UNCHANGED clientState
      \/ Client!Answer \/ Client!LoopStep \/ Client!ApplicationStep \/ Client!DestroyConn
  BY DEF AllNext, CreateClient, AskElse, RunClientHandler, RunElse, ClientLoopStep,
    ClientDestroyConn, ApplicationStep, ResolverThread, End, allVars, clientVars
<1>4. ASSUME UNCHANGED clientState PROVE ClientShape'
  BY <1>4 DEF IInv, clientState, ClientShape, Client!TypeOK
<1>5. ClientShape'
  BY <1>3, <1>4, ShapeStep DEF IInv
<1> QED
  BY <1>2, <1>5 DEF IInv

LEMMA AllInvariant == AllSpec => []IInv
<1>1. AllInit => IInv
  BY AnswersAtFirst, ShapeAtFirst DEF AllInit, IInv
<1> QED
  BY <1>1, AllStep, PTL DEF AllSpec

\* Every request is answered once, on the loop that asked, and in the order in
\* which that loop asked (Resolver.cpp), for any number of loops and requests.
THEOREM AnswersKept == AllSpec => []AnswersInOrder
<1>1. IInv => AnswersInOrder
  BY DEF IInv, AnswersInv
<1> QED
  BY <1>1, AllInvariant, PTL

\* Types; what the poller may call exists; the descriptor outlives the channel;
\* the connector is called at most once; start() is run by its loop's thread
\* (TcpClient.cpp, EventLoopGroup.cpp).
THEOREM ClientAlwaysOK == AllSpec => []ClientInv
  BY ShapeImplies, AllInvariant, PTL
=============================================================================
