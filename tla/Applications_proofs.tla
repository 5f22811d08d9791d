-------------------------- MODULE Applications_proofs --------------------------
(***************************************************************************)
(* The output of a Connection, whatever code uses it and however many      *)
(* tasks it sends, of any length: what the kernel takes is what was sent,  *)
(* in order, and the completion handlers follow it.                        *)
(*                                                                         *)
(* 1. Sequences.  2. Bytes and handlers of tasks.  3. The invariant, step  *)
(* by step.  4. HttpServer and HttpClient: no other steps.  5. Theorems.   *)
(* 6. The requests of an HttpClient.                                       *)
(***************************************************************************)
EXTENDS Applications, SequenceTheorems, WellFoundedInduction, TLAPS

-----------------------------------------------------------------------------
(* Sequences: induction over Nat, with a set in place of a predicate, and  *)
(* what FlattenSeq makes of two sequences.                                 *)

LEMMA NatMin ==
    ASSUME NEW Ns, Ns \subseteq Nat, Ns # {}
    PROVE  \E n \in Ns : \A m \in Ns : n <= m
<1>1. PICK n \in Ns : \A m \in Ns : ~ (<<m, n>> \in OpToRel(<, Nat))
  BY NatLessThanWellFounded, WFMin
<1>2. \A m \in Ns : ~ (m < n)
  BY <1>1 DEF OpToRel
<1> QED
  BY <1>2

LEMMA NatInduct ==
    ASSUME NEW Ns, 0 \in Ns, \A n \in Nat : n \in Ns => n + 1 \in Ns
    PROVE  Nat \subseteq Ns
<1> DEFINE B == {n \in Nat : n \notin Ns}
<1> SUFFICES ASSUME B # {} PROVE FALSE
  OBVIOUS
<1>1. PICK n \in B : \A m \in B : n <= m
  BY NatMin, B \subseteq Nat
<1>2. n # 0 /\ n \in Nat /\ n - 1 \in Nat
  OBVIOUS
<1>3. n - 1 \in Ns
  BY <1>1, <1>2
<1> QED
  BY <1>2, <1>3

\* The partial concatenations of ss.
Flattens(f, ss, T) ==
    /\ f \in [1 .. Len(ss) -> Seq(T)]
    /\ \A i \in 1 .. Len(ss) : f[i] = IF i = 1 THEN ss[i] ELSE f[i - 1] \o ss[i]

LEMMA FlattensExists ==
    ASSUME NEW T, NEW ss \in Seq(Seq(T))
    PROVE  \E f : Flattens(f, ss, T)
<1> DEFINE Good(n) == \E f : Flattens(f, SubSeq(ss, 1, n), T)
           Ns == {n \in Nat : n <= Len(ss) => Good(n)}
<1>1. 0 \in Ns
  <2>1. Flattens(<<>>, SubSeq(ss, 1, 0), T)
    BY DEF Flattens
  <2> QED
    BY <2>1
<1>2. ASSUME NEW n \in Nat, n \in Ns PROVE n + 1 \in Ns
  <2> SUFFICES ASSUME n + 1 <= Len(ss) PROVE Good(n + 1)
    OBVIOUS
  <2>1. PICK f : Flattens(f, SubSeq(ss, 1, n), T)
    BY <1>2
  <2>2. Len(SubSeq(ss, 1, n)) = n /\ Len(SubSeq(ss, 1, n + 1)) = n + 1
        /\ (\A i \in 1 .. n : SubSeq(ss, 1, n)[i] = ss[i])
        /\ (\A i \in 1 .. n + 1 : SubSeq(ss, 1, n + 1)[i] = ss[i] /\ ss[i] \in Seq(T))
    OBVIOUS
  <2> DEFINE g == [i \in 1 .. n + 1 |-> IF i <= n THEN f[i] ELSE
                                         IF i = 1 THEN ss[i] ELSE f[i - 1] \o ss[i]]
  <2>3. \A i \in 1 .. n : f[i] \in Seq(T) /\ f[i] = IF i = 1 THEN ss[i] ELSE f[i - 1] \o ss[i]
    BY <2>1, <2>2 DEF Flattens
  <2>4. ASSUME NEW i \in 1 .. n + 1
        PROVE  g[i] \in Seq(T) /\ g[i] = IF i = 1 THEN ss[i] ELSE g[i - 1] \o ss[i]
    <3>1. CASE i <= n
      <4>1. i \in 1 .. n /\ g[i] = f[i] /\ (i # 1 => i - 1 <= n /\ i - 1 \in 1 .. n + 1)
        BY <3>1
      <4>2. i # 1 => g[i - 1] = f[i - 1]
        BY <4>1
      <4> HIDE DEF g
      <4> QED
        BY <2>3, <4>1, <4>2
    <3>2. CASE i = n + 1 /\ n = 0
      BY <2>2, <3>2
    <3>3. CASE i = n + 1 /\ n # 0
      <4>1. f[n] \in Seq(T) /\ ss[n + 1] \in Seq(T) /\ g[n + 1] = f[n] \o ss[n + 1] /\ g[n] = f[n]
        <5>1. n \in 1 .. n + 1 /\ n + 1 \in 1 .. n + 1 /\ n \in 1 .. n /\ ~ (n + 1 <= n) /\ n <= n /\ n + 1 # 1
          BY <3>3
        <5>2. (n + 1) - 1 = n
          OBVIOUS
        <5>3. f[n] \in Seq(T) /\ ss[n + 1] \in Seq(T)
          BY <2>2, <2>3, <5>1
        <5>4. g[n] = f[n] /\ g[n + 1] = f[(n + 1) - 1] \o ss[n + 1]
          BY <5>1
        <5> QED
          BY <5>2, <5>3, <5>4
      <4>2. f[n] \o ss[n + 1] \in Seq(T)
        BY <4>1, ConcatProperties
      <4> QED
        BY <3>3, <4>1, <4>2
    <3> QED
      BY <3>1, <3>2, <3>3
  <2>5. g \in [1 .. n + 1 -> Seq(T)]
    BY <2>4
  <2>6. Flattens(g, SubSeq(ss, 1, n + 1), T)
    <3> HIDE DEF g
    <3> QED
      BY <2>2, <2>4, <2>5 DEF Flattens
  <2> QED
    BY <2>6
<1> HIDE DEF Ns
<1>3. Nat \subseteq Ns
  BY <1>1, <1>2, NatInduct
<1>4. Len(ss) \in Nat /\ Len(ss) \in Ns /\ SubSeq(ss, 1, Len(ss)) = ss
  BY <1>3
<1>5. Good(Len(ss))
  BY <1>4 DEF Ns
<1> QED
  BY <1>4, <1>5

\* ss is a prefix of tt.
Begins(ss, tt) == Len(ss) <= Len(tt) /\ \A i \in 1 .. Len(ss) : ss[i] = tt[i]

LEMMA FlattensUnique ==
    ASSUME NEW T, NEW ss \in Seq(Seq(T)), NEW tt \in Seq(Seq(T)), NEW f, NEW g,
           Flattens(f, ss, T), Flattens(g, tt, T),
           Begins(ss, tt), NEW k \in 1 .. Len(ss)
    PROVE  f[k] = g[k]
<1> USE DEF Begins
<1> DEFINE m == Len(ss)
           Ns == {n \in Nat : n \in 1 .. m => f[n] = g[n]}
<1>1. 0 \in Ns
  OBVIOUS
<1>2. ASSUME NEW n \in Nat, n \in Ns PROVE n + 1 \in Ns
  <2> SUFFICES ASSUME n + 1 <= m PROVE f[n + 1] = g[n + 1]
    OBVIOUS
  <2>1. n + 1 \in 1 .. Len(ss) /\ n + 1 \in 1 .. Len(tt) /\ n + 1 \in 1 .. m
    OBVIOUS
  <2>2. /\ f[n + 1] = IF n + 1 = 1 THEN ss[n + 1] ELSE f[(n + 1) - 1] \o ss[n + 1]
        /\ g[n + 1] = IF n + 1 = 1 THEN tt[n + 1] ELSE g[(n + 1) - 1] \o tt[n + 1]
    BY <2>1 DEF Flattens
  <2>3. ss[n + 1] = tt[n + 1] /\ (n + 1) - 1 = n
    BY <2>1
  <2>4. CASE n = 0
    BY <2>2, <2>3, <2>4
  <2>5. CASE n # 0
    <3>1. f[n] = g[n]
      BY <1>2, <2>1, <2>5
    <3>2. n + 1 # 1
      BY <2>5
    <3> QED
      BY <2>2, <2>3, <3>1, <3>2
  <2> QED
    BY <2>4, <2>5
<1> HIDE DEF Ns
<1>3. Nat \subseteq Ns
  BY <1>1, <1>2, NatInduct
<1> QED
  BY <1>3 DEF Ns

LEMMA FlattenIs ==
    ASSUME NEW T, NEW ss \in Seq(Seq(T)), ss # <<>>
    PROVE  \E f : Flattens(f, ss, T) /\ FlattenSeq(ss) = f[Len(ss)]
<1>1. PICK f : Flattens(f, ss, T)
  BY FlattensExists
<1> DEFINE Fun(g) == g = [i \in 1 .. Len(ss) |-> IF i = 1 THEN ss[i] ELSE g[i - 1] \o ss[i]]
           h == CHOOSE g : Fun(g)
<1>2. Fun(f)
  BY <1>1 DEF Flattens
<1>3. Fun(h)
  BY <1>2, Zenon
<1>4. FlattenSeq(ss) = h[Len(ss)]
  BY Len(ss) # 0 DEF FlattenSeq
<1>5. \A i \in 1 .. Len(ss) : h[i] = IF i = 1 THEN ss[i] ELSE h[i - 1] \o ss[i]
  BY <1>3
<1> HIDE DEF h
<1>6. \A i \in 1 .. Len(ss) : h[i] = f[i]
  <2> DEFINE Ns == {n \in Nat : n \in 1 .. Len(ss) => h[n] = f[n]}
  <2>1. 0 \in Ns
    OBVIOUS
  <2>2. ASSUME NEW n \in Nat, n \in Ns PROVE n + 1 \in Ns
    <3> SUFFICES ASSUME n + 1 <= Len(ss) PROVE h[n + 1] = f[n + 1]
      OBVIOUS
    <3>1. n + 1 \in 1 .. Len(ss)
      OBVIOUS
    <3>2. /\ h[n + 1] = IF n + 1 = 1 THEN ss[n + 1] ELSE h[(n + 1) - 1] \o ss[n + 1]
          /\ f[n + 1] = IF n + 1 = 1 THEN ss[n + 1] ELSE f[(n + 1) - 1] \o ss[n + 1]
      BY <1>1, <1>5, <3>1 DEF Flattens
    <3>3. (n + 1) - 1 = n /\ (n + 1 # 1 => n \in 1 .. Len(ss))
      BY <3>1
    <3> QED
      BY <2>2, <3>2, <3>3
  <2> HIDE DEF Ns
  <2>3. Nat \subseteq Ns
    BY <2>1, <2>2, NatInduct
  <2> QED
    BY <2>3 DEF Ns
<1> QED
  BY <1>1, <1>4, <1>6, Len(ss) \in 1 .. Len(ss)

\* Concatenation at the end.
LEMMA FlattenAppend ==
    ASSUME NEW T, NEW ss \in Seq(Seq(T)), NEW x \in Seq(T)
    PROVE  /\ FlattenSeq(ss) \in Seq(T)
           /\ FlattenSeq(Append(ss, x)) = FlattenSeq(ss) \o x
<1> DEFINE tt == Append(ss, x)
<1>1. tt \in Seq(Seq(T)) /\ Len(tt) = Len(ss) + 1 /\ tt[Len(tt)] = x
      /\ (\A i \in 1 .. Len(ss) : tt[i] = ss[i]) /\ Len(ss) \in Nat /\ tt # <<>>
  BY AppendProperties
<1> HIDE DEF tt
<1>2. PICK g : Flattens(g, tt, T) /\ FlattenSeq(tt) = g[Len(tt)]
  BY <1>1, FlattenIs
<1>3. CASE ss = <<>>
  <2>1. FlattenSeq(ss) = <<>>
    BY <1>3 DEF FlattenSeq
  <2>2. g[1] = x /\ Len(tt) = 1
    BY <1>1, <1>2, <1>3 DEF Flattens
  <2>3. <<>> \o x = x
    BY ConcatEmptySeq
  <2> QED
    BY <1>2, <2>1, <2>2, <2>3 DEF tt
<1>4. CASE ss # <<>>
  <2>1. PICK f : Flattens(f, ss, T) /\ FlattenSeq(ss) = f[Len(ss)]
    BY <1>4, FlattenIs
  <2>2. Len(ss) \in 1 .. Len(ss) /\ f[Len(ss)] \in Seq(T)
    <3>1. Len(ss) \in 1 .. Len(ss)
      BY <1>1, <1>4, EmptySeq
    <3> QED
      BY <2>1, <3>1 DEF Flattens
  <2>3. g[Len(ss)] = f[Len(ss)]
    <3>1. Begins(ss, tt)
      BY <1>1 DEF Begins
    <3>2. Flattens(f, ss, T) /\ Flattens(g, tt, T)
      BY <1>2, <2>1
    <3> QED
      BY <1>1, <2>2, <3>1, <3>2, FlattensUnique
  <2>4. g[Len(ss) + 1] = g[Len(ss)] \o x
    <3>1. /\ Len(ss) + 1 \in 1 .. Len(tt) /\ Len(ss) + 1 # 1 /\ (Len(ss) + 1) - 1 = Len(ss)
          /\ tt[Len(ss) + 1] = x
      BY <1>1, <2>2
    <3> QED
      BY <1>2, <3>1 DEF Flattens
  <2>5. g[Len(tt)] = FlattenSeq(ss) \o x
    BY <1>1, <2>1, <2>3, <2>4
  <2> QED
    BY <1>2, <2>1, <2>2, <2>5 DEF tt
<1> QED
  BY <1>3, <1>4

\* Concatenation of two.
LEMMA FlattenConcat ==
    ASSUME NEW T, NEW ss \in Seq(Seq(T)), NEW tt \in Seq(Seq(T))
    PROVE  FlattenSeq(ss \o tt) = FlattenSeq(ss) \o FlattenSeq(tt)
<1> DEFINE Good(uu) == FlattenSeq(ss \o uu) = FlattenSeq(ss) \o FlattenSeq(uu)
           Ns == {n \in Nat : \A uu \in Seq(Seq(T)) : Len(uu) = n => Good(uu)}
<1>0. FlattenSeq(ss) \in Seq(T) /\ FlattenSeq(<<>>) = <<>>
  <2>1. <<>> \in Seq(T)
    OBVIOUS
  <2> QED
    BY <2>1, FlattenAppend DEF FlattenSeq
<1>1. 0 \in Ns
  <2> SUFFICES ASSUME NEW uu \in Seq(Seq(T)), Len(uu) = 0 PROVE Good(uu)
    OBVIOUS
  <2>1. uu = <<>> /\ ss \o <<>> = ss
    BY EmptySeq, ConcatEmptySeq
  <2>2. FlattenSeq(ss) \o <<>> = FlattenSeq(ss)
    BY <1>0, ConcatEmptySeq
  <2> QED
    BY <1>0, <2>1, <2>2
<1>2. ASSUME NEW n \in Nat, n \in Ns PROVE n + 1 \in Ns
  <2>0. n + 1 \in Nat
    OBVIOUS
  <2> SUFFICES ASSUME NEW uu \in Seq(Seq(T)), Len(uu) = n + 1 PROVE Good(uu)
    BY <2>0, Zenon
  <2>1. PICK vv \in Seq(Seq(T)), y \in Seq(T) : uu = Append(vv, y) /\ Len(vv) = n
    <3> DEFINE vv == SubSeq(uu, 1, n)
               y == uu[n + 1]
    <3>1. vv \in Seq(Seq(T)) /\ Len(vv) = n /\ y \in Seq(T)
      OBVIOUS
    <3>2. Append(vv, y) \in Seq(Seq(T)) /\ Len(Append(vv, y)) = Len(uu)
      BY <3>1
    <3>3. \A i \in 1 .. Len(uu) : Append(vv, y)[i] = uu[i]
      BY <3>1
    <3>4. Append(vv, y) = uu
      BY <3>2, <3>3, SeqEqual
    <3> QED
      BY <3>1, <3>4
  <2>2. FlattenSeq(ss \o vv) = FlattenSeq(ss) \o FlattenSeq(vv)
    BY <1>2, <2>1
  <2>3. FlattenSeq(uu) = FlattenSeq(vv) \o y /\ FlattenSeq(vv) \in Seq(T)
    BY <2>1, FlattenAppend
  <2>4. ss \o vv \in Seq(Seq(T)) /\ ss \o uu = Append(ss \o vv, y)
    <3>1. ss \o vv \in Seq(Seq(T)) /\ ss \o uu \in Seq(Seq(T)) /\ Append(ss \o vv, y) \in Seq(Seq(T))
      BY <2>1, ConcatProperties, AppendProperties
    <3>2. Len(ss \o uu) = Len(Append(ss \o vv, y))
      BY <2>1
    <3>3. \A i \in 1 .. Len(ss \o uu) : (ss \o uu)[i] = Append(ss \o vv, y)[i]
      BY <2>1
    <3> QED
      BY <3>1, <3>2, <3>3, SeqEqual
  <2>5. FlattenSeq(ss \o uu) = FlattenSeq(ss \o vv) \o y
    BY <2>4, FlattenAppend
  <2>6. (FlattenSeq(ss) \o FlattenSeq(vv)) \o y = FlattenSeq(ss) \o (FlattenSeq(vv) \o y)
    <3> DEFINE v == FlattenSeq(ss)
               w == FlattenSeq(vv)
    <3>1. v \in Seq(T) /\ w \in Seq(T) /\ y \in Seq(T)
      BY <1>0, <2>1, <2>3
    <3> HIDE DEF v, w
    <3>2. (v \o w) \o y = v \o (w \o y)
      BY <3>1, ConcatAssociative, SMTT(60)
    <3> QED
      BY <3>2 DEF v, w
  <2> QED
    BY <2>2, <2>3, <2>5, <2>6
<1> HIDE DEF Ns
<1>3. Nat \subseteq Ns
  BY <1>1, <1>2, NatInduct
<1>4. Len(tt) \in Ns
  BY <1>3
<1> QED
  BY <1>4, SMTT(60) DEF Ns

-----------------------------------------------------------------------------
(* Entry by entry.                                                         *)

\* v has the entries of s and then those of t.
Joins(v, s, t) ==
    /\ Len(v) = Len(s) + Len(t)
    /\ \A i \in 1 .. Len(v) : v[i] = IF i <= Len(s) THEN s[i] ELSE t[i - Len(s)]

LEMMA ConcatIs ==
    ASSUME NEW T, NEW s \in Seq(T), NEW t \in Seq(T)
    PROVE  s \o t \in Seq(T) /\ Joins(s \o t, s, t)
<1>1. s \o t \in Seq(T) /\ Len(s \o t) = Len(s) + Len(t)
  BY ConcatProperties
<1>2. \A i \in 1 .. Len(s) + Len(t) :
         (s \o t)[i] = IF i <= Len(s) THEN s[i] ELSE t[i - Len(s)]
  BY ConcatProperties
<1> QED
  BY <1>1, <1>2 DEF Joins

LEMMA HeadTail ==
    ASSUME NEW T, NEW ts \in Seq(T), ts # <<>>
    PROVE  /\ Head(ts) \in T /\ Tail(ts) \in Seq(T) /\ Len(ts) = Len(Tail(ts)) + 1
           /\ ts = <<Head(ts)>> \o Tail(ts) /\ <<Head(ts)>> \in Seq(T)
<1> DEFINE u == <<Head(ts)>>
           r == Tail(ts)
           v == u \o r
<1>1. Head(ts) \in T /\ r \in Seq(T) /\ Len(ts) = Len(r) + 1 /\ Len(r) \in Nat
      /\ (\A i \in 1 .. Len(r) : r[i] = ts[i + 1]) /\ ts[1] = Head(ts)
  OBVIOUS
<1>2. u \in Seq(T) /\ Len(u) = 1 /\ u[1] = Head(ts)
  BY <1>1
<1> HIDE DEF r, u
<1>3. v = u \o r
  OBVIOUS
<1> HIDE DEF v
<1>6. v \in Seq(T) /\ Len(v) = Len(ts)
      /\ (\A i \in 1 .. Len(v) : v[i] = IF i <= 1 THEN u[i] ELSE r[i - 1])
  <2>1. v \in Seq(T) /\ Joins(v, u, r)
    BY <1>1, <1>2, <1>3, ConcatIs
  <2> QED
    BY <1>1, <1>2, <2>1 DEF Joins
<1>4. ASSUME NEW i \in 1 .. Len(ts) PROVE ts[i] = v[i]
  <2>1. CASE i = 1
    BY <1>1, <1>2, <1>6, <2>1
  <2>2. CASE i # 1
    <3>1. i - 1 \in 1 .. Len(r) /\ (i - 1) + 1 = i
      BY <1>1, <2>2
    <3> QED
      BY <1>1, <1>6, <2>2, <3>1
  <2> QED
    BY <2>1, <2>2
<1>5. ts = v
  BY <1>4, <1>6, SeqEqual
<1> QED
  BY <1>1, <1>2, <1>5 DEF v, u, r

LEMMA TailAppend ==
    ASSUME NEW T, NEW s \in Seq(T), s # <<>>, NEW t \in T
    PROVE  Tail(Append(s, t)) = Append(Tail(s), t) /\ Head(Append(s, t)) = Head(s)
<1> DEFINE u == Tail(Append(s, t))
           v == Append(Tail(s), t)
<1>1. u \in Seq(T) /\ v \in Seq(T) /\ Len(u) = Len(v)
  OBVIOUS
<1>2. \A i \in 1 .. Len(u) : u[i] = v[i]
  OBVIOUS
<1>3. u = v
  BY <1>1, <1>2, SeqEqual
<1> QED
  BY <1>3

LEMMA SplitAt ==
    ASSUME NEW T, NEW s \in Seq(T), NEW n \in 0 .. Len(s)
    PROVE  /\ SubSeq(s, 1, n) \in Seq(T) /\ Len(SubSeq(s, 1, n)) = n
           /\ SubSeq(s, n + 1, Len(s)) \in Seq(T)
           /\ s = SubSeq(s, 1, n) \o SubSeq(s, n + 1, Len(s))
<1> DEFINE a == SubSeq(s, 1, n)
           b == SubSeq(s, n + 1, Len(s))
           v == a \o b
<1>1. Len(s) \in Nat /\ n \in Nat /\ n <= Len(s)
  OBVIOUS
<1>2. a \in Seq(T) /\ Len(a) = n /\ (\A i \in 1 .. n : a[i] = s[i])
  BY <1>1
<1>3. b \in Seq(T) /\ Len(b) = Len(s) - n /\ (\A i \in 1 .. Len(b) : b[i] = s[n + i])
  BY <1>1
<1> HIDE DEF a, b
<1>4. v \in Seq(T) /\ Joins(v, a, b)
  BY <1>2, <1>3, ConcatIs
<1> HIDE DEF v
<1>5. Len(v) = Len(s)
  BY <1>1, <1>2, <1>3, <1>4 DEF Joins
<1>6. ASSUME NEW i \in 1 .. Len(s) PROVE v[i] = s[i]
  <2>1. CASE i <= n
    BY <1>1, <1>2, <1>4, <1>5, <2>1 DEF Joins
  <2>2. CASE ~(i <= n)
    <3>1. i - n \in 1 .. Len(b) /\ n + (i - n) = i
      BY <1>1, <1>3, <2>2
    <3>2. v[i] = b[i - n] /\ b[i - n] = s[n + (i - n)]
      BY <1>1, <1>2, <1>3, <1>4, <1>5, <2>2, <3>1 DEF Joins
    <3> QED
      BY <3>1, <3>2
  <2> QED
    BY <2>1, <2>2
<1>7. v = s
  BY <1>4, <1>5, <1>6, SeqEqual
<1> QED
  BY <1>2, <1>3, <1>7 DEF v, a, b

\* ts with F applied to every entry.
Mapped(F, ts) == [i \in DOMAIN ts |-> F[ts[i]]]

Maps(p, F, ts) == Len(p) = Len(ts) /\ \A i \in 1 .. Len(ts) : p[i] = F[ts[i]]

LEMMA MappedType ==
    ASSUME NEW D, NEW R, NEW F \in [D -> R], NEW ts \in Seq(D)
    PROVE  Mapped(F, ts) \in Seq(R) /\ Maps(Mapped(F, ts), F, ts)
<1> DEFINE n == Len(ts)
           f == [i \in 1 .. n |-> F[ts[i]]]
<1>1. n \in Nat /\ DOMAIN ts = 1 .. n /\ \A i \in 1 .. n : F[ts[i]] \in R
  OBVIOUS
<1>2. f \in [1 .. n -> R]
  BY <1>1
<1>3. f \in Seq(R) /\ Len(f) = n
  <2> HIDE DEF n
  <2>1. f \in Seq(R)
    BY <1>1, <1>2
  <2> QED
    BY <1>1, <1>2, <2>1
<1>4. Mapped(F, ts) = f
  BY <1>1 DEF Mapped
<1>5. Maps(f, F, ts)
  BY <1>1, <1>3 DEF Maps
<1> QED
  BY <1>3, <1>4, <1>5

MappedSplits(F, ts, us) == Mapped(F, ts \o us) = Mapped(F, ts) \o Mapped(F, us)

LEMMA MappedConcat ==
    ASSUME NEW D, NEW R, NEW F \in [D -> R], NEW ts \in Seq(D), NEW us \in Seq(D)
    PROVE  MappedSplits(F, ts, us)
<1> DEFINE v == ts \o us
           p == Mapped(F, v)
           a == Mapped(F, ts)
           b == Mapped(F, us)
           q == a \o b
<1>1. v \in Seq(D) /\ Joins(v, ts, us)
  BY ConcatIs
<1> HIDE DEF v
<1>2. p \in Seq(R) /\ Maps(p, F, v)
  BY <1>1, MappedType
<1>3. a \in Seq(R) /\ Maps(a, F, ts) /\ b \in Seq(R) /\ Maps(b, F, us)
  BY MappedType
<1> HIDE DEF a, b, p
<1>4. q \in Seq(R) /\ Joins(q, a, b)
  BY <1>3, ConcatIs
<1> HIDE DEF q
<1>5. ASSUME NEW i \in 1 .. Len(p) PROVE p[i] = q[i]
  <2>1. CASE i <= Len(ts)
    <3>1. i \in 1 .. Len(ts) /\ i \in 1 .. Len(v) /\ i \in 1 .. Len(q)
      BY <1>1, <1>2, <1>3, <1>4, <2>1 DEF Joins, Maps
    <3>2. v[i] = ts[i] /\ p[i] = F[v[i]] /\ q[i] = a[i]
      BY <1>1, <1>2, <1>3, <1>4, <2>1, <3>1 DEF Joins, Maps
    <3> QED
      BY <1>3, <3>1, <3>2 DEF Maps
  <2>2. CASE ~(i <= Len(ts))
    <3>1. i - Len(ts) \in 1 .. Len(us) /\ i \in 1 .. Len(v) /\ i \in 1 .. Len(q)
      BY <1>1, <1>2, <1>3, <1>4, <2>2 DEF Joins, Maps
    <3>2. v[i] = us[i - Len(ts)] /\ p[i] = F[v[i]] /\ q[i] = b[i - Len(ts)]
      BY <1>1, <1>2, <1>3, <1>4, <2>2, <3>1 DEF Joins, Maps
    <3> QED
      BY <1>3, <3>1, <3>2 DEF Maps
  <2> QED
    BY <2>1, <2>2
<1>6. Len(p) = Len(q)
  BY <1>1, <1>2, <1>3, <1>4 DEF Joins, Maps
<1>7. p = q
  BY <1>2, <1>4, <1>5, <1>6, SeqEqual
<1> QED
  BY <1>7 DEF MappedSplits, p, q, a, b, v

\* What FlattenSeq makes of the images of the entries: of two sequences in a row,
\* of a single entry, of one that is put at the end or taken off the front.
Flat(F, ts) == FlattenSeq(Mapped(F, ts))

LEMMA FlatType ==
    ASSUME NEW D, NEW T, NEW F \in [D -> Seq(T)], NEW ts \in Seq(D)
    PROVE  Flat(F, ts) \in Seq(T)
<1> DEFINE p == Mapped(F, ts)
<1>1. p \in Seq(Seq(T)) /\ <<>> \in Seq(T)
  BY MappedType
<1> HIDE DEF p
<1>2. FlattenSeq(p) \in Seq(T)
  BY <1>1, FlattenAppend
<1> QED
  BY <1>2 DEF Flat, p

FlatSplits(F, ts, us) == Flat(F, ts \o us) = Flat(F, ts) \o Flat(F, us)

LEMMA FlatConcat ==
    ASSUME NEW D, NEW T, NEW F \in [D -> Seq(T)], NEW ts \in Seq(D), NEW us \in Seq(D)
    PROVE  FlatSplits(F, ts, us)
<1> DEFINE a == Mapped(F, ts)
           b == Mapped(F, us)
<1>1. a \in Seq(Seq(T)) /\ b \in Seq(Seq(T))
  BY MappedType
<1>3. MappedSplits(F, ts, us)
  BY MappedConcat
<1> HIDE DEF a, b
<1>2. FlattenSeq(a \o b) = FlattenSeq(a) \o FlattenSeq(b)
  BY <1>1, FlattenConcat
<1> QED
  BY <1>2, <1>3 DEF Flat, FlatSplits, MappedSplits, a, b

LEMMA FlatOne ==
    ASSUME NEW D, NEW T, NEW F \in [D -> Seq(T)], NEW t \in D
    PROVE  Flat(F, <<t>>) = F[t] /\ Flat(F, <<>>) = <<>>
<1> DEFINE x == F[t]
<1>1. Mapped(F, <<t>>) = <<x>> /\ Mapped(F, <<>>) = <<>>
  BY DEF Mapped
<1>2. FlattenSeq(<<>>) = <<>>
  BY DEF FlattenSeq
<1>3. x \in Seq(T) /\ <<>> \in Seq(Seq(T)) /\ <<x>> = Append(<<>>, x)
  OBVIOUS
<1> HIDE DEF x
<1>4. FlattenSeq(Append(<<>>, x)) = FlattenSeq(<<>>) \o x
  BY <1>3, FlattenAppend
<1>5. <<>> \o x = x
  BY <1>3, ConcatEmptySeq
<1> QED
  BY <1>1, <1>2, <1>3, <1>4, <1>5 DEF Flat, x

LEMMA FlatAppend ==
    ASSUME NEW D, NEW T, NEW F \in [D -> Seq(T)], NEW ts \in Seq(D), NEW t \in D
    PROVE  Flat(F, Append(ts, t)) = Flat(F, ts) \o F[t]
<1> DEFINE u == <<t>>
<1>1. Append(ts, t) = ts \o u /\ u \in Seq(D) /\ Flat(F, u) = F[t]
  <2>1. Append(ts, t) = ts \o u
    BY AppendIsConcat
  <2>2. u \in Seq(D)
    OBVIOUS
  <2>3. Flat(F, u) = F[t]
    BY FlatOne
  <2> QED
    BY <2>1, <2>2, <2>3
<1> HIDE DEF u
<1>2. FlatSplits(F, ts, u)
  BY <1>1, FlatConcat
<1> QED
  BY <1>1, <1>2 DEF FlatSplits

LEMMA FlatCons ==
    ASSUME NEW D, NEW T, NEW F \in [D -> Seq(T)], NEW ts \in Seq(D), ts # <<>>
    PROVE  Flat(F, ts) = F[Head(ts)] \o Flat(F, Tail(ts))
<1> DEFINE h == Head(ts)
           u == <<h>>
           r == Tail(ts)
<1>1. h \in D /\ r \in Seq(D) /\ u \in Seq(D) /\ ts = u \o r
  BY HeadTail
<1> HIDE DEF h, r
<1>2. Flat(F, u) = F[h]
  BY <1>1, FlatOne
<1> HIDE DEF u
<1>3. FlatSplits(F, u, r)
  BY <1>1, FlatConcat
<1> QED
  BY <1>1, <1>2, <1>3 DEF FlatSplits, h, r

-----------------------------------------------------------------------------
(* What is left of a sequence.                                             *)

\* s is what is left of b after its first k.
Left(T, b, s, k) == \E p \in Seq(T) : b = p \o s /\ Len(p) = k

LEMMA LeftLen ==
    ASSUME NEW T, NEW b, NEW s \in Seq(T), NEW k, Left(T, b, s, k)
    PROVE  b \in Seq(T) /\ k \in Nat /\ Len(b) = k + Len(s)
<1>1. PICK p \in Seq(T) : b = p \o s /\ Len(p) = k
  BY DEF Left
<1>2. p \o s \in Seq(T) /\ Len(p \o s) = Len(p) + Len(s) /\ Len(p) \in Nat
  BY ConcatProperties
<1> QED
  BY <1>1, <1>2

LEMMA LeftAppend ==
    ASSUME NEW T, NEW b, NEW s \in Seq(T), NEW c \in Seq(T), NEW k, Left(T, b, s, k)
    PROVE  Left(T, b \o c, s \o c, k)
<1>1. PICK p \in Seq(T) : b = p \o s /\ Len(p) = k
  BY DEF Left
<1>2. (p \o s) \o c = p \o (s \o c)
  BY ConcatAssociative, SMTT(30)
<1> QED
  BY <1>1, <1>2, Zenon DEF Left

LEMMA LeftMore ==
    ASSUME NEW T, NEW b, NEW c \in Seq(T), NEW s \in Seq(T), NEW k, Left(T, b, c \o s, k)
    PROVE  Left(T, b, s, k + Len(c))
<1>1. PICK p \in Seq(T) : b = p \o (c \o s) /\ Len(p) = k
  BY DEF Left
<1>2. (p \o c) \o s = p \o (c \o s)
  BY ConcatAssociative, SMTT(30)
<1> DEFINE q == p \o c
<1>3. q \in Seq(T) /\ Len(q) = k + Len(c)
  BY <1>1, ConcatProperties
<1>4. b = q \o s
  BY <1>1, <1>2
<1> HIDE DEF q
<1> QED
  BY <1>3, <1>4 DEF Left

LEMMA LeftNothing ==
    ASSUME NEW T, NEW b \in Seq(T)
    PROVE  Left(T, b, <<>>, Len(b))
<1>1. b \o <<>> = b
  BY ConcatEmptySeq
<1> QED
  BY <1>1 DEF Left

\* The entry that comes next, and what is before it.
LEMMA LeftHead ==
    ASSUME NEW T, NEW b, NEW s \in Seq(T), s # <<>>, NEW k, Left(T, b, s, k)
    PROVE  /\ k + 1 \in 1 .. Len(b) /\ b[k + 1] = Head(s)
           /\ Left(T, b, Tail(s), k + 1)
<1>1. PICK p \in Seq(T) : b = p \o s /\ Len(p) = k
  BY DEF Left
<1>2. b \in Seq(T) /\ Joins(b, p, s)
  BY <1>1, ConcatIs
<1>3. Len(s) \in Nat /\ Len(s) >= 1 /\ k \in Nat /\ s[1] = Head(s)
  BY <1>1
<1>4. k + 1 \in 1 .. Len(b) /\ ~ (k + 1 <= k) /\ (k + 1) - k = 1
  BY <1>1, <1>2, <1>3 DEF Joins
<1>5. b[k + 1] = s[1]
  BY <1>1, <1>2, <1>4 DEF Joins
<1> DEFINE h == <<Head(s)>>
           r == Tail(s)
<1>6. r \in Seq(T) /\ h \in Seq(T) /\ s = h \o r
  BY HeadTail
<1>7. Len(h) = 1
  OBVIOUS
<1> HIDE DEF h, r
<1>8. Left(T, b, h \o r, k)
  BY <1>6
<1>9. Left(T, b, r, k + Len(h))
  BY <1>6, <1>8, LeftMore
<1> QED
  BY <1>3, <1>4, <1>5, <1>7, <1>9 DEF r

\* The part of b that is before s.
LEMMA LeftPart ==
    ASSUME NEW T, NEW b, NEW s \in Seq(T), NEW k, Left(T, b, s, k)
    PROVE  SubSeq(b, 1, k) \in Seq(T) /\ b = SubSeq(b, 1, k) \o s
<1>1. PICK p \in Seq(T) : b = p \o s /\ Len(p) = k
  BY DEF Left
<1>2. b \in Seq(T) /\ Joins(b, p, s) /\ Len(s) \in Nat /\ k \in Nat
  BY <1>1, ConcatIs
<1>3. Len(b) \in Nat /\ k <= Len(b) /\ \A i \in 1 .. k : b[i] = p[i]
  BY <1>1, <1>2 DEF Joins
<1> DEFINE q == SubSeq(b, 1, k)
<1>4. q \in Seq(T) /\ Len(q) = k /\ \A i \in 1 .. k : q[i] = b[i]
  BY <1>2, <1>3
<1> HIDE DEF q
<1>5. \A i \in 1 .. Len(q) : q[i] = p[i]
  BY <1>3, <1>4
<1>6. q = p
  BY <1>1, <1>4, <1>5, SeqEqual
<1> QED
  BY <1>1, <1>6 DEF q

LEMMA PartAppend ==
    ASSUME NEW T, NEW b \in Seq(T), NEW t \in T, NEW k \in 0 .. Len(b)
    PROVE  SubSeq(Append(b, t), 1, k) = SubSeq(b, 1, k)
<1> DEFINE a == Append(b, t)
           x == SubSeq(a, 1, k)
           y == SubSeq(b, 1, k)
<1>1. a \in Seq(T) /\ Len(a) = Len(b) + 1 /\ (\A i \in 1 .. Len(b) : a[i] = b[i])
  BY AppendProperties
<1> HIDE DEF a
<1>2. Len(b) \in Nat /\ k \in Nat /\ k <= Len(b)
  OBVIOUS
<1>3. x \in Seq(T) /\ Len(x) = k /\ (\A i \in 1 .. k : x[i] = a[i])
  BY <1>1, <1>2
<1>4. y \in Seq(T) /\ Len(y) = k /\ (\A i \in 1 .. k : y[i] = b[i])
  BY <1>2
<1> HIDE DEF x, y
<1>5. \A i \in 1 .. Len(x) : x[i] = y[i]
  BY <1>1, <1>2, <1>3, <1>4
<1>6. x = y
  BY <1>3, <1>4, <1>5, SeqEqual
<1> QED
  BY <1>6 DEF x, y, a

LEMMA PrefixIs ==
    ASSUME NEW T, NEW w \in Seq(T), NEW r \in Seq(T)
    PROVE  IsPrefix(w, w \o r)
<1> DEFINE v == w \o r
<1>1. v \in Seq(T) /\ Len(v) = Len(w) + Len(r) /\ Len(w) \in Nat /\ Len(r) \in Nat
      /\ (\A i \in 1 .. Len(w) : v[i] = w[i])
  BY ConcatProperties
<1> HIDE DEF v
<1>2. SubSeq(v, 1, Len(w)) = SubSeq(w, 1, Len(w))
  BY <1>1
<1> QED
  BY <1>1, <1>2 DEF IsPrefix, v

LEMMA PrefixRest ==
    ASSUME NEW T, NEW w \in Seq(T), NEW b \in Seq(T), IsPrefix(w, b)
    PROVE  \E r \in Seq(T) : b = w \o r
<1> DEFINE r == SubSeq(b, Len(w) + 1, Len(b))
           v == w \o r
<1>1. Len(w) \in Nat /\ Len(b) \in Nat /\ Len(w) <= Len(b)
      /\ SubSeq(w, 1, Len(w)) = SubSeq(b, 1, Len(w))
  BY DEF IsPrefix
<1>2. \A i \in 1 .. Len(w) : w[i] = SubSeq(w, 1, Len(w))[i] /\ b[i] = SubSeq(b, 1, Len(w))[i]
  BY <1>1
<1>3. \A i \in 1 .. Len(w) : w[i] = b[i]
  BY <1>1, <1>2
<1>4. r \in Seq(T) /\ Len(r) = Len(b) - Len(w)
      /\ (\A i \in 1 .. Len(r) : r[i] = b[Len(w) + i])
  BY <1>1
<1> HIDE DEF r
<1>5. v \in Seq(T) /\ Len(v) = Len(b)
      /\ (\A i \in 1 .. Len(v) : v[i] = IF i <= Len(w) THEN w[i] ELSE r[i - Len(w)])
  BY <1>1, <1>4, ConcatProperties
<1> HIDE DEF v
<1>6. ASSUME NEW i \in 1 .. Len(b) PROVE v[i] = b[i]
  <2>1. CASE i <= Len(w)
    BY <1>1, <1>3, <1>5, <2>1
  <2>2. CASE ~(i <= Len(w))
    <3>1. i - Len(w) \in 1 .. Len(r) /\ Len(w) + (i - Len(w)) = i
      BY <1>1, <1>4, <2>2
    <3>2. v[i] = r[i - Len(w)] /\ r[i - Len(w)] = b[Len(w) + (i - Len(w))]
      BY <1>1, <1>4, <1>5, <2>2, <3>1
    <3> QED
      BY <3>1, <3>2
  <2> QED
    BY <2>1, <2>2
<1>7. v = b
  BY <1>5, <1>6, SeqEqual
<1> QED
  BY <1>4, <1>7 DEF v

LEMMA PrefixAppend ==
    ASSUME NEW T, NEW w \in Seq(T), NEW b \in Seq(T), NEW c \in Seq(T), IsPrefix(w, b)
    PROVE  IsPrefix(w, b \o c)
<1>1. PICK r \in Seq(T) : b = w \o r
  BY PrefixRest
<1>2. (w \o r) \o c = w \o (r \o c) /\ r \o c \in Seq(T)
  BY ConcatAssociative, ConcatProperties, SMTT(60)
<1> DEFINE s == r \o c
<1>3. s \in Seq(T) /\ b \o c = w \o s
  BY <1>1, <1>2
<1> HIDE DEF s
<1> QED
  BY <1>3, PrefixIs

\* What is left behind a prefix completes it.
LEMMA LeftAll ==
    ASSUME NEW T, NEW w \in Seq(T), NEW s \in Seq(T), NEW b \in Seq(T),
           IsPrefix(w, b), Left(T, b, s, Len(w))
    PROVE  w \o s = b
<1>1. PICK p \in Seq(T) : b = p \o s /\ Len(p) = Len(w)
  BY DEF Left
<1>2. PICK r \in Seq(T) : b = w \o r
  BY PrefixRest
<1>3. Len(p) \in Nat /\ Len(p) <= Len(p \o s) /\ (\A i \in 1 .. Len(p) : (p \o s)[i] = p[i])
      /\ (\A i \in 1 .. Len(w) : (w \o r)[i] = w[i])
  BY ConcatProperties
<1>4. \A i \in 1 .. Len(p) : p[i] = w[i]
  BY <1>1, <1>2, <1>3
<1>5. p = w
  BY <1>1, <1>4, SeqEqual
<1> QED
  BY <1>1, <1>5

\* The first of what is left go to the end of the prefix.
LEMMA LeftTaken ==
    ASSUME NEW T, NEW b \in Seq(T), NEW w \in Seq(T), NEW c \in Seq(T), NEW s \in Seq(T),
           IsPrefix(w, b), Left(T, b, c \o s, Len(w))
    PROVE  IsPrefix(w \o c, b)
<1> DEFINE u == c \o s
<1>1. u \in Seq(T)
  BY ConcatProperties
<1>2. w \o u = b
  <2> HIDE DEF u
  <2>1. Left(T, b, u, Len(w))
    BY DEF u
  <2> QED
    BY <1>1, <2>1, LeftAll
<1>3. (w \o c) \o s = w \o (c \o s)
  BY ConcatAssociative, SMTT(30)
<1> DEFINE v == w \o c
<1>4. v \in Seq(T) /\ v \o s = b
  BY <1>2, <1>3, ConcatProperties
<1> HIDE DEF v
<1>5. IsPrefix(v, v \o s)
  BY <1>4, PrefixIs
<1> QED
  BY <1>4, <1>5 DEF v

-----------------------------------------------------------------------------
(* Bytes and handlers of tasks.                                            *)

\* Bytes and WithHandler flatten these.
CopiesOf == [t \in Task |-> Copies(t)]
HandlerOf == [t \in Task |-> IF t.handler THEN <<t.id>> ELSE <<>>]

LEMMA CopiesType ==
    ASSUME NEW t \in Task
    PROVE  /\ CopiesOf[t] = Copies(t)
           /\ Copies(t) \in Seq(Nat) /\ Len(Copies(t)) = t.left
           /\ \A j \in 1 .. t.left : Copies(t)[j] = t.id
<1>1. t.left \in Nat /\ t.id \in Nat
  BY DEF Task
<1> DEFINE n == t.left
           c == [j \in 1 .. n |-> t.id]
<1>2. c \in [1 .. n -> Nat] /\ n \in Nat
  BY <1>1
<1>3. c \in Seq(Nat) /\ Len(c) = n
  <2> HIDE DEF n
  <2>1. c \in Seq(Nat)
    BY <1>2
  <2> QED
    BY <1>2, <2>1
<1> QED
  BY <1>1, <1>3 DEF Copies, CopiesOf

LEMMA FunctionTypes ==
    CopiesOf \in [Task -> Seq(Nat)] /\ HandlerOf \in [Task -> Seq(Nat)]
<1>1. \A t \in Task : Copies(t) \in Seq(Nat)
  BY CopiesType
<1>2. \A t \in Task : t.id \in Nat
  BY DEF Task
<1>3. \A t \in Task : (IF t.handler THEN <<t.id>> ELSE <<>>) \in Seq(Nat)
  BY <1>2
<1> QED
  BY <1>1, <1>3 DEF CopiesOf, HandlerOf

LEMMA AreFlat ==
    ASSUME NEW ts \in Seq(Task)
    PROVE  Bytes(ts) = Flat(CopiesOf, ts) /\ WithHandler(ts) = Flat(HandlerOf, ts)
<1>1. \A i \in DOMAIN ts : ts[i] \in Task
  OBVIOUS
<1>2. Mapped(CopiesOf, ts) = [i \in DOMAIN ts |-> Copies(ts[i])]
  BY <1>1 DEF Mapped, CopiesOf
<1>3. Mapped(HandlerOf, ts) = [i \in DOMAIN ts |-> IF ts[i].handler THEN <<ts[i].id>> ELSE <<>>]
  BY <1>1 DEF Mapped, HandlerOf
<1> QED
  BY <1>2, <1>3 DEF Flat, Bytes, WithHandler

LEMMA BytesType ==
    ASSUME NEW ts \in Seq(Task)
    PROVE  Bytes(ts) \in Seq(Nat) /\ WithHandler(ts) \in Seq(Nat)
<1>1. Flat(CopiesOf, ts) \in Seq(Nat)
  BY FunctionTypes, FlatType
<1>2. Flat(HandlerOf, ts) \in Seq(Nat)
  BY FunctionTypes, FlatType
<1> QED
  BY <1>1, <1>2, AreFlat

LEMMA BytesConcat ==
    ASSUME NEW ts \in Seq(Task), NEW us \in Seq(Task)
    PROVE  Bytes(ts \o us) = Bytes(ts) \o Bytes(us)
<1>1. ts \o us \in Seq(Task)
  BY ConcatProperties
<1>2. FlatSplits(CopiesOf, ts, us)
  BY FunctionTypes, FlatConcat
<1> QED
  BY <1>1, <1>2, AreFlat DEF FlatSplits

LEMMA BytesAppend ==
    ASSUME NEW ts \in Seq(Task), NEW t \in Task
    PROVE  /\ Bytes(Append(ts, t)) = Bytes(ts) \o Copies(t)
           /\ WithHandler(Append(ts, t)) = WithHandler(ts) \o HandlerOf[t]
<1>1. Append(ts, t) \in Seq(Task) /\ CopiesOf[t] = Copies(t)
  BY CopiesType
<1>2. Flat(CopiesOf, Append(ts, t)) = Flat(CopiesOf, ts) \o CopiesOf[t]
  BY FunctionTypes, FlatAppend
<1>3. Flat(HandlerOf, Append(ts, t)) = Flat(HandlerOf, ts) \o HandlerOf[t]
  BY FunctionTypes, FlatAppend
<1> QED
  BY <1>1, <1>2, <1>3, AreFlat

LEMMA BytesCons ==
    ASSUME NEW ts \in Seq(Task), ts # <<>>
    PROVE  /\ Bytes(ts) = Copies(Head(ts)) \o Bytes(Tail(ts))
           /\ WithHandler(ts) = HandlerOf[Head(ts)] \o WithHandler(Tail(ts))
<1>1. Head(ts) \in Task /\ Tail(ts) \in Seq(Task)
  BY HeadTail
<1>2. Flat(CopiesOf, ts) = CopiesOf[Head(ts)] \o Flat(CopiesOf, Tail(ts))
  BY FunctionTypes, FlatCons
<1>3. Flat(HandlerOf, ts) = HandlerOf[Head(ts)] \o Flat(HandlerOf, Tail(ts))
  BY FunctionTypes, FlatCons
<1> QED
  BY <1>1, <1>2, <1>3, AreFlat, CopiesType

LEMMA EmptyBytes == Bytes(<<>>) = <<>> /\ WithHandler(<<>>) = <<>>
<1>1. DOMAIN <<>> = {}
  OBVIOUS
<1>2. [i \in DOMAIN <<>> |-> Copies(<<>>[i])] = <<>>
  BY <1>1
<1>3. [i \in DOMAIN <<>> |-> IF <<>>[i].handler THEN <<<<>>[i].id>> ELSE <<>>] = <<>>
  BY <1>1
<1>4. FlattenSeq(<<>>) = <<>>
  BY DEF FlattenSeq
<1> QED
  BY <1>2, <1>3, <1>4 DEF Bytes, WithHandler

LEMMA WholeTaken ==
    ASSUME NEW ts \in Seq(Task), ts # <<>>, NEW b, NEW k, Left(Nat, b, Bytes(ts), k)
    PROVE  Left(Nat, b, Bytes(Tail(ts)), k + Head(ts).left)
<1> DEFINE c == Copies(Head(ts))
           s == Bytes(Tail(ts))
<1>1. Head(ts) \in Task /\ Tail(ts) \in Seq(Task)
  BY HeadTail
<1>2. c \in Seq(Nat) /\ Len(c) = Head(ts).left /\ s \in Seq(Nat) /\ Bytes(ts) = c \o s
  BY <1>1, CopiesType, BytesType, BytesCons
<1> HIDE DEF c, s
<1>3. Left(Nat, b, c \o s, k)
  BY <1>2
<1>4. Left(Nat, b, s, k + Len(c))
  BY <1>2, <1>3, LeftMore
<1> QED
  BY <1>2, <1>4 DEF s

\* What is gone when r is left of all tasks is n bytes.
LEMMA PartTaken ==
    ASSUME NEW all \in Seq(Task), NEW r \in Seq(Task), NEW id, NEW n,
           Left(Task, all, r, id), Left(Nat, Bytes(all), Bytes(r), n)
    PROVE  Len(Bytes(SubSeq(all, 1, id))) = n
<1> DEFINE p == SubSeq(all, 1, id)
           x == Bytes(p)
           y == Bytes(r)
<1>1. p \in Seq(Task) /\ all = p \o r
  BY LeftPart
<1> HIDE DEF p
<1>2. x \in Seq(Nat) /\ y \in Seq(Nat) /\ Bytes(all) = x \o y
  BY <1>1, BytesConcat, BytesType
<1> HIDE DEF x, y
<1>3. PICK z \in Seq(Nat) : x \o y = z \o y /\ Len(z) = n
  BY <1>2 DEF Left, y
<1>4. Len(x \o y) = Len(x) + Len(y) /\ Len(z \o y) = Len(z) + Len(y)
  BY <1>2, ConcatProperties
<1>5. Len(x) \in Nat /\ Len(y) \in Nat /\ Len(z) \in Nat
  BY <1>2
<1> QED
  BY <1>3, <1>4, <1>5 DEF p, x

\* The first n bytes go, the rest of the first task and the others stay.
LEMMA RetrievedIs ==
    ASSUME NEW ts \in Seq(Task), ts # <<>>, NEW n \in 0 .. Head(ts).left
    PROVE  /\ Retrieved(ts, n) \in Seq(Task) /\ Retrieved(ts, n) # <<>>
           /\ Head(Retrieved(ts, n)).id = Head(ts).id
           /\ Tail(Retrieved(ts, n)) = Tail(ts)
           /\ Bytes(ts) = SubSeq(Copies(Head(ts)), 1, n) \o Bytes(Retrieved(ts, n))
           /\ WithHandler(Retrieved(ts, n)) = WithHandler(ts)
<1> DEFINE t == Head(ts)
           u == [t EXCEPT !.left = @ - n]
           r == Retrieved(ts, n)
<1>1. t \in Task /\ t = ts[1] /\ Tail(ts) \in Seq(Task) /\ 1 \in DOMAIN ts
  BY HeadTail
<1>2. u \in Task /\ u.id = t.id /\ u.left = t.left - n /\ u.handler = t.handler
      /\ t.left \in Nat /\ t.id \in Nat
  <2> HIDE DEF t
  <2>1. t.left \in Nat /\ t.id \in Nat
    BY <1>1 DEF Task
  <2>2. n \in Nat /\ t.left - n \in Nat
    BY <2>1 DEF t
  <2>3. u \in Task
    BY <1>1, <2>2 DEF Task
  <2>4. u.id = t.id /\ u.left = t.left - n /\ u.handler = t.handler
    BY <1>1 DEF Task
  <2> QED
    BY <2>1, <2>3, <2>4
<1>3. r = [ts EXCEPT ![1] = u]
  BY <1>1 DEF Retrieved
<1> HIDE DEF u, r
<1>4. r \in Seq(Task) /\ Len(r) = Len(ts) /\ r # <<>> /\ r[1] = u
      /\ (\A i \in 1 .. Len(ts) : i # 1 => r[i] = ts[i])
  BY <1>1, <1>2, <1>3
<1>5. Head(r) = u /\ Tail(r) = Tail(ts)
  <2>1. Tail(r) \in Seq(Task) /\ Len(Tail(r)) = Len(Tail(ts)) /\ Tail(ts) \in Seq(Task)
    BY <1>4
  <2>2. \A i \in 1 .. Len(Tail(ts)) : Tail(r)[i] = Tail(ts)[i]
    BY <1>4
  <2>3. Tail(r) = Tail(ts)
    BY <2>1, <2>2, SeqEqual
  <2> QED
    BY <1>4, <2>3
<1>6. Copies(t) = SubSeq(Copies(t), 1, n) \o Copies(u)
  <2> DEFINE c == Copies(t)
             d == Copies(u)
             a == SubSeq(c, 1, n)
             e == SubSeq(c, n + 1, Len(c))
  <2>1. c \in Seq(Nat) /\ Len(c) = t.left /\ (\A j \in 1 .. t.left : c[j] = t.id)
    BY <1>1, CopiesType
  <2>2. d \in Seq(Nat) /\ Len(d) = u.left /\ (\A j \in 1 .. u.left : d[j] = u.id)
    BY <1>2, CopiesType
  <2> HIDE DEF c, d
  <2>3. n \in 0 .. Len(c)
    BY <2>1
  <2>4. e \in Seq(Nat) /\ c = a \o e
    BY <2>1, <2>3, SplitAt
  <2>5. Len(e) = Len(d) /\ \A j \in 1 .. Len(e) : e[j] = d[j]
    <3>1. Len(e) = t.left - n /\ \A j \in 1 .. Len(e) : e[j] = c[n + j]
      BY <1>2, <2>1, <2>3, SMTT(60)
    <3> HIDE DEF e
    <3>2. \A j \in 1 .. Len(e) : e[j] = t.id
      BY <1>2, <2>1, <2>3, <3>1
    <3> QED
      BY <1>2, <2>2, <3>1, <3>2
  <2>6. e = d
    BY <2>2, <2>4, <2>5, SeqEqual
  <2> QED
    BY <2>4, <2>6 DEF c, d
<1>7. Bytes(ts) = SubSeq(Copies(t), 1, n) \o Bytes(r)
  <2> DEFINE a == SubSeq(Copies(t), 1, n)
             d == Copies(u)
             e == Bytes(Tail(ts))
  <2>1. a \in Seq(Nat) /\ d \in Seq(Nat) /\ e \in Seq(Nat)
    <3>1. Copies(t) \in Seq(Nat) /\ n \in 0 .. Len(Copies(t))
      BY <1>1, CopiesType
    <3> QED
      BY <1>1, <1>2, <3>1, SplitAt, CopiesType, BytesType
  <2>2. Bytes(ts) = Copies(t) \o e /\ Bytes(r) = d \o e
    BY <1>4, <1>5, BytesCons
  <2>3. Copies(t) = a \o d
    BY <1>6
  <2> HIDE DEF a, d, e
  <2>4. (a \o d) \o e = a \o (d \o e)
    BY <2>1, ConcatAssociative, SMTT(30)
  <2> QED
    BY <2>2, <2>3, <2>4 DEF a
<1>8. WithHandler(r) = WithHandler(ts)
  <2>1. HandlerOf[u] = HandlerOf[t]
    BY <1>1, <1>2 DEF HandlerOf
  <2> QED
    BY <1>4, <1>5, <2>1, BytesCons
<1> QED
  BY <1>2, <1>4, <1>5, <1>7, <1>8 DEF r

\* What the kernel takes of the front of what waits is what was sent.
LEMMA FrontTaken ==
    ASSUME NEW b \in Seq(Nat), NEW w \in Seq(Nat), NEW c \in Seq(Nat), NEW s \in Seq(Nat),
           IsPrefix(w, b), Left(Nat, b, c \o s, Len(w)), NEW n \in 0 .. Len(c)
    PROVE  /\ w \o SubSeq(c, 1, n) \in Seq(Nat)
           /\ Len(w \o SubSeq(c, 1, n)) = Len(w) + n
           /\ IsPrefix(w \o SubSeq(c, 1, n), b)
<1> DEFINE d == SubSeq(c, 1, n)
           e == SubSeq(c, n + 1, Len(c))
           r == e \o s
<1>1. d \in Seq(Nat) /\ Len(d) = n /\ e \in Seq(Nat) /\ c = d \o e
  BY SplitAt
<1> HIDE DEF d, e
<1>2. r \in Seq(Nat) /\ (d \o e) \o s = d \o r
  <2>1. e \o s \in Seq(Nat)
    BY <1>1, ConcatProperties
  <2>2. (d \o e) \o s = d \o (e \o s)
    BY <1>1, ConcatAssociative, SMTT(30)
  <2> QED
    BY <2>1, <2>2
<1> HIDE DEF r
<1>3. Left(Nat, b, d \o r, Len(w))
  BY <1>1, <1>2
<1>4. IsPrefix(w \o d, b)
  BY <1>1, <1>2, <1>3, LeftTaken
<1>5. w \o d \in Seq(Nat) /\ Len(w \o d) = Len(w) + Len(d)
  BY <1>1, ConcatProperties
<1> QED
  BY <1>1, <1>4, <1>5 DEF d

LEMMA LeadingAre ==
    ASSUME NEW ts \in Seq(Task)
    PROVE  /\ LeadingBufs(ts) \in Seq(Task)
           /\ \E us \in Seq(Task) : ts = LeadingBufs(ts) \o us
<1> DEFINE Files == {i \in 1 .. Len(ts) : ts[i].file}
<1>1. Bufs(ts) = IF Files # {} THEN Min(Files) ELSE 0
  BY DEF Bufs, SelectInSeq
<1>2. Bufs(ts) \in 0 .. Len(ts)
  <2>1. CASE Files = {}
    BY <1>1, <2>1
  <2>2. CASE Files # {}
    <3>1. Files \subseteq Nat
      OBVIOUS
    <3> HIDE DEF Files
    <3>2. \E n \in Files : \A m \in Files : n <= m
      BY <2>2, <3>1, NatMin
    <3>3. Min(Files) \in Files
      BY <3>2 DEF Min
    <3> QED
      BY <1>1, <2>2, <3>3 DEF Files
  <2> QED
    BY <2>1, <2>2
<1>3. CASE Bufs(ts) = 0
  <2>1. ts = ts \o <<>> /\ <<>> \in Seq(Task)
    BY ConcatEmptySeq
  <2> QED
    BY <1>3, <2>1 DEF LeadingBufs
<1>4. CASE Bufs(ts) # 0
  <2> DEFINE n == Bufs(ts) - 1
  <2>1. n \in 0 .. Len(ts)
    BY <1>2, <1>4
  <2>2. LeadingBufs(ts) = SubSeq(ts, 1, n)
    BY <1>4 DEF LeadingBufs
  <2> DEFINE us == SubSeq(ts, n + 1, Len(ts))
  <2> HIDE DEF n
  <2>3. SubSeq(ts, 1, n) \in Seq(Task) /\ us \in Seq(Task) /\ ts = SubSeq(ts, 1, n) \o us
    BY <2>1, SplitAt
  <2> HIDE DEF us
  <2> QED
    BY <2>2, <2>3
<1> QED
  BY <1>3, <1>4

-----------------------------------------------------------------------------
(* The invariant of a Connection.                                          *)

\* What the queue holds besides the task whose handler is running.
Waiting ==
    IF pc \in {"bufcb", "filecb"} /\ tasks # <<>> THEN Tail(tasks) ELSE tasks

\* What the place in the code says of the rest.
PlaceOK ==
    /\ destroyed => tasks = <<>>
    /\ pc = "acct" => ~destroyed
    /\ pc \notin {"acct", "bufcb"} => ret = 0
    /\ pc \in {"bufcb", "filecb"} /\ ~destroyed => tasks # <<>>
    /\ pc = "filecb" /\ ~FileHandlersMayDestroy => ~destroyed
    /\ pc = "bufcb" => calls # <<>>

\* The queue is the end of what was sent; of its first task a part may be gone.
QueueOK ==
    /\ \A i \in 1 .. Len(sent) : sent[i].id = i
    /\ tasks # <<>> =>
         Head(tasks).id >= 1 /\ Left(Task, sent, Tail(tasks), Head(tasks).id)

\* The bytes that wait are the last of all that were sent; those before them are
\* with the kernel, which has up to ret of the former too.
BytesOK ==
    /\ IsPrefix(wire, Bytes(sent))
    /\ ~destroyed => /\ ret <= Len(wire)
                     /\ Left(Nat, Bytes(sent), Bytes(Waiting), Len(wire) - ret)

CalledWhenOut(id) == id \in 1 .. Len(sent) /\ Len(Bytes(SubSeq(sent, 1, id))) <= Len(wire)

CallsOK ==
    /\ IsPrefix(calls, WithHandler(sent))
    /\ ~destroyed => calls \o WithHandler(Waiting) = WithHandler(sent)
    /\ \A i \in 1 .. Len(calls) : CalledWhenOut(calls[i])

ConnIInv == TypeOK /\ WriteInterest /\ PlaceOK /\ QueueOK /\ BytesOK /\ CallsOK

LEMMA WaitingType ==
    ASSUME TypeOK
    PROVE  Waiting \in Seq(Task) /\ Bytes(Waiting) \in Seq(Nat) /\ WithHandler(Waiting) \in Seq(Nat)
           /\ Bytes(sent) \in Seq(Nat) /\ WithHandler(sent) \in Seq(Nat)
<1>1. tasks \in Seq(Task) /\ sent \in Seq(Task)
  BY DEF TypeOK
<1>2. tasks # <<>> => Tail(tasks) \in Seq(Task)
  BY <1>1, HeadTail
<1>3. Waiting \in Seq(Task)
  BY <1>1, <1>2 DEF Waiting
<1> QED
  BY <1>1, <1>3, BytesType

\* As init() leaves it.
LEMMA ConnInitOK == Init => ConnIInv
<1> SUFFICES ASSUME Init PROVE ConnIInv
  OBVIOUS
<1>1. /\ tasks = <<>> /\ sent = <<>> /\ wire = <<>> /\ calls = <<>> /\ ret = 0 /\ pc = "idle"
      /\ destroyed = FALSE
  BY DEF Init
<1>2. TypeOK
  <2>1. tasks \in Seq(Task) /\ sent \in Seq(Task) /\ wire \in Seq(Nat) /\ calls \in Seq(Nat)
        /\ ret \in Nat
    BY <1>1
  <2>2. input \in 0 .. MaxInput
    BY BoundsAssumption DEF Init
  <2>3. destroyed \in BOOLEAN /\ later \in BOOLEAN /\ wantIn \in BOOLEAN /\ wantOut \in BOOLEAN
        /\ readable \in BOOLEAN
    BY DEF Init
  <2>4. pc \in {"idle", "writ", "acct", "tick"} \cup UserCode
    BY <1>1
  <2> QED
    BY <2>1, <2>2, <2>3, <2>4 DEF TypeOK
<1>3. PlaceOK /\ QueueOK /\ WriteInterest
  BY <1>1 DEF PlaceOK, QueueOK, WriteInterest
<1>4. Waiting = <<>> /\ Bytes(sent) = <<>> /\ WithHandler(sent) = <<>>
  BY <1>1, EmptyBytes DEF Waiting
<1>5. <<>> \in Seq(Nat) /\ <<>> \o <<>> = <<>> /\ Len(<<>>) = 0
  BY ConcatEmptySeq
<1>6. IsPrefix(<<>>, <<>>)
  BY <1>5 DEF IsPrefix
<1>7. Left(Nat, <<>>, <<>>, 0)
  BY <1>5 DEF Left
<1>8. BytesOK
  BY <1>1, <1>4, <1>5, <1>6, <1>7, EmptyBytes DEF BytesOK
<1>9. CallsOK
  BY <1>1, <1>4, <1>5, <1>6, EmptyBytes DEF CallsOK
<1> QED
  BY <1>2, <1>3, <1>8, <1>9 DEF ConnIInv

\* A step that neither takes nor gives.
LEMMA KeepStep ==
    ASSUME ConnIInv, UNCHANGED <<tasks, destroyed, ret, sent, wire, calls>>,
           \/ pc' = pc
           \/ /\ pc' \in {"idle", "writ", "tick", "readcb", "errocb", "othercb"}
              /\ ret = 0 /\ pc \notin {"bufcb", "filecb"},
           TypeOK', WriteInterest'
    PROVE  ConnIInv'
<1>1. Waiting' = Waiting
  BY DEF Waiting
<1>2. PlaceOK'
  BY DEF ConnIInv, PlaceOK
<1>3. QueueOK'
  BY DEF ConnIInv, QueueOK
<1>4. BytesOK'
  BY <1>1 DEF ConnIInv, BytesOK
<1>5. CallsOK'
  BY <1>1 DEF ConnIInv, CallsOK, CalledWhenOut
<1> QED
  BY <1>2, <1>3, <1>4, <1>5 DEF ConnIInv

LEMMA DestroyStep ==
    ASSUME ConnIInv, Destroyed, UNCHANGED <<ret, sent, wire, calls>>,
           \/ pc' = pc /\ pc \in UserCode /\ (pc = "filecb" => FileHandlersMayDestroy)
           \/ pc \in {"errocb", "tick"} /\ pc' \in {"tick", "idle"},
           TypeOK'
    PROVE  ConnIInv'
<1>1. destroyed' = TRUE /\ tasks' = <<>>
  BY DEF Destroyed
<1>2. PlaceOK'
  BY <1>1 DEF ConnIInv, PlaceOK, UserCode
<1>3. QueueOK' /\ WriteInterest'
  BY <1>1 DEF ConnIInv, QueueOK, WriteInterest
<1>4. BytesOK'
  BY <1>1 DEF ConnIInv, BytesOK
<1>5. CallsOK'
  BY <1>1 DEF ConnIInv, CallsOK, CalledWhenOut
<1> QED
  BY <1>2, <1>3, <1>4, <1>5 DEF ConnIInv

LEMMA SendStep ==
    ASSUME ConnIInv, NEW file \in BOOLEAN, NEW len \in Nat, NEW handler \in BOOLEAN,
           Send(file, len, handler)
    PROVE  ConnIInv'
<1> DEFINE t == [id |-> Len(sent) + 1, file |-> file, left |-> len, handler |-> handler]
<1>1. tasks \in Seq(Task) /\ sent \in Seq(Task) /\ calls \in Seq(Nat) /\ wire \in Seq(Nat)
      /\ Len(sent) \in Nat
  BY DEF ConnIInv, TypeOK
<1>2. t \in Task /\ t.id = Len(sent) + 1
  BY <1>1 DEF Task
<1>3. /\ pc \in UserCode /\ ~destroyed /\ wantOut' = TRUE
      /\ tasks' = Append(tasks, t) /\ sent' = Append(sent, t)
      /\ UNCHANGED <<destroyed, wantIn, later, pc, ret, peer, wire, calls>>
  BY DEF Send
<1> HIDE DEF t
<1>4. tasks' \in Seq(Task) /\ sent' \in Seq(Task) /\ tasks' # <<>> /\ Len(sent') = Len(sent) + 1
      /\ sent'[Len(sent) + 1] = t /\ (\A i \in 1 .. Len(sent) : sent'[i] = sent[i])
  BY <1>1, <1>2, <1>3
<1>5. TypeOK'
  BY <1>3, <1>4 DEF ConnIInv, TypeOK, peer
<1>6. WriteInterest'
  BY <1>3 DEF WriteInterest
<1>7. PlaceOK'
  BY <1>3, <1>4 DEF ConnIInv, PlaceOK, UserCode
<1>8. tasks # <<>> => Tail(tasks') = Append(Tail(tasks), t) /\ Head(tasks') = Head(tasks)
  BY <1>1, <1>2, <1>3, TailAppend
<1>9. QueueOK'
  <2>1. \A i \in 1 .. Len(sent') : sent'[i].id = i
    <3>1. \A i \in 1 .. Len(sent) : sent[i].id = i
      BY DEF ConnIInv, QueueOK
    <3>2. ASSUME NEW i \in 1 .. Len(sent'), i # Len(sent) + 1 PROVE i \in 1 .. Len(sent)
      BY <1>1, <1>4, <3>2
    <3> QED
      BY <1>2, <1>4, <3>1, <3>2
  <2>2. CASE tasks = <<>>
    <3>1. Head(tasks') = t /\ Tail(tasks') = <<>>
      BY <1>2, <1>3, <2>2
    <3>2. Left(Task, sent', <<>>, Len(sent'))
      BY <1>4, LeftNothing
    <3>3. t.id >= 1 /\ t.id = Len(sent')
      BY <1>1, <1>2, <1>4
    <3> QED
      BY <2>1, <3>1, <3>2, <3>3 DEF QueueOK
  <2>3. CASE tasks # <<>>
    <3> DEFINE k == Head(tasks).id
               r == Tail(tasks)
               u == <<t>>
    <3>1. k >= 1 /\ Left(Task, sent, r, k)
      BY <2>3 DEF ConnIInv, QueueOK
    <3>2. r \in Seq(Task) /\ u \in Seq(Task)
      BY <1>1, <1>2, <2>3, HeadTail
    <3>3. sent' = sent \o u /\ Tail(tasks') = r \o u /\ Head(tasks') = Head(tasks)
      BY <1>1, <1>2, <1>3, <1>8, <2>3, <3>2, AppendIsConcat
    <3> HIDE DEF r, u
    <3>4. Left(Task, sent \o u, r \o u, k)
      BY <3>1, <3>2, LeftAppend
    <3> QED
      BY <2>1, <3>1, <3>3, <3>4 DEF QueueOK
  <2> QED
    BY <2>2, <2>3
<1>10. Waiting' = Append(Waiting, t)
  <2>1. CASE pc \in {"bufcb", "filecb"}
    <3>1. tasks # <<>>
      BY <1>3, <2>1 DEF ConnIInv, PlaceOK
    <3> QED
      BY <1>3, <1>4, <1>8, <2>1, <3>1 DEF Waiting
  <2>2. CASE pc \notin {"bufcb", "filecb"}
    BY <1>3, <2>2 DEF Waiting
  <2> QED
    BY <2>1, <2>2
<1> DEFINE q == Waiting
           c == Copies(t)
           h == HandlerOf[t]
<1>11. q \in Seq(Task) /\ c \in Seq(Nat) /\ h \in Seq(Nat)
       /\ Bytes(q) \in Seq(Nat) /\ WithHandler(q) \in Seq(Nat)
       /\ Bytes(sent) \in Seq(Nat) /\ WithHandler(sent) \in Seq(Nat)
  BY <1>2, WaitingType, CopiesType, FunctionTypes DEF ConnIInv
<1>12. /\ Bytes(sent)' = Bytes(sent) \o c /\ WithHandler(sent)' = WithHandler(sent) \o h
       /\ Bytes(Waiting)' = Bytes(q) \o c /\ WithHandler(Waiting)' = WithHandler(q) \o h
  <2>1. Bytes(sent)' = Bytes(sent') /\ WithHandler(sent)' = WithHandler(sent')
        /\ Bytes(Waiting)' = Bytes(Waiting') /\ WithHandler(Waiting)' = WithHandler(Waiting')
    BY DEF Bytes, WithHandler, Copies
  <2> HIDE DEF q, c, h
  <2>2. Bytes(Append(sent, t)) = Bytes(sent) \o c /\ Bytes(Append(q, t)) = Bytes(q) \o c
    BY <1>1, <1>2, <1>11, BytesAppend DEF c
  <2>3. /\ WithHandler(Append(sent, t)) = WithHandler(sent) \o h
        /\ WithHandler(Append(q, t)) = WithHandler(q) \o h
    BY <1>1, <1>2, <1>11, BytesAppend DEF h
  <2>4. Waiting' = Append(q, t)
    BY <1>10 DEF q
  <2> QED
    BY <1>3, <2>1, <2>2, <2>3, <2>4
<1> HIDE DEF c, h, q
<1>13. BytesOK'
  <2>1. IsPrefix(wire, Bytes(sent)) /\ ret <= Len(wire)
        /\ Left(Nat, Bytes(sent), Bytes(q), Len(wire) - ret)
    BY <1>3 DEF ConnIInv, BytesOK, q
  <2>2. IsPrefix(wire, Bytes(sent) \o c)
    BY <1>1, <1>11, <2>1, PrefixAppend
  <2>3. Left(Nat, Bytes(sent) \o c, Bytes(q) \o c, Len(wire) - ret)
    BY <1>11, <2>1, LeftAppend
  <2> QED
    BY <1>3, <1>12, <2>1, <2>2, <2>3 DEF BytesOK
<1>14. CallsOK'
  <2>1. IsPrefix(calls, WithHandler(sent)) /\ calls \o WithHandler(q) = WithHandler(sent)
        /\ \A i \in 1 .. Len(calls) : CalledWhenOut(calls[i])
    BY <1>3 DEF ConnIInv, CallsOK, q
  <2>2. IsPrefix(calls, WithHandler(sent) \o h)
    BY <1>1, <1>11, <2>1, PrefixAppend
  <2>3. calls \o (WithHandler(q) \o h) = WithHandler(sent) \o h
    <3> DEFINE w == WithHandler(q)
    <3>1. calls \in Seq(Nat) /\ w \in Seq(Nat) /\ h \in Seq(Nat)
      BY <1>1, <1>11
    <3> HIDE DEF w
    <3>2. (calls \o w) \o h = calls \o (w \o h)
      BY <3>1, ConcatAssociative, SMTT(30)
    <3> QED
      BY <2>1, <3>2 DEF w
  <2>4. ASSUME NEW k, CalledWhenOut(k) PROVE CalledWhenOut(k)'
    <3>1. k \in 0 .. Len(sent)
      BY <1>1, <2>4 DEF CalledWhenOut
    <3>3. SubSeq(sent', 1, k) = SubSeq(sent, 1, k)
      BY <1>1, <1>2, <1>3, <3>1, PartAppend
    <3>4. Bytes(SubSeq(sent, 1, k))' = Bytes(SubSeq(sent, 1, k))
      BY <3>3 DEF Bytes, Copies
    <3> QED
      BY <1>1, <1>3, <1>4, <2>4, <3>4 DEF CalledWhenOut
  <2> QED
    BY <1>3, <1>12, <2>1, <2>2, <2>3, <2>4 DEF CallsOK
<1> QED
  BY <1>5, <1>6, <1>7, <1>9, <1>13, <1>14 DEF ConnIInv

\* The next task was sent next.
LEMMA NextTask ==
    ASSUME ConnIInv, tasks # <<>>, Tail(tasks) # <<>>
    PROVE  /\ Head(Tail(tasks)).id >= 1
           /\ Left(Task, sent, Tail(Tail(tasks)), Head(Tail(tasks)).id)
<1> DEFINE id == Head(tasks).id
           r == Tail(tasks)
<1>1. tasks \in Seq(Task)
  BY DEF ConnIInv, TypeOK
<1>2. r \in Seq(Task) /\ r # <<>> /\ id \in Nat
  <2>1. Head(tasks) \in Task /\ r \in Seq(Task)
    BY <1>1, HeadTail
  <2> QED
    BY <2>1 DEF Task
<1>3. Left(Task, sent, r, id)
  BY DEF ConnIInv, QueueOK
<1> HIDE DEF r, id
<1>4. id + 1 \in 1 .. Len(sent) /\ sent[id + 1] = Head(r) /\ Left(Task, sent, Tail(r), id + 1)
  BY <1>2, <1>3, LeftHead
<1>5. Head(r).id = id + 1
  BY <1>4 DEF ConnIInv, QueueOK
<1> QED
  BY <1>2, <1>4, <1>5 DEF r

LEMMA FirstTask ==
    ASSUME ConnIInv, tasks # <<>>, pc \in {"writ", "acct"}
    PROVE  /\ ~destroyed /\ Waiting = tasks
           /\ Head(tasks) \in Task /\ Tail(tasks) \in Seq(Task)
           /\ Left(Nat, Bytes(sent), Bytes(tasks), Len(wire) - ret)
           /\ Left(Nat, Bytes(sent), Bytes(Tail(tasks)), (Len(wire) - ret) + Head(tasks).left)
           /\ Head(tasks).id \in 1 .. Len(sent)
           /\ Len(Bytes(SubSeq(sent, 1, Head(tasks).id))) = (Len(wire) - ret) + Head(tasks).left
           /\ Tail(tasks) # <<>> =>
                /\ Head(Tail(tasks)).id >= 1
                /\ Left(Task, sent, Tail(Tail(tasks)), Head(Tail(tasks)).id)
<1> DEFINE t == Head(tasks)
           r == Tail(tasks)
           b == Bytes(sent)
           k == Len(wire) - ret
           done == SubSeq(sent, 1, t.id)
<1>1. tasks \in Seq(Task) /\ sent \in Seq(Task) /\ wire \in Seq(Nat) /\ ret \in Nat
  BY DEF ConnIInv, TypeOK
<1>2. t \in Task /\ r \in Seq(Task) /\ t.id \in Nat /\ t.left \in Nat
  <2>1. t \in Task /\ r \in Seq(Task)
    BY <1>1, HeadTail
  <2> QED
    BY <2>1 DEF Task
<1>3. ~destroyed /\ Waiting = tasks
  BY DEF ConnIInv, PlaceOK, Waiting
<1>4. Left(Nat, b, Bytes(tasks), k)
  BY <1>3 DEF ConnIInv, BytesOK
<1>5. Left(Nat, b, Bytes(r), k + t.left)
  <2> HIDE DEF b, k
  <2>1. Left(Nat, b, Bytes(Tail(tasks)), k + Head(tasks).left)
    BY <1>1, <1>4, WholeTaken
  <2> QED
    BY <2>1
<1>6. t.id >= 1 /\ Left(Task, sent, r, t.id)
  BY DEF ConnIInv, QueueOK
<1>7. t.id \in 1 .. Len(sent)
  <2>1. Len(sent) = t.id + Len(r)
    BY <1>2, <1>6, LeftLen
  <2> QED
    BY <1>1, <1>2, <1>6, <2>1
<1>9. Len(Bytes(done)) = k + t.left
  <2> DEFINE n == k + t.left
             id == t.id
  <2> HIDE DEF b, r, n, id
  <2>1. Left(Nat, b, Bytes(r), n) /\ Left(Task, sent, r, id) /\ r \in Seq(Task)
    BY <1>2, <1>5, <1>6 DEF n, id
  <2>2. Len(Bytes(SubSeq(sent, 1, id))) = n
    BY <1>1, <2>1, PartTaken DEF b
  <2> QED
    BY <2>2 DEF n, id
<1> QED
  BY <1>2, <1>3, <1>4, <1>5, <1>7, <1>9, NextTask

\* Bytes that are out stay out.
LEMMA CallsKept ==
    ASSUME ConnIInv, UNCHANGED sent, wire' \in Seq(Nat), Len(wire) <= Len(wire'),
           \A i \in 1 .. Len(calls') :
             \/ i \in 1 .. Len(calls) /\ calls'[i] = calls[i]
             \/ calls'[i] \in 1 .. Len(sent) /\ Len(Bytes(SubSeq(sent, 1, calls'[i]))) <= Len(wire')
    PROVE  \A i \in 1 .. Len(calls') : CalledWhenOut(calls[i])'
<1>1. sent \in Seq(Task) /\ wire \in Seq(Nat)
  BY DEF ConnIInv, TypeOK
<1>2. ASSUME NEW id, CalledWhenOut(id)
      PROVE  id \in 1 .. Len(sent) /\ Len(Bytes(SubSeq(sent, 1, id))) <= Len(wire')
  <2>1. id \in 0 .. Len(sent) /\ Len(Bytes(SubSeq(sent, 1, id))) <= Len(wire)
    BY <1>1, <1>2 DEF CalledWhenOut
  <2>2. Len(Bytes(SubSeq(sent, 1, id))) \in Nat
    BY <1>1, <2>1, SplitAt, BytesType
  <2> QED
    BY <1>1, <1>2, <2>1, <2>2 DEF CalledWhenOut
<1>3. ASSUME NEW i \in 1 .. Len(calls') PROVE CalledWhenOut(calls[i])'
  <2>1. i \in 1 .. Len(calls) => CalledWhenOut(calls[i])
    BY DEF ConnIInv, CallsOK
  <2>2. calls'[i] \in 1 .. Len(sent) /\ Len(Bytes(SubSeq(sent, 1, calls'[i]))) <= Len(wire')
    BY <1>2, <2>1
  <2>3. Bytes(SubSeq(sent, 1, calls[i]))' = Bytes(SubSeq(sent, 1, calls'[i]))
    BY DEF Bytes, Copies
  <2> QED
    BY <2>2, <2>3 DEF CalledWhenOut
<1> QED
  BY <1>3

\* The handlers called, when the first task is out.
Called(ts, c) == IF Head(ts).handler THEN Append(c, Head(ts).id) ELSE c

LEMMA CallMore ==
    ASSUME NEW ts \in Seq(Task), ts # <<>>, NEW c \in Seq(Nat), NEW w, c \o WithHandler(ts) = w
    PROVE  /\ Called(ts, c) \in Seq(Nat)
           /\ Called(ts, c) \o WithHandler(Tail(ts)) = w
           /\ IsPrefix(Called(ts, c), w)
<1> DEFINE g == HandlerOf[Head(ts)]
           h == WithHandler(Tail(ts))
           d == Called(ts, c)
<1>1. Head(ts) \in Task /\ Tail(ts) \in Seq(Task)
  BY HeadTail
<1>2. g \in Seq(Nat) /\ h \in Seq(Nat) /\ WithHandler(ts) = g \o h
  BY <1>1, FunctionTypes, BytesType, BytesCons
<1>3. d = c \o g
  <2>1. CASE Head(ts).handler
    <3>1. g = <<Head(ts).id>> /\ Head(ts).id \in Nat /\ d = Append(c, Head(ts).id)
      BY <1>1, <2>1 DEF HandlerOf, Task, Called
    <3> QED
      BY <3>1, AppendIsConcat
  <2>2. CASE ~Head(ts).handler
    <3>1. g = <<>> /\ d = c
      BY <1>1, <2>2 DEF HandlerOf, Called
    <3> QED
      BY <3>1, ConcatEmptySeq
  <2> QED
    BY <2>1, <2>2
<1> HIDE DEF g, h, d
<1>4. d \in Seq(Nat) /\ (c \o g) \o h = c \o (g \o h)
  <2>1. d \in Seq(Nat)
    BY <1>2, <1>3, ConcatProperties
  <2>2. (c \o g) \o h = c \o (g \o h)
    BY <1>2, ConcatAssociative, SMTT(30)
  <2> QED
    BY <2>1, <2>2
<1>5. d \o h = w
  BY <1>2, <1>3, <1>4
<1>6. IsPrefix(d, d \o h)
  BY <1>2, <1>4, PrefixIs
<1> QED
  BY <1>4, <1>5, <1>6 DEF d, h

\* All of the first task is with the kernel: its handler is called, or it goes.
LEMMA PoppedStep ==
    ASSUME ConnIInv, tasks # <<>>, pc \in {"writ", "acct"},
           UNCHANGED <<destroyed, sent>>,
           wire' \in Seq(Nat), Len(wire) <= Len(wire'), IsPrefix(wire', Bytes(sent)),
           ret' \in 0 .. Len(wire'),
           Len(wire') - ret' = (Len(wire) - ret) + Head(tasks).left,
           \/ /\ Head(tasks).handler
              /\ calls' = Append(calls, Head(tasks).id) /\ tasks' = tasks
              /\ \/ pc' = "bufcb"
                 \/ pc' = "filecb" /\ ret' = 0
           \/ /\ ~Head(tasks).handler
              /\ tasks' = Tail(tasks) /\ calls' = calls
              /\ pc' = pc /\ (pc = "writ" => ret' = 0),
           TypeOK', WriteInterest'
    PROVE  ConnIInv'
<1> DEFINE t == Head(tasks)
           r == Tail(tasks)
           w == WithHandler(sent)
           h == WithHandler(r)
<1>1. tasks \in Seq(Task) /\ sent \in Seq(Task) /\ wire \in Seq(Nat) /\ calls \in Seq(Nat) /\ ret \in Nat
  BY DEF ConnIInv, TypeOK
<1>2. /\ ~destroyed /\ Waiting = tasks /\ t \in Task /\ r \in Seq(Task)
      /\ Left(Nat, Bytes(sent), Bytes(r), Len(wire') - ret')
      /\ t.id \in 1 .. Len(sent) /\ Len(Bytes(SubSeq(sent, 1, t.id))) = Len(wire') - ret'
      /\ r # <<>> => Head(r).id >= 1 /\ Left(Task, sent, Tail(r), Head(r).id)
  BY FirstTask
<1>3. Waiting' = r
  BY <1>2 DEF Waiting
<1>4. QueueOK'
  BY <1>2 DEF ConnIInv, QueueOK
<1>5. PlaceOK'
  <2>1. calls' # <<>> \/ calls' = calls
    BY <1>1, <1>2 DEF Task
  <2> QED
    BY <1>2, <2>1 DEF ConnIInv, PlaceOK
<1>6. BytesOK'
  <2>1. Bytes(sent)' = Bytes(sent) /\ Bytes(Waiting)' = Bytes(r)
    BY <1>3 DEF Bytes, Copies
  <2> QED
    BY <1>2, <2>1 DEF BytesOK
<1>7. calls' \o h = w /\ IsPrefix(calls', w)
  <2>1. calls \o WithHandler(tasks) = w
    BY <1>2 DEF ConnIInv, CallsOK
  <2>2. calls' = Called(tasks, calls)
    BY DEF Called
  <2> HIDE DEF h, w, r
  <2>3. Called(tasks, calls) \o WithHandler(Tail(tasks)) = w /\ IsPrefix(Called(tasks, calls), w)
    BY <1>1, <2>1, CallMore
  <2> QED
    BY <2>2, <2>3 DEF h, r
<1>8. CallsOK'
  <2>1. WithHandler(sent)' = w /\ WithHandler(Waiting)' = h
    BY <1>3 DEF WithHandler
  <2>2. ASSUME NEW i \in 1 .. Len(calls')
        PROVE  \/ i \in 1 .. Len(calls) /\ calls'[i] = calls[i]
               \/ calls'[i] = t.id
    <3>1. CASE calls' = calls
      BY <3>1
    <3>2. CASE calls' = Append(calls, t.id)
      <4>1. Len(calls') = Len(calls) + 1 /\ Len(calls) \in Nat
        BY <1>1, <3>2, AppendProperties
      <4>2. calls'[Len(calls) + 1] = t.id /\ \A j \in 1 .. Len(calls) : calls'[j] = calls[j]
        BY <1>1, <3>2, AppendProperties
      <4> HIDE DEF t
      <4>3. i = Len(calls) + 1 \/ i \in 1 .. Len(calls)
        BY <4>1
      <4> QED
        BY <4>2, <4>3
    <3> QED
      BY <3>1, <3>2
  <2>3. t.id \in 1 .. Len(sent) /\ Len(Bytes(SubSeq(sent, 1, t.id))) <= Len(wire')
    BY <1>2
  <2>4. ASSUME NEW i \in 1 .. Len(calls')
        PROVE  \/ i \in 1 .. Len(calls) /\ calls'[i] = calls[i]
               \/ calls'[i] \in 1 .. Len(sent) /\ Len(Bytes(SubSeq(sent, 1, calls'[i]))) <= Len(wire')
    BY <2>2, <2>3
  <2>5. \A i \in 1 .. Len(calls') : CalledWhenOut(calls[i])'
    BY <2>4, CallsKept
  <2> QED
    BY <1>7, <2>1, <2>5 DEF CallsOK
<1> QED
  BY <1>4, <1>5, <1>6, <1>8 DEF ConnIInv

\* n bytes of the first task are with the kernel, and the rest waits.
LEMMA PartStep ==
    ASSUME ConnIInv, tasks # <<>>, pc \in {"writ", "acct"}, NEW n \in 0 .. Head(tasks).left,
           UNCHANGED <<destroyed, sent, calls>>,
           wire' \in Seq(Nat), Len(wire) <= Len(wire'), IsPrefix(wire', Bytes(sent)),
           tasks' = Retrieved(tasks, n), ret' = 0, pc' = "tick",
           Len(wire') = (Len(wire) - ret) + n,
           TypeOK', WriteInterest'
    PROVE  ConnIInv'
<1> DEFINE b == Bytes(sent)
           c == SubSeq(Copies(Head(tasks)), 1, n)
           r == Retrieved(tasks, n)
           k == Len(wire) - ret
<1>1. tasks \in Seq(Task) /\ sent \in Seq(Task) /\ wire \in Seq(Nat) /\ calls \in Seq(Nat) /\ ret \in Nat
  BY DEF ConnIInv, TypeOK
<1>2. ~destroyed /\ Waiting = tasks /\ Head(tasks) \in Task /\ Left(Nat, b, Bytes(tasks), k)
  BY FirstTask
<1>3. /\ r \in Seq(Task) /\ r # <<>> /\ Head(r).id = Head(tasks).id /\ Tail(r) = Tail(tasks)
      /\ Bytes(tasks) = c \o Bytes(r) /\ WithHandler(r) = WithHandler(tasks)
  BY <1>1, RetrievedIs
<1>4. c \in Seq(Nat) /\ Len(c) = n
  <2>1. Copies(Head(tasks)) \in Seq(Nat) /\ n \in 0 .. Len(Copies(Head(tasks)))
    BY <1>2, CopiesType
  <2> QED
    BY <2>1, SplitAt
<1>5. Waiting' = r
  BY DEF Waiting
<1>6. PlaceOK'
  BY <1>2 DEF ConnIInv, PlaceOK
<1>7. QueueOK'
  BY <1>3 DEF ConnIInv, QueueOK
<1>8. BytesOK'
  <2> DEFINE s == Bytes(r)
  <2>1. s \in Seq(Nat) /\ Left(Nat, b, c \o s, k)
    BY <1>2, <1>3, BytesType
  <2> HIDE DEF b, c, k, s
  <2>2. Left(Nat, b, s, k + Len(c))
    BY <1>4, <2>1, LeftMore
  <2>3. k + Len(c) = Len(wire') - ret'
    BY <1>1, <1>4 DEF k
  <2>4. Bytes(sent)' = b /\ Bytes(Waiting)' = s
    BY <1>5 DEF Bytes, Copies, b, s
  <2> QED
    BY <2>2, <2>3, <2>4 DEF BytesOK, b
<1>9. CallsOK'
  <2>1. WithHandler(sent)' = WithHandler(sent) /\ WithHandler(Waiting)' = WithHandler(tasks)
    <3>1. WithHandler(Waiting)' = WithHandler(r)
      BY <1>5 DEF WithHandler
    <3>2. WithHandler(sent)' = WithHandler(sent)
      BY DEF WithHandler
    <3> QED
      BY <1>3, <3>1, <3>2
  <2>2. \A i \in 1 .. Len(calls') : CalledWhenOut(calls[i])'
    BY CallsKept
  <2> QED
    BY <1>2, <2>1, <2>2 DEF ConnIInv, CallsOK
<1> QED
  BY <1>6, <1>7, <1>8, <1>9 DEF ConnIInv

LEMMA SendFileStep == ASSUME ConnIInv, SendFile PROVE ConnIInv'
<1> DEFINE c == Copies(Head(tasks))
           s == Bytes(Tail(tasks))
           b == Bytes(sent)
<1>1. /\ tasks \in Seq(Task) /\ sent \in Seq(Task) /\ wire \in Seq(Nat) /\ calls \in Seq(Nat)
      /\ ret = 0 /\ pc = "writ" /\ tasks # <<>> /\ wantOut
  BY DEF ConnIInv, TypeOK, PlaceOK, SendFile, WriteInterest
<1>2. ~destroyed /\ Head(tasks) \in Task /\ Tail(tasks) \in Seq(Task) /\ Left(Nat, b, Bytes(tasks), Len(wire))
  <2>1. Len(wire) - ret = Len(wire)
    BY <1>1
  <2> QED
    BY <1>1, <2>1, FirstTask
<1>3. c \in Seq(Nat) /\ Len(c) = Head(tasks).left /\ s \in Seq(Nat) /\ b \in Seq(Nat)
      /\ Bytes(tasks) = c \o s
  BY <1>1, <1>2, CopiesType, BytesType, BytesCons
<1>4. PICK n \in 1 .. Head(tasks).left :
         /\ wire' = wire \o SubSeq(c, 1, n)
         /\ \/ /\ n = Head(tasks).left /\ Head(tasks).handler
               /\ calls' = Append(calls, Head(tasks).id)
               /\ pc' = "filecb" /\ UNCHANGED tasks
            \/ /\ n = Head(tasks).left /\ ~Head(tasks).handler
               /\ tasks' = Tail(tasks)
               /\ UNCHANGED <<pc, calls>>
            \/ /\ n < Head(tasks).left
               /\ tasks' = Retrieved(tasks, n)
               /\ pc' = "tick" /\ UNCHANGED calls
  BY DEF SendFile
<1>5. UNCHANGED <<destroyed, wantIn, wantOut, later, ret, peer, sent>>
  BY DEF SendFile
<1>6. Head(tasks).left \in Nat /\ Head(tasks).id \in Nat /\ n \in 0 .. Head(tasks).left
  BY <1>2, <1>4 DEF Task
<1>7. wire' \in Seq(Nat) /\ Len(wire') = Len(wire) + n /\ IsPrefix(wire', b)
  <2>1. IsPrefix(wire, b) /\ Left(Nat, b, c \o s, Len(wire)) /\ n \in 0 .. Len(c)
    BY <1>2, <1>3, <1>6 DEF ConnIInv, BytesOK
  <2> HIDE DEF b, c, s
  <2>2. /\ wire \o SubSeq(c, 1, n) \in Seq(Nat)
        /\ Len(wire \o SubSeq(c, 1, n)) = Len(wire) + n
        /\ IsPrefix(wire \o SubSeq(c, 1, n), b)
    BY <1>1, <1>3, <2>1, FrontTaken
  <2> QED
    BY <1>4, <2>2
<1>8. WriteInterest'
  BY <1>1, <1>5 DEF WriteInterest
<1>9. Len(wire) \in Nat /\ Len(wire) <= Len(wire') /\ ret' = 0
  BY <1>1, <1>5, <1>6, <1>7, SMTT(60)
<1>10. ASSUME tasks' \in Seq(Task), calls' \in Seq(Nat), pc' \in {"filecb", "writ", "tick"} PROVE TypeOK'
  BY <1>5, <1>7, <1>9, <1>10 DEF ConnIInv, TypeOK, peer, UserCode
<1>11. CASE n = Head(tasks).left
  <2>1. TypeOK'
    <3>1. tasks' \in Seq(Task) /\ calls' \in Seq(Nat) /\ pc' \in {"filecb", "writ", "tick"}
      <4>1. Append(calls, Head(tasks).id) \in Seq(Nat)
        BY <1>1, <1>6, AppendProperties
      <4>2. calls' \in Seq(Nat)
        BY <1>1, <1>4, <1>11, <4>1
      <4>3. tasks' \in Seq(Task)
        <5>1. tasks' = tasks \/ tasks' = Tail(tasks)
          BY <1>4, <1>6, <1>11
        <5> QED
          BY <1>1, <1>2, <5>1
      <4>4. pc' \in {"filecb", "writ", "tick"}
        BY <1>1, <1>4, <1>11
      <4> QED
        BY <4>2, <4>3, <4>4
    <3> QED
      BY <1>10, <3>1
  <2>2. Len(wire') - ret' = (Len(wire) - ret) + Head(tasks).left /\ ret' \in 0 .. Len(wire')
    BY <1>1, <1>6, <1>7, <1>9, <1>11
  <2>3. \/ /\ Head(tasks).handler
           /\ calls' = Append(calls, Head(tasks).id) /\ tasks' = tasks
           /\ pc' = "filecb" /\ ret' = 0
        \/ /\ ~Head(tasks).handler
           /\ tasks' = Tail(tasks) /\ calls' = calls
           /\ pc' = pc /\ (pc = "writ" => ret' = 0)
    BY <1>4, <1>6, <1>9, <1>11
  <2> QED
    BY <1>1, <1>5, <1>7, <1>8, <1>9, <2>1, <2>2, <2>3, PoppedStep
<1>12. CASE n # Head(tasks).left
  <2>1. tasks' = Retrieved(tasks, n) /\ pc' = "tick" /\ calls' = calls
    BY <1>4, <1>12
  <2>2. TypeOK'
    <3>1. tasks' \in Seq(Task)
      BY <1>1, <1>6, <2>1, RetrievedIs
    <3> QED
      BY <1>1, <1>10, <2>1, <3>1
  <2>3. Len(wire') = (Len(wire) - ret) + n
    BY <1>1, <1>7
  <2> QED
    BY <1>1, <1>5, <1>6, <1>7, <1>8, <1>9, <2>1, <2>2, <2>3, PartStep
<1> QED
  BY <1>11, <1>12

LEMMA AccountStep == ASSUME ConnIInv, Account PROVE ConnIInv'
<1> DEFINE t == Head(tasks)
<1>1. /\ tasks \in Seq(Task) /\ wire \in Seq(Nat) /\ calls \in Seq(Nat)
      /\ ret \in Nat /\ pc = "acct" /\ tasks # <<>> /\ wantOut
  BY DEF ConnIInv, TypeOK, PlaceOK, Account, WriteInterest
<1>2. ~destroyed /\ t \in Task /\ Tail(tasks) \in Seq(Task) /\ t.left \in Nat /\ t.id \in Nat
  <2>1. ~destroyed /\ t \in Task /\ Tail(tasks) \in Seq(Task)
    BY <1>1, FirstTask
  <2> QED
    BY <2>1 DEF Task
<1>3. UNCHANGED <<destroyed, wantIn, wantOut, later, peer, sent, wire>>
  BY DEF Account
<1>4. IsPrefix(wire', Bytes(sent)) /\ ret <= Len(wire) /\ Len(wire) \in Nat
  BY <1>1, <1>2, <1>3 DEF ConnIInv, BytesOK
<1>5. WriteInterest'
  BY <1>1, <1>3 DEF WriteInterest
<1>6. ASSUME tasks' \in Seq(Task), calls' \in Seq(Nat), ret' \in Nat,
             pc' \in {"bufcb", "acct", "tick"}
      PROVE  TypeOK'
  BY <1>3, <1>6 DEF ConnIInv, TypeOK, peer, UserCode
<1>7. CASE t.left <= ret
  <2>1. /\ ret' = ret - t.left
        /\ \/ /\ t.handler
              /\ calls' = Append(calls, t.id) /\ tasks' = tasks /\ pc' = "bufcb"
           \/ ~t.handler /\ tasks' = Tail(tasks) /\ calls' = calls /\ pc' = pc
    BY <1>1, <1>2, <1>7 DEF Account
  <2>2. ret' \in Nat /\ ret' \in 0 .. Len(wire') /\ Len(wire') - ret' = (Len(wire) - ret) + t.left
    <3> DEFINE m == Len(wire)
               l == t.left
    <3>1. Len(wire') = m /\ m \in Nat /\ l \in Nat /\ ret \in Nat /\ ret <= m /\ l <= ret
          /\ ret' = ret - l
      BY <1>1, <1>2, <1>3, <1>4, <1>7, <2>1
    <3> HIDE DEF m, l
    <3>2. ret' \in Nat /\ ret' \in 0 .. m /\ m - ret' = (m - ret) + l
      BY <3>1
    <3> QED
      BY <3>1, <3>2 DEF m, l
  <2>3. TypeOK'
    <3>1. tasks' \in Seq(Task) /\ calls' \in Seq(Nat) /\ pc' \in {"bufcb", "acct", "tick"}
      <4>1. Append(calls, t.id) \in Seq(Nat)
        BY <1>1, <1>2, AppendProperties
      <4> QED
        BY <1>1, <1>2, <2>1, <4>1
    <3> QED
      BY <1>6, <2>2, <3>1
  <2> QED
    BY <1>1, <1>3, <1>4, <1>5, <2>1, <2>2, <2>3, PoppedStep
<1>8. CASE ~(t.left <= ret)
  <2>1. tasks' = Retrieved(tasks, ret) /\ ret' = 0 /\ pc' = "tick" /\ calls' = calls
    BY <1>8 DEF Account
  <2>2. ret \in 0 .. Head(tasks).left
    BY <1>1, <1>2, <1>8
  <2>3. TypeOK'
    <3>1. tasks' \in Seq(Task)
      BY <1>1, <2>1, <2>2, RetrievedIs
    <3> QED
      BY <1>1, <1>6, <2>1, <3>1
  <2>4. Len(wire') = (Len(wire) - ret) + ret
    BY <1>1, <1>3, <1>4
  <2> QED
    BY <1>1, <1>3, <1>4, <1>5, <2>1, <2>2, <2>3, <2>4, PartStep
<1> QED
  BY <1>7, <1>8

LEMMA WritevStep == ASSUME ConnIInv, Writev PROVE ConnIInv'
<1> DEFINE q == LeadingBufs(tasks)
           c == Bytes(q)
           b == Bytes(sent)
<1>1. /\ tasks \in Seq(Task) /\ sent \in Seq(Task) /\ wire \in Seq(Nat) /\ calls \in Seq(Nat)
      /\ ret = 0 /\ pc = "writ" /\ tasks # <<>>
  BY DEF ConnIInv, TypeOK, PlaceOK, Writev
<1>2. PICK n \in 1 .. Len(c) : wire' = wire \o SubSeq(c, 1, n) /\ ret' = n
  BY DEF Writev
<1>3. pc' = "acct" /\ UNCHANGED <<conn, peer, sent, calls>>
  BY DEF Writev
<1>4. PICK us \in Seq(Task) : q \in Seq(Task) /\ tasks = q \o us
  BY <1>1, LeadingAre
<1>5. ~destroyed /\ IsPrefix(wire, b) /\ Left(Nat, b, Bytes(tasks), Len(wire))
  <2>1. Len(wire) - ret = Len(wire)
    BY <1>1
  <2> QED
    BY <1>1, <2>1, FirstTask DEF ConnIInv, BytesOK
<1> HIDE DEF q
<1>6. c \in Seq(Nat) /\ b \in Seq(Nat) /\ Bytes(us) \in Seq(Nat) /\ Bytes(tasks) = c \o Bytes(us)
  BY <1>1, <1>4, BytesType, BytesConcat
<1>7. n \in 0 .. Len(c) /\ n \in Nat
  BY <1>2, <1>6
<1>8. wire' \in Seq(Nat) /\ Len(wire') = Len(wire) + n /\ IsPrefix(wire', b)
  <2> DEFINE s == Bytes(us)
  <2>1. Left(Nat, b, c \o s, Len(wire)) /\ s \in Seq(Nat)
    BY <1>5, <1>6
  <2> HIDE DEF b, c, s
  <2>2. /\ wire \o SubSeq(c, 1, n) \in Seq(Nat)
        /\ Len(wire \o SubSeq(c, 1, n)) = Len(wire) + n
        /\ IsPrefix(wire \o SubSeq(c, 1, n), b)
    BY <1>1, <1>5, <1>6, <1>7, <2>1, FrontTaken
  <2> QED
    BY <1>2, <2>2
<1>9. Len(wire) \in Nat /\ Len(wire) <= Len(wire') /\ Len(wire') - ret' = Len(wire) /\ ret' <= Len(wire')
  BY <1>1, <1>2, <1>7, <1>8
<1>10. TypeOK'
  BY <1>2, <1>3, <1>7, <1>8 DEF ConnIInv, TypeOK, conn, peer
<1>11. WriteInterest' /\ PlaceOK' /\ QueueOK'
  BY <1>1, <1>3, <1>5 DEF ConnIInv, WriteInterest, PlaceOK, QueueOK, conn
<1>12. Waiting' = tasks
  BY <1>3 DEF Waiting, conn
<1>13. BytesOK'
  <2>1. Bytes(sent)' = b /\ Bytes(Waiting)' = Bytes(tasks)
    BY <1>3, <1>12 DEF Bytes, Copies, b
  <2> QED
    BY <1>5, <1>8, <1>9, <2>1 DEF BytesOK
<1>14. CallsOK'
  <2>1. WithHandler(sent)' = WithHandler(sent) /\ WithHandler(Waiting)' = WithHandler(tasks)
    BY <1>3, <1>12 DEF WithHandler
  <2>2. WithHandler(Waiting) = WithHandler(tasks)
    BY <1>1 DEF Waiting
  <2>3. \A i \in 1 .. Len(calls') : CalledWhenOut(calls[i])'
    BY <1>3, <1>8, <1>9, CallsKept
  <2> QED
    BY <1>3, <1>5, <2>1, <2>2, <2>3 DEF ConnIInv, CallsOK
<1> QED
  BY <1>10, <1>11, <1>13, <1>14 DEF ConnIInv

\* A handler has returned, and its task goes.
LEMMA PopStep ==
    ASSUME ConnIInv, tasks # <<>>, tasks' = Tail(tasks),
           \/ pc = "bufcb" /\ ~destroyed /\ pc' = "acct"
           \/ pc = "filecb" /\ pc' = "writ",
           UNCHANGED <<destroyed, wantIn, wantOut, later, ret, peer, sent, wire, calls>>
    PROVE  ConnIInv'
<1>1. tasks \in Seq(Task) /\ sent \in Seq(Task) /\ wire \in Seq(Nat) /\ calls \in Seq(Nat) /\ ~destroyed
      /\ wantOut
  BY DEF ConnIInv, TypeOK, PlaceOK, WriteInterest
<1>2. Tail(tasks) \in Seq(Task)
  BY <1>1, HeadTail
<1>3. TypeOK'
  BY <1>2 DEF ConnIInv, TypeOK, peer
<1>4. PlaceOK' /\ WriteInterest'
  BY <1>1 DEF ConnIInv, PlaceOK, WriteInterest
<1>5. QueueOK'
  BY NextTask DEF ConnIInv, QueueOK
<1>6. Waiting = Tail(tasks) /\ Waiting' = Tail(tasks)
  BY DEF Waiting
<1>7. BytesOK'
  <2>1. Bytes(sent)' = Bytes(sent) /\ Bytes(Waiting)' = Bytes(Waiting)
    BY <1>6 DEF Bytes, Copies
  <2> QED
    BY <1>1, <2>1 DEF ConnIInv, BytesOK
<1>8. CallsOK'
  <2>1. WithHandler(sent)' = WithHandler(sent) /\ WithHandler(Waiting)' = WithHandler(Waiting)
    BY <1>6 DEF WithHandler
  <2>2. \A i \in 1 .. Len(calls') : CalledWhenOut(calls[i])'
    <3>1. Len(wire) <= Len(wire') /\ wire' \in Seq(Nat)
      BY <1>1
    <3> QED
      BY <3>1, CallsKept
  <2> QED
    BY <1>1, <2>1, <2>2 DEF ConnIInv, CallsOK
<1> QED
  BY <1>3, <1>4, <1>5, <1>7, <1>8 DEF ConnIInv

LEMMA DestroyedType ==
    Destroyed => /\ tasks' \in Seq(Task) /\ destroyed' \in BOOLEAN
                 /\ wantIn' \in BOOLEAN /\ wantOut' \in BOOLEAN
<1>1. <<>> \in Seq(Task)
  OBVIOUS
<1>2. Destroyed => tasks' \in Seq(Task)
  BY <1>1 DEF Destroyed
<1>3. Destroyed => destroyed' \in BOOLEAN /\ wantIn' \in BOOLEAN /\ wantOut' \in BOOLEAN
  BY DEF Destroyed
<1> QED
  BY <1>2, <1>3

LEMMA ReturnsStep == ASSUME ConnIInv, Returns PROVE ConnIInv'
<1>1. CASE BufHandlerReturns
  <2>1. CASE destroyed
    <3>1. pc = "bufcb" /\ pc' = "tick" /\ ret' = 0
          /\ UNCHANGED <<tasks, destroyed, wantIn, wantOut, later, peer, sent, wire, calls>>
      BY <1>1, <2>1 DEF BufHandlerReturns
    <3>2. TypeOK' /\ PlaceOK' /\ QueueOK' /\ WriteInterest'
      BY <2>1, <3>1 DEF ConnIInv, TypeOK, PlaceOK, QueueOK, WriteInterest, peer
    <3>3. BytesOK' /\ CallsOK'
      BY <2>1, <3>1 DEF ConnIInv, BytesOK, CallsOK, CalledWhenOut
    <3> QED
      BY <3>2, <3>3 DEF ConnIInv
  <2>2. CASE ~destroyed
    <3>1. pc = "bufcb" /\ pc' = "acct" /\ tasks' = Tail(tasks)
          /\ UNCHANGED <<destroyed, wantIn, wantOut, later, ret, peer, sent, wire, calls>>
      BY <1>1, <2>2 DEF BufHandlerReturns
    <3>2. tasks # <<>>
      BY <2>2, <3>1 DEF ConnIInv, PlaceOK
    <3> QED
      BY <2>2, <3>1, <3>2, PopStep
  <2> QED
    BY <2>1, <2>2
<1>2. CASE FileHandlerReturns
  <2>1. pc = "filecb" /\ pc' = "writ" /\ tasks # <<>> /\ tasks' = Tail(tasks)
        /\ UNCHANGED <<destroyed, wantIn, wantOut, later, ret, peer, sent, wire, calls>>
    BY <1>2 DEF FileHandlerReturns
  <2> QED
    BY <2>1, PopStep
<1>3. CASE CallbackReturns
  <2>1. UNCHANGED <<tasks, destroyed, ret, sent, wire, calls>> /\ pc' = "tick" /\ ret = 0
        /\ pc \notin {"bufcb", "filecb"}
    BY <1>3 DEF CallbackReturns, Goto, conn, ConnIInv, PlaceOK
  <2>2. TypeOK' /\ WriteInterest'
    BY <1>3 DEF CallbackReturns, Goto, conn, peer, ConnIInv, TypeOK, WriteInterest
  <2> QED
    BY <2>1, <2>2, KeepStep
<1>4. CASE ErroReturns
  <2>1. Destroyed /\ UNCHANGED <<ret, sent, wire, calls>> /\ pc = "errocb" /\ pc' = "tick"
    BY <1>4 DEF ErroReturns, Goto
  <2>2. TypeOK'
    BY <1>4, DestroyedType DEF ErroReturns, Goto, peer, ConnIInv, TypeOK
  <2> QED
    BY <2>1, <2>2, DestroyStep
<1> QED
  BY <1>1, <1>2, <1>3, <1>4 DEF Returns

\* What any code may do to a Connection, what its loop does, and what arrives.
CodeStep ==
    \/ \E file, handler \in BOOLEAN, len \in Nat : Send(file, len, handler)
    \/ EnableRead \/ Destroy \/ DestroyLater

LoopStep == OtherEvent \/ ErroEvent \/ ReadEvent \/ WritEvent \/ LoopSteps

Arrives ==
    /\ readable' \in BOOLEAN /\ input' \in 0 .. MaxInput
    /\ UNCHANGED <<conn, pc, ret, sent, wire, calls>>

LEMMA CodeStepOK == ASSUME ConnIInv, CodeStep PROVE ConnIInv'
<1>1. CASE \E file, handler \in BOOLEAN, len \in Nat : Send(file, len, handler)
  BY <1>1, SendStep
<1>2. CASE EnableRead
  <2>1. UNCHANGED <<tasks, destroyed, ret, sent, wire, calls, pc>>
    BY <1>2 DEF EnableRead
  <2>2. TypeOK' /\ WriteInterest'
    BY <1>2 DEF EnableRead, ConnIInv, TypeOK, WriteInterest, peer
  <2> QED
    BY <2>1, <2>2, KeepStep
<1>3. CASE Destroy
  <2>1. Destroyed /\ UNCHANGED <<ret, sent, wire, calls, pc, later, peer>> /\ pc \in UserCode
        /\ (pc = "filecb" => FileHandlersMayDestroy)
    BY <1>3 DEF Destroy
  <2>2. TypeOK'
    BY <2>1, DestroyedType DEF peer, ConnIInv, TypeOK
  <2> QED
    BY <2>1, <2>2, DestroyStep
<1>4. CASE DestroyLater
  <2>1. UNCHANGED <<tasks, destroyed, ret, sent, wire, calls, pc>>
    BY <1>4 DEF DestroyLater
  <2>2. TypeOK' /\ WriteInterest'
    BY <1>4 DEF DestroyLater, ConnIInv, TypeOK, WriteInterest, peer
  <2> QED
    BY <2>1, <2>2, KeepStep
<1> QED
  BY <1>1, <1>2, <1>3, <1>4 DEF CodeStep

LEMMA LoopStepOK == ASSUME ConnIInv, LoopStep PROVE ConnIInv'
<1>1. ASSUME OtherEvent \/ ErroEvent \/ ReadEvent \/ NothingToWrite \/ NoRoom \/ WritFails
             \/ Accounted
      PROVE  ConnIInv'
  <2>1. UNCHANGED <<tasks, destroyed, ret, sent, wire, calls>>
    BY <1>1 DEF OtherEvent, ErroEvent, ReadEvent, NothingToWrite, NoRoom, WritFails, Accounted, Goto, conn
  <2>2. pc' \in {"idle", "writ", "tick", "readcb", "errocb", "othercb"}
        /\ ret = 0 /\ pc \notin {"bufcb", "filecb"}
    BY <1>1 DEF OtherEvent, ErroEvent, ReadEvent, NothingToWrite, NoRoom, WritFails, Accounted, Goto,
                ConnIInv, PlaceOK
  <2>3. UNCHANGED <<conn, input>> /\ readable' \in BOOLEAN
    BY <1>1 DEF OtherEvent, ErroEvent, ReadEvent, NothingToWrite, NoRoom, WritFails, Accounted,
                conn, peer, ConnIInv, TypeOK
  <2>4. TypeOK' /\ WriteInterest'
    BY <2>1, <2>2, <2>3 DEF ConnIInv, TypeOK, WriteInterest, conn, UserCode
  <2> QED
    BY <2>1, <2>2, <2>4, KeepStep
<1>2. CASE WritEvent
  <2>1. UNCHANGED <<tasks, destroyed, wantIn, later, ret, peer, sent, wire, calls>>
        /\ pc = "idle" /\ pc' = "writ" /\ wantOut' = (tasks # <<>>)
    BY <1>2 DEF WritEvent, Goto
  <2>2. TypeOK' /\ WriteInterest' /\ ret = 0
    BY <2>1 DEF ConnIInv, TypeOK, WriteInterest, PlaceOK, peer
  <2> QED
    BY <2>1, <2>2, KeepStep
<1>3. CASE SendFile \/ Writev
  BY <1>3, SendFileStep, WritevStep
<1>4. CASE Account
  BY <1>4, AccountStep
<1>5. CASE Returns
  BY <1>5, ReturnsStep
<1>6. CASE Tick
  <2>1. pc = "tick" /\ pc' = "idle" /\ UNCHANGED <<ret, sent, calls, peer, wire>> /\ later' = FALSE
    BY <1>6 DEF Tick, Goto
  <2>2. CASE later
    <3>1. Destroyed
      BY <1>6, <2>2 DEF Tick
    <3>2. TypeOK'
      BY <2>1, <3>1, DestroyedType DEF ConnIInv, TypeOK, peer
    <3> QED
      BY <2>1, <3>1, <3>2, DestroyStep
  <2>3. CASE ~later
    <3>1. UNCHANGED <<destroyed, tasks, wantIn, wantOut>>
      BY <1>6, <2>3 DEF Tick
    <3>2. TypeOK' /\ WriteInterest' /\ ret = 0
      BY <2>1, <3>1 DEF ConnIInv, TypeOK, WriteInterest, PlaceOK, peer
    <3> QED
      BY <2>1, <3>1, <3>2, KeepStep
  <2> QED
    BY <2>2, <2>3
<1> QED
  BY <1>1, <1>2, <1>3, <1>4, <1>5, <1>6 DEF LoopStep, LoopSteps, Progress

LEMMA ArrivesOK == ASSUME ConnIInv, Arrives PROVE ConnIInv'
<1>1. UNCHANGED <<tasks, destroyed, ret, sent, wire, calls, pc>>
  BY DEF Arrives, conn
<1>2. TypeOK' /\ WriteInterest'
  BY DEF Arrives, ConnIInv, TypeOK, WriteInterest, conn
<1> QED
  BY <1>1, <1>2, KeepStep

\* The steps of a Connection used by any code.
LEMMA NextIs == ASSUME TypeOK, Next PROVE CodeStep \/ LoopStep \/ Arrives
<1>1. PeerSends => Arrives
  BY BoundsAssumption DEF PeerSends, Arrives, TypeOK
<1>2. UserCalls => CodeStep
  BY LensAssumption DEF UserCalls, CodeStep
<1> QED
  BY <1>1, <1>2 DEF Next, LoopStep

-----------------------------------------------------------------------------
(* HttpServer and HttpClient: their Connection takes these steps only.     *)

LEMMA ServerLoop ==
    /\ S!LoopSteps => LoopSteps
    /\ S!ErroEvent => ErroEvent
    /\ S!WritEvent => WritEvent
    /\ S!ReadEvent => ReadEvent
<1>1. ASSUME NEW ts PROVE S!Bytes(ts) = Bytes(ts) /\ S!LeadingBufs(ts) = LeadingBufs(ts)
  <2>1. S!Bytes(ts) = Bytes(ts)
    BY DEF S!Bytes, Bytes, S!Copies, Copies, S!FlattenSeq, FlattenSeq
  <2>2. S!Bufs(ts) = Bufs(ts)
    BY DEF S!Bufs, Bufs, S!SelectInSeq, SelectInSeq, S!Min, Min
  <2> QED
    BY <2>1, <2>2 DEF S!LeadingBufs, LeadingBufs
<1>2. S!ErroEvent => ErroEvent
  BY DEF S!ErroEvent, ErroEvent, S!Goto, Goto, S!conn, conn, S!peer, peer
<1>3. S!WritEvent => WritEvent
  BY DEF S!WritEvent, WritEvent, S!Goto, Goto, S!peer, peer
<1>4. S!ReadEvent => ReadEvent
  BY DEF S!ReadEvent, ReadEvent, S!Goto, Goto, S!conn, conn
<1>5. S!NothingToWrite => NothingToWrite
  BY DEF S!NothingToWrite, NothingToWrite, S!Goto, Goto, S!conn, conn, S!peer, peer
<1>6. S!WritFails => WritFails
  BY DEF S!WritFails, WritFails, S!Goto, Goto, S!conn, conn, S!peer, peer
<1>7. S!Accounted => Accounted
  BY DEF S!Accounted, Accounted, S!Goto, Goto, S!conn, conn, S!peer, peer
<1>8. S!SendFile => SendFile
  BY DEF S!SendFile, SendFile, S!Copies, Copies, S!Retrieved, Retrieved, S!peer, peer
<1>9. S!Account => Account
  BY DEF S!Account, Account, S!Retrieved, Retrieved, S!peer, peer
<1>10. S!Returns => Returns
  BY DEF S!Returns, Returns, S!BufHandlerReturns, BufHandlerReturns, S!FileHandlerReturns, FileHandlerReturns, S!CallbackReturns, CallbackReturns, S!ErroReturns, ErroReturns, S!Destroyed, Destroyed, S!Goto, Goto, S!conn, conn, S!peer, peer
<1>11. S!Tick => Tick
  BY DEF S!Tick, Tick, S!Destroyed, Destroyed, S!Goto, Goto, S!peer, peer
<1>12. S!NoRoom => NoRoom
  BY <1>1 DEF S!NoRoom, NoRoom, S!Goto, Goto, S!conn, conn, S!peer, peer
<1>13. S!Writev => Writev
  BY <1>1 DEF S!Writev, Writev, S!conn, conn, S!peer, peer
<1>14. S!LoopSteps => LoopSteps
  BY <1>5, <1>6, <1>7, <1>8, <1>9, <1>10, <1>11, <1>12, <1>13 DEF S!LoopSteps, LoopSteps, S!Progress, Progress
<1> QED
  BY <1>2, <1>3, <1>4, <1>14

LEMMA ClientLoop ==
    /\ C!LoopSteps => LoopSteps
    /\ C!ErroEvent => ErroEvent
    /\ C!WritEvent => WritEvent
    /\ C!ReadEvent => ReadEvent
<1>1. ASSUME NEW ts PROVE C!Bytes(ts) = Bytes(ts) /\ C!LeadingBufs(ts) = LeadingBufs(ts)
  <2>1. C!Bytes(ts) = Bytes(ts)
    BY DEF C!Bytes, Bytes, C!Copies, Copies, C!FlattenSeq, FlattenSeq
  <2>2. C!Bufs(ts) = Bufs(ts)
    BY DEF C!Bufs, Bufs, C!SelectInSeq, SelectInSeq, C!Min, Min
  <2> QED
    BY <2>1, <2>2 DEF C!LeadingBufs, LeadingBufs
<1>2. C!ErroEvent => ErroEvent
  BY DEF C!ErroEvent, ErroEvent, C!Goto, Goto, C!conn, conn, C!peer, peer
<1>3. C!WritEvent => WritEvent
  BY DEF C!WritEvent, WritEvent, C!Goto, Goto, C!peer, peer
<1>4. C!ReadEvent => ReadEvent
  BY DEF C!ReadEvent, ReadEvent, C!Goto, Goto, C!conn, conn
<1>5. C!NothingToWrite => NothingToWrite
  BY DEF C!NothingToWrite, NothingToWrite, C!Goto, Goto, C!conn, conn, C!peer, peer
<1>6. C!WritFails => WritFails
  BY DEF C!WritFails, WritFails, C!Goto, Goto, C!conn, conn, C!peer, peer
<1>7. C!Accounted => Accounted
  BY DEF C!Accounted, Accounted, C!Goto, Goto, C!conn, conn, C!peer, peer
<1>8. C!SendFile => SendFile
  BY DEF C!SendFile, SendFile, C!Copies, Copies, C!Retrieved, Retrieved, C!peer, peer
<1>9. C!Account => Account
  BY DEF C!Account, Account, C!Retrieved, Retrieved, C!peer, peer
<1>10. C!Returns => Returns
  BY DEF C!Returns, Returns, C!BufHandlerReturns, BufHandlerReturns, C!FileHandlerReturns, FileHandlerReturns, C!CallbackReturns, CallbackReturns, C!ErroReturns, ErroReturns, C!Destroyed, Destroyed, C!Goto, Goto, C!conn, conn, C!peer, peer
<1>11. C!Tick => Tick
  BY DEF C!Tick, Tick, C!Destroyed, Destroyed, C!Goto, Goto, C!peer, peer
<1>12. C!NoRoom => NoRoom
  BY <1>1 DEF C!NoRoom, NoRoom, C!Goto, Goto, C!conn, conn, C!peer, peer
<1>13. C!Writev => Writev
  BY <1>1 DEF C!Writev, Writev, C!conn, conn, C!peer, peer
<1>14. C!LoopSteps => LoopSteps
  BY <1>5, <1>6, <1>7, <1>8, <1>9, <1>10, <1>11, <1>12, <1>13 DEF C!LoopSteps, LoopSteps, C!Progress, Progress
<1> QED
  BY <1>2, <1>3, <1>4, <1>14

LEMMA ServerCalls ==
    /\ \A file, len, handler : S!Send(file, len, handler) <=> Send(file, len, handler)
    /\ S!Destroy => Destroy
    /\ S!DestroyLater => DestroyLater
    /\ S!Init => Init
<1>1. \A file, len, handler : S!Send(file, len, handler) <=> Send(file, len, handler)
  BY DEF S!Send, Send, S!UserCode, UserCode, S!peer, peer
<1>2. S!Destroy => Destroy
  BY DEF S!Destroy, Destroy, S!Destroyed, Destroyed, S!UserCode, UserCode, S!peer, peer
<1>3. S!DestroyLater => DestroyLater
  BY DEF S!DestroyLater, DestroyLater, S!UserCode, UserCode, S!peer, peer
<1>4. S!Init => Init
  BY DEF S!Init, Init
<1> QED
  BY <1>1, <1>2, <1>3, <1>4

LEMMA ClientCalls ==
    /\ \A file, len, handler : C!Send(file, len, handler) <=> Send(file, len, handler)
    /\ C!Init => Init
<1>1. \A file, len, handler : C!Send(file, len, handler) <=> Send(file, len, handler)
  BY DEF C!Send, Send, C!UserCode, UserCode, C!peer, peer
<1>2. C!Init => Init
  BY DEF C!Init, Init
<1> QED
  BY <1>1, <1>2

LEMMA LoopSendsNothing == LoopStep => UNCHANGED sent
<1>1. OtherEvent \/ ErroEvent \/ ReadEvent \/ WritEvent => UNCHANGED sent
  BY DEF OtherEvent, ErroEvent, ReadEvent, WritEvent, Goto
<1>2. NothingToWrite \/ NoRoom \/ WritFails \/ Accounted \/ Tick => UNCHANGED sent
  BY DEF NothingToWrite, NoRoom, WritFails, Accounted, Tick, Goto
<1>3. SendFile \/ Writev \/ Account => UNCHANGED sent
  BY DEF SendFile, Writev, Account
<1>4. Returns => UNCHANGED sent
  BY DEF Returns, BufHandlerReturns, FileHandlerReturns, CallbackReturns, ErroReturns, Goto
<1> QED
  BY <1>1, <1>2, <1>3, <1>4 DEF LoopStep, LoopSteps, Progress

\* The tasks of an HttpServer are heads and files that there are.
Parts == {"head", "file"} \X DOMAIN Size

WhatOK == app = "HttpServer" => what \in Seq(Parts) /\ Len(what) = Len(sent)

\* When the handler of a head runs, the file it announced is there.
LEMMA AnnouncedIs ==
    ASSUME ConnIInv, WhatOK, app = "HttpServer", pc = "bufcb"
    PROVE  what[Last(calls)] \in Parts
<1>1. calls \in Seq(Nat) /\ calls # <<>>
  BY DEF ConnIInv, TypeOK, PlaceOK
<1>2. Last(calls) = calls[Len(calls)] /\ Len(calls) \in 1 .. Len(calls)
  BY <1>1 DEF Last
<1>3. CalledWhenOut(calls[Len(calls)])
  BY <1>2 DEF ConnIInv, CallsOK
<1>4. Last(calls) \in 1 .. Len(sent)
  BY <1>2, <1>3 DEF CalledWhenOut
<1> QED
  BY <1>4 DEF WhatOK

LEMMA NothingIs ==
    ASSUME ConnIInv, UNCHANGED <<conn, pc, ret, peer, sent, wire, calls>>
    PROVE  Arrives
BY DEF Arrives, peer, ConnIInv, TypeOK

\* One more task, and what it is.
LEMMA SentIs ==
    ASSUME ConnIInv, WhatOK, app = "HttpServer", NEW file \in BOOLEAN, NEW len \in Nat, NEW x \in Parts,
           S!SendOut(file, len, x)
    PROVE  CodeStep /\ what' \in Seq(Parts) /\ Len(what') = Len(sent')
<1>1. Send(file, len, TRUE) /\ what' = Append(what, x)
  BY ServerCalls DEF S!SendOut
<1>2. CodeStep
  BY <1>1 DEF CodeStep
<1>3. sent \in Seq(Task) /\ what \in Seq(Parts) /\ Len(what) = Len(sent)
  BY DEF ConnIInv, TypeOK, WhatOK
<1>4. PICK u : sent' = Append(sent, u)
  BY <1>1 DEF Send
<1>5. Len(sent') = Len(sent) + 1
  BY <1>3, <1>4
<1>6. what' \in Seq(Parts) /\ Len(what') = Len(what) + 1
  BY <1>1, <1>3
<1> QED
  BY <1>2, <1>3, <1>5, <1>6

LEMMA ServerStep ==
    ASSUME ConnIInv, WhatOK, app = "HttpServer", S!ServerNext
    PROVE  /\ CodeStep \/ LoopStep \/ Arrives
           /\ what' \in Seq(Parts) /\ Len(what') = Len(sent')
<1>1. what \in Seq(Parts) /\ Len(what) = Len(sent)
  BY DEF WhatOK
<1>2. CASE S!NothingSent
  BY <1>1, <1>2, NothingIs DEF S!NothingSent, S!conn, S!peer, conn, peer
<1>3. CASE S!SendHead /\ S!Parsed.uri[1] \in S!Uris
  <2> DEFINE u == S!Parsed.uri[1]
  <2>1. S!SendOut(FALSE, 1, <<"head", u>>)
    BY <1>3 DEF S!SendHead, S!HeadLen
  <2>2. <<"head", u>> \in Parts
    BY <1>3 DEF S!Uris, Parts
  <2> HIDE DEF u
  <2> QED
    BY <2>1, <2>2, SentIs
<1>4. CASE S!HeadSent
  <2> DEFINE u == what[Last(calls)][2]
  <2>1. what[Last(calls)] \in Parts
    BY <1>4, AnnouncedIs DEF S!HeadSent
  <2>2. u \in DOMAIN Size
    BY <2>1 DEF Parts
  <2>3. Size[u] \in Nat /\ <<"file", u>> \in Parts
    BY <2>2, SizesAssumption DEF Parts
  <2>4. S!SendOut(TRUE, Size[u], <<"file", u>>)
    BY <1>4 DEF S!HeadSent, S!Last, Last
  <2> HIDE DEF u
  <2> QED
    BY <2>3, <2>4, SentIs
<1>5. CASE S!DestroyLater /\ UNCHANGED what
  <2>1. DestroyLater
    BY <1>5, ServerCalls
  <2> QED
    BY <1>1, <1>5, <2>1 DEF CodeStep, DestroyLater
<1>6. CASE S!Destroy /\ UNCHANGED what
  <2>1. Destroy
    BY <1>6, ServerCalls
  <2> QED
    BY <1>1, <1>6, <2>1 DEF CodeStep, Destroy
<1>7. CASE S!ServerCode
  BY <1>2, <1>3, <1>4, <1>5, <1>6, <1>7
     DEF S!ServerCode, S!NothingToParse, S!ParseAborts, S!Aborts, S!ParseEnds, S!Serve, S!ServeLast,
         S!FileSent, S!ErroHandled
<1>8. CASE S!Ask
  BY <1>1, <1>8, NothingIs DEF S!Ask, S!vars, S!conn, S!peer, conn, peer
<1>9. CASE S!ConnectionSteps
  <2>1. CASE S!PeerWrites
    BY <1>1, <2>1 DEF S!PeerWrites, S!conn, Arrives, conn, ConnIInv, TypeOK
  <2>2. CASE ~S!PeerWrites
    <3>1. (S!ErroEvent \/ S!WritEvent \/ S!LoopSteps \/ S!ReadEvent) /\ UNCHANGED what
      BY <1>9, <2>2 DEF S!ConnectionSteps, S!Step, S!Read
    <3>2. LoopStep
      BY <3>1, ServerLoop DEF LoopStep
    <3> QED
      BY <1>1, <3>1, <3>2, LoopSendsNothing
  <2> QED
    BY <2>1, <2>2
<1> QED
  BY <1>7, <1>8, <1>9 DEF S!ServerNext

LEMMA ClientStep ==
    ASSUME ConnIInv, C!ClientNext
    PROVE  CodeStep \/ LoopStep \/ Arrives
<1>1. CASE C!NothingSent
  BY <1>1, NothingIs DEF C!NothingSent, C!conn, C!peer, conn, peer
<1>2. ASSUME NEW x, C!SendOut(FALSE, C!RequestLen, x) PROVE CodeStep
  BY <1>2, ClientCalls DEF C!SendOut, C!RequestLen, CodeStep
<1>3. CASE C!ClientCode
  <2>1. CASE C!CalledElsewhere
    BY <1>1, <1>2, <2>1 DEF C!CalledElsewhere, C!GetNow, C!DestroyNow, C!HandleConnection, C!SendRequest
  <2>2. CASE C!RequestSent
    BY <1>1, <1>2, <2>2 DEF C!RequestSent, C!Aborts, C!SendRequest
  <2>3. CASE C!ReplyParsed
    BY <1>1, <1>2, <2>3 DEF C!ReplyParsed
  <2>4. CASE C!ErroHandled \/ C!NothingToParse \/ C!ParseAborts \/ C!ParseFails \/ C!ParseGoesOn
    BY <1>1, <2>4 DEF C!ErroHandled, C!NothingToParse, C!ParseAborts, C!Aborts, C!ParseFails, C!ParseGoesOn
  <2> QED
    BY <1>3, <2>1, <2>2, <2>3, <2>4 DEF C!ClientCode
<1>4. CASE C!Elsewhere
  <2>1. OtherEvent
    BY <1>4 DEF C!Elsewhere, C!Goto, C!conn, C!peer, OtherEvent, Goto, conn, peer
  <2> QED
    BY <2>1 DEF LoopStep
<1>5. CASE C!ServerReplies
  BY <1>5, NothingIs DEF C!ServerReplies, C!vars, C!conn, C!peer, conn, peer
<1>6. CASE C!ConnectionSteps
  <2>1. CASE C!PeerWrites
    BY <2>1 DEF C!PeerWrites, C!conn, Arrives, conn, ConnIInv, TypeOK
  <2>2. CASE ~C!PeerWrites
    <3>1. C!ErroEvent \/ C!WritEvent \/ C!LoopSteps \/ C!ReadEvent
      BY <1>6, <2>2 DEF C!ConnectionSteps, C!Step, C!Read
    <3> QED
      BY <3>1, ClientLoop DEF LoopStep
  <2> QED
    BY <2>1, <2>2
<1> QED
  BY <1>3, <1>4, <1>5, <1>6 DEF C!ClientNext

-----------------------------------------------------------------------------
(* The theorems.                                                           *)

AppIInv == ConnIInv /\ WhatOK

\* The inductive invariant, with each of the three applications.
THEOREM ApplicationsInvariance == AppSpec => []AppIInv
<1>1. AppInit => AppIInv
  <2> SUFFICES ASSUME AppInit PROVE AppIInv
    OBVIOUS
  <2>1. Init /\ (app = "HttpServer" => what = <<>>)
    <3>1. CASE app = "any" /\ EndpointInit
      BY <3>1 DEF EndpointInit
    <3>2. CASE S!ServerInit
      BY <3>2, ServerCalls DEF S!ServerInit, S!EndpointInit
    <3>3. CASE app = "HttpClient" /\ C!ClientInit
      BY <3>3, ClientCalls DEF C!ClientInit, C!EndpointInit
    <3> QED
      BY <3>1, <3>2, <3>3 DEF AppInit
  <2>2. WhatOK
    <3>1. sent = <<>> /\ <<>> \in Seq(Parts)
      BY <2>1 DEF Init
    <3> QED
      BY <2>1, <3>1 DEF WhatOK
  <2> QED
    BY <2>1, <2>2, ConnInitOK DEF AppIInv
<1>2. AppIInv /\ [AppNext]_allVars => AppIInv'
  <2> SUFFICES ASSUME ConnIInv, WhatOK, [AppNext]_allVars PROVE ConnIInv' /\ WhatOK'
    BY DEF AppIInv
  <2>1. ASSUME CodeStep \/ LoopStep \/ Arrives PROVE ConnIInv'
    BY <2>1, CodeStepOK, LoopStepOK, ArrivesOK
  <2>2. CASE UNCHANGED allVars
    <3>1. UNCHANGED <<conn, pc, ret, peer, sent, wire, calls, app, what>>
      BY <2>2 DEF allVars, vars, endpointVars, chosen
    <3>2. Arrives
      BY <3>1, NothingIs
    <3> QED
      BY <2>1, <3>1, <3>2 DEF WhatOK
  <2>3. CASE app = "any" /\ app' = app /\ Next
    <3>1. TypeOK
      BY DEF ConnIInv
    <3>2. ConnIInv'
      BY <2>1, <2>3, <3>1, NextIs
    <3> QED
      BY <2>3, <3>2 DEF WhatOK
  <2>4. CASE app = "HttpServer" /\ app' = app /\ S!ServerNext
    <3>1. /\ CodeStep \/ LoopStep \/ Arrives
          /\ what' \in Seq(Parts) /\ Len(what') = Len(sent')
      BY <2>4, ServerStep
    <3> QED
      BY <2>1, <3>1 DEF WhatOK
  <2>5. CASE app = "HttpClient" /\ app' = app /\ C!ClientNext
    <3>1. CodeStep \/ LoopStep \/ Arrives
      BY <2>5, ClientStep
    <3> QED
      BY <2>1, <2>5, <3>1 DEF WhatOK
  <2> QED
    BY <2>2, <2>3, <2>4, <2>5 DEF AppNext, chosen
<1> QED
  BY <1>1, <1>2, PTL DEF AppSpec

\* A Connection delivers what was sent: whatever the code that uses it, an
\* HttpServer or an HttpClient, however much they send, and however the kernel
\* cuts it (handleWritEvent, send, sendFile).
THEOREM StreamDelivered == AppSpec => []StreamIntact
<1>1. ConnIInv => StreamIntact
  <2> SUFFICES ASSUME ConnIInv PROVE StreamIntact
    OBVIOUS
  <2>1. IsPrefix(wire, Bytes(sent))
    BY DEF ConnIInv, BytesOK
  <2>2. ASSUME ~destroyed, pc \notin {"acct", "bufcb", "filecb"}
        PROVE  wire \o Bytes(tasks) = Bytes(sent)
    <3> DEFINE b == Bytes(sent)
               s == Bytes(tasks)
    <3>1. tasks \in Seq(Task) /\ sent \in Seq(Task) /\ wire \in Seq(Nat) /\ ret = 0 /\ Waiting = tasks
      BY <2>2 DEF ConnIInv, TypeOK, PlaceOK, Waiting
    <3>2. b \in Seq(Nat) /\ s \in Seq(Nat)
      BY <3>1, BytesType
    <3>3. Left(Nat, b, s, Len(wire))
      <4>1. Left(Nat, b, s, Len(wire) - ret) /\ Len(wire) - ret = Len(wire)
        BY <2>2, <3>1 DEF ConnIInv, BytesOK
      <4> QED
        BY <4>1
    <3> HIDE DEF b, s
    <3>4. IsPrefix(wire, b)
      BY <2>1 DEF b
    <3>5. wire \o s = b
      BY <3>1, <3>2, <3>3, <3>4, LeftAll
    <3> QED
      BY <3>5 DEF b, s
  <2> QED
    BY <2>1, <2>2 DEF StreamIntact
<1> QED
  BY <1>1, ApplicationsInvariance, PTL DEF AppIInv

\* Handlers run in order, once, and when their bytes are out (WritTask::handler_
\* in handleWritEvent).
THEOREM HandlersFollow == AppSpec => []HandlersInOrder
<1>1. ConnIInv => HandlersInOrder
  <2> SUFFICES ASSUME ConnIInv PROVE HandlersInOrder
    OBVIOUS
  <2>1. IsPrefix(calls, WithHandler(sent))
    BY DEF ConnIInv, CallsOK
  <2>2. ASSUME NEW i \in DOMAIN calls PROVE Len(Bytes(SubSeq(sent, 1, calls[i]))) <= Len(wire)
    <3>1. i \in 1 .. Len(calls)
      BY DEF ConnIInv, TypeOK
    <3>2. CalledWhenOut(calls[i])
      BY <3>1 DEF ConnIInv, CallsOK
    <3> QED
      BY <3>2 DEF CalledWhenOut
  <2>3. ASSUME ~destroyed, pc \notin {"bufcb", "filecb"}
        PROVE  calls \o WithHandler(tasks) = WithHandler(sent)
    <3>1. Waiting = tasks
      BY <2>3 DEF Waiting
    <3> QED
      BY <2>3, <3>1 DEF ConnIInv, CallsOK
  <2> QED
    BY <2>1, <2>2, <2>3 DEF HandlersInOrder
<1> QED
  BY <1>1, ApplicationsInvariance, PTL DEF AppIInv

\* A handler that sendFile was given has destroyed its connection, and runs still:
\* the pop_front() that follows finds the deque empty (Connection.cpp:190-195).
DestroyedByFileHandler == FileHandlersMayDestroy /\ destroyed /\ pc = "filecb"

\* Output that waits is watched for, and handleWritEvent never takes the front of an
\* empty deque, but for one case: the handler of a file has destroyed the connection
\* (Connection.cpp:168-262).
THEOREM ConnectionSafe ==
    AppSpec => [](ConnectionInv \/ (TypeOK /\ WriteInterest /\ DestroyedByFileHandler))
<1>1. ConnIInv => ConnectionInv \/ (TypeOK /\ WriteInterest /\ DestroyedByFileHandler)
  <2> SUFFICES ASSUME ConnIInv, ~DestroyedByFileHandler PROVE HeadExists
    BY DEF ConnIInv, ConnectionInv
  <2>1. pc = "filecb" => tasks # <<>>
    BY DEF ConnIInv, PlaceOK, DestroyedByFileHandler
  <2>2. ASSUME pc = "acct", ret > 0, tasks = <<>> PROVE FALSE
    <3> DEFINE b == Bytes(sent)
               k == Len(wire) - ret
    <3>1. ret \in Nat /\ wire \in Seq(Nat) /\ sent \in Seq(Task) /\ Waiting = <<>> /\ ~destroyed
      BY <2>2 DEF ConnIInv, TypeOK, Waiting, PlaceOK
    <3>2. b \in Seq(Nat)
      BY <3>1, BytesType
    <3>3. Left(Nat, b, <<>>, k) /\ IsPrefix(wire, b)
      BY <3>1, EmptyBytes DEF ConnIInv, BytesOK
    <3> HIDE DEF b, k
    <3>4. PICK p \in Seq(Nat) : b = p \o <<>> /\ Len(p) = k
      BY <3>3 DEF Left
    <3>5. Len(b) = k
      BY <3>4, ConcatEmptySeq
    <3>6. Len(wire) <= Len(b)
      BY <3>3 DEF IsPrefix
    <3>7. Len(wire) \in Nat
      BY <3>1
    <3> QED
      BY <2>2, <3>1, <3>5, <3>6, <3>7 DEF k
  <2> QED
    BY <2>1, <2>2 DEF HeadExists
<1> QED
  BY <1>1, ApplicationsInvariance, PTL DEF AppIInv

-----------------------------------------------------------------------------
(* The requests of an HttpClient.                                           *)

\* s is 1, 2, 3, ...
Counts(s) == \A i \in 1 .. Len(s) : s[i] = i

LEMMA CountsOn ==
    ASSUME NEW s \in Seq(Nat), NEW t \in Seq(Nat), Counts(s),
           \A i \in 1 .. Len(t) : t[i] = Len(s) + i
    PROVE  s \o t \in Seq(Nat) /\ Counts(s \o t) /\ Len(s \o t) = Len(s) + Len(t)
<1> DEFINE v == s \o t
<1>1. v \in Seq(Nat) /\ Joins(v, s, t)
  BY ConcatIs
<1> HIDE DEF v
<1>2. Len(s) \in Nat /\ Len(t) \in Nat /\ Len(v) = Len(s) + Len(t)
  BY <1>1 DEF Joins
<1>3. ASSUME NEW i \in 1 .. Len(v) PROVE v[i] = i
  <2>1. CASE i <= Len(s)
    BY <1>1, <1>2, <2>1, SMTT(60) DEF Joins, Counts
  <2>2. CASE ~(i <= Len(s))
    <3>1. v[i] = t[i - Len(s)] /\ i - Len(s) \in 1 .. Len(t)
      BY <1>1, <1>2, <2>2 DEF Joins
    <3> QED
      BY <1>2, <3>1
  <2> QED
    BY <2>1, <2>2
<1> QED
  BY <1>1, <1>2, <1>3 DEF v, Counts

LEMMA CountsMore ==
    ASSUME NEW s \in Seq(Nat), Counts(s)
    PROVE  LET v == Append(s, Len(s) + 1)
           IN v \in Seq(Nat) /\ Len(v) = Len(s) + 1 /\ Counts(v)
BY DEF Counts

LEMMA OneIn ==
    ASSUME NEW s \in Seq(Nat), NEW k \in Nat, \A i \in 1 .. Len(s) : s[i] = k + i
    PROVE  LET v == Append(s, k + Len(s) + 1)
           IN /\ v \in Seq(Nat) /\ Len(v) = Len(s) + 1
              /\ \A i \in 1 .. Len(v) : v[i] = k + i
<1> DEFINE x == k + Len(s) + 1
           v == Append(s, x)
<1>1. Len(s) \in Nat /\ x \in Nat
  OBVIOUS
<1>2. v \in Seq(Nat) /\ Len(v) = Len(s) + 1
  BY <1>1
<1>3. ASSUME NEW i \in 1 .. Len(v) PROVE v[i] = k + i
  <2>1. CASE i \in 1 .. Len(s)
    BY <1>1, <2>1
  <2>2. CASE i = Len(s) + 1
    BY <1>1, <2>2
  <2> QED
    BY <1>1, <1>2, <2>1, <2>2
<1> QED
  BY <1>2, <1>3

IsSequence(s) == \E T : s \in Seq(T)

\* Handlers were called for requests 1, 2, ... in turn, those after them were sent;
\* unless the client is gone, those after these wait; nothing else was sent.
OrderOK ==
    /\ gets \in Nat /\ IsSequence(answers)
    /\ requestLists \in Seq(Nat) /\ sendReqeustLists \in Seq(Nat)
    /\ \A i \in 1 .. Len(answers) : answers[i].req = i
    /\ \A i \in 1 .. Len(sendReqeustLists) : sendReqeustLists[i] = Len(answers) + i
    /\ ~lost => /\ gets = Len(answers) + Len(sendReqeustLists) + Len(requestLists)
                /\ \A i \in 1 .. Len(requestLists) :
                      requestLists[i] = Len(answers) + Len(sendReqeustLists) + i

UseOK == connected \in BOOLEAN /\ lost \in BOOLEAN /\ (lost => ~connected)

ListsOK == OrderOK /\ UseOK

SentOK ==
    /\ what \in Seq(Nat)
    /\ Len(what) = Len(answers) + Len(sendReqeustLists)
    /\ Counts(what)

RequestsOK == app = "HttpClient" => ListsOK /\ SentOK

\* A request is sent: the first of reqs, the next to be sent.
LEMMA RequestSentOK ==
    ASSUME ListsOK, SentOK, ~lost, NEW reqs \in Seq(Nat), NEW g \in Nat, reqs # <<>>,
           g = Len(answers) + Len(sendReqeustLists) + Len(reqs),
           \A i \in 1 .. Len(reqs) : reqs[i] = Len(answers) + Len(sendReqeustLists) + i,
           C!SendRequest(reqs), gets' = g, connected' = TRUE, lost' = FALSE, answers' = answers
    PROVE  ListsOK' /\ SentOK'
<1> DEFINE x == Head(reqs)
<1>0. Len(answers) \in Nat /\ Len(sendReqeustLists) \in Nat
  BY DEF ListsOK, OrderOK, IsSequence
<1>1. x = Len(answers) + Len(sendReqeustLists) + 1 /\ x \in Nat /\ Tail(reqs) \in Seq(Nat)
  BY DEF ListsOK, OrderOK, UseOK
<1>2. /\ sendReqeustLists' = Append(sendReqeustLists, x)
      /\ requestLists' = Tail(reqs)
      /\ what' = Append(what, x)
  BY DEF C!SendRequest, C!SendOut
<1> HIDE DEF x
<1>3. /\ sendReqeustLists' \in Seq(Nat)
      /\ Len(sendReqeustLists') = Len(sendReqeustLists) + 1
      /\ \A i \in 1 .. Len(sendReqeustLists') : sendReqeustLists'[i] = Len(answers) + i
  <2>1. /\ sendReqeustLists \in Seq(Nat) /\ Len(sendReqeustLists) \in Nat
        /\ \A i \in 1 .. Len(sendReqeustLists) : sendReqeustLists[i] = Len(answers) + i
    BY DEF ListsOK, OrderOK
  <2>2. sendReqeustLists' = Append(sendReqeustLists, Len(answers) + Len(sendReqeustLists) + 1)
    BY <1>1, <1>2
  <2> QED
    BY <1>0, <2>1, <2>2, OneIn
<1>4. /\ requestLists' \in Seq(Nat)
      /\ Len(requestLists') = Len(reqs) - 1
      /\ \A i \in 1 .. Len(requestLists') : requestLists'[i] = reqs[i + 1]
  BY <1>1, <1>2
<1>5. SentOK'
  <2>1. what \in Seq(Nat) /\ Len(what) = Len(answers) + Len(sendReqeustLists) /\ Counts(what)
    BY DEF SentOK
  <2>2. what' = Append(what, Len(what) + 1)
    BY <1>1, <1>2, <2>1
  <2>3. what' \in Seq(Nat) /\ Len(what') = Len(what) + 1 /\ Counts(what')
    BY <2>1, <2>2, CountsMore
  <2>4. Len(what') = Len(answers') + Len(sendReqeustLists')
    BY <1>0, <1>3, <2>1, <2>3
  <2> QED
    BY <2>3, <2>4 DEF SentOK
<1>6. ListsOK'
  <2>1. /\ gets' \in Nat /\ connected' \in BOOLEAN /\ lost' \in BOOLEAN
        /\ IsSequence(answers') /\ (lost' => ~connected')
        /\ \A i \in 1 .. Len(answers') : answers'[i].req = i
    BY DEF ListsOK, OrderOK, UseOK
  <2>2. /\ requestLists' \in Seq(Nat) /\ sendReqeustLists' \in Seq(Nat)
        /\ \A i \in 1 .. Len(sendReqeustLists') : sendReqeustLists'[i] = Len(answers') + i
    BY <1>3, <1>4
  <2>3. PICK T : answers \in Seq(T)
    BY DEF ListsOK, OrderOK, UseOK, IsSequence
  <2>4. /\ Len(answers) \in Nat /\ Len(sendReqeustLists) \in Nat /\ Len(reqs) \in Nat
        /\ Len(requestLists') = Len(reqs) - 1
    BY <1>4, <2>3 DEF ListsOK, OrderOK, UseOK
  <2>5. gets' = Len(answers') + Len(sendReqeustLists') + Len(requestLists')
    BY <1>3, <2>4
  <2>6. ASSUME NEW i \in 1 .. Len(requestLists')
        PROVE  requestLists'[i] = Len(answers') + Len(sendReqeustLists') + i
    <3>1. i + 1 \in 1 .. Len(reqs) /\ i \in Nat
      BY <2>4
    <3>2. reqs[i + 1] = Len(answers) + Len(sendReqeustLists) + (i + 1)
      BY <3>1
    <3> QED
      BY <1>3, <1>4, <2>4, <3>1, <3>2
  <2> QED
    BY <2>1, <2>2, <2>5, <2>6 DEF ListsOK, OrderOK, UseOK
<1> QED
  BY <1>5, <1>6

\* The handler of the first request that was sent is called.
LEMMA NextAnswer ==
    ASSUME NEW T, NEW s \in Seq(T), NEW x \in T, \A i \in 1 .. Len(s) : s[i].req = i,
           x.req = Len(s) + 1
    PROVE  LET v == Append(s, x)
           IN v \in Seq(T) /\ Len(v) = Len(s) + 1 /\ \A i \in 1 .. Len(v) : v[i].req = i
OBVIOUS

HandlerRan(c) ==
    /\ answers' = Append(answers, [req |-> Head(sendReqeustLists), content |-> c])
    /\ sendReqeustLists' = Tail(sendReqeustLists) /\ what' = what /\ gets' = gets
    /\ \/ UNCHANGED <<requestLists, connected, lost>>
       \/ requestLists' = <<>> /\ connected' = FALSE /\ lost' = TRUE

LEMMA HandlerCalled ==
    ASSUME ListsOK, SentOK, sendReqeustLists # <<>>, NEW c,
           HandlerRan(c)
    PROVE  ListsOK' /\ SentOK'
<1> DEFINE x == [req |-> Head(sendReqeustLists), content |-> c]
<1>1. PICK T : answers \in Seq(T)
  BY DEF ListsOK, OrderOK, UseOK, IsSequence
<1>2. x.req = Len(answers) + 1
  BY <1>1 DEF ListsOK, OrderOK, UseOK
<1>3. /\ answers' = Append(answers, x)
      /\ sendReqeustLists' = Tail(sendReqeustLists) /\ what' = what /\ gets' = gets
      /\ \/ UNCHANGED <<requestLists, connected, lost>>
         \/ requestLists' = <<>> /\ connected' = FALSE /\ lost' = TRUE
  BY DEF HandlerRan
<1> HIDE DEF x
<1>4. /\ answers' \in Seq(T \cup {x}) /\ Len(answers') = Len(answers) + 1
      /\ \A i \in 1 .. Len(answers') : answers'[i].req = i
  <2>1. answers \in Seq(T \cup {x})
    BY <1>1
  <2>2. answers' = Append(answers, x)
    BY <1>3
  <2> QED
    BY <1>2, <2>1, <2>2, NextAnswer DEF ListsOK, OrderOK
<1>5. /\ sendReqeustLists' \in Seq(Nat) /\ Len(sendReqeustLists') = Len(sendReqeustLists) - 1
      /\ \A i \in 1 .. Len(sendReqeustLists') : sendReqeustLists'[i] = sendReqeustLists[i + 1]
  BY <1>3 DEF ListsOK, OrderOK, UseOK
<1>6. Len(answers) \in Nat /\ Len(sendReqeustLists) \in Nat
  BY <1>1 DEF ListsOK, OrderOK, UseOK
<1>7. Len(answers') + Len(sendReqeustLists') = Len(answers) + Len(sendReqeustLists)
  BY <1>4, <1>5, <1>6
<1>8. SentOK'
  BY <1>3, <1>7 DEF SentOK
<1>9. \A i \in 1 .. Len(sendReqeustLists') : sendReqeustLists'[i] = Len(answers') + i
  BY <1>4, <1>5, <1>6, SMTT(60) DEF ListsOK, OrderOK, UseOK
<1>10. gets' \in Nat /\ requestLists' \in Seq(Nat)
  <2>1. gets \in Nat /\ requestLists \in Seq(Nat) /\ <<>> \in Seq(Nat)
    BY DEF ListsOK, OrderOK
  <2>2. gets' = gets /\ requestLists' \in {requestLists, <<>>}
    BY <1>3
  <2> QED
    BY <2>1, <2>2
<1>11. UseOK'
  <2>1. CASE UNCHANGED <<requestLists, connected, lost>>
    BY <2>1 DEF ListsOK, UseOK
  <2>2. CASE requestLists' = <<>> /\ connected' = FALSE /\ lost' = TRUE
    BY <2>2 DEF UseOK
  <2> QED
    BY <1>3, <2>1, <2>2
<1>12. ~lost' => /\ gets' = Len(answers') + Len(sendReqeustLists') + Len(requestLists')
                 /\ \A i \in 1 .. Len(requestLists') :
                       requestLists'[i] = Len(answers') + Len(sendReqeustLists') + i
  BY <1>3, <1>7 DEF ListsOK, OrderOK
<1>13. IsSequence(answers')
  BY <1>4 DEF IsSequence
<1>14. OrderOK'
  BY <1>4, <1>5, <1>9, <1>10, <1>12, <1>13 DEF OrderOK
<1> QED
  BY <1>8, <1>11, <1>14 DEF ListsOK

\* get(), with a connection and without: the new request stands behind the others.
LEMMA OneMore ==
    ASSUME ListsOK, ~lost
    PROVE  LET reqs == Append(requestLists, gets + 1)
           IN /\ reqs \in Seq(Nat) /\ reqs # <<>>
              /\ gets + 1 = Len(answers) + Len(sendReqeustLists) + Len(reqs)
              /\ \A i \in 1 .. Len(reqs) : reqs[i] = Len(answers) + Len(sendReqeustLists) + i
<1> DEFINE reqs == Append(requestLists, gets + 1)
<1>1. PICK T : answers \in Seq(T)
  BY DEF ListsOK, OrderOK, UseOK, IsSequence
<1>2. Len(answers) \in Nat /\ Len(sendReqeustLists) \in Nat /\ gets \in Nat
      /\ requestLists \in Seq(Nat)
  BY <1>1 DEF ListsOK, OrderOK, UseOK
<1>3. reqs \in Seq(Nat) /\ Len(reqs) = Len(requestLists) + 1 /\ reqs # <<>>
      /\ (\A i \in 1 .. Len(requestLists) : reqs[i] = requestLists[i])
      /\ reqs[Len(requestLists) + 1] = gets + 1
  BY <1>2
<1> HIDE DEF reqs
<1>4. gets + 1 = Len(answers) + Len(sendReqeustLists) + Len(reqs)
  BY <1>2, <1>3 DEF ListsOK, OrderOK, UseOK
<1>5. ASSUME NEW i \in 1 .. Len(reqs)
      PROVE  reqs[i] = Len(answers) + Len(sendReqeustLists) + i
  <2>1. CASE i \in 1 .. Len(requestLists)
    BY <1>3, <2>1 DEF ListsOK, OrderOK, UseOK
  <2>2. CASE i = Len(requestLists) + 1
    BY <1>2, <1>3, <1>4, <2>2, SMTT(60)
  <2> QED
    BY <1>2, <1>3, <2>1, <2>2
<1> QED
  BY <1>3, <1>4, <1>5 DEF reqs

LEMMA OneOutOneIn ==
    ASSUME NEW s \in Seq(Nat), Len(s) > 0, NEW k \in Nat, \A i \in 1 .. Len(s) : s[i] = k + i
    PROVE  LET v == Append(Tail(s), k + Len(s) + 1)
           IN /\ v \in Seq(Nat) /\ Len(v) = Len(s)
              /\ \A i \in 1 .. Len(v) : v[i] = k + 1 + i
<1> DEFINE t == Tail(s)
           x == k + Len(s) + 1
           v == Append(t, x)
<1>1. t \in Seq(Nat) /\ Len(t) = Len(s) - 1 /\ \A i \in 1 .. Len(t) : t[i] = s[i + 1]
  OBVIOUS
<1>2. Len(s) \in Nat /\ x \in Nat
  OBVIOUS
<1> HIDE DEF t
<1>3. v \in Seq(Nat) /\ Len(v) = Len(s)
  BY <1>1, <1>2
<1>4. ASSUME NEW i \in 1 .. Len(v) PROVE v[i] = k + 1 + i
  <2>1. CASE i \in 1 .. Len(t)
    <3>1. v[i] = s[i + 1] /\ i + 1 \in 1 .. Len(s)
      BY <1>1, <1>2, <2>1
    <3> QED
      BY <1>2, <2>1, <3>1
  <2>2. CASE i = Len(s)
    BY <1>1, <1>2, <2>2
  <2> QED
    BY <1>1, <1>2, <1>3, <2>1, <2>2, SMTT(60)
<1> QED
  BY <1>3, <1>4 DEF t

\* The handler calls get(): its own request leaves the list of those that were sent,
\* and the next one is put in at its end.
GotInHandler(c) ==
    /\ answers' = Append(answers, [req |-> Head(sendReqeustLists), content |-> c])
    /\ LET reqs == Append(requestLists, gets + 1)
       IN /\ sendReqeustLists' = Append(Tail(sendReqeustLists), Head(reqs))
          /\ requestLists' = Tail(reqs) /\ what' = Append(what, Head(reqs))
    /\ gets' = gets + 1 /\ UNCHANGED <<connected, lost>>

LEMMA HandlerGets ==
    ASSUME ListsOK, SentOK, ~lost, sendReqeustLists # <<>>, NEW c,
           GotInHandler(c)
    PROVE  ListsOK' /\ SentOK'
<1> DEFINE reqs == Append(requestLists, gets + 1)
           x == Head(reqs)
           y == [req |-> Head(sendReqeustLists), content |-> c]
<1>1. PICK T : answers \in Seq(T)
  BY DEF ListsOK, OrderOK, UseOK, IsSequence
<1>2. Len(answers) \in Nat /\ Len(sendReqeustLists) \in Nat /\ gets \in Nat
      /\ sendReqeustLists \in Seq(Nat) /\ Len(sendReqeustLists) > 0
  BY <1>1 DEF ListsOK, OrderOK, UseOK
<1>3. /\ reqs \in Seq(Nat) /\ reqs # <<>>
      /\ gets + 1 = Len(answers) + Len(sendReqeustLists) + Len(reqs)
      /\ \A i \in 1 .. Len(reqs) : reqs[i] = Len(answers) + Len(sendReqeustLists) + i
  BY OneMore
<1>4. y.req = Len(answers) + 1
  BY <1>1 DEF ListsOK, OrderOK, UseOK
<1>5. /\ answers' = Append(answers, y)
      /\ sendReqeustLists' = Append(Tail(sendReqeustLists), x)
      /\ requestLists' = Tail(reqs) /\ what' = Append(what, x)
      /\ gets' = gets + 1 /\ UNCHANGED <<connected, lost>>
  BY DEF GotInHandler
<1>6. x = Len(answers) + Len(sendReqeustLists) + 1 /\ x \in Nat
  BY <1>2, <1>3, SMTT(60)
<1> HIDE DEF reqs, x, y
<1>7. /\ requestLists' \in Seq(Nat) /\ Len(requestLists') = Len(reqs) - 1
      /\ \A i \in 1 .. Len(requestLists') : requestLists'[i] = reqs[i + 1]
  <2>1. reqs \in Seq(Nat) /\ reqs # <<>> /\ requestLists' = Tail(reqs)
    BY <1>3, <1>5
  <2>2. Tail(reqs) \in Seq(Nat) /\ Len(Tail(reqs)) = Len(reqs) - 1
    BY <2>1
  <2>3. \A i \in 1 .. Len(Tail(reqs)) : Tail(reqs)[i] = reqs[i + 1]
    BY <2>1
  <2> QED
    BY <2>1, <2>2, <2>3
<1>8. /\ answers' \in Seq(T \cup {y}) /\ Len(answers') = Len(answers) + 1
      /\ \A i \in 1 .. Len(answers') : answers'[i].req = i
  <2>1. answers \in Seq(T \cup {y})
    BY <1>1
  <2>2. answers' = Append(answers, y)
    BY <1>5
  <2> QED
    <3>1. \A i \in 1 .. Len(answers) : answers[i].req = i
      BY DEF ListsOK, OrderOK
    <3>2. y \in T \cup {y}
      OBVIOUS
    <3> QED
      BY <1>4, <2>1, <2>2, <3>1, <3>2, NextAnswer
<1>9. /\ sendReqeustLists' \in Seq(Nat) /\ Len(sendReqeustLists') = Len(sendReqeustLists)
      /\ \A i \in 1 .. Len(sendReqeustLists') : sendReqeustLists'[i] = Len(answers') + i
  <2>1. \A i \in 1 .. Len(sendReqeustLists) : sendReqeustLists[i] = Len(answers) + i
    BY DEF ListsOK, OrderOK
  <2>2. /\ sendReqeustLists' \in Seq(Nat) /\ Len(sendReqeustLists') = Len(sendReqeustLists)
        /\ \A i \in 1 .. Len(sendReqeustLists') : sendReqeustLists'[i] = Len(answers) + 1 + i
    BY <1>2, <1>5, <1>6, <2>1, OneOutOneIn
  <2> QED
    BY <1>8, <2>2
<1>10. SentOK'
  <2>1. what \in Seq(Nat) /\ Len(what) = Len(answers) + Len(sendReqeustLists) /\ Counts(what)
    BY DEF SentOK
  <2>2. what' = Append(what, Len(what) + 1)
    BY <1>5, <1>6, <2>1
  <2>3. what' \in Seq(Nat) /\ Len(what') = Len(what) + 1 /\ Counts(what')
    BY <2>1, <2>2, CountsMore
  <2>4. Len(what') = Len(answers') + Len(sendReqeustLists')
    BY <1>2, <1>8, <1>9, <2>1, <2>3
  <2> QED
    BY <2>3, <2>4 DEF SentOK
<1>11. gets' = Len(answers') + Len(sendReqeustLists') + Len(requestLists')
  <2>1. Len(reqs) \in Nat
    BY <1>3
  <2>2. gets' = Len(answers) + Len(sendReqeustLists) + Len(reqs)
    BY <1>3, <1>5
  <2>3. Len(answers') = Len(answers) + 1 /\ Len(sendReqeustLists') = Len(sendReqeustLists)
        /\ Len(requestLists') = Len(reqs) - 1
    BY <1>7, <1>8, <1>9
  <2> QED
    BY <1>2, <2>1, <2>2, <2>3
<1>12. ASSUME NEW i \in 1 .. Len(requestLists')
       PROVE  requestLists'[i] = Len(answers') + Len(sendReqeustLists') + i
  <2>1. i + 1 \in 1 .. Len(reqs) /\ i \in Nat
    BY <1>3, <1>7
  <2>2. reqs[i + 1] = Len(answers) + Len(sendReqeustLists) + (i + 1)
    BY <1>3, <2>1
  <2> QED
    BY <1>2, <1>7, <1>8, <1>9, <2>1, <2>2
<1>13. gets' \in Nat /\ UseOK'
  BY <1>2, <1>5 DEF ListsOK, UseOK
<1>14. IsSequence(answers')
  BY <1>8 DEF IsSequence
<1>15. OrderOK'
  BY <1>7, <1>8, <1>9, <1>11, <1>12, <1>13, <1>14 DEF OrderOK
<1> QED
  BY <1>10, <1>13, <1>15 DEF ListsOK

\* A client that is gone only adds to a list that nothing reads any more.
LEMMA NothingSentOK ==
    ASSUME ListsOK, SentOK, UNCHANGED <<answers, sendReqeustLists, what>>,
           \/ UNCHANGED <<requestLists, connected, lost, gets>>
           \/ requestLists' = <<>> /\ connected' = FALSE /\ lost' = TRUE /\ gets' = gets
           \/ ~connected /\ requestLists' = Append(requestLists, gets + 1) /\ gets' = gets + 1
              /\ UNCHANGED <<connected, lost>>
           \/ ~lost /\ requestLists = <<>> /\ connected' = TRUE
              /\ UNCHANGED <<requestLists, lost, gets>>
    PROVE  ListsOK' /\ SentOK'
<1>1. SentOK'
  BY DEF SentOK
<1> SUFFICES ListsOK'
  BY <1>1
<1>2. CASE UNCHANGED <<requestLists, connected, lost, gets>>
  BY <1>2 DEF ListsOK, OrderOK, UseOK
<1>3. CASE requestLists' = <<>> /\ connected' = FALSE /\ lost' = TRUE /\ gets' = gets
  <2>1. OrderOK'
    BY <1>3 DEF ListsOK, OrderOK
  <2>2. UseOK'
    BY <1>3 DEF ListsOK, UseOK
  <2> QED
    BY <2>1, <2>2 DEF ListsOK
<1>4. CASE ~connected /\ requestLists' = Append(requestLists, gets + 1) /\ gets' = gets + 1
           /\ UNCHANGED <<connected, lost>>
  <2>1. CASE lost
    <3>1. OrderOK'
      BY <1>4, <2>1 DEF ListsOK, OrderOK
    <3>2. UseOK'
      BY <1>4 DEF ListsOK, UseOK
    <3> QED
      BY <3>1, <3>2 DEF ListsOK
  <2>2. CASE ~lost
    <3> DEFINE reqs == Append(requestLists, gets + 1)
    <3>1. /\ reqs \in Seq(Nat) /\ gets + 1 = Len(answers) + Len(sendReqeustLists) + Len(reqs)
          /\ \A i \in 1 .. Len(reqs) : reqs[i] = Len(answers) + Len(sendReqeustLists) + i
      BY <2>2, OneMore
    <3>2. requestLists' = reqs
      BY <1>4
    <3>3. gets + 1 \in Nat
      BY DEF ListsOK, OrderOK
    <3> HIDE DEF reqs
    <3>4. OrderOK'
      BY <1>4, <3>1, <3>2, <3>3 DEF ListsOK, OrderOK
    <3>5. UseOK'
      BY <1>4 DEF ListsOK, UseOK
    <3> QED
      BY <3>4, <3>5 DEF ListsOK
  <2> QED
    BY <2>1, <2>2
<1>5. CASE ~lost /\ requestLists = <<>> /\ connected' = TRUE
           /\ UNCHANGED <<requestLists, lost, gets>>
  <2>1. OrderOK'
    BY <1>5 DEF ListsOK, OrderOK
  <2>2. UseOK'
    BY <1>5 DEF ListsOK, UseOK
  <2> QED
    BY <2>1, <2>2 DEF ListsOK
<1> QED
  BY <1>2, <1>3, <1>4, <1>5

LEMMA RequestsStep ==
    ASSUME RequestsOK, app = "HttpClient", C!ClientNext
    PROVE  ListsOK' /\ SentOK'
<1>1. ListsOK /\ SentOK /\ connected \in BOOLEAN /\ lost \in BOOLEAN /\ (lost => ~connected)
  BY DEF RequestsOK, ListsOK, UseOK
<1>2. CASE C!GetNow /\ UNCHANGED <<replied, answers>>
  <2>1. CASE connected
    <3> DEFINE reqs == Append(requestLists, gets + 1)
    <3>1. ~lost /\ lost' = FALSE /\ connected' = TRUE /\ gets' = gets + 1 /\ C!SendRequest(reqs)
      BY <1>1, <1>2, <2>1 DEF C!GetNow
    <3>2. /\ reqs \in Seq(Nat) /\ reqs # <<>>
          /\ gets + 1 = Len(answers) + Len(sendReqeustLists) + Len(reqs)
          /\ \A i \in 1 .. Len(reqs) : reqs[i] = Len(answers) + Len(sendReqeustLists) + i
      BY <1>1, <3>1, OneMore
    <3>3. gets + 1 \in Nat
      BY <1>1 DEF ListsOK, OrderOK, UseOK
    <3> HIDE DEF reqs
    <3> QED
      BY <1>1, <1>2, <3>1, <3>2, <3>3, RequestSentOK
  <2>2. CASE ~connected
    BY <1>1, <1>2, <2>2, NothingSentOK DEF C!GetNow, C!NothingSent
  <2> QED
    BY <2>1, <2>2
<1>3. CASE C!DestroyNow /\ UNCHANGED <<replied, answers>>
  BY <1>1, <1>3, NothingSentOK DEF C!DestroyNow, C!NothingSent
<1>4. ASSUME ~lost, requestLists # <<>>, C!SendRequest(requestLists), connected' = TRUE,
             UNCHANGED <<gets, lost, answers>>
      PROVE  ListsOK' /\ SentOK'
  <2>1. /\ requestLists \in Seq(Nat) /\ gets \in Nat
        /\ gets = Len(answers) + Len(sendReqeustLists) + Len(requestLists)
        /\ \A i \in 1 .. Len(requestLists) :
              requestLists[i] = Len(answers) + Len(sendReqeustLists) + i
    BY <1>1, <1>4 DEF ListsOK, OrderOK, UseOK
  <2>2. lost' = FALSE
    BY <1>1, <1>4
  <2> QED
    BY <1>1, <1>4, <2>1, <2>2, RequestSentOK
<1>5. CASE C!HandleConnection /\ UNCHANGED <<replied, answers>>
  <2>1. CASE requestLists = <<>>
    BY <1>1, <1>5, <2>1, NothingSentOK DEF C!HandleConnection, C!NothingSent, C!lists
  <2>2. CASE requestLists # <<>>
    BY <1>4, <1>5, <2>2 DEF C!HandleConnection
  <2> QED
    BY <2>1, <2>2
<1>6. CASE C!RequestSent
  <2>1. CASE ~connected \/ requestLists = <<>>
    BY <1>1, <1>6, <2>1, NothingSentOK DEF C!RequestSent, C!Aborts, C!NothingSent, C!lists
  <2>2. CASE connected /\ requestLists # <<>>
    BY <1>1, <1>4, <1>6, <2>2 DEF C!RequestSent
  <2> QED
    BY <2>1, <2>2
<1>7. CASE C!ReplyParsed
  <2> DEFINE c == C!Parsed.content
  <2>1. /\ sendReqeustLists # <<>>
        /\ answers' = Append(answers, [req |-> Head(sendReqeustLists), content |-> c])
    BY <1>7 DEF C!ReplyParsed
  <2>2. CASE C!NothingSent /\ UNCHANGED <<requestLists, connected, lost, gets>>
             /\ sendReqeustLists' = Tail(sendReqeustLists)
    <3> HIDE DEF c
    <3> QED
      BY <1>1, <2>1, <2>2, HandlerCalled DEF C!NothingSent, HandlerRan
  <2>3. CASE C!NothingSent /\ requestLists' = <<>> /\ connected' = FALSE /\ lost' = TRUE
             /\ gets' = gets /\ sendReqeustLists' = Tail(sendReqeustLists)
    <3> HIDE DEF c
    <3> QED
      BY <1>1, <2>1, <2>3, HandlerCalled DEF C!NothingSent, HandlerRan
  <2>4. CASE connected /\ gets' = gets + 1 /\ UNCHANGED <<connected, lost>>
    <3>1. ~lost /\ GotInHandler(c)
      <4>1. gets' # gets /\ ~lost
        BY <1>1, <2>4 DEF ListsOK, OrderOK, UseOK
      <4> QED
        BY <1>7, <2>4, <4>1 DEF C!ReplyParsed, C!SendOut, GotInHandler
    <3> HIDE DEF c
    <3> QED
      BY <1>1, <2>1, <3>1, HandlerGets
  <2> QED
    BY <1>7, <2>2, <2>3, <2>4 DEF C!ReplyParsed
<1>8. CASE C!ErroHandled \/ C!ParseFails
  <2>1. /\ requestLists' = <<>> /\ connected' = FALSE /\ lost' = TRUE
        /\ UNCHANGED <<answers, sendReqeustLists, what, gets>>
    BY <1>8 DEF C!ErroHandled, C!ParseFails, C!NothingSent
  <2> QED
    BY <1>1, <2>1, NothingSentOK
<1>9. CASE C!NothingToParse \/ C!ParseAborts \/ C!ParseGoesOn \/ C!Elsewhere \/ C!ServerReplies
           \/ (C!ConnectionSteps /\ UNCHANGED C!clientVars)
  <2>1. UNCHANGED <<answers, sendReqeustLists, what, requestLists, connected, lost, gets>>
    BY <1>9 DEF C!NothingToParse, C!ParseAborts, C!Aborts, C!ParseGoesOn, C!Elsewhere, C!ServerReplies,
                C!NothingSent, C!ConnectionSteps, C!Step, C!Read, C!PeerWrites, C!clientVars, C!lists
  <2> QED
    BY <1>1, <2>1, NothingSentOK
<1> QED
  BY <1>2, <1>3, <1>5, <1>6, <1>7, <1>8, <1>9 DEF C!ClientNext, C!ClientCode, C!CalledElsewhere

\* The handlers of an HttpClient are called in the order of get(), and every request
\* is in one place: it waits to be sent, was sent, or has had its handler called
\* (requestLists_, sendReqeustLists_, HttpClient::handleReadEvent).
THEOREM RequestsKept ==
    AppSpec => [](app = "HttpClient" => /\ C!RequestsInOrder
                                        /\ \A i \in DOMAIN answers : answers[i].req = i)
<1>1. AppInit => RequestsOK
  <2> SUFFICES ASSUME AppInit, app = "HttpClient" PROVE ListsOK /\ SentOK
    BY DEF RequestsOK
  <2>1. C!ClientInit
    BY DEF AppInit
  <2>2. /\ answers = <<>> /\ requestLists = <<>> /\ sendReqeustLists = <<>> /\ what = <<>>
        /\ connected = FALSE /\ lost = FALSE /\ gets = 0
    BY <2>1 DEF C!ClientInit, C!EndpointInit
  <2>3. IsSequence(answers)
    <3>1. answers \in Seq({})
      BY <2>2
    <3> QED
      BY <3>1 DEF IsSequence
  <2>4. ListsOK
    <3>1. /\ Len(answers) = 0 /\ Len(sendReqeustLists) = 0 /\ Len(requestLists) = 0
          /\ requestLists \in Seq(Nat) /\ sendReqeustLists \in Seq(Nat) /\ gets = 0
      BY <2>2
    <3>2. connected \in BOOLEAN /\ lost \in BOOLEAN /\ (lost => ~connected)
      BY <2>2
    <3>3. 1 .. 0 = {} /\ 0 \in Nat /\ 0 + 0 + 0 = 0
      OBVIOUS
    <3> QED
      BY <2>3, <3>1, <3>2, <3>3 DEF ListsOK, OrderOK, UseOK
  <2> QED
    BY <2>2, <2>4 DEF SentOK, Counts
<1>2. RequestsOK /\ [AppNext]_allVars => RequestsOK'
  <2> SUFFICES ASSUME RequestsOK, [AppNext]_allVars, app' = "HttpClient" PROVE ListsOK' /\ SentOK'
    BY DEF RequestsOK
  <2>1. CASE UNCHANGED allVars
    <3>1. /\ app = "HttpClient"
          /\ UNCHANGED <<answers, sendReqeustLists, what, requestLists, connected, lost, gets>>
      BY <2>1 DEF allVars, endpointVars, clientVars, chosen
    <3> QED
      BY <3>1, NothingSentOK DEF RequestsOK
  <2>2. CASE AppNext
    BY <2>2, RequestsStep DEF AppNext, chosen
  <2> QED
    BY <2>1, <2>2
<1>3. RequestsOK => (app = "HttpClient" => /\ C!RequestsInOrder
                                           /\ \A i \in DOMAIN answers : answers[i].req = i)
  <2> SUFFICES ASSUME ListsOK
               PROVE  C!RequestsInOrder /\ \A i \in DOMAIN answers : answers[i].req = i
    BY DEF RequestsOK
  <2>1. PICK T : answers \in Seq(T)
    BY DEF ListsOK, OrderOK, UseOK, IsSequence
  <2>2. Len(answers) \in Nat /\ DOMAIN answers = 1 .. Len(answers)
    BY <2>1
  <2>3. ASSUME ~lost
        PROVE  [i \in DOMAIN answers |-> answers[i].req] \o sendReqeustLists \o requestLists
                 = [i \in 1 .. gets |-> i]
    <3> DEFINE a == [i \in DOMAIN answers |-> answers[i].req]
               s == sendReqeustLists
               w == requestLists
               all == [i \in 1 .. gets |-> i]
    <3>1. a \in Seq(Nat) /\ Len(a) = Len(answers) /\ \A i \in 1 .. Len(a) : a[i] = i
      BY <2>2 DEF ListsOK, OrderOK, UseOK
    <3>2. s \in Seq(Nat) /\ w \in Seq(Nat) /\ gets = Len(a) + Len(s) + Len(w)
      BY <2>3, <3>1 DEF ListsOK, OrderOK, UseOK
    <3>3. /\ \A i \in 1 .. Len(s) : s[i] = Len(a) + i
          /\ \A i \in 1 .. Len(w) : w[i] = Len(a) + Len(s) + i
      BY <2>3, <3>1 DEF ListsOK, OrderOK, UseOK
    <3>4. all \in Seq(Nat) /\ Len(all) = gets /\ \A i \in 1 .. Len(all) : all[i] = i
      BY DEF ListsOK, OrderOK, UseOK
    <3> HIDE DEF a, s, w, all
    <3> DEFINE b == a \o s
    <3>5. b \in Seq(Nat) /\ Counts(b) /\ Len(b) = Len(a) + Len(s)
      BY <3>1, <3>2, <3>3, CountsOn DEF Counts
    <3> HIDE DEF b
    <3> DEFINE v == b \o w
    <3>6. \A i \in 1 .. Len(w) : w[i] = Len(b) + i
      BY <3>3, <3>5
    <3>7. v \in Seq(Nat) /\ Counts(v) /\ Len(v) = Len(b) + Len(w)
      BY <3>2, <3>5, <3>6, CountsOn
    <3> HIDE DEF v
    <3>8. Len(v) = gets /\ \A i \in 1 .. Len(v) : v[i] = i
      BY <3>2, <3>5, <3>7 DEF Counts
    <3>9. v = all
      <4>1. Len(v) = Len(all) /\ \A i \in 1 .. Len(v) : v[i] = all[i]
        BY <3>4, <3>8
      <4> QED
        BY <3>4, <3>7, <4>1, SeqEqual
    <3> QED
      BY <3>9 DEF v, b, a, s, w, all
  <2> QED
    BY <2>2, <2>3 DEF C!RequestsInOrder, ListsOK, OrderOK
<1> QED
  BY <1>1, <1>2, <1>3, PTL DEF AppSpec

=============================================================================
