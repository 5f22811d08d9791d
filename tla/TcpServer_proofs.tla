--------------------------- MODULE TcpServer_proofs ---------------------------
(***************************************************************************)
(* Connections are announced first and once, and no two open ones have one *)
(* descriptor, for any number of loops and connections.                    *)
(***************************************************************************)
EXTENDS TcpServer, FiniteSetTheorems, WellFoundedInduction, TLAPS

Types ==
    /\ backlog \in Seq(Conns) /\ data \in [Conns -> {"none", "waiting", "read"}]
    /\ st \in [Conns -> {"unborn", "backlog", "posted", "open", "dead"}]
    /\ fd \in [Conns -> Fds \cup {None}] /\ open \subseteq Fds
    /\ queue \in [Loops -> Seq(Conns)]
    /\ listening \in BOOLEAN /\ callbacks \in BOOLEAN /\ hasRead \subseteq Conns
    /\ pc \in [Loops -> {"idle", "accept", "call", "cb", "ended"}]
    /\ cur \in [Loops -> [conn : Conns \cup {None}, kind : Kinds]]
    /\ told \in [Conns -> Seq(Kinds)]

Live(c) == st[c] \in {"posted", "open"}

Once(s) == \A i, j \in 1 .. Len(s) : s[i] = s[j] => i = j

\* The kernel's queue and the posted handlers hold each connection once.
QueuesOK ==
    /\ Once(backlog) /\ \A i \in 1 .. Len(backlog) : st[backlog[i]] = "backlog"
    /\ \A l \in Loops :
         /\ Once(queue[l])
         /\ \A i \in 1 .. Len(queue[l]) :
              st[queue[l][i]] = "posted" /\ robinLoop(fd[queue[l][i]]) = l

\* The descriptors in use are those of the live connections, one each.
FdsOK ==
    /\ \A c \in Conns : Live(c) => fd[c] \in open
    /\ \A c, d \in Conns : c # d /\ Live(c) /\ Live(d) => fd[c] # fd[d]
    /\ \A f \in open : \E c \in Conns : Live(c) /\ fd[c] = f

\* A thread calls, or runs, a callback of a connection of its loop.
CallsOK ==
    \A l \in Loops :
        pc[l] \in {"call", "cb"} =>
            /\ cur[l].conn \in Conns /\ robinLoop(fd[cur[l].conn]) = l
            /\ st[cur[l].conn] \in {"open", "dead"}
            /\ pc[l] = "call" => st[cur[l].conn] = "open" /\ cur[l].kind # "read"

\* Loop l is about to call, or runs, the callback of this kind for c.
Calls(l, c, kind) == pc[l] = "call" /\ cur[l] = [conn |-> c, kind |-> kind]
Runs(l, c, kind) == pc[l] = "cb" /\ cur[l] = [conn |-> c, kind |-> kind]

\* As long as the callbacks are there a connection that is registered has been
\* announced, or is just being; and an error callback is the last.
ToldOK ==
    callbacks =>
        \A c \in Conns :
            /\ st[c] \in {"unborn", "backlog", "posted"} => told[c] = <<>>
            /\ \A l \in Loops : Calls(l, c, "accept") => told[c] = <<>>
            /\ st[c] \in {"open", "dead"} /\ told[c] = <<>> =>
                 \E l \in Loops : Calls(l, c, "accept")
            /\ told[c] # <<>> /\ told[c][Len(told[c])] = "erro" =>
                 st[c] = "dead" \/ \E l \in Loops : Runs(l, c, "erro")

IInv == Types /\ QueuesOK /\ FdsOK /\ CallsOK /\ ToldOK /\ AcceptFirst

-----------------------------------------------------------------------------

\* A set of numbers has a least one.
LEMMA NatMin ==
    ASSUME NEW S, S \subseteq Nat, S # {}
    PROVE  \E n \in S : \A m \in S : n <= m
<1>1. PICK n \in S : \A m \in S : ~ (<<m, n>> \in OpToRel(<, Nat))
  BY NatLessThanWellFounded, WFMin
<1>2. \A m \in S : ~ (m < n)
  BY <1>1 DEF OpToRel
<1> QED
  BY <1>2

\* robinLoop gives a loop that exists.
LEMMA RobinLoop == \A f \in Fds : robinLoop(f) \in Loops
  BY NAssumption DEF Fds, robinLoop, Loops

\* A descriptor is left for a connection that is still in the backlog.
LEMMA LowestIsFree ==
    ASSUME Types, FdsOK, NEW c \in Conns, st[c] = "backlog"
    PROVE  Lowest \in Fds \ open
<1> DEFINE live == {d \in Conns : Live(d)}
           F == [d \in live |-> fd[d]]
<1>1. live \in SUBSET (Conns \ {c}) /\ c \notin live
  BY DEF Live
<1>2. IsFiniteSet(live) /\ Cardinality(live) <= Cardinality(Conns) - 1
      /\ Cardinality(Conns) \in Nat \ {0}
  <2>1. IsFiniteSet(Conns \ {c}) /\ Cardinality(Conns \ {c}) = Cardinality(Conns) - 1
    BY ConnsAssumption, FS_RemoveElement, Zenon
  <2>2. Cardinality(Conns) \in Nat /\ Cardinality(Conns \ {c}) \in Nat
    BY <2>1, ConnsAssumption, FS_CardinalityType
  <2>3. IsFiniteSet(live) /\ Cardinality(live) <= Cardinality(Conns \ {c})
    BY <1>1, <2>1, FS_Subset
  <2> QED
    BY <2>1, <2>2, <2>3
<1>3. open = {fd[d] : d \in live}
  BY DEF FdsOK
<1>4. IsFiniteSet(open) /\ Cardinality(open) <= Cardinality(live)
  <2>1. F \in Surjection(live, open)
    BY <1>3 DEF Surjection
  <2> HIDE DEF F, live
  <2> QED
    BY <1>2, <2>1, FS_Surjection
<1>5. IsFiniteSet(Fds) /\ Cardinality(Fds) = Cardinality(Conns)
  BY <1>2, FS_Interval DEF Fds
<1>6. Cardinality(open) \in Nat /\ Cardinality(live) \in Nat
  BY <1>2, <1>4, FS_CardinalityType
<1>7. Fds \ open # {}
  <2> SUFFICES ASSUME Fds \ open = {} PROVE FALSE
    OBVIOUS
  <2>1. Fds = open
    BY DEF Types
  <2> QED
    BY <1>2, <1>4, <1>5, <1>6, <2>1
<1>8. \E f \in Fds \ open : \A g \in Fds \ open : f <= g
  <2>1. Fds \ open \subseteq Nat
    BY DEF Fds
  <2> QED
    BY <1>7, <2>1, NatMin
<1> QED
  BY <1>8 DEF Lowest

-----------------------------------------------------------------------------

LEMMA InitOK == Init => IInv
<1> SUFFICES ASSUME Init PROVE IInv
  OBVIOUS
<1>1. Types
  BY DEF Init, Types, NoCall, Kinds
<1>2. QueuesOK /\ FdsOK /\ CallsOK /\ ToldOK /\ AcceptFirst
  BY DEF Init, QueuesOK, Once, FdsOK, Live, CallsOK, ToldOK, Calls, AcceptFirst
<1> QED
  BY <1>1, <1>2 DEF IInv

LEMMA PeerConnectsStep ==
    ASSUME IInv, NEW c \in Conns, PeerConnects(c)
    PROVE  IInv'
<1> USE DEF IInv
<1>1. Types'
  BY DEF PeerConnects, Types, server, NoCall
<1>2. QueuesOK'
  BY DEF PeerConnects, QueuesOK, Once, Types
<1>3. FdsOK'
  <2>1. \A d \in Conns : Live(d)' <=> Live(d)
    BY DEF PeerConnects, Live, Types
  <2> QED
    BY <2>1 DEF PeerConnects, FdsOK
<1>4. CallsOK'
  BY DEF PeerConnects, CallsOK, Types
<1>5. ToldOK' /\ AcceptFirst'
  BY DEF PeerConnects, ToldOK, AcceptFirst, Calls, Runs, Types, server
<1> QED
  BY <1>1, <1>2, <1>3, <1>4, <1>5

LEMMA AcceptStepOK ==
    ASSUME IInv, Accept
    PROVE  IInv'
<1> USE DEF IInv
<1> DEFINE c == Head(backlog)
           l == robinLoop(Lowest)
<1>1. c \in Conns /\ st[c] = "backlog" /\ backlog # <<>> /\ c = backlog[1] /\ Len(backlog) \in Nat \ {0}
  BY DEF Accept, Types, QueuesOK
<1>2. Lowest \in Fds /\ Lowest \notin open /\ l \in Loops
  BY <1>1, LowestIsFree, RobinLoop
<1>3. /\ fd' = [fd EXCEPT ![c] = Lowest] /\ open' = open \cup {Lowest}
      /\ st' = [st EXCEPT ![c] = "posted"]
      /\ hasRead' \in {hasRead, hasRead \cup {c}}
      /\ queue' = [queue EXCEPT ![l] = Append(@, c)]
      /\ backlog' = Tail(backlog)
      /\ UNCHANGED <<listening, callbacks, data, pc, cur, told>>
  BY DEF Accept
<1> HIDE DEF c, l
<1>4. Types'
  BY <1>1, <1>2, <1>3 DEF Types
<1>5. QueuesOK'
  <2>1. Once(backlog') /\ \A i \in 1 .. Len(backlog') : st'[backlog'[i]] = "backlog"
    BY <1>1, <1>3 DEF QueuesOK, Once, Types
  <2>2. ASSUME NEW m \in Loops
        PROVE  /\ Once(queue'[m])
               /\ \A i \in 1 .. Len(queue'[m]) :
                    st'[queue'[m][i]] = "posted" /\ robinLoop(fd'[queue'[m][i]]) = m
    <3>1. CASE m # l
      BY <1>1, <1>3, <3>1 DEF QueuesOK, Types
    <3>2. CASE m = l
      <4>1. queue'[l] = Append(queue[l], c) /\ queue[l] \in Seq(Conns)
        BY <1>2, <1>3 DEF Types
      <4>2. \A i \in 1 .. Len(queue[l]) : queue[l][i] \in Conns /\ queue[l][i] # c
        BY <1>1, <1>2, <4>1 DEF QueuesOK
      <4> QED
        BY <1>1, <1>2, <1>3, <3>2, <4>1, <4>2, SMTT(60) DEF QueuesOK, Types, Once, l
    <3> QED
      BY <3>1, <3>2
  <2> QED
    BY <2>1, <2>2 DEF QueuesOK
<1>6. FdsOK'
  BY <1>1, <1>2, <1>3 DEF FdsOK, Live, Types
<1>7. CallsOK'
  BY <1>1, <1>3 DEF CallsOK, Types
<1>8. ToldOK' /\ AcceptFirst'
  BY <1>1, <1>3 DEF ToldOK, AcceptFirst, Calls, Runs, Types
<1> QED
  BY <1>4, <1>5, <1>6, <1>7, <1>8

LEMMA AcceptFailsStep ==
    ASSUME IInv, AcceptFails
    PROVE  IInv'
<1> USE DEF IInv
<1>1. ~callbacks'
  BY DEF AcceptFails
<1>2. Types'
  <2>1. backlog' \in Seq(Conns) /\ st' \in [Conns -> {"unborn", "backlog", "posted", "open", "dead"}]
    <3>1. CASE UNCHANGED <<backlog, st>>
      BY <3>1 DEF Types
    <3>2. CASE backlog # <<>> /\ backlog' = Tail(backlog) /\ st' = [st EXCEPT ![Head(backlog)] = "dead"]
      BY <3>2 DEF Types
    <3> QED
      BY <3>1, <3>2 DEF AcceptFails
  <2>2. listening' \in BOOLEAN /\ callbacks' \in BOOLEAN
    BY DEF AcceptFails
  <2> QED
    BY <2>1, <2>2 DEF AcceptFails, Types
<1>3. QueuesOK' /\ FdsOK' /\ CallsOK'
  <2>1. CASE UNCHANGED <<backlog, st>>
    BY <2>1 DEF AcceptFails, QueuesOK, FdsOK, CallsOK, Live
  <2>2. CASE backlog # <<>> /\ backlog' = Tail(backlog) /\ st' = [st EXCEPT ![Head(backlog)] = "dead"]
    <3> DEFINE c == Head(backlog)
    <3>1. c \in Conns /\ st[c] = "backlog" /\ c = backlog[1] /\ Len(backlog) \in Nat \ {0}
      BY <2>2 DEF Types, QueuesOK
    <3>2. /\ st'[c] = "dead" /\ \A d \in Conns : d # c => st'[d] = st[d]
          /\ UNCHANGED <<fd, open, queue, pc, cur>>
      BY <2>2, <3>1 DEF AcceptFails, Types
    <3> HIDE DEF c
    <3>3. QueuesOK'
      BY <2>2, <3>1, <3>2 DEF QueuesOK, Once, Types
    <3>4. FdsOK'
      <4>1. \A d \in Conns : Live(d)' <=> Live(d)
        BY <3>1, <3>2 DEF Live
      <4> QED
        BY <3>2, <4>1 DEF FdsOK
    <3>5. CallsOK'
      BY <3>1, <3>2 DEF CallsOK
    <3> QED
      BY <3>3, <3>4, <3>5
  <2> QED
    BY <2>1, <2>2 DEF AcceptFails
<1> QED
  BY <1>1, <1>2, <1>3 DEF ToldOK, AcceptFirst

LEMMA RunPostedStep ==
    ASSUME IInv, NEW l \in Loops, RunPosted(l)
    PROVE  IInv'
<1> USE DEF IInv
<1> DEFINE c == Head(queue[l])
<1>1. /\ pc[l] = "idle" /\ queue[l] \in Seq(Conns) /\ c = queue[l][1]
      /\ Len(queue[l]) \in Nat \ {0} /\ c \in Conns
      /\ st[c] = "posted" /\ robinLoop(fd[c]) = l
  BY DEF RunPosted, Types, QueuesOK
<1>2. /\ st' = [st EXCEPT ![c] = "open"]
      /\ IF callbacks
         THEN pc' = [pc EXCEPT ![l] = "call"] /\ cur' = [cur EXCEPT ![l] = [conn |-> c, kind |-> "accept"]]
         ELSE UNCHANGED <<pc, cur>>
      /\ queue' = [queue EXCEPT ![l] = Tail(queue[l])]
      /\ UNCHANGED <<listening, callbacks, hasRead, backlog, data, fd, open, told>>
  BY DEF RunPosted, server, kernel
<1> HIDE DEF c
<1>3. Types'
  <2>1. [conn |-> c, kind |-> "accept"] \in [conn : Conns \cup {None}, kind : Kinds]
    BY <1>1 DEF Kinds
  <2>2. pc' \in [Loops -> {"idle", "accept", "call", "cb", "ended"}]
        /\ cur' \in [Loops -> [conn : Conns \cup {None}, kind : Kinds]]
    BY <1>2, <2>1, ZenonT(60) DEF Types
  <2>3. queue' \in [Loops -> Seq(Conns)]
    BY <1>1, <1>2 DEF Types
  <2> QED
    BY <1>1, <1>2, <2>2, <2>3 DEF Types
<1>4. QueuesOK'
  BY <1>1, <1>2, SMTT(60) DEF QueuesOK, Once, Types
<1>5. FdsOK'
  BY <1>1, <1>2 DEF FdsOK, Live, Types
<1>6. CallsOK'
  BY <1>1, <1>2 DEF CallsOK, Types
<1>7. AcceptFirst'
  BY <1>2 DEF AcceptFirst
<1>8. ToldOK'
  <2> SUFFICES ASSUME callbacks PROVE ToldOK'
    BY <1>2 DEF ToldOK
  <2>1. /\ st'[c] = "open" /\ \A d \in Conns : d # c => st'[d] = st[d]
        /\ pc'[l] = "call" /\ cur'[l] = [conn |-> c, kind |-> "accept"]
        /\ \A m \in Loops : m # l => pc'[m] = pc[m] /\ cur'[m] = cur[m]
    BY <1>1, <1>2 DEF Types
  <2>2. \A d \in Conns, k \in Kinds :
          /\ Calls(l, d, k)' <=> d = c /\ k = "accept"
          /\ ~Calls(l, d, k) /\ ~Runs(l, d, k) /\ ~Runs(l, d, k)'
          /\ \A m \in Loops : m # l => (Calls(m, d, k)' <=> Calls(m, d, k)) /\ (Runs(m, d, k)' <=> Runs(m, d, k))
    BY <1>1, <2>1 DEF Calls, Runs
  <2>3. told[c] = <<>>
    BY <1>1 DEF ToldOK
  <2>4. "accept" \in Kinds /\ "erro" \in Kinds
    BY DEF Kinds
  <2> HIDE DEF IInv
  <2> QED
    BY <1>1, <1>2, <2>1, <2>2, <2>3, <2>4 DEF IInv, ToldOK
<1> QED
  BY <1>3, <1>4, <1>5, <1>6, <1>7, <1>8

\* Each loop's thread is busy with connections of its own: a callback of c, as long
\* as c is registered, is that of one loop.
LEMMA OneCaller ==
    ASSUME IInv, NEW l \in Loops, NEW m \in Loops, NEW c \in Conns,
           robinLoop(fd[c]) = l, pc[m] \in {"call", "cb"}, cur[m].conn = c
    PROVE  m = l
  BY DEF IInv, CallsOK

\* A registered connection whose loop is not about to announce it has been
\* announced, and no error callback has been called for it.
LEMMA Announced1 ==
    ASSUME IInv, callbacks, NEW l \in Loops, NEW c \in Conns,
           st[c] = "open", robinLoop(fd[c]) = l,
           ~ Calls(l, c, "accept"), ~ Runs(l, c, "erro")
    PROVE  told[c] # <<>> /\ told[c][Len(told[c])] # "erro"
<1>1. \A m \in Loops : m # l => ~ Calls(m, c, "accept") /\ ~ Runs(m, c, "erro")
  BY OneCaller DEF Calls, Runs
<1> QED
  BY <1>1 DEF IInv, ToldOK

\* One more callback, called in its place, keeps AcceptFirst.
LEMMA TellMore ==
    ASSUME IInv, callbacks, NEW c \in Conns, NEW k \in Kinds,
           told' = [told EXCEPT ![c] = Append(@, k)],
           IF k = "accept" THEN told[c] = <<>>
                           ELSE told[c] # <<>> /\ told[c][Len(told[c])] # "erro"
    PROVE  /\ AcceptFirst' /\ told' \in [Conns -> Seq(Kinds)]
           /\ told'[c] # <<>> /\ told'[c][Len(told'[c])] = k
           /\ \A d \in Conns : d # c => told'[d] = told[d]
<1>1. told \in [Conns -> Seq(Kinds)] /\ told[c] \in Seq(Kinds) /\ Len(told[c]) \in Nat
  BY DEF IInv, Types
<1>2. told'[c] = Append(told[c], k) /\ \A d \in Conns : d # c => told'[d] = told[d]
  BY <1>1
<1>3. /\ Len(told'[c]) = Len(told[c]) + 1 /\ told'[c][Len(told[c]) + 1] = k
      /\ \A i \in 1 .. Len(told[c]) : told'[c][i] = told[c][i]
  BY <1>1, <1>2
<1>4. /\ told'[c][1] = "accept"
      /\ \A i \in 2 .. Len(told'[c]) : told'[c][i] # "accept" /\ told'[c][i - 1] # "erro"
  <2>1. CASE k = "accept"
    BY <1>3, <2>1
  <2>2. CASE k # "accept"
    <3>1. told[c] # <<>> /\ told[c][Len(told[c])] # "erro" /\ Len(told[c]) >= 1
      BY <1>1, <2>2
    <3>2. /\ told[c][1] = "accept"
          /\ \A i \in 2 .. Len(told[c]) : told[c][i] # "accept" /\ told[c][i - 1] # "erro"
      BY <3>1 DEF IInv, AcceptFirst
    <3> QED
      BY <1>1, <1>3, <2>2, <3>1, <3>2
  <2> QED
    BY <2>1, <2>2
<1>5. AcceptFirst'
  BY <1>2, <1>4 DEF IInv, AcceptFirst
<1>6. told'[c] # <<>> /\ told'[c][Len(told'[c])] = k /\ told' \in [Conns -> Seq(Kinds)]
  BY <1>1, <1>2, <1>3
<1> QED
  BY <1>2, <1>5, <1>6

LEMMA CallBackStep ==
    ASSUME IInv, NEW l \in Loops, CallBack(l)
    PROVE  IInv'
<1>1. PICK c \in Conns, k \in Kinds :
        /\ pc[l] = "call" /\ callbacks /\ k # "read"
        /\ st[c] = "open" /\ robinLoop(fd[c]) = l /\ cur[l] = [conn |-> c, kind |-> k]
  BY DEF CallBack, IInv, CallsOK, Types
<1>2. /\ told' = [told EXCEPT ![c] = Append(@, k)]
      /\ pc' = [pc EXCEPT ![l] = "cb"]
      /\ UNCHANGED <<listening, callbacks, hasRead, backlog, data, st, fd, open, queue, cur>>
  BY <1>1 DEF CallBack, server, kernel, conns
<1>3. IF k = "accept" THEN told[c] = <<>>
                      ELSE told[c] # <<>> /\ told[c][Len(told[c])] # "erro"
  <2>1. CASE k = "accept"
    BY <1>1, <2>1 DEF IInv, ToldOK, Calls
  <2>2. CASE k # "accept"
    <3>1. ~ Calls(l, c, "accept") /\ ~ Runs(l, c, "erro")
      BY <1>1, <2>2 DEF Calls, Runs
    <3> QED
      BY <1>1, <2>2, <3>1, Announced1
  <2> QED
    BY <2>1, <2>2
<1>4. /\ AcceptFirst' /\ told' \in [Conns -> Seq(Kinds)]
      /\ told'[c] # <<>> /\ told'[c][Len(told'[c])] = k
      /\ \A d \in Conns : d # c => told'[d] = told[d]
  BY <1>1, <1>2, <1>3, TellMore
<1>5. Types'
  BY <1>2, <1>4 DEF IInv, Types
<1>6. QueuesOK' /\ FdsOK'
  BY <1>2 DEF IInv, QueuesOK, FdsOK, Live
<1>7. pc'[l] = "cb" /\ \A m \in Loops : m # l => pc'[m] = pc[m]
  BY <1>2 DEF IInv, Types
<1>8. CallsOK'
  BY <1>1, <1>2, <1>7 DEF IInv, CallsOK
<1>9. ToldOK'
  <2>1. \A m \in Loops : m # l => ~ (pc[m] \in {"call", "cb"} /\ cur[m].conn = c)
    BY <1>1, OneCaller
  <2>2. \A m \in Loops, d \in Conns :
           /\ Calls(m, d, "accept")' <=> Calls(m, d, "accept") /\ m # l
           /\ Runs(m, d, "erro") => Runs(m, d, "erro")'
           /\ Calls(l, d, "accept") => d = c
    BY <1>1, <1>2, <1>7 DEF Calls, Runs
  <2>3. \A m \in Loops : ~ Calls(m, c, "accept")'
    BY <1>2, <1>7, <2>1 DEF Calls
  <2>4. k = "erro" => Runs(l, c, "erro")'
    BY <1>1, <1>2, <1>7 DEF Runs
  <2> QED
    BY <1>1, <1>2, <1>4, <2>2, <2>3, <2>4 DEF IInv, ToldOK
<1> QED
  BY <1>4, <1>5, <1>6, <1>8, <1>9 DEF IInv

LEMMA DestroyConnStep ==
    ASSUME IInv, NEW l \in Loops, DestroyConn(l)
    PROVE  IInv'
<1> DEFINE c == cur[l].conn
<1>1. pc[l] = "cb" /\ c \in Conns /\ st[c] = "open"
  BY DEF DestroyConn, IInv, CallsOK
<1>2. /\ st' = [st EXCEPT ![c] = "dead"] /\ open' = open \ {fd[c]}
      /\ UNCHANGED <<listening, callbacks, hasRead, backlog, data, fd, queue, pc, cur, told>>
  BY DEF DestroyConn, server, kernel
<1> HIDE DEF c
<1>3. st'[c] = "dead" /\ \A d \in Conns : d # c => st'[d] = st[d]
  BY <1>1, <1>2 DEF IInv, Types
<1>4. Types'
  BY <1>2 DEF IInv, Types
<1>5. QueuesOK'
  <2>1. \A i \in 1 .. Len(backlog) : backlog[i] \in Conns
    BY DEF IInv, Types
  <2>2. \A m \in Loops : \A i \in 1 .. Len(queue[m]) : queue[m][i] \in Conns
    BY DEF IInv, Types
  <2> QED
    BY <1>1, <1>2, <1>3, <2>1, <2>2 DEF IInv, QueuesOK
<1>6. FdsOK'
  <2>1. \A d \in Conns : Live(d)' <=> Live(d) /\ d # c
    BY <1>1, <1>3 DEF Live
  <2>2. Live(c)
    BY <1>1 DEF Live
  <2> QED
    BY <1>1, <1>2, <2>1, <2>2 DEF IInv, FdsOK
<1>7. CallsOK'
  <2>1. robinLoop(fd[c]) = l
    BY <1>1 DEF IInv, CallsOK, c
  <2>2. \A m \in Loops : pc[m] \in {"call", "cb"} /\ cur[m].conn = c => m = l
    BY <1>1, <2>1, OneCaller
  <2> QED
    BY <1>1, <1>2, <1>3, <2>2 DEF IInv, CallsOK
<1>8. ToldOK' /\ AcceptFirst'
  BY <1>1, <1>2, <1>3 DEF IInv, ToldOK, AcceptFirst, Calls, Runs
<1> QED
  BY <1>4, <1>5, <1>6, <1>7, <1>8 DEF IInv

\* ToldOK is about what is called or run for a connection, and nothing else of the
\* threads.
LEMMA ToldKept ==
    ASSUME ToldOK, UNCHANGED <<callbacks, st, told>>,
           \A m \in Loops, d \in Conns :
              /\ Calls(m, d, "accept")' <=> Calls(m, d, "accept")
              /\ Runs(m, d, "erro") => Runs(m, d, "erro")' \/ st[d] = "dead"
    PROVE  ToldOK'
<1> SUFFICES ASSUME callbacks, NEW c \in Conns
             PROVE  /\ st[c] \in {"unborn", "backlog", "posted"} => told[c] = <<>>
                    /\ \A l \in Loops : Calls(l, c, "accept")' => told[c] = <<>>
                    /\ st[c] \in {"open", "dead"} /\ told[c] = <<>> =>
                         \E l \in Loops : Calls(l, c, "accept")'
                    /\ told[c] # <<>> /\ told[c][Len(told[c])] = "erro" =>
                         st[c] = "dead" \/ \E l \in Loops : Runs(l, c, "erro")'
  BY DEF ToldOK
<1> QED
  BY DEF ToldOK

\* Steps that only begin or end something on loop l's thread.
LEMMA ThreadSteps ==
    ASSUME IInv, NEW l \in Loops, Return(l) \/ ErroEvent(l)
    PROVE  IInv'
<1>1. /\ UNCHANGED <<listening, callbacks, hasRead, backlog, data, st, fd, open, queue, told>>
      /\ \A m \in Loops : m # l => pc'[m] = pc[m] /\ cur'[m] = cur[m]
  BY DEF Return, ErroEvent, IInv, Types, server, kernel, conns
<1>2. QueuesOK' /\ FdsOK' /\ AcceptFirst'
  BY <1>1 DEF IInv, QueuesOK, FdsOK, Live, AcceptFirst
<1>3. CASE Return(l)
  <2>1. /\ pc[l] = "cb" /\ pc'[l] = "idle" /\ (cur[l].kind = "erro" => st[cur[l].conn] = "dead")
        /\ pc' = [pc EXCEPT ![l] = "idle"] /\ cur' = [cur EXCEPT ![l] = NoCall]
    BY <1>3 DEF Return, IInv, Types
  <2>2. Types'
    BY <1>1, <2>1 DEF IInv, Types, NoCall, Kinds
  <2>3. CallsOK'
    BY <1>1, <2>1 DEF IInv, CallsOK
  <2>4. ToldOK'
    <3>1. \A m \in Loops, d \in Conns : /\ Calls(m, d, "accept")' <=> Calls(m, d, "accept")
                                        /\ Runs(m, d, "erro") => Runs(m, d, "erro")' \/ st[d] = "dead"
      BY <1>1, <2>1 DEF Calls, Runs
    <3>2. UNCHANGED <<callbacks, st, told>> /\ ToldOK
      BY <1>1 DEF IInv
    <3> QED
      BY <3>1, <3>2, ToldKept DEF Calls, Runs
  <2> QED
    BY <1>2, <2>2, <2>3, <2>4 DEF IInv
<1>4. CASE ErroEvent(l)
  <2>1. PICK c \in Conns :
          /\ pc[l] = "idle" /\ st[c] = "open" /\ robinLoop(fd[c]) = l
          /\ pc' = [pc EXCEPT ![l] = IF callbacks THEN "call" ELSE "cb"]
          /\ cur' = [cur EXCEPT ![l] = [conn |-> c, kind |-> "erro"]]
    BY <1>4 DEF ErroEvent
  <2>2. Types'
    BY <1>1, <2>1 DEF IInv, Types, Kinds
  <2>3. /\ pc'[l] \in {"call", "cb"} /\ cur'[l].conn = c /\ cur'[l].kind = "erro"
    BY <2>1 DEF IInv, Types
  <2>4. CallsOK'
    BY <1>1, <2>1, <2>3 DEF IInv, CallsOK
  <2>5. ToldOK'
    <3>1. \A m \in Loops, d \in Conns : /\ Calls(m, d, "accept")' <=> Calls(m, d, "accept")
                                        /\ Runs(m, d, "erro") => Runs(m, d, "erro")' \/ st[d] = "dead"
      BY <1>1, <2>1, <2>3 DEF Calls, Runs
    <3>2. UNCHANGED <<callbacks, st, told>> /\ ToldOK
      BY <1>1 DEF IInv
    <3> QED
      BY <3>1, <3>2, ToldKept DEF Calls, Runs
  <2> QED
    BY <1>2, <2>2, <2>4, <2>5 DEF IInv
<1> QED
  BY <1>3, <1>4

LEMMA ReadEventStep ==
    ASSUME IInv, NEW l \in Loops, ReadEvent(l)
    PROVE  IInv'
<1>1. PICK c \in Conns :
        /\ pc[l] = "idle" /\ st[c] = "open" /\ robinLoop(fd[c]) = l
        /\ data' = [data EXCEPT ![c] = "read"]
        /\ IF c \in hasRead
           THEN /\ pc' = [pc EXCEPT ![l] = "cb"]
                /\ cur' = [cur EXCEPT ![l] = [conn |-> c, kind |-> "read"]]
                /\ told' = [told EXCEPT ![c] = Append(@, "read")]
           ELSE UNCHANGED <<pc, cur, told>>
  BY DEF ReadEvent
<1>2. UNCHANGED <<listening, callbacks, hasRead, backlog, st, fd, open, queue>>
  BY DEF ReadEvent, server, conns
<1>3. QueuesOK' /\ FdsOK'
  BY <1>2 DEF IInv, QueuesOK, FdsOK, Live
<1>4. data' \in [Conns -> {"none", "waiting", "read"}]
  BY <1>1 DEF IInv, Types
<1>5. CASE c \notin hasRead
  BY <1>1, <1>2, <1>3, <1>4, <1>5 DEF IInv, Types, CallsOK, ToldOK, AcceptFirst, Calls, Runs
<1>6. CASE c \in hasRead
  <2>1. /\ pc'[l] = "cb" /\ cur'[l].conn = c /\ cur'[l].kind = "read"
        /\ \A m \in Loops : m # l => pc'[m] = pc[m] /\ cur'[m] = cur[m]
    BY <1>1, <1>6 DEF IInv, Types
  <2>2. CallsOK'
    BY <1>1, <1>2, <2>1 DEF IInv, CallsOK
  <2>3. told' \in [Conns -> Seq(Kinds)] /\ "read" \in Kinds
    <3>1. "read" \in Kinds /\ told[c] \in Seq(Kinds) /\ told \in [Conns -> Seq(Kinds)]
      BY DEF IInv, Types, Kinds
    <3>2. Append(told[c], "read") \in Seq(Kinds)
      BY <3>1
    <3> QED
      BY <1>1, <1>6, <3>1, <3>2
  <2>4. Types'
    <3>1. [conn |-> c, kind |-> "read"] \in [conn : Conns \cup {None}, kind : Kinds]
      BY <2>3
    <3>2. cur' \in [Loops -> [conn : Conns \cup {None}, kind : Kinds]]
          /\ pc' \in [Loops -> {"idle", "accept", "call", "cb", "ended"}]
      BY <1>1, <1>6, <3>1, ZenonT(60) DEF IInv, Types
    <3> QED
      BY <1>2, <1>4, <2>3, <3>2 DEF IInv, Types
  <2>5. CASE ~ callbacks
    BY <1>2, <1>3, <2>2, <2>4, <2>5 DEF IInv, ToldOK, AcceptFirst
  <2>6. CASE callbacks
    <3>1. ~ Calls(l, c, "accept") /\ ~ Runs(l, c, "erro")
      BY <1>1 DEF Calls, Runs
    <3>2. told[c] # <<>> /\ told[c][Len(told[c])] # "erro"
      BY <1>1, <2>6, <3>1, Announced1
    <3>3. /\ AcceptFirst' /\ told'[c] # <<>> /\ told'[c][Len(told'[c])] = "read"
          /\ \A d \in Conns : d # c => told'[d] = told[d]
      BY <1>1, <1>6, <2>3, <2>6, <3>2, TellMore
    <3>4. \A m \in Loops, d \in Conns : /\ Calls(m, d, "accept")' <=> Calls(m, d, "accept")
                                        /\ Runs(m, d, "erro") => Runs(m, d, "erro")'
      BY <1>1, <2>1 DEF Calls, Runs
    <3>5. ToldOK'
      <4> SUFFICES ASSUME NEW d \in Conns
                   PROVE  /\ st[d] \in {"unborn", "backlog", "posted"} => told'[d] = <<>>
                          /\ \A m \in Loops : Calls(m, d, "accept")' => told'[d] = <<>>
                          /\ st[d] \in {"open", "dead"} /\ told'[d] = <<>> =>
                               \E m \in Loops : Calls(m, d, "accept")'
                          /\ told'[d] # <<>> /\ told'[d][Len(told'[d])] = "erro" =>
                               st[d] = "dead" \/ \E m \in Loops : Runs(m, d, "erro")'
        BY <1>2 DEF ToldOK
      <4>1. CASE d = c
        <5>1. \A m \in Loops : ~ Calls(m, c, "accept")
          BY <1>1, <3>1, OneCaller DEF Calls
        <5>2. told'[c] # <<>> /\ told'[c][Len(told'[c])] # "erro"
          BY <3>3
        <5>3. \A m \in Loops : ~ Calls(m, c, "accept")'
          BY <3>4, <5>1
        <5>4. st[c] = "open"
          BY <1>1
        <5> QED
          BY <4>1, <5>2, <5>3, <5>4 DEF Calls, Runs
      <4>2. CASE d # c
        <5>1. told'[d] = told[d]
          BY <3>3, <4>2
        <5>2. /\ st[d] \in {"unborn", "backlog", "posted"} => told[d] = <<>>
              /\ \A m \in Loops : Calls(m, d, "accept") => told[d] = <<>>
              /\ st[d] \in {"open", "dead"} /\ told[d] = <<>> => \E m \in Loops : Calls(m, d, "accept")
              /\ told[d] # <<>> /\ told[d][Len(told[d])] = "erro" =>
                   st[d] = "dead" \/ \E m \in Loops : Runs(m, d, "erro")
          BY <2>6 DEF IInv, ToldOK
        <5> QED
          BY <3>4, <5>1, <5>2
      <4> QED
        BY <4>1, <4>2
    <3> QED
      BY <1>3, <2>2, <2>4, <3>3, <3>5 DEF IInv
  <2> QED
    BY <2>5, <2>6
<1> QED
  BY <1>5, <1>6

LEMMA CallEmptyStep ==
    ASSUME IInv, NEW l \in Loops, CallEmpty(l)
    PROVE  IInv'
<1>1. /\ ~callbacks /\ pc' = [m \in Loops |-> "ended"]
      /\ UNCHANGED <<listening, callbacks, hasRead, backlog, data, st, fd, open, queue, cur, told>>
  BY DEF CallEmpty, server, kernel, conns
<1>2. Types' /\ CallsOK'
  BY <1>1 DEF IInv, Types, CallsOK
<1> QED
  BY <1>1, <1>2 DEF IInv, QueuesOK, FdsOK, Live, ToldOK, AcceptFirst

\* Steps that touch neither connections' states nor callbacks.
LEMMA QuietSteps ==
    ASSUME IInv, (\E c \in Conns : PeerSends(c)) \/ AcceptEvent \/ AcceptNothing \/ UNCHANGED vars
    PROVE  IInv'
<1>1. /\ UNCHANGED <<listening, callbacks, hasRead, backlog, st, fd, open, queue, cur, told>>
      /\ \A m \in Loops : pc'[m] = pc[m] \/ (pc[m] \in {"idle", "accept"} /\ pc'[m] \in {"idle", "accept"})
  BY DEF PeerSends, AcceptEvent, AcceptNothing, vars, server, kernel, conns, IInv, Types
<1>2. data' \in [Conns -> {"none", "waiting", "read"}]
  BY DEF PeerSends, AcceptEvent, AcceptNothing, vars, server, kernel, conns, IInv, Types
<1>3. pc' \in [Loops -> {"idle", "accept", "call", "cb", "ended"}]
  BY ZenonT(60) DEF PeerSends, AcceptEvent, AcceptNothing, vars, server, kernel, conns, IInv, Types
<1>4. Types'
  BY <1>1, <1>2, <1>3 DEF IInv, Types
<1>5. \A m \in Loops, c \in Conns : /\ Calls(m, c, "accept")' <=> Calls(m, c, "accept")
                                    /\ Runs(m, c, "erro") => Runs(m, c, "erro")'
  BY <1>1 DEF Calls, Runs
<1> QED
  <2>1. QueuesOK' /\ FdsOK' /\ AcceptFirst'
    BY <1>1 DEF IInv, QueuesOK, FdsOK, Live, AcceptFirst
  <2>2. CallsOK'
    BY <1>1 DEF IInv, CallsOK
  <2>3. ToldOK'
    BY <1>1, <1>5, ToldKept DEF IInv, Calls, Runs
  <2> QED
    BY <1>4, <2>1, <2>2, <2>3 DEF IInv

LEMMA Invariance == Spec => []IInv
<1>1. IInv /\ [Next]_vars => IInv'
  BY InitOK, PeerConnectsStep, AcceptStepOK, AcceptFailsStep, RunPostedStep, CallBackStep,
     CallEmptyStep, DestroyConnStep, ThreadSteps, ReadEventStep, QuietSteps
     DEF Next, AcceptStep, Serve, Asleep
<1> QED
  BY <1>1, InitOK, PTL DEF Spec

-----------------------------------------------------------------------------

\* TcpServer.cpp:42 gives a connection the loop its descriptor falls to, and line 48
\* registers it there later: when it does, the slot of that descriptor is free,
\* although the kernel gives a number again as soon as another loop has closed it.
THEOREM ServerAlwaysOK == Spec => []ServerInv
<1>1. IInv => TypeOK
  <2> SUFFICES ASSUME IInv PROVE TypeOK
    OBVIOUS
  <2>1. \A c \in Conns : fd[c] \in (IF st[c] \in {"posted", "open"} THEN open ELSE Fds \cup {None})
    BY DEF IInv, Types, FdsOK, Live
  <2>2. \A l \in Loops : \A c \in Range(queue[l]) : st[c] = "posted" /\ robinLoop(fd[c]) = l
    <3>1. \A l \in Loops : DOMAIN queue[l] = 1 .. Len(queue[l])
      BY DEF IInv, Types
    <3> QED
      BY <3>1 DEF IInv, QueuesOK, Range
  <2> QED
    BY <2>1, <2>2 DEF IInv, Types, TypeOK
<1>2. IInv => SlotFree
  BY DEF IInv, FdsOK, Live, SlotFree
<1> QED
  BY <1>1, <1>2, Invariance, PTL DEF ServerInv

\* TcpServer.cpp:24-53: a connection is announced to the accept callback before any
\* other callback and once, and its error callback is its last, however the loops,
\* the peers and the failing accept interleave.
THEOREM AnnouncedFirst == Spec => []AcceptFirst
<1>1. IInv => AcceptFirst
  BY DEF IInv
<1> QED
  BY <1>1, Invariance, PTL
=============================================================================
