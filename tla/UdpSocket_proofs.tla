--------------------------- MODULE UdpSocket_proofs ---------------------------
(***************************************************************************)
(* Datagrams leave in the order of the sends and come in per peer, for any *)
(* number of peers, datagrams and connections.                             *)
(***************************************************************************)
EXTENDS UdpSocket, SequenceTheorems, TLAPS

\* Where the thread is tells what it holds: the datagram it has received is from
\* the peer it has looked up, and the socket is alive when it goes on with it.
PlaceOK ==
    /\ pc = "append" => ~destroyed
    /\ pc = "closing" => destroyed /\ cur = None
    /\ pc \in {"acceptcb", "append"} /\ ~destroyed =>
         got \in Datagram /\ cur \in Peers /\ got.from = cur

\* What the kernel took, and what is queued behind the task in hand, is what was
\* sent.
QueueOK ==
    /\ calls = wire
    /\ IsPrefix(wire, sent)
    /\ IF destroyed THEN tasks = <<>>
       ELSE IF pc = "sendcb" THEN tasks # <<>> /\ wire \o Tail(tasks) = sent
       ELSE wire \o tasks = sent

\* Only a connection of conns_ has been announced.
GreetedOK == greeted \subseteq conns

IInv == TypeOK /\ PlaceOK /\ QueueOK /\ InputPerPeer /\ GreetedOK /\ WriteInterest

-----------------------------------------------------------------------------
(* Queues.                                                                 *)

LEMMA AppendRight ==
    ASSUME NEW S, NEW w \in Seq(S), NEW t \in Seq(S), NEW x \in S
    PROVE  w \o Append(t, x) = Append(w \o t, x)
<1>1. /\ w \o t \in Seq(S) /\ Append(t, x) \in Seq(S)
      /\ w \o Append(t, x) \in Seq(S) /\ Append(w \o t, x) \in Seq(S)
  BY ConcatProperties
<1>2. Len(w \o Append(t, x)) = Len(Append(w \o t, x))
  BY <1>1, ConcatProperties
<1>3. ASSUME NEW i \in 1 .. Len(w \o Append(t, x))
      PROVE  (w \o Append(t, x))[i] = Append(w \o t, x)[i]
  <2>1. /\ Len(w) \in Nat /\ Len(t) \in Nat /\ Len(w \o t) = Len(w) + Len(t)
        /\ Len(Append(t, x)) = Len(t) + 1 /\ i \in 1 .. Len(w) + Len(t) + 1
    BY <1>1, ConcatProperties
  <2>2. CASE i <= Len(w) + Len(t)
    <3>1. Append(w \o t, x)[i] = (w \o t)[i]
      BY <1>1, <2>1, <2>2
    <3>2. (w \o t)[i] = IF i <= Len(w) THEN w[i] ELSE t[i - Len(w)]
      BY <2>1, <2>2, ConcatProperties
    <3>3. (w \o Append(t, x))[i] = IF i <= Len(w) THEN w[i] ELSE Append(t, x)[i - Len(w)]
      <4> DEFINE u == Append(t, x)
      <4>1. u \in Seq(S) /\ i \in 1 .. Len(w) + Len(u)
        BY <1>1, <2>1
      <4> HIDE DEF u
      <4>2. (w \o u)[i] = IF i <= Len(w) THEN w[i] ELSE u[i - Len(w)]
        BY <4>1, ConcatProperties
      <4> QED
        BY <4>2 DEF u
    <3> QED
      BY <2>1, <2>2, <3>1, <3>2, <3>3
  <2>3. CASE i = Len(w) + Len(t) + 1
    <3>1. Append(w \o t, x)[i] = x
      BY <1>1, <2>1, <2>3
    <3>2. (w \o Append(t, x))[i] = Append(t, x)[Len(t) + 1]
      BY <1>1, <2>1, <2>3, ConcatProperties
    <3> QED
      BY <3>1, <3>2
  <2> QED
    BY <2>1, <2>2, <2>3
<1> QED
  BY <1>1, <1>2, <1>3, SeqEqual

LEMMA MoveHead ==
    ASSUME NEW S, NEW w \in Seq(S), NEW t \in Seq(S), t # <<>>
    PROVE  Append(w, Head(t)) \o Tail(t) = w \o t
<1>1. Head(t) \in S /\ Tail(t) \in Seq(S) /\ Append(w, Head(t)) \in Seq(S)
  BY HeadTailProperties
<1>2. /\ Append(w, Head(t)) \o Tail(t) \in Seq(S) /\ w \o t \in Seq(S)
      /\ Len(Append(w, Head(t)) \o Tail(t)) = Len(w \o t)
  BY <1>1, HeadTailProperties, ConcatProperties
<1>3. \A i \in 1 .. Len(w \o t) : (Append(w, Head(t)) \o Tail(t))[i] = (w \o t)[i]
  BY <1>1, HeadTailProperties, ConcatProperties
<1> QED
  BY <1>2, <1>3, SeqEqual

LEMMA PrefixOfConcat ==
    ASSUME NEW S, NEW w \in Seq(S), NEW t \in Seq(S)
    PROVE  IsPrefix(w, w \o t)
<1>1. w \o t \in Seq(S) /\ Len(w) <= Len(w \o t)
  BY ConcatProperties
<1>2. SubSeq(w \o t, 1, Len(w)) = SubSeq(w, 1, Len(w))
  <2>1. CASE w = <<>>
    BY <2>1
  <2>2. CASE w # <<>>
    BY <2>2, SubSeqOfConcat1
  <2> QED
    BY <2>1, <2>2
<1> QED
  BY <1>1, <1>2 DEF IsPrefix

-----------------------------------------------------------------------------

LEMMA BufferTypes ==
    ASSUME TypeOK
    PROVE  /\ readBuf \in [Peers -> Seq(Datagram)] /\ heard \in [Peers -> Seq(Datagram)]
           /\ used \in [Peers -> Seq(Datagram)]
  BY DEF TypeOK

LEMMA InitOK == Init => IInv
<1> SUFFICES ASSUME Init PROVE IInv
  OBVIOUS
<1>1. TypeOK
  <2>1. readBuf \in [Peers -> Seq(Datagram)] /\ heard = readBuf /\ used = readBuf
    BY DEF Init
  <2>2. \A f \in {readBuf, heard, used} : f \in [Peers -> Seq(Datagram)]
    BY <2>1
  <2>3. /\ pc = "idle" /\ back = "idle" /\ cur = None /\ got = None /\ answer = "ok"
        /\ arrived \in 0 .. MaxIn
    BY BoundsAssumption DEF Init
  <2>4. /\ tasks \in Seq(Task) /\ sent \in Seq(Task) /\ wire \in Seq(Task)
        /\ calls \in Seq(Task) /\ net \in Seq(Datagram)
        /\ conns \subseteq Peers /\ greeted \subseteq Peers
    BY DEF Init
  <2>5. destroyed \in BOOLEAN /\ open \in BOOLEAN /\ added \in BOOLEAN /\ wantOut \in BOOLEAN
    BY DEF Init
  <2> QED
    BY <2>2, <2>3, <2>4, <2>5 DEF TypeOK
<1>2. PlaceOK /\ GreetedOK /\ WriteInterest
  BY DEF Init, PlaceOK, GreetedOK, WriteInterest
<1>3. QueueOK
  BY DEF Init, QueueOK, IsPrefix
<1>4. InputPerPeer
  BY DEF Init, InputPerPeer
<1> QED
  BY <1>1, <1>2, <1>3, <1>4 DEF IInv

LEMMA SendStep ==
    ASSUME IInv, NEW p \in Peers, Send(p)
    PROVE  IInv'
<1> DEFINE t == [dest |-> p, id |-> Len(sent) + 1]
<1>1. /\ pc \in UserCode /\ ~destroyed /\ Len(sent) < MaxOut
      /\ tasks' = Append(tasks, t) /\ sent' = Append(sent, t) /\ wantOut' = TRUE
      /\ UNCHANGED <<destroyed, open, added, input, wire, calls, kernel, pc, back, cur, got, answer>>
  BY DEF Send
<1>2. t \in Task
  BY <1>1, BoundsAssumption DEF Task, IInv, TypeOK
<1> HIDE DEF t
<1>3. tasks \in Seq(Task) /\ sent \in Seq(Task) /\ wire \in Seq(Task)
  BY DEF IInv, TypeOK
<1>4. TypeOK'
  BY <1>1, <1>2, <1>3, SMTT(60) DEF IInv, TypeOK, input, kernel
<1>5. QueueOK'
  <2>1. CASE pc = "sendcb"
    <3>1. /\ tasks # <<>> /\ Tail(tasks) \in Seq(Task) /\ wire \o Tail(tasks) = sent
      BY <1>1, <1>3, <2>1 DEF IInv, QueueOK
    <3>2. Tail(tasks') = Append(Tail(tasks), t) /\ tasks' # <<>>
      BY <1>1, <1>2, <1>3, <3>1
    <3>3. wire \o Tail(tasks') = sent' /\ Tail(tasks') \in Seq(Task)
      <4>1. wire \o Append(Tail(tasks), t) = Append(wire \o Tail(tasks), t)
        BY <1>2, <1>3, <3>1, AppendRight
      <4>2. Append(Tail(tasks), t) \in Seq(Task)
        BY <1>2, <3>1, AppendProperties
      <4>3. wire \o Tail(tasks') = Append(sent, t)
        BY <3>1, <3>2, <4>1
      <4> QED
        BY <1>1, <3>2, <4>2, <4>3
    <3>4. IsPrefix(wire, sent')
      BY <1>3, <3>3, PrefixOfConcat
    <3> QED
      BY <1>1, <2>1, <3>2, <3>3, <3>4 DEF IInv, QueueOK
  <2>2. CASE pc # "sendcb"
    <3>1. wire \o tasks' = sent' /\ tasks' \in Seq(Task)
      BY <1>1, <1>2, <1>3, <2>2, AppendRight, SMTT(60) DEF IInv, QueueOK
    <3>2. IsPrefix(wire, sent')
      BY <1>3, <3>1, PrefixOfConcat
    <3> QED
      BY <1>1, <2>2, <3>1, <3>2 DEF IInv, QueueOK
  <2> QED
    BY <2>1, <2>2
<1>6. PlaceOK' /\ InputPerPeer' /\ GreetedOK' /\ WriteInterest'
  BY <1>1 DEF IInv, PlaceOK, InputPerPeer, GreetedOK, WriteInterest, input
<1> QED
  BY <1>4, <1>5, <1>6 DEF IInv

LEMMA TakeStep ==
    ASSUME IInv, NEW p \in Peers, Take(p)
    PROVE  IInv'
<1>1. /\ used' = [used EXCEPT ![p] = used[p] \o readBuf[p]]
      /\ readBuf' = [readBuf EXCEPT ![p] = <<>>]
      /\ UNCHANGED <<sock, conns, greeted, heard, output, kernel, pc, back, cur, got, answer>>
  BY DEF Take
<1>2. \A q \in Peers : used[q] \in Seq(Datagram) /\ readBuf[q] \in Seq(Datagram)
  BY DEF IInv, TypeOK
<1>3. used[p] \o readBuf[p] \in Seq(Datagram)
  BY <1>2, ConcatProperties
<1>4. TypeOK'
  BY <1>1, <1>3, SMTT(60) DEF IInv, TypeOK, sock, output, kernel
<1>5. InputPerPeer'
  <2>1. (used[p] \o readBuf[p]) \o <<>> = used[p] \o readBuf[p]
    BY <1>3, ConcatEmptySeq
  <2> QED
    BY <1>1, <1>2, <2>1, BufferTypes, SMTT(60) DEF IInv, InputPerPeer
<1>6. PlaceOK' /\ QueueOK' /\ GreetedOK' /\ WriteInterest'
  BY <1>1 DEF IInv, PlaceOK, QueueOK, GreetedOK, WriteInterest, sock, output
<1> QED
  BY <1>4, <1>5, <1>6 DEF IInv

LEMMA DestroyConnStep ==
    ASSUME IInv, NEW p \in Peers, DestroyConn(p)
    PROVE  IInv'
<1>1. /\ pc \in UserCode /\ conns' = conns \ {p} /\ greeted' = greeted \ {p}
      /\ readBuf' = [readBuf EXCEPT ![p] = <<>>]
      /\ heard' = [heard EXCEPT ![p] = <<>>] /\ used' = [used EXCEPT ![p] = <<>>]
      /\ UNCHANGED <<sock, output, kernel, pc, back, cur, got, answer>>
  BY DEF DestroyConn, Emptied
<1>2. TypeOK'
  BY <1>1 DEF IInv, TypeOK, sock, output, kernel
<1>3. InputPerPeer'
  <2>1. /\ readBuf'[p] = <<>> /\ heard'[p] = <<>> /\ used'[p] = <<>>
        /\ \A q \in Peers : q # p => /\ readBuf'[q] = readBuf[q] /\ heard'[q] = heard[q]
                                    /\ used'[q] = used[q]
    BY <1>1, BufferTypes DEF IInv
  <2> SUFFICES ASSUME NEW q \in Peers
               PROVE  /\ used'[q] \o readBuf'[q] = heard'[q]
                      /\ \A i \in DOMAIN readBuf'[q] : readBuf'[q][i].from = q
    BY DEF InputPerPeer
  <2>2. CASE q = p
    <3>1. <<>> \o <<>> = <<>> /\ DOMAIN <<>> = {}
      OBVIOUS
    <3> QED
      BY <2>1, <2>2, <3>1
  <2>3. CASE q # p
    <3>1. /\ used[q] \o readBuf[q] = heard[q]
          /\ \A i \in DOMAIN readBuf[q] : readBuf[q][i].from = q
      BY DEF IInv, InputPerPeer
    <3> QED
      BY <2>1, <2>3, <3>1
  <2> QED
    BY <2>2, <2>3
<1>4. PlaceOK' /\ QueueOK' /\ GreetedOK' /\ WriteInterest'
  BY <1>1 DEF IInv, PlaceOK, QueueOK, GreetedOK, WriteInterest, sock, output
<1> QED
  BY <1>2, <1>3, <1>4 DEF IInv

\* destroy(), whoever calls it.
LEMMA CloseFdStep ==
    ASSUME IInv, NEW from \in UserCode \cup {"idle"}, CloseFd(from)
    PROVE  IInv'
<1>1. /\ destroyed' = TRUE /\ tasks' = <<>> /\ conns' = {} /\ greeted' = {}
      /\ readBuf' = [p \in Peers |-> <<>>] /\ heard' = readBuf' /\ used' = readBuf'
      /\ open' = FALSE /\ pc' = "closing" /\ back' = from
      /\ cur' = None /\ got' = None
      /\ UNCHANGED <<added, wantOut, sent, wire, calls, kernel, answer>>
  BY DEF CloseFd
<1>2. TypeOK'
  <2>1. readBuf' \in [Peers -> Seq(Datagram)] /\ heard' = readBuf' /\ used' = readBuf'
    BY <1>1
  <2>2. \A f \in {readBuf', heard', used'} : f \in [Peers -> Seq(Datagram)]
    BY <2>1
  <2>3. /\ tasks' \in Seq(Task) /\ conns' \subseteq Peers /\ greeted' \subseteq Peers
        /\ pc' = "closing" /\ back' \in UserCode \cup {"idle"} /\ cur' = None /\ got' = None
        /\ UNCHANGED <<added, wantOut, sent, wire, calls, net, arrived, answer>>
    BY <1>1 DEF kernel
  <2>4. destroyed' \in BOOLEAN /\ open' \in BOOLEAN
    BY <1>1
  <2> QED
    BY <2>2, <2>3, <2>4 DEF IInv, TypeOK
<1>3. InputPerPeer'
  BY <1>1 DEF InputPerPeer
<1>4. PlaceOK' /\ QueueOK' /\ GreetedOK' /\ WriteInterest'
  BY <1>1 DEF IInv, PlaceOK, QueueOK, GreetedOK, WriteInterest
<1> QED
  BY <1>2, <1>3, <1>4 DEF IInv

LEMMA RecvStep ==
    ASSUME IInv, Recv
    PROVE  IInv'
<1>1. /\ ~destroyed /\ pc = "recv" /\ net # <<>> /\ answer' = "ok"
      /\ net' = Tail(net) /\ got' = Head(net) /\ cur' = got'.from
      /\ pc' = IF cur' \in conns THEN "append" ELSE "acceptcb"
      /\ conns' = conns \cup {cur'} /\ greeted' = greeted \cup {cur'}
      /\ UNCHANGED <<sock, readBuf, heard, used, output, arrived, back>>
  BY DEF Recv
<1>2. got' \in Datagram /\ cur' \in Peers /\ net' \in Seq(Datagram)
  <2>1. net \in Seq(Datagram)
    BY DEF IInv, TypeOK
  <2>2. got' \in Datagram /\ net' \in Seq(Datagram)
    BY <1>1, <2>1, HeadTailProperties
  <2> QED
    BY <1>1, <2>2 DEF Datagram
<1>3. TypeOK'
  BY <1>1, <1>2 DEF IInv, TypeOK, sock, output, UserCode
<1>4. PlaceOK' /\ QueueOK' /\ InputPerPeer' /\ GreetedOK' /\ WriteInterest'
  BY <1>1, <1>2 DEF IInv, PlaceOK, QueueOK, InputPerPeer, GreetedOK, WriteInterest, sock, output
<1> QED
  BY <1>3, <1>4 DEF IInv

LEMMA AppendStep ==
    ASSUME IInv, AppendToBuf
    PROVE  IInv'
<1>1. /\ pc = "append" /\ pc' \in {"aborted", "notify"}
      /\ UNCHANGED <<sock, conns, greeted, used, output, kernel, back, cur, got, answer>>
  BY DEF AppendToBuf
<1>2. PlaceOK' /\ QueueOK' /\ GreetedOK' /\ WriteInterest'
  BY <1>1 DEF IInv, PlaceOK, QueueOK, GreetedOK, WriteInterest, sock, output
<1>3. \/ UNCHANGED <<readBuf, heard>>
      \/ /\ readBuf' = [readBuf EXCEPT ![cur] = Append(readBuf[cur], got)]
         /\ heard' = [heard EXCEPT ![cur] = Append(heard[cur], got)]
  BY DEF AppendToBuf
<1>4. CASE UNCHANGED <<readBuf, heard>>
  <2>1. TypeOK' /\ InputPerPeer'
    BY <1>1, <1>4, SMTT(60) DEF IInv, TypeOK, InputPerPeer, sock, output, kernel
  <2> QED
    BY <1>2, <2>1 DEF IInv
<1>5. CASE /\ readBuf' = [readBuf EXCEPT ![cur] = Append(readBuf[cur], got)]
           /\ heard' = [heard EXCEPT ![cur] = Append(heard[cur], got)]
  <2>1. got \in Datagram /\ cur \in Peers /\ got.from = cur
    BY <1>1 DEF IInv, PlaceOK
  <2>2. \A q \in Peers : used[q] \in Seq(Datagram) /\ readBuf[q] \in Seq(Datagram) /\ heard[q] \in Seq(Datagram)
    BY DEF IInv, TypeOK
  <2>3. TypeOK'
    BY <1>1, <1>5, <2>1, <2>2 DEF IInv, TypeOK, sock, output, kernel
  <2>4. InputPerPeer'
    <3>1. used[cur] \o Append(readBuf[cur], got) = Append(heard[cur], got)
      <4>1. used[cur] \o readBuf[cur] = heard[cur]
        BY <2>1 DEF IInv, InputPerPeer
      <4>2. used[cur] \o Append(readBuf[cur], got) = Append(used[cur] \o readBuf[cur], got)
        <5>1. used[cur] \in Seq(Datagram) /\ readBuf[cur] \in Seq(Datagram)
          BY <2>1, <2>2
        <5> DEFINE u == used[cur]
                   r == readBuf[cur]
        <5> HIDE DEF u, r
        <5>2. u \in Seq(Datagram) /\ r \in Seq(Datagram) /\ got \in Datagram
          BY <2>1, <5>1 DEF u, r
        <5>3. u \o Append(r, got) = Append(u \o r, got)
          BY <5>2, AppendRight
        <5> QED
          BY <5>3 DEF u, r
      <4> QED
        BY <4>1, <4>2
    <3>2. \A i \in DOMAIN Append(readBuf[cur], got) : Append(readBuf[cur], got)[i].from = cur
      <4>1. readBuf[cur] \in Seq(Datagram) /\ DOMAIN readBuf[cur] = 1 .. Len(readBuf[cur])
            /\ Len(readBuf[cur]) \in Nat
        BY <2>1, <2>2
      <4>2. DOMAIN Append(readBuf[cur], got) = 1 .. Len(readBuf[cur]) + 1
        BY <2>1, <4>1
      <4>3. \A i \in 1 .. Len(readBuf[cur]) : readBuf[cur][i].from = cur
        BY <2>1, <4>1 DEF IInv, InputPerPeer
      <4> QED
        BY <2>1, <4>1, <4>2, <4>3
    <3> QED
      BY <1>1, <1>5, <2>1, <3>1, <3>2, BufferTypes DEF IInv, InputPerPeer
  <2> QED
    BY <1>2, <2>3, <2>4 DEF IInv
<1> QED
  BY <1>3, <1>4, <1>5

LEMMA SendToStep ==
    ASSUME IInv, SendTo
    PROVE  IInv'
<1>1. /\ pc = "send" /\ tasks # <<>> /\ answer' = "ok"
      /\ wire' = Append(wire, Head(tasks)) /\ calls' = Append(calls, Head(tasks))
      /\ pc' = "sendcb" /\ UNCHANGED <<back, cur, got>>
      /\ UNCHANGED <<sock, input, tasks, sent, kernel>>
  BY DEF SendTo, Goto
<1>2. tasks \in Seq(Task) /\ wire \in Seq(Task) /\ calls \in Seq(Task)
  BY DEF IInv, TypeOK
<1>3. Head(tasks) \in Task /\ Tail(tasks) \in Seq(Task)
  BY <1>1, <1>2, HeadTailProperties
<1>4. wire' \in Seq(Task) /\ calls' \in Seq(Task)
  BY <1>1, <1>2, <1>3
<1>5. TypeOK'
  BY <1>1, <1>4, SMTT(60) DEF IInv, TypeOK, sock, input, kernel, UserCode
<1>6. QueueOK'
  <2>1. ~destroyed /\ wire \o tasks = sent /\ calls = wire
    BY <1>1 DEF IInv, QueueOK
  <2>2. wire' \o Tail(tasks) = sent
    BY <1>1, <1>2, <2>1, MoveHead
  <2>3. IsPrefix(wire', sent)
    BY <1>3, <1>4, <2>2, PrefixOfConcat
  <2> QED
    BY <1>1, <2>1, <2>2, <2>3 DEF QueueOK, sock
<1>7. PlaceOK' /\ InputPerPeer' /\ GreetedOK' /\ WriteInterest'
  BY <1>1 DEF IInv, PlaceOK, InputPerPeer, GreetedOK, WriteInterest, sock, input
<1> QED
  BY <1>5, <1>6, <1>7 DEF IInv

LEMMA SendReturnsStep ==
    ASSUME IInv, SendReturns
    PROVE  IInv'
<1>1. /\ pc = "sendcb" /\ UNCHANGED <<back, cur, got, sock, input, sent, wire, calls, kernel, answer>>
      /\ IF tasks = <<>> THEN pc' = "undefined" /\ tasks' = tasks
                         ELSE pc' = "send" /\ tasks' = Tail(tasks)
  BY DEF SendReturns, Goto
<1>2. tasks' \in Seq(Task)
  BY <1>1, HeadTailProperties DEF IInv, TypeOK
<1>3. TypeOK'
  BY <1>1, <1>2 DEF IInv, TypeOK, sock, input, kernel
<1>4. PlaceOK' /\ QueueOK' /\ InputPerPeer' /\ GreetedOK'
  BY <1>1 DEF IInv, PlaceOK, QueueOK, InputPerPeer, GreetedOK, sock, input
<1>5. WriteInterest'
  BY <1>1 DEF IInv, WriteInterest, sock
<1> QED
  BY <1>3, <1>4, <1>5 DEF IInv

\* Steps that leave the buffers, the connections and the tasks alone.
Moves ==
    \/ RemoveChannel \/ ReadEvent \/ NoSocket \/ RecvNothing \/ RecvFails
    \/ AcceptReturns \/ Notify \/ ReadReturns \/ WritEvent \/ NothingToSend
    \/ SendFails \/ ErroEvent \/ OtherEvent \/ OtherReturns
    \/ (ErroReturns /\ destroyed)

LEMMA MovesStep ==
    ASSUME IInv, Moves
    PROVE  IInv'
<1>1. UNCHANGED <<destroyed, open, input, output, kernel>>
  BY DEF Moves, RemoveChannel, ReadEvent, NoSocket, RecvNothing, RecvFails, AcceptReturns,
         Notify, ReadReturns, WritEvent, NothingToSend, SendFails, ErroEvent, OtherEvent,
         OtherReturns, ErroReturns, sock
<1>2. /\ pc' \in UserCode \cup {"idle", "recv", "append", "notify", "send",
                               "closing", "aborted", "terminated", "undefined"}
      /\ back' \in UserCode \cup {"idle"} /\ answer' \in {"ok", "again", "error"}
      /\ added' \in BOOLEAN /\ wantOut' \in BOOLEAN
  BY ZenonT(60) DEF Moves, RemoveChannel, ReadEvent, NoSocket, RecvNothing, RecvFails, AcceptReturns,
         Notify, ReadReturns, WritEvent, NothingToSend, SendFails, ErroEvent, OtherEvent,
         OtherReturns, ErroReturns, sock, Goto, IInv, TypeOK, UserCode
<1>3. cur' \in {cur, None} /\ got' \in {got, None}
  BY DEF Moves, RemoveChannel, ReadEvent, NoSocket, RecvNothing, RecvFails, AcceptReturns,
         Notify, ReadReturns, WritEvent, NothingToSend, SendFails, ErroEvent, OtherEvent,
         OtherReturns, ErroReturns, Goto
<1>4. TypeOK'
  BY <1>1, <1>2, <1>3 DEF IInv, TypeOK, input, output, kernel
<1>5. PlaceOK'
  <2>1. CASE RemoveChannel
    BY <1>1, <2>1 DEF RemoveChannel, IInv, PlaceOK, TypeOK, UserCode
  <2>2. CASE AcceptReturns
    BY <1>1, <2>2 DEF AcceptReturns, Goto, IInv, PlaceOK
  <2>3. CASE ~ (RemoveChannel \/ AcceptReturns)
    <3>1. pc' \notin {"append", "closing", "acceptcb"}
      BY <2>3 DEF Moves, ReadEvent, NoSocket, RecvNothing, RecvFails, Notify, ReadReturns,
                  WritEvent, NothingToSend, SendFails, ErroEvent, OtherEvent, OtherReturns,
                  ErroReturns, Goto
    <3> QED
      BY <3>1 DEF PlaceOK
  <2> QED
    BY <2>1, <2>2, <2>3
<1>6. (pc = "sendcb" \/ pc' = "sendcb") => destroyed
  BY DEF Moves, RemoveChannel, ReadEvent, NoSocket, RecvNothing, RecvFails, AcceptReturns,
         Notify, ReadReturns, WritEvent, NothingToSend, SendFails, ErroEvent, OtherEvent,
         OtherReturns, ErroReturns, sock, Goto, IInv, PlaceOK
<1>7. QueueOK'
  BY <1>1, <1>6 DEF IInv, QueueOK, output
<1>8. InputPerPeer' /\ GreetedOK'
  BY <1>1 DEF IInv, InputPerPeer, GreetedOK, input
<1>9. WriteInterest'
  BY DEF Moves, RemoveChannel, ReadEvent, NoSocket, RecvNothing, RecvFails, AcceptReturns,
         Notify, ReadReturns, WritEvent, NothingToSend, SendFails, ErroEvent, OtherEvent,
         OtherReturns, ErroReturns, sock, output, IInv, PlaceOK, WriteInterest
<1> QED
  BY <1>4, <1>5, <1>7, <1>8, <1>9 DEF IInv

LEMMA OtherSteps ==
    ASSUME IInv, (\E p \in Peers : Connect(p) \/ Arrive(p)) \/ UNCHANGED vars
    PROVE  IInv'
<1>1. CASE \E p \in Peers : Connect(p)
  BY <1>1, SMTT(60) DEF Connect, IInv, TypeOK, PlaceOK, QueueOK, InputPerPeer, GreetedOK, WriteInterest,
              sock, output, kernel
<1>2. CASE \E p \in Peers : Arrive(p)
  <2>1. PICK p \in Peers : Arrive(p)
    BY <1>2
  <2>2. PICK e \in BOOLEAN : net' = Append(net, [from |-> p, id |-> arrived + 1, empty |-> e])
    BY <2>1 DEF Arrive
  <2>3. arrived' = arrived + 1 /\ arrived < MaxIn
        /\ UNCHANGED <<sock, input, output, pc, back, cur, got, answer>>
    BY <2>1 DEF Arrive
  <2>4. [from |-> p, id |-> arrived + 1, empty |-> e] \in Datagram /\ arrived' \in 0 .. MaxIn
    BY <2>3, BoundsAssumption DEF IInv, TypeOK, Datagram
  <2>5. net' \in Seq(Datagram)
    BY <2>2, <2>4 DEF IInv, TypeOK
  <2>6. TypeOK'
    BY <2>3, <2>4, <2>5, SMTT(60) DEF IInv, TypeOK, sock, input, output
  <2>7. PlaceOK' /\ QueueOK' /\ InputPerPeer' /\ GreetedOK' /\ WriteInterest'
    BY <2>3 DEF IInv, PlaceOK, QueueOK, InputPerPeer, GreetedOK, WriteInterest, sock, input, output
  <2> QED
    BY <2>6, <2>7 DEF IInv
<1>3. CASE UNCHANGED vars
  <2>1. TypeOK'
    BY <1>3, SMTT(60) DEF vars, IInv, TypeOK, sock, input, output, kernel
  <2>2. PlaceOK' /\ QueueOK' /\ GreetedOK' /\ WriteInterest'
    BY <1>3, SMTT(60) DEF vars, IInv, PlaceOK, QueueOK, GreetedOK, WriteInterest,
                          sock, input, output
  <2>3. InputPerPeer'
    <3>1. readBuf' = readBuf /\ heard' = heard /\ used' = used
      BY <1>3 DEF vars, input
    <3> QED
      BY <3>1, ZenonT(30) DEF IInv, InputPerPeer
  <2> QED
    BY <2>1, <2>2, <2>3 DEF IInv
<1> QED
  BY <1>1, <1>2, <1>3

LEMMA Invariance == Spec => []IInv
<1>1. IInv /\ [Next]_vars => IInv'
  <2> SUFFICES ASSUME IInv, [Next]_vars PROVE IInv'
    OBVIOUS
  <2>1. CASE \E p \in Peers : Send(p) \/ Take(p) \/ DestroyConn(p)
    BY <2>1, SendStep, TakeStep, DestroyConnStep
  <2>2. CASE Destroy \/ (ErroReturns /\ ~destroyed)
    BY <2>2, CloseFdStep DEF Destroy, ErroReturns
  <2>3. CASE Recv \/ AppendToBuf \/ SendTo \/ SendReturns
    BY <2>3, RecvStep, AppendStep, SendToStep, SendReturnsStep
  <2>4. CASE Moves
    BY <2>4, MovesStep
  <2>5. CASE (\E p \in Peers : Connect(p) \/ Arrive(p)) \/ UNCHANGED vars
    BY <2>5, OtherSteps
  <2> QED
    BY <2>1, <2>2, <2>3, <2>4, <2>5 DEF Next, Steps, Returns, Moves
<1> QED
  BY <1>1, InitOK, PTL DEF Spec

-----------------------------------------------------------------------------

\* UdpSocket.cpp:85-123: datagrams leave in the order of the sends, each with its
\* handler, across any destroy() from a callback.
THEOREM SendsInOrder == Spec => []DatagramsInOrder
<1>1. IInv => DatagramsInOrder
  BY DEF IInv, QueueOK, DatagramsInOrder
<1> QED
  BY <1>1, Invariance, PTL

\* UdpSocket.cpp:33-83: whatever the order in which peers' datagrams come, a
\* connection's buffer holds those of its own peer, and none is lost or doubled.
THEOREM InputOfItsPeer == Spec => []InputPerPeer
<1>1. IInv => InputPerPeer
  BY DEF IInv
<1> QED
  BY <1>1, Invariance, PTL

\* The types, and the interest in writing that queued tasks depend on.
THEOREM UdpAlwaysOK == Spec => []UdpInv
<1>1. IInv => UdpInv
  BY DEF IInv, UdpInv
<1> QED
  BY <1>1, Invariance, PTL

\* UdpSocket.cpp:43-61: a peer is announced only when it has no connection yet.
THEOREM PeersAnnouncedOnce == Spec => AnnouncedOnce
<1>1. IInv /\ [Next]_vars => [pc' = "acceptcb" /\ pc # "acceptcb" => cur' \notin greeted]_vars
  <2> SUFFICES ASSUME IInv, Next, pc' = "acceptcb", pc # "acceptcb"
               PROVE  cur' \notin greeted
    OBVIOUS
  <2>1. Recv \/ RemoveChannel
    BY DEF Next, Steps, Returns, Send, Take, DestroyConn, Connect, Arrive, Destroy, CloseFd,
           ReadEvent, WritEvent, ErroEvent, OtherEvent, NoSocket, RecvNothing, RecvFails,
           AppendToBuf, Notify, NothingToSend, SendFails, SendTo, AcceptReturns, ReadReturns,
           SendReturns, ErroReturns, OtherReturns, Goto
  <2>2. CASE Recv
    BY <2>2 DEF Recv, IInv, GreetedOK
  <2>3. CASE RemoveChannel
    BY <2>3, NoneAssumption DEF RemoveChannel, IInv, PlaceOK, TypeOK
  <2> QED
    BY <2>1, <2>2, <2>3
<1> QED
  BY <1>1, Invariance, PTL DEF Spec, AnnouncedOnce
=============================================================================
