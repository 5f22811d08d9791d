-------------------------- MODULE EventLoop_proofs --------------------------
(***************************************************************************)
(* The loops: safety of EventLoopGroup for any number of loops; and what   *)
(* one loop does with deferred handlers, which are neither dropped nor     *)
(* kept and run at their kind's point of the loop, for any number of       *)
(* handlers, iterations and events.                                        *)
(***************************************************************************)
EXTENDS EventLoopGroup, Poller, TLAPS

\* Every descriptor is given to a loop that exists, and to one other than loop
\* 0 by robinLoop1 when there is another (EventLoopGroup.cpp:62-70).
THEOREM RobinInRange ==
    \A fd \in Nat : /\ robinLoop(fd) \in Loops
                    /\ robinLoop1(fd) \in Loops
                    /\ N > 0 => robinLoop1(fd) # 0
<1> SUFFICES ASSUME NEW fd \in Nat
             PROVE  /\ robinLoop(fd) \in Loops
                    /\ robinLoop1(fd) \in Loops
                    /\ N > 0 => robinLoop1(fd) # 0
  OBVIOUS
<1>1. fd % (N + 1) \in 0 .. N
  BY NAssumption
<1>2. N > 0 => fd % N \in 0 .. N - 1
  BY NAssumption
<1> QED
  BY <1>1, <1>2, NAssumption DEF robinLoop, robinLoop1, Loops

-----------------------------------------------------------------------------

\* A thread starts its round of wake-ups from the first loop.
RoundOK == \A i \in Loops : pc[i] \notin {"wake", "ended"} => next[i] = 0

\* The destructor runs on the main thread after run(), and the loops are
\* destroyed after the last join.
JoinOK ==
    /\ \A k \in 1 .. joined : pc[k] = "ended"
    /\ ~alive => joined = N /\ pc[0] = "ended"

IInv == TypeOK /\ RoundOK /\ JoinOK /\ StopReachesSleepers

LEMMA InitOK == Init => IInv
<1> USE NAssumption, CountAssumption
<1>1. Init => TypeOK
  BY DEF Init, TypeOK, Loops
<1>2. Init => RoundOK /\ JoinOK /\ StopReachesSleepers
  BY DEF Init, RoundOK, JoinOK, StopReachesSleepers, Loops
<1> QED
  BY <1>1, <1>2 DEF IInv

\* The robin functors only ever name loops of the group.
LEMMA TargetsAreLoops == Targets \subseteq Loops
<1>1. \A fd \in 0 .. N : fd \in Nat
  BY NAssumption
<1> QED
  BY <1>1, RobinInRange DEF Targets

LEMMA TypeStep ==
    ASSUME TypeOK, Next
    PROVE  TypeOK'
<1> USE NAssumption, CountAssumption DEF TypeOK
<1>1. ASSUME NEW i \in Loops, Spawn(i) \/ Start(i) \/ TestBf(i) \/ OtherEvent(i)
                \/ OtherReturns(i) \/ Drained(i) \/ JobReturns(i) \/ End(i)
      PROVE  TypeOK'
  BY <1>1 DEF Spawn, Start, TestBf, OtherEvent, OtherReturns, Drained,
              JobReturns, End, Goto
<1>2. ASSUME NEW i \in Loops, ReadEventfd(i)
      PROVE  TypeOK'
  BY <1>2 DEF ReadEventfd, Goto
<1>3. ASSUME NEW i \in Loops, Pop(i)
      PROVE  TypeOK'
  BY <1>3 DEF Pop, Goto
<1>4. ASSUME NEW i \in Loops, SetStop(i)
      PROVE  TypeOK'
  BY <1>4 DEF SetStop
<1>5. ASSUME NEW i \in Loops, NEW k \in Targets, NEW j \in Jobs, Post(i, k, j)
      PROVE  TypeOK'
  BY <1>5, TargetsAreLoops DEF Post, Written
<1>6. ASSUME NEW i \in Loops, WakeNext(i)
      PROVE  TypeOK'
  <2>1. next[i] \in Loops /\ next[i] + 1 \in 0 .. N + 1
    BY <1>6 DEF WakeNext, Loops
  <2>2. Written(efd[next[i]]) \in 0 .. MaxCount
    BY <2>1 DEF Written
  <2> QED
    BY <1>6, <2>1, <2>2 DEF WakeNext
<1>7. CASE Join
  <2>1. joined + 1 \in 0 .. N
    BY <1>7 DEF Join
  <2> QED
    BY <1>7, <2>1 DEF Join
<1>8. CASE Destroy \/ Gone
  BY <1>8 DEF Destroy, Gone, vars
<1> QED
  BY <1>1, <1>2, <1>3, <1>4, <1>5, <1>6, <1>7, <1>8 DEF Next, Advance, User

LEMMA RoundStep ==
    ASSUME IInv, Next
    PROVE  RoundOK'
<1> USE DEF IInv, TypeOK, RoundOK
<1>1. ASSUME NEW i \in Loops, Advance(i) \/ Spawn(i)
      PROVE  RoundOK'
  BY <1>1 DEF Advance, Spawn, Start, TestBf, OtherReturns, Pop, Drained,
              JobReturns, WakeNext, End, Goto
<1>2. ASSUME NEW i \in Loops, ReadEventfd(i) \/ OtherEvent(i) \/ User(i)
      PROVE  RoundOK'
  BY <1>2 DEF ReadEventfd, OtherEvent, User, SetStop, Post, Goto
<1>3. CASE Join \/ Destroy \/ Gone
  BY <1>3 DEF Join, Destroy, Gone, vars
<1> QED
  BY <1>1, <1>2, <1>3 DEF Next

\* A thread that has ended takes no step.
LEMMA JoinStep ==
    ASSUME IInv, Next
    PROVE  JoinOK'
<1> USE NAssumption DEF IInv, TypeOK, JoinOK, Loops
<1>1. ASSUME NEW i \in Loops, Advance(i) \/ Spawn(i)
      PROVE  JoinOK'
  BY <1>1, SMTT(60) DEF Advance, Spawn, Start, TestBf, OtherReturns, Pop, Drained,
              JobReturns, WakeNext, End, Goto
<1>2. ASSUME NEW i \in Loops, ReadEventfd(i) \/ OtherEvent(i) \/ User(i)
      PROVE  JoinOK'
  BY <1>2, SMTT(60) DEF ReadEventfd, OtherEvent, User, SetStop, Post, Goto
<1>3. CASE Join
  BY <1>3 DEF Join
<1>4. CASE Destroy \/ Gone
  BY <1>4 DEF Destroy, Gone, vars
<1> QED
  BY <1>1, <1>2, <1>3, <1>4 DEF Next

\* No thread falls asleep past a stop: only a false bf_ leads to the poller,
\* and a round of wake-ups passes a loop only by writing its eventfd.
LEMMA StopStep ==
    ASSUME IInv, Next
    PROVE  StopReachesSleepers'
<1> USE NAssumption, CountAssumption
    DEF IInv, TypeOK, RoundOK, StopReachesSleepers, Loops
<1>1. ASSUME NEW i \in Loops, Spawn(i) \/ Start(i) \/ OtherReturns(i)
                \/ Drained(i) \/ JobReturns(i)
      PROVE  StopReachesSleepers'
  BY <1>1 DEF Spawn, Start, OtherReturns, Drained, JobReturns, Goto
<1>2. ASSUME NEW i \in Loops, TestBf(i)
      PROVE  StopReachesSleepers'
  <2>1. CASE ~stop
    BY <1>2, <2>1 DEF TestBf
  <2>2. CASE stop
    <3>1. /\ pc' = [pc EXCEPT ![i] = "wake"] /\ next[i] = 0
          /\ UNCHANGED <<efd, next, stop>>
      BY <1>2, <2>2 DEF TestBf, Goto
    <3>2. pc'[i] = "wake" /\ \A l \in Loops : next'[i] <= l
      BY <3>1
    <3>3. \A l \in Loops : pc'[l] = "poll" => pc[l] = "poll"
      BY <3>1
    <3> QED
      BY <3>2
  <2> QED
    BY <2>1, <2>2
<1>3. ASSUME NEW i \in Loops, ReadEventfd(i) \/ OtherEvent(i) \/ Pop(i)
      PROVE  StopReachesSleepers'
  BY <1>3 DEF ReadEventfd, OtherEvent, Pop, Goto
<1>4. ASSUME NEW i \in Loops, SetStop(i)
      PROVE  StopReachesSleepers'
  BY <1>4 DEF SetStop
<1>5. ASSUME NEW i \in Loops, NEW k \in Targets, NEW j \in Jobs, Post(i, k, j)
      PROVE  StopReachesSleepers'
  <2>1. k \in Loops
    BY <1>5, TargetsAreLoops
  <2>2. \A l \in Loops : efd'[l] = 0 => efd[l] = 0
    BY <1>5, <2>1, SMTT(60) DEF Post, Written
  <2> QED
    BY <1>5, <2>2 DEF Post
<1>6. ASSUME NEW i \in Loops, WakeNext(i)
      PROVE  StopReachesSleepers'
  <2>1. \A l \in Loops : efd'[l] = 0 => efd[l] = 0 /\ l # next[i]
    BY <1>6, SMTT(60) DEF WakeNext, Written
  <2>2. \A l \in Loops : l # next[i] /\ next[i] <= l => next'[i] <= l
    BY <1>6, SMTT(60) DEF WakeNext
  <2>3. \A j \in Loops : j # i => next'[j] = next[j]
    BY <1>6 DEF WakeNext
  <2>4. pc' = pc /\ stop' = stop
    BY <1>6 DEF WakeNext
  <2> QED
    BY <2>1, <2>2, <2>3, <2>4
<1>7. ASSUME NEW i \in Loops, End(i)
      PROVE  StopReachesSleepers'
  <2>1. /\ pc[i] = "wake" /\ \A l \in Loops : ~(next[i] <= l)
        /\ pc' = [pc EXCEPT ![i] = "ended"]
        /\ UNCHANGED <<efd, next, stop>>
    BY <1>7 DEF End, Goto
  <2>2. \A j \in Loops : j # i => pc'[j] = pc[j]
    BY <2>1
  <2>3. pc'[i] = "ended"
    BY <2>1
  <2> QED
    BY <2>1, <2>2, <2>3
<1>8. CASE Join \/ Destroy \/ Gone
  BY <1>8 DEF Join, Destroy, Gone, vars
<1> QED
  BY <1>1, <1>2, <1>3, <1>4, <1>5, <1>6, <1>7, <1>8 DEF Next, Advance, User

LEMMA Invariance == SafeSpec => []IInv
<1>1. ASSUME IInv, Next
      PROVE  IInv'
  BY <1>1, TypeStep, RoundStep, JoinStep, StopStep DEF IInv
<1>2. ASSUME IInv, UNCHANGED vars
      PROVE  IInv'
  BY <1>2 DEF IInv, TypeOK, RoundOK, JoinOK, StopReachesSleepers, vars
<1>3. IInv /\ [Next]_vars => IInv'
  BY <1>1, <1>2
<1> QED
  BY InitOK, <1>3, PTL DEF SafeSpec

-----------------------------------------------------------------------------

\* The state of the group is well typed.
THEOREM TypeCorrect == SafeSpec => []TypeOK
<1>1. IInv => TypeOK
  BY DEF IInv
<1> QED
  BY <1>1, Invariance, PTL

\* Once bf_ is false every sleeping loop is about to be woken
\* (EventLoopGroup.cpp:57-59).
THEOREM StopReachesEveryLoop == SafeSpec => []StopReachesSleepers
<1>1. IInv => StopReachesSleepers
  BY DEF IInv
<1> QED
  BY <1>1, Invariance, PTL

\* When the loops are destroyed every thread has ended: the claim of the
\* comment at EventLoopGroup.cpp:54-55, for any number of threads.
THEOREM DestroyIsSafe == SafeSpec => []NoUseAfterDestroy
<1>1. ASSUME IInv
      PROVE  NoUseAfterDestroy
  BY <1>1, NAssumption DEF IInv, JoinOK, NoUseAfterDestroy, Loops
<1> QED
  BY <1>1, Invariance, PTL

-----------------------------------------------------------------------------
(* Deferred handlers (Poller.tla).                                          *)


\* The walk that is under way is at a place of its list; user code runs in a walk
\* or in an event; a list holds handlers of its kind, each once.
WalkOK ==
    /\ pos <= IF phase \in Kinds THEN Len(list[phase]) ELSE 0
    /\ busy => phase \in Kinds \cup {"event"}

ListsOK ==
    \A k \in Kinds :
        /\ \A i \in 1 .. Len(list[k]) :
              list[k][i] \in DOMAIN asked /\ asked[list[k][i]].kind = k
        /\ \A i, j \in 1 .. Len(list[k]) : list[k][i] = list[k][j] => i = j

\* What the times of the handlers that have not run say of the loop's place.
Waiting(h) == h \in DOMAIN asked /\ h \notin DOMAIN ran

Due(h) == asked[h].at.loop + (IF asked[h].phase = "next" THEN 0 ELSE 1)

\* An event's nextTick handlers, and the afterLoop handlers of an iteration.
OfEvent(h) == asked[h].kind = "tick" /\ asked[h].phase \in {"event", "tick"}
OfLoop(h) == asked[h].kind = "after" /\ asked[h].phase # "idle"

TimesOK ==
    \A h \in DOMAIN asked :
        /\ asked[h].at.loop <= loopNo
        /\ phase = "next" /\ asked[h].phase # "next" => asked[h].at.loop < loopNo
        /\ h \notin DOMAIN ran =>
             /\ OfEvent(h) => phase \in {"event", "tick"} /\ eventNo = asked[h].at.event
             /\ OfLoop(h) => loopNo = asked[h].at.loop /\ phase # "idle"
             /\ asked[h].kind = "next" =>
                    loopNo <= Due(h) /\ (loopNo = Due(h) => phase = "next")
        /\ h \in DOMAIN ran =>
             /\ OfEvent(h) => ran[h].event = asked[h].at.event
             /\ OfLoop(h) => ran[h].loop = asked[h].at.loop
             /\ asked[h].kind = "next" => ran[h].loop = Due(h)

PollerIInv == PollerTypeOK /\ WalkOK /\ ListsOK /\ RunOrAhead /\ TimesOK

LEMMA PollerInitOK == PollerInit => PollerIInv
<1> SUFFICES ASSUME PollerInit PROVE PollerIInv
  OBVIOUS
<1>1. DOMAIN asked = {} /\ DOMAIN ran = {}
  BY DEF PollerInit
<1>2. PollerTypeOK
  <2>1. list \in [Kinds -> Seq(Handlers)]
    BY DEF PollerInit
  <2>2. left \in 0 .. MaxEvents /\ pos \in Nat
    BY BoundsAssumption DEF PollerInit
  <2>4. busy \in BOOLEAN
    BY Zenon DEF PollerInit
  <2>3. phase \in Phases /\ Now \in Stamp
    BY DEF PollerInit, Phases, Now, Stamp
  <2> QED
    BY <1>1, <2>1, <2>2, <2>3, <2>4 DEF PollerTypeOK
<1>3. WalkOK /\ ListsOK
  BY <1>1 DEF PollerInit, WalkOK, ListsOK, Kinds
<1> QED
  BY <1>1, <1>2, <1>3 DEF PollerIInv, RunOrAhead, TimesOK

-----------------------------------------------------------------------------

LEMMA DeferStep ==
    ASSUME PollerIInv, NEW k \in Kinds, NEW h \in Handlers, Defer(k, h)
    PROVE  PollerIInv'
<1> USE DEF PollerIInv
<1>1. /\ busy \/ phase = "idle"
      /\ h \notin DOMAIN asked /\ h \notin DOMAIN ran
      /\ list' = [list EXCEPT ![k] = Append(@, h)]
      /\ UNCHANGED <<phase, pos, busy, left, loopNo, eventNo, ran>>
  BY DEF Defer, PollerTypeOK
<1>2. /\ DOMAIN asked' = DOMAIN asked \cup {h}
      /\ asked'[h] = [kind |-> k, at |-> Now, phase |-> phase]
      /\ \A g \in DOMAIN asked : asked'[g] = asked[g]
  BY <1>1 DEF Defer, Set
<1>3. /\ list'[k] \in Seq(Handlers) /\ Len(list'[k]) = Len(list[k]) + 1
      /\ list'[k][Len(list[k]) + 1] = h
      /\ \A i \in 1 .. Len(list[k]) : list'[k][i] = list[k][i]
      /\ Len(list[k]) \in Nat
  BY <1>1 DEF PollerTypeOK
<1>4. \A j \in Kinds : j # k => list'[j] = list[j]
  BY <1>1 DEF PollerTypeOK
<1>5. PollerTypeOK'
  <2>1. list' \in [Kinds -> Seq(Handlers)]
    BY <1>1, <1>3 DEF PollerTypeOK
  <2>2. \A g \in DOMAIN asked' : asked'[g] \in [kind : Kinds, at : Stamp, phase : Phases]
    BY <1>2 DEF PollerTypeOK
  <2> QED
    BY <1>1, <1>2, <2>1, <2>2 DEF PollerTypeOK, Now
<1>6. WalkOK'
  BY <1>1, <1>3, <1>4, SMT DEF WalkOK, PollerTypeOK
<1>7. ListsOK'
  <2> SUFFICES ASSUME NEW j \in Kinds
               PROVE  /\ \A i \in 1 .. Len(list'[j]) :
                            list'[j][i] \in DOMAIN asked' /\ asked'[list'[j][i]].kind = j
                      /\ \A i, m \in 1 .. Len(list'[j]) : list'[j][i] = list'[j][m] => i = m
    BY DEF ListsOK
  <2>1. CASE j # k
    BY <1>2, <1>4, <2>1 DEF ListsOK
  <2>2. CASE j = k
    BY <1>1, <1>2, <1>3, <2>2 DEF ListsOK
  <2> QED
    BY <2>1, <2>2
<1>8. RunOrAhead'
  <2>1. Ahead(k)' = Ahead(k) \cup {h}
    BY <1>1, <1>3 DEF Ahead, WalkOK, PollerTypeOK
  <2>2. \A j \in Kinds : j # k => Ahead(j)' = Ahead(j)
    BY <1>1, <1>4 DEF Ahead
  <2>3. \A g \in DOMAIN asked : asked[g].kind \in Kinds
    BY DEF PollerTypeOK
  <2> QED
    BY <1>1, <1>2, <2>1, <2>2, <2>3 DEF RunOrAhead
<1>9. TimesOK'
  <2>1. asked'[h].kind = k /\ asked'[h].at.loop = loopNo /\ asked'[h].at.event = eventNo
        /\ asked'[h].phase = phase
    BY <1>2 DEF Now
  <2>2. loopNo \in Nat
    BY DEF PollerTypeOK, Now, Stamp
  <2>3. phase \in {"next", "tick", "after", "event", "idle"}
    BY <1>1 DEF WalkOK, Kinds
  <2> QED
    BY <1>1, <1>2, <2>1, <2>2, <2>3 DEF TimesOK, OfEvent, OfLoop, Due, Kinds
<1> QED
  BY <1>5, <1>6, <1>7, <1>8, <1>9

LEMMA CallStep ==
    ASSUME PollerIInv, NEW k \in Kinds, Call(k)
    PROVE  PollerIInv'
<1> USE DEF PollerIInv
<1> DEFINE h == list[k][pos + 1]
<1>1. /\ phase = k /\ ~busy /\ pos < Len(list[k]) /\ pos' = pos + 1 /\ busy'
      /\ pos \in Nat /\ Len(list[k]) \in Nat
      /\ UNCHANGED <<list, phase, left, loopNo, eventNo, asked>>
  BY DEF Call, PollerTypeOK
<1>2. h \in DOMAIN asked /\ asked[h].kind = k
  BY <1>1 DEF ListsOK
<1>3. h \in Ahead(k) /\ h \notin DOMAIN ran
  BY <1>1, <1>2 DEF Ahead, RunOrAhead
<1>4. /\ DOMAIN ran' = DOMAIN ran \cup {h} /\ ran'[h] = Now
      /\ \A g \in DOMAIN ran : ran'[g] = ran[g]
  BY <1>3 DEF Call, Set
<1> HIDE DEF h
<1>5. PollerTypeOK'
  BY <1>1, <1>2, <1>4 DEF PollerTypeOK, Now
<1>6. WalkOK' /\ ListsOK'
  BY <1>1 DEF WalkOK, ListsOK
<1>7. RunOrAhead'
  <2>1. Ahead(k)' = Ahead(k) \ {h}
    BY <1>1 DEF Ahead, ListsOK, h
  <2>2. \A j \in Kinds : j # k => Ahead(j)' = Ahead(j)
    BY <1>1 DEF Ahead
  <2>3. \A g \in DOMAIN asked : asked[g].kind \in Kinds
    BY DEF PollerTypeOK
  <2>4. \A j \in Kinds : j # k => h \notin Ahead(j)
    BY <1>1, <1>2 DEF Ahead, ListsOK
  <2> QED
    BY <1>1, <1>2, <1>3, <1>4, <2>1, <2>2, <2>3, <2>4 DEF RunOrAhead
<1>8. TimesOK'
  <2>1. Now.loop = loopNo /\ Now.event = eventNo /\ loopNo \in Nat
    BY DEF Now, PollerTypeOK, Stamp
  <2>2. asked[h].at.loop \in Nat
    BY <1>2 DEF PollerTypeOK, Stamp
  <2> QED
    BY <1>1, <1>2, <1>3, <1>4, <2>1, <2>2 DEF TimesOK, OfEvent, OfLoop, Due, Kinds
<1> QED
  BY <1>5, <1>6, <1>7, <1>8

\* When the walk of list k is over, all of its handlers have been run.
LEMMA WalkedAreRun ==
    ASSUME PollerIInv, NEW k \in Kinds, phase = k, pos = Len(list[k])
    PROVE  \A h \in DOMAIN asked : asked[h].kind = k => h \in DOMAIN ran
<1>1. Ahead(k) = {}
  BY DEF PollerIInv, PollerTypeOK, Ahead
<1> QED
  BY <1>1 DEF PollerIInv, RunOrAhead

LEMMA ClearStep ==
    ASSUME PollerIInv, NEW k, NEW then, Clear(k, then),
           <<k, then>> \in {<<"next", "wait">>, <<"tick", "events">>, <<"after", "idle">>}
    PROVE  PollerIInv'
<1> USE DEF PollerIInv
<1>1. k \in Kinds /\ then \in Phases /\ then \notin Kinds \cup {"event"}
  BY DEF Kinds, Phases
<1>2. /\ phase = k /\ ~busy /\ pos = Len(list[k]) /\ pos' = 0 /\ phase' = then
      /\ list' = [list EXCEPT ![k] = <<>>]
      /\ UNCHANGED <<busy, left, loopNo, eventNo, asked, ran>>
  BY DEF Clear
<1>3. \A h \in DOMAIN asked : asked[h].kind = k => h \in DOMAIN ran
  BY <1>1, <1>2, WalkedAreRun
<1>4. list'[k] = <<>> /\ \A j \in Kinds : j # k => list'[j] = list[j]
  BY <1>1, <1>2 DEF PollerTypeOK
<1>5. PollerTypeOK'
  BY <1>1, <1>2 DEF PollerTypeOK, Now
<1>6. WalkOK'
  BY <1>1, <1>2 DEF WalkOK
<1>7. ListsOK'
  BY <1>2, <1>4 DEF ListsOK
<1>8. RunOrAhead'
  <2>1. Ahead(k)' = {}
    BY <1>1, <1>2, <1>4 DEF Ahead
  <2>2. \A j \in Kinds : j # k => Ahead(j)' = Ahead(j)
    BY <1>1, <1>2, <1>4 DEF Ahead
  <2>3. \A g \in DOMAIN asked : asked[g].kind \in Kinds
    BY DEF PollerTypeOK
  <2> QED
    BY <1>2, <1>3, <2>1, <2>2, <2>3 DEF RunOrAhead
<1>9. TimesOK'
  <2>1. \/ k = "next" /\ then = "wait"
        \/ k = "tick" /\ then = "events"
        \/ k = "after" /\ then = "idle"
    OBVIOUS
  <2> QED
    BY <1>2, <1>3, <2>1 DEF TimesOK, OfEvent, OfLoop, Due, Kinds
<1> QED
  BY <1>5, <1>6, <1>7, <1>8, <1>9

\* The steps that leave the lists alone and begin no walk in the middle.
LEMMA OtherStep ==
    ASSUME PollerIInv,
           Return \/ BeginLoop \/ Wait \/ Event \/ EventsDone \/ UNCHANGED pollerVars
    PROVE  PollerIInv'
<1> USE DEF PollerIInv
<1>1. UNCHANGED <<list, pos, asked, ran>> /\ pos \in Nat
  BY DEF Return, BeginLoop, Wait, Event, EventsDone, pollerVars, PollerTypeOK
<1>2. loopNo \in Nat /\ eventNo \in Nat /\ left \in 0 .. MaxEvents
  BY DEF PollerTypeOK, Now, Stamp
<1>3. PollerTypeOK'
  <2>1. loopNo' \in Nat /\ eventNo' \in Nat
    BY <1>2 DEF Return, BeginLoop, Wait, Event, EventsDone, pollerVars
  <2>2. left' \in 0 .. MaxEvents
    BY <1>2, BoundsAssumption DEF Return, BeginLoop, Wait, Event, EventsDone, pollerVars
  <2>3. phase' \in Phases
    BY DEF Return, BeginLoop, Wait, Event, EventsDone, pollerVars, PollerTypeOK, Phases
  <2>4. busy' \in BOOLEAN
    BY DEF Return, BeginLoop, Wait, Event, EventsDone, pollerVars, PollerTypeOK
  <2> QED
    BY <1>1, <2>1, <2>2, <2>3, <2>4 DEF PollerTypeOK, Now, Stamp
<1>4. phase' = phase \/ pos = 0
  BY <1>1 DEF Return, BeginLoop, Wait, Event, EventsDone, pollerVars, WalkOK, Kinds
<1>5. WalkOK'
  <2>1. busy' => phase' \in Kinds \cup {"event"}
    BY DEF Return, BeginLoop, Wait, Event, EventsDone, pollerVars, WalkOK, Kinds
  <2>2. \A j \in Kinds : Len(list[j]) \in Nat
    BY DEF PollerTypeOK
  <2> QED
    BY <1>1, <1>4, <2>1, <2>2 DEF WalkOK
<1>6. ListsOK'
  BY <1>1 DEF ListsOK
<1>7. RunOrAhead'
  <2>1. \A j \in Kinds : Ahead(j)' = Ahead(j)
    BY <1>1, <1>4 DEF Ahead
  <2>2. \A g \in DOMAIN asked : asked[g].kind \in Kinds
    BY DEF PollerTypeOK
  <2> QED
    BY <1>1, <2>1, <2>2 DEF RunOrAhead
<1>8. TimesOK'
  <2>1. \A h \in DOMAIN asked : asked[h].at.loop \in Nat /\ asked[h].kind \in Kinds
    BY DEF PollerTypeOK, Stamp
  <2>2. CASE Return
    BY <1>1, <2>2 DEF Return, TimesOK, OfEvent, OfLoop, Due
  <2>3. CASE BeginLoop
    BY <1>1, <1>2, <2>1, <2>3 DEF BeginLoop, TimesOK, OfEvent, OfLoop, Due
  <2>4. CASE Wait
    BY <1>1, <2>4 DEF Wait, TimesOK, OfEvent, OfLoop, Due
  <2>5. CASE Event
    BY <1>1, <2>5 DEF Event, TimesOK, OfEvent, OfLoop, Due
  <2>6. CASE EventsDone
    BY <1>1, <2>6 DEF EventsDone, TimesOK, OfEvent, OfLoop, Due
  <2>7. CASE UNCHANGED pollerVars
    BY <2>7 DEF pollerVars, TimesOK, OfEvent, OfLoop, Due
  <2> QED
    BY <2>2, <2>3, <2>4, <2>5, <2>6, <2>7
<1> QED
  BY <1>3, <1>5, <1>6, <1>7, <1>8

LEMMA PollerInvariance == PollerSpec => []PollerIInv
<1>1. PollerIInv /\ [PollerNext]_pollerVars => PollerIInv'
  <2> SUFFICES ASSUME PollerIInv, [PollerNext]_pollerVars PROVE PollerIInv'
    OBVIOUS
  <2>1. ASSUME NEW k, NEW then, Clear(k, then),
               <<k, then>> \in {<<"next", "wait">>, <<"tick", "events">>, <<"after", "idle">>}
        PROVE  PollerIInv'
    BY <2>1, ClearStep
  <2> QED
    BY <2>1, DeferStep, CallStep, OtherStep DEF PollerNext, Bounded
<1> QED
  BY <1>1, PollerInitOK, PTL DEF PollerSpec

-----------------------------------------------------------------------------

\* Poller.cpp:37-58: however handlers defer handlers during the walks, the clear()
\* after a walk drops none that has not been run and leaves none that has.
THEOREM NothingDroppedOrRepeated == PollerSpec => []PollerInv
<1>1. PollerIInv => PollerInv
  BY DEF PollerIInv, PollerInv
<1> QED
  BY <1>1, PollerInvariance, PTL

\* Poller.h:23-27: nextTick handlers run before the next event is dispatched,
\* afterLoop handlers in the iteration that deferred them, nextLoop handlers at the
\* start of the next one (of the same, when a nextLoop handler deferred them).
THEOREM DeferredRunWhenDue == PollerSpec => []RunsWhenDue
<1>1. PollerIInv => RunsWhenDue
  <2> SUFFICES ASSUME PollerIInv PROVE RunsWhenDue
    OBVIOUS
  <2>1. TickEndsEvent
    BY DEF PollerIInv, TimesOK, OfEvent, TickEndsEvent
  <2>2. AfterLoopEndsLoop
    BY DEF PollerIInv, TimesOK, OfLoop, AfterLoopEndsLoop
  <2>3. NextLoopStartsLoop
    BY DEF PollerIInv, TimesOK, NextLoopStartsLoop, Due
  <2> QED
    BY <2>1, <2>2, <2>3 DEF RunsWhenDue
<1> QED
  BY <1>1, PollerInvariance, PTL
=============================================================================
