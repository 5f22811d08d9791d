-------------------------- MODULE EventQueue_proofs --------------------------
(***************************************************************************)
(* Safety of EventQueue for every set of threads and handlers and every    *)
(* size of the eventfd's counter.                                          *)
(***************************************************************************)
EXTENDS EventQueue, SequenceTheorems, TLAPS

\* Whoever is in the critical section holds the mutex, and nobody else does.
MutexOK == \A t \in Threads : call[t] = "push" <=> mutex = t

\* A handler being posted is nobody else's and is not in the list yet.
ArgOK ==
    \A t \in Threads :
        /\ call[t] \in {"lock", "push"} <=> arg[t] # None
        /\ arg[t] # None =>
               /\ arg[t] \notin Range(eventHandlers) \cup Range(ran)
               /\ \A u \in Threads \ {t} : arg[u] # arg[t]

IInv == TypeOK /\ MutexOK /\ ArgOK /\ NoLostWakeup /\ PopNeverEmpty

-----------------------------------------------------------------------------

\* Pushing adds one element to those of the list (BlockingQueue.h:36).
LEMMA RangeAppend ==
    ASSUME NEW S, NEW s \in Seq(S), NEW e \in S
    PROVE  Range(Append(s, e)) = Range(s) \cup {e}
<1>1. Len(s) \in Nat /\ DOMAIN s = 1 .. Len(s)
  OBVIOUS
<1>2. /\ Append(s, e) \in Seq(S) /\ DOMAIN Append(s, e) = 1 .. Len(s) + 1
      /\ Append(s, e)[Len(s) + 1] = e
      /\ \A i \in 1 .. Len(s) : Append(s, e)[i] = s[i]
  OBVIOUS
<1>3. \A i \in 1 .. Len(s) + 1 : i \in 1 .. Len(s) \/ i = Len(s) + 1
  BY <1>1
<1>4. 1 .. Len(s) \subseteq 1 .. Len(s) + 1 /\ Len(s) + 1 \in 1 .. Len(s) + 1
  BY <1>1
<1> QED
  BY <1>1, <1>2, <1>3, <1>4 DEF Range

\* Popping moves the front element out and leaves the others
\* (BlockingQueue.h:61).
LEMMA RangeHeadTail ==
    ASSUME NEW S, NEW s \in Seq(S), s # <<>>
    PROVE  Range(s) = {Head(s)} \cup Range(Tail(s))
<1>1. /\ Len(s) \in Nat /\ Len(s) >= 1 /\ DOMAIN s = 1 .. Len(s)
      /\ Head(s) = s[1]
  OBVIOUS
<1>2. /\ Tail(s) \in Seq(S) /\ DOMAIN Tail(s) = 1 .. Len(s) - 1
      /\ \A i \in 1 .. Len(s) - 1 : Tail(s)[i] = s[i + 1]
  BY HeadTailProperties
<1>3. \A i \in 1 .. Len(s) : i = 1 \/ (i - 1 \in 1 .. Len(s) - 1 /\ (i - 1) + 1 = i)
  BY <1>1
<1>4. \A i \in 1 .. Len(s) - 1 : i + 1 \in 1 .. Len(s)
  BY <1>1
<1>5. 1 \in 1 .. Len(s)
  BY <1>1
<1>6. Range(s) \subseteq {Head(s)} \cup Range(Tail(s))
  <2> SUFFICES ASSUME NEW x \in Range(s)
               PROVE  x = Head(s) \/ x \in Range(Tail(s))
    OBVIOUS
  <2>1. PICK i \in 1 .. Len(s) : x = s[i]
    BY <1>1 DEF Range
  <2>2. CASE i = 1
    BY <2>1, <2>2, <1>1
  <2>3. CASE i # 1
    <3>1. i - 1 \in 1 .. Len(s) - 1 /\ Tail(s)[i - 1] = x
      BY <2>1, <2>3, <1>2, <1>3
    <3> QED
      BY <3>1, <1>2 DEF Range
  <2> QED
    BY <2>2, <2>3
<1>7. {Head(s)} \cup Range(Tail(s)) \subseteq Range(s)
  BY <1>1, <1>2, <1>4, <1>5 DEF Range
<1> QED
  BY <1>6, <1>7

-----------------------------------------------------------------------------

\* The invariant holds of the initial states.
LEMMA InitOK == Init => IInv
<1> SUFFICES ASSUME Init
             PROVE  IInv
  OBVIOUS
<1>1. TypeOK
  BY CountAssumption DEF Init, TypeOK
<1>2. MutexOK
  BY NoneAssumption DEF Init, MutexOK
<1>3. ArgOK /\ NoLostWakeup /\ PopNeverEmpty
  BY DEF Init, ArgOK, NoLostWakeup, PopNeverEmpty
<1> QED
  BY <1>1, <1>2, <1>3 DEF IInv

\* Every variable keeps its type: in particular the counter of the eventfd
\* never passes its maximum (EventQueue.cpp:79 ignores the write that fails).
LEMMA TypeStep ==
    ASSUME IInv, Next
    PROVE  TypeOK'
<1> USE CountAssumption DEF IInv, TypeOK, loopVars, callVars, sharedVars
<1>1. ASSUME NEW t \in Threads, NEW h \in Handlers, Post(t, h)
      PROVE  TypeOK'
  BY <1>1 DEF Post
<1>2. ASSUME NEW t \in Threads, WakeupOnly(t)
      PROVE  TypeOK'
  BY <1>2 DEF WakeupOnly
<1>3. ASSUME NEW t \in Threads, Lock(t)
      PROVE  TypeOK'
  BY <1>3 DEF Lock
<1>4. ASSUME NEW t \in Threads, PushBack(t)
      PROVE  TypeOK'
  BY <1>4 DEF PushBack, ArgOK
<1>5. ASSUME NEW t \in Threads, Wakeup(t)
      PROVE  TypeOK'
  BY <1>5 DEF Wakeup, Written
<1>6. CASE Poll
  BY <1>6 DEF Poll
<1>7. CASE Dispatch
  BY <1>7 DEF Dispatch
<1>8. CASE EndOfBatch \/ OtherReturns \/ HandlerReturns
  BY <1>8 DEF EndOfBatch, OtherReturns, HandlerReturns
<1>9. CASE ReadEventfd
  BY <1>9 DEF ReadEventfd
<1>10. CASE Empty
  BY <1>10 DEF Empty
<1>11. CASE PopFront
  <2>1. eventHandlers # <<>>
    BY <1>11 DEF PopFront, PopNeverEmpty
  <2>2. Head(eventHandlers) \in Handlers /\ Tail(eventHandlers) \in Seq(Handlers)
    BY <2>1
  <2> QED
    BY <1>11, <2>2 DEF PopFront
<1> QED
  BY <1>1, <1>2, <1>3, <1>4, <1>5, <1>6, <1>7, <1>8, <1>9, <1>10, <1>11
  DEF Next, CallStep, LoopStep

\* The mutex excludes: at most one thread is inside push_back, and it is the
\* one that holds the mutex.
LEMMA MutexStep ==
    ASSUME IInv, Next
    PROVE  MutexOK'
<1> USE NoneAssumption DEF IInv, TypeOK, MutexOK, loopVars, callVars, sharedVars
<1>1. ASSUME NEW t \in Threads, NEW h \in Handlers, Post(t, h)
      PROVE  MutexOK'
  BY <1>1 DEF Post, CanCall
<1>2. ASSUME NEW t \in Threads, WakeupOnly(t)
      PROVE  MutexOK'
  BY <1>2 DEF WakeupOnly
<1>3. ASSUME NEW t \in Threads, Lock(t)
      PROVE  MutexOK'
  BY <1>3 DEF Lock
<1>4. ASSUME NEW t \in Threads, PushBack(t)
      PROVE  MutexOK'
  BY <1>4 DEF PushBack
<1>5. ASSUME NEW t \in Threads, Wakeup(t)
      PROVE  MutexOK'
  BY <1>5 DEF Wakeup
<1>6. CASE LoopStep
  BY <1>6 DEF LoopStep, Poll, Dispatch, EndOfBatch, OtherReturns, ReadEventfd,
              Empty, PopFront, HandlerReturns
<1> QED
  BY <1>1, <1>2, <1>3, <1>4, <1>5, <1>6 DEF Next, CallStep

\* A handler that is being posted stays outside the list until PushBack puts
\* it there, and is then nobody's argument any more.
LEMMA ArgStep ==
    ASSUME IInv, Next
    PROVE  ArgOK'
<1> USE NoneAssumption DEF IInv, TypeOK, ArgOK, loopVars, callVars, sharedVars
<1>1. ASSUME NEW t \in Threads, NEW h \in Handlers, Post(t, h)
      PROVE  ArgOK'
  <2>1. h # None /\ arg[t] = None
    BY <1>1 DEF Post, CanCall
  <2>2. /\ h \notin Range(eventHandlers) \cup Range(ran)
        /\ \A u \in Threads : arg[u] # h
    BY <1>1 DEF Post, InUse, Range
  <2> QED
    BY <1>1, <2>1, <2>2 DEF Post
<1>2. ASSUME NEW t \in Threads, WakeupOnly(t)
      PROVE  ArgOK'
  BY <1>2 DEF WakeupOnly
<1>3. ASSUME NEW t \in Threads, Lock(t)
      PROVE  ArgOK'
  BY <1>3 DEF Lock
<1>4. ASSUME NEW t \in Threads, PushBack(t)
      PROVE  ArgOK'
  <2>1. arg[t] \in Handlers
    BY <1>4 DEF PushBack
  <2>2. Range(eventHandlers') = Range(eventHandlers) \cup {arg[t]}
    BY <1>4, <2>1, RangeAppend DEF PushBack
  <2> QED
    BY <1>4, <2>2 DEF PushBack
<1>5. ASSUME NEW t \in Threads, Wakeup(t)
      PROVE  ArgOK'
  BY <1>5 DEF Wakeup
<1>6. CASE Poll \/ Dispatch \/ EndOfBatch \/ OtherReturns \/ ReadEventfd
           \/ Empty \/ HandlerReturns
  BY <1>6 DEF Poll, Dispatch, EndOfBatch, OtherReturns, ReadEventfd, Empty,
              HandlerReturns
<1>7. CASE PopFront
  <2>1. eventHandlers # <<>>
    BY <1>7 DEF PopFront, PopNeverEmpty
  <2>2. Head(eventHandlers) \in Handlers
    BY <2>1
  <2>3. /\ Range(ran') = Range(ran) \cup {Head(eventHandlers)}
        /\ Range(eventHandlers)
               = {Head(eventHandlers)} \cup Range(eventHandlers')
    BY <1>7, <2>1, <2>2, RangeAppend, RangeHeadTail DEF PopFront
  <2> QED
    BY <1>7, <2>3 DEF PopFront
<1> QED
  BY <1>1, <1>2, <1>3, <1>4, <1>5, <1>6, <1>7 DEF Next, CallStep, LoopStep

\* No step loses a wake-up: the eventfd is only cleared on the way into the
\* draining loop, the loop only leaves it having seen the list empty, and a
\* push is followed by the pusher's write.
LEMMA WakeupStep ==
    ASSUME IInv, Next
    PROVE  NoLostWakeup'
<1> USE CountAssumption
    DEF IInv, TypeOK, NoLostWakeup, loopVars, callVars, sharedVars
<1>1. ASSUME NEW t \in Threads, NEW h \in Handlers, Post(t, h)
      PROVE  NoLostWakeup'
  BY <1>1 DEF Post, CanCall
<1>2. ASSUME NEW t \in Threads, WakeupOnly(t)
      PROVE  NoLostWakeup'
  BY <1>2 DEF WakeupOnly
<1>3. ASSUME NEW t \in Threads, Lock(t)
      PROVE  NoLostWakeup'
  BY <1>3 DEF Lock
<1>4. ASSUME NEW t \in Threads, PushBack(t)
      PROVE  NoLostWakeup'
  BY <1>4 DEF PushBack
<1>5. ASSUME NEW t \in Threads, Wakeup(t)
      PROVE  NoLostWakeup'
  BY <1>5 DEF Wakeup, Written
<1>6. CASE Poll \/ Dispatch \/ EndOfBatch \/ OtherReturns \/ HandlerReturns
  BY <1>6 DEF Poll, Dispatch, EndOfBatch, OtherReturns, HandlerReturns
<1>7. CASE ReadEventfd
  BY <1>7 DEF ReadEventfd
<1>8. CASE Empty
  BY <1>8 DEF Empty, EmptyAnswers
<1>9. CASE PopFront
  BY <1>9 DEF PopFront
<1> QED
  BY <1>1, <1>2, <1>3, <1>4, <1>5, <1>6, <1>7, <1>8, <1>9
  DEF Next, CallStep, LoopStep

\* An empty() that answers FALSE during a push may be early, but then the
\* mutex is taken, and it is released with the list non-empty.
LEMMA PopStep ==
    ASSUME IInv, Next
    PROVE  PopNeverEmpty'
<1> USE NoneAssumption
    DEF IInv, TypeOK, PopNeverEmpty, loopVars, callVars, sharedVars
<1>1. ASSUME NEW t \in Threads, NEW h \in Handlers, Post(t, h)
      PROVE  PopNeverEmpty'
  BY <1>1 DEF Post
<1>2. ASSUME NEW t \in Threads, WakeupOnly(t) \/ Wakeup(t)
      PROVE  PopNeverEmpty'
  BY <1>2 DEF WakeupOnly, Wakeup
<1>3. ASSUME NEW t \in Threads, Lock(t)
      PROVE  PopNeverEmpty'
  BY <1>3 DEF Lock
<1>4. ASSUME NEW t \in Threads, PushBack(t)
      PROVE  PopNeverEmpty'
  BY <1>4, AppendProperties DEF PushBack, ArgOK
<1>5. CASE Empty
  BY <1>5 DEF Empty, EmptyAnswers
<1>6. CASE Poll \/ Dispatch \/ EndOfBatch \/ OtherReturns \/ ReadEventfd
           \/ PopFront \/ HandlerReturns
  BY <1>6 DEF Poll, Dispatch, EndOfBatch, OtherReturns, ReadEventfd, PopFront,
              HandlerReturns
<1> QED
  BY <1>1, <1>2, <1>3, <1>4, <1>5, <1>6 DEF Next, CallStep, LoopStep

\* The invariant is inductive.
LEMMA IInvStep == IInv /\ [Next]_vars => IInv'
<1>1. ASSUME IInv, Next
      PROVE  IInv'
  BY <1>1, TypeStep, MutexStep, ArgStep, WakeupStep, PopStep DEF IInv
<1>2. ASSUME IInv, UNCHANGED vars
      PROVE  IInv'
  BY <1>2 DEF IInv, TypeOK, MutexOK, ArgOK, NoLostWakeup, PopNeverEmpty, vars,
              loopVars, callVars
<1> QED
  BY <1>1, <1>2

LEMMA Invariance == SafeSpec => []IInv
<1> QED
  BY InitOK, IInvStep, PTL DEF SafeSpec

-----------------------------------------------------------------------------

\* The state of the queue is well typed in every reachable state.
THEOREM TypeCorrect == SafeSpec => []TypeOK
<1>1. IInv => TypeOK
  BY DEF IInv
<1> QED
  BY <1>1, Invariance, PTL

\* No wake-up is lost: a handler in the list has a readable eventfd, a draining
\* loop or a thread about to write behind it (EventLoop.cpp:71, EventQueue.cpp:54).
THEOREM WakeupNeverLost == SafeSpec => []NoLostWakeup
<1>1. IInv => NoLostWakeup
  BY DEF IInv
<1> QED
  BY <1>1, Invariance, PTL

\* The unlocked empty() never sends the loop to pop an empty list
\* (BlockingQueue.h:57, EventQueue.cpp:63).
THEOREM PopIsDefined == SafeSpec => []PopNeverEmpty
<1>1. IInv => PopNeverEmpty
  BY DEF IInv
<1> QED
  BY <1>1, Invariance, PTL

-----------------------------------------------------------------------------

\* A step of the code is a step of the abstract queue or leaves it alone:
\* PushBack accepts, PopFront runs, every other step stutters.
LEMMA StepSimulation == IInv /\ [Next]_vars => [HQ!Next]_(HQ!vars)
<1> USE DEF HQ!vars, loopVars, callVars, sharedVars
<1>1. ASSUME NEW t \in Threads, NEW h \in Handlers, Post(t, h)
      PROVE  UNCHANGED HQ!vars
  BY <1>1 DEF Post
<1>2. ASSUME NEW t \in Threads, WakeupOnly(t) \/ Lock(t) \/ Wakeup(t)
      PROVE  UNCHANGED HQ!vars
  BY <1>2 DEF WakeupOnly, Lock, Wakeup
<1>3. ASSUME IInv, NEW t \in Threads, PushBack(t)
      PROVE  HQ!Next
  <2>1. arg[t] \in Handlers
    BY <1>3 DEF PushBack, IInv, TypeOK, ArgOK
  <2>2. HQ!Accept(arg[t])
    BY <1>3, <2>1, NoneAssumption
    DEF PushBack, IInv, ArgOK, HQ!Accept, Range, HQ!Range
  <2> QED
    BY <2>1, <2>2 DEF HQ!Next
<1>4. ASSUME IInv, PopFront
      PROVE  HQ!Next
  BY <1>4 DEF PopFront, IInv, PopNeverEmpty, HQ!Next, HQ!Run
<1>5. CASE Poll \/ Dispatch \/ EndOfBatch \/ OtherReturns \/ ReadEventfd
           \/ Empty \/ HandlerReturns
  BY <1>5 DEF Poll, Dispatch, EndOfBatch, OtherReturns, ReadEventfd, Empty,
              HandlerReturns
<1>6. CASE UNCHANGED vars
  BY <1>6 DEF vars
<1> QED
  BY <1>1, <1>2, <1>3, <1>4, <1>5, <1>6 DEF Next, CallStep, LoopStep

\* runEventHandler implements the abstract queue: each handler is run once, in
\* the order in which the handlers entered the list.
THEOREM RefinesHandlerQueue == SafeSpec => HQ!SafeSpec
<1>1. Init => HQ!Init
  BY DEF Init, HQ!Init
<1> QED
  BY <1>1, StepSimulation, Invariance, PTL DEF SafeSpec, HQ!SafeSpec
=============================================================================
