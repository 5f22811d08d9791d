----------------------------- MODULE EventQueue -----------------------------
(***************************************************************************)
(* EventLoop::runEventHandler and the part of the loop that serves it: a   *)
(* BlockingQueue of handlers and an eventfd that wakes the poller.         *)
(*                                                                         *)
(* One loop thread and any number of other threads share the queue.  A     *)
(* call of runEventHandler is three steps: take the mutex, append and      *)
(* release it, write the eventfd.  The loop's own handlers make the same   *)
(* calls.  The loop polls; a batch of events holds the eventfd when its    *)
(* counter is positive and may hold other channels; each is dispatched.    *)
(* The eventfd's reader clears the counter and then pops until empty()     *)
(* says so - and empty() is read WITHOUT the mutex, so that during a       *)
(* push it may answer either way.                                          *)
(***************************************************************************)
EXTENDS Naturals, Sequences, Functions

CONSTANTS
    Producers,    \* threads other than the loop's that call runEventHandler
    Loop,         \* the thread that runs the loop
    Handlers,     \* the handlers, each posted at most once (a bound)
    None,         \* no thread, no handler
    InitCount,    \* what the eventfd is created with (1000 in the code)
    MaxCount      \* the largest value of the eventfd's counter

Threads == Producers \cup {Loop}

ASSUME LoopAssumption == Loop \notin Producers
ASSUME NoneAssumption == None \notin Threads \cup Handlers
ASSUME CountAssumption == /\ InitCount \in Nat /\ MaxCount \in Nat
                          /\ 0 < MaxCount /\ InitCount <= MaxCount

VARIABLES
    eventHandlers,   \* the list in the BlockingQueue, front first
    mutex,           \* the thread in push_back's critical section, or None
    efd,             \* the counter of the eventfd
    call,            \* per thread, where its runEventHandler call stands
    arg,             \* per thread, the handler it is posting
    pc,              \* where the loop is
    batch,           \* events of this loop_once that are still to dispatch
    ran              \* history: the handlers started, in order

vars == <<eventHandlers, mutex, efd, call, arg, pc, batch, ran>>

loopVars == <<pc, batch, ran>>
callVars == <<call, arg>>

TypeOK ==
    /\ eventHandlers \in Seq(Handlers)
    /\ mutex \in Threads \cup {None}
    /\ efd \in 0 .. MaxCount
    /\ call \in [Threads -> {"idle", "lock", "push", "wake"}]
    /\ arg \in [Threads -> Handlers \cup {None}]
    /\ pc \in {"poll", "dispatch", "other", "read", "empty", "pop", "run"}
    /\ batch \subseteq {"efd", "other"}
    /\ ran \in Seq(Handlers)

Init ==
    /\ eventHandlers = <<>>
    /\ mutex = None
    /\ efd = InitCount
    /\ call = [t \in Threads |-> "idle"]
    /\ arg = [t \in Threads |-> None]
    /\ pc = "poll"
    /\ batch = {}
    /\ ran = <<>>

-----------------------------------------------------------------------------
(* runEventHandler: pushHandler, then wakeup                                *)

\* A thread may call while it is not in a call; the loop's thread only from
\* inside a handler.
CanCall(t) == call[t] = "idle" /\ (t = Loop => pc \in {"run", "other"})

InUse == Range(eventHandlers) \cup Range(ran) \cup Range(arg)

Post(t, h) ==
    /\ CanCall(t)
    /\ h \notin InUse
    /\ call' = [call EXCEPT ![t] = "lock"]
    /\ arg' = [arg EXCEPT ![t] = h]
    /\ UNCHANGED <<eventHandlers, mutex, efd, loopVars>>

Lock(t) ==
    /\ call[t] = "lock"
    /\ mutex = None
    /\ mutex' = t
    /\ call' = [call EXCEPT ![t] = "push"]
    /\ UNCHANGED <<eventHandlers, efd, arg, loopVars>>

\* (Mutant of PushBack: the newest handler goes to the front.)
PushFront(t) ==
    /\ call[t] = "push"
    /\ eventHandlers' = <<arg[t]>> \o eventHandlers
    /\ mutex' = None
    /\ call' = [call EXCEPT ![t] = "wake"]
    /\ arg' = [arg EXCEPT ![t] = None]
    /\ UNCHANGED <<efd, loopVars>>

PushBack(t) ==
    /\ call[t] = "push"
    /\ eventHandlers' = Append(eventHandlers, arg[t])
    /\ mutex' = None
    /\ call' = [call EXCEPT ![t] = "wake"]
    /\ arg' = [arg EXCEPT ![t] = None]
    /\ UNCHANGED <<efd, loopVars>>

\* (Mutant of Written: a counter that wraps.)
WrittenWraps(c) == (c + 1) % (MaxCount + 1)

\* The eventfd does not block: at its largest value a write fails, and the
\* code ignores the result.
Written(c) == IF c < MaxCount THEN c + 1 ELSE c

Wakeup(t) ==
    /\ call[t] = "wake"
    /\ efd' = Written(efd)
    /\ call' = [call EXCEPT ![t] = "idle"]
    /\ UNCHANGED <<eventHandlers, mutex, arg, loopVars>>

\* EventLoop::wakeup on its own: another worker thread ends and wakes every
\* loop (EventLoopGroup.cpp:57).
WakeupOnly(t) ==
    /\ t \in Producers
    /\ call[t] = "idle"
    /\ call' = [call EXCEPT ![t] = "wake"]
    /\ UNCHANGED <<eventHandlers, mutex, efd, arg, loopVars>>

-----------------------------------------------------------------------------
(* The loop                                                                 *)

sharedVars == <<mutex, callVars>>

\* epoll_wait(-1): returns when something is ready, the eventfd (level
\* triggered) whenever its counter is positive.
Poll ==
    /\ pc = "poll"
    /\ batch' \in SUBSET {"efd", "other"} \ {{}}
    /\ ("efd" \in batch') <=> (efd > 0)
    /\ pc' = "dispatch"
    /\ UNCHANGED <<eventHandlers, efd, ran, sharedVars>>

Dispatch ==
    /\ pc = "dispatch"
    /\ \E e \in batch : /\ batch' = batch \ {e}
                        /\ pc' = IF e = "efd" THEN "read" ELSE "other"
    /\ UNCHANGED <<eventHandlers, efd, ran, sharedVars>>

EndOfBatch ==
    /\ pc = "dispatch"
    /\ batch = {}
    /\ pc' = "poll"
    /\ UNCHANGED <<eventHandlers, efd, batch, ran, sharedVars>>

\* The handler of another channel returns.
OtherReturns ==
    /\ pc = "other"
    /\ call[Loop] = "idle"
    /\ pc' = "dispatch"
    /\ UNCHANGED <<eventHandlers, efd, batch, ran, sharedVars>>

\* read() fails on a zero counter, and the handler returns.
ReadEventfd ==
    /\ pc = "read"
    /\ pc' = IF efd = 0 THEN "dispatch" ELSE "empty"
    /\ efd' = 0
    /\ UNCHANGED <<eventHandlers, batch, ran, sharedVars>>

\* What the unlocked empty() may answer.
EmptyAnswers == {eventHandlers = <<>>} \cup (IF mutex = None THEN {} ELSE {FALSE})

Empty ==
    /\ pc = "empty"
    /\ \E e \in EmptyAnswers : pc' = IF e THEN "dispatch" ELSE "pop"
    /\ UNCHANGED <<eventHandlers, efd, batch, ran, sharedVars>>

\* pop_front() under the mutex; the handler starts.
PopFront ==
    /\ pc = "pop"
    /\ mutex = None
    /\ eventHandlers' = Tail(eventHandlers)
    /\ ran' = Append(ran, Head(eventHandlers))
    /\ pc' = "run"
    /\ UNCHANGED <<efd, batch, sharedVars>>

\* (Mutants of HandlerReturns: one handler per wake-up; pops again without asking
\* empty().)
RunOne ==
    /\ pc = "run"
    /\ call[Loop] = "idle"
    /\ pc' = "dispatch"
    /\ UNCHANGED <<eventHandlers, efd, batch, ran, sharedVars>>

PopAgain ==
    /\ pc = "run"
    /\ call[Loop] = "idle"
    /\ pc' = "pop"
    /\ UNCHANGED <<eventHandlers, efd, batch, ran, sharedVars>>

HandlerReturns ==
    /\ pc = "run"
    /\ call[Loop] = "idle"
    /\ pc' = "empty"
    /\ UNCHANGED <<eventHandlers, efd, batch, ran, sharedVars>>

-----------------------------------------------------------------------------

CallStep(t) == Lock(t) \/ PushBack(t) \/ Wakeup(t)

LoopStep == \/ Poll \/ Dispatch \/ EndOfBatch \/ OtherReturns \/ ReadEventfd
            \/ Empty \/ PopFront \/ HandlerReturns

Next == \/ \E t \in Threads : \/ \E h \in Handlers : Post(t, h)
                              \/ WakeupOnly(t)
                              \/ CallStep(t)
        \/ LoopStep

SafeSpec == Init /\ [][Next]_vars

\* Every thread goes on being scheduled, and handlers return.  Nobody is
\* obliged to post, and nothing is asked of the mutex's order of granting.
Fairness == /\ \A t \in Threads : WF_vars(CallStep(t))
            /\ WF_vars(LoopStep)

Spec == SafeSpec /\ Fairness

-----------------------------------------------------------------------------
(* Properties                                                               *)

\* No handler waits in the list while nothing will wake the loop: either its
\* eventfd is readable, or the loop is still between the read of the eventfd
\* and the empty() that ends the draining, or a thread that has pushed is about
\* to write.  (EventQueue.cpp:59 clears the counter before :63 drains.)
NoLostWakeup ==
    eventHandlers # <<>> => \/ efd > 0
                            \/ pc \in {"empty", "pop", "run"}
                            \/ \E t \in Threads : call[t] = "wake"

\* front() of an empty std::list is undefined: when the loop gets the mutex in
\* pop_front there is a handler to take, although empty() was asked without
\* the mutex (BlockingQueue.h:57).
PopNeverEmpty == pc = "pop" /\ mutex = None => eventHandlers # <<>>

HQ == INSTANCE HandlerQueue WITH pending <- eventHandlers

\* runEventHandler keeps the promise of HandlerQueue: handlers run once, in the
\* order they entered the list, and none is left waiting.
ImplementsHandlerQueue == HQ!Spec

\* A call of runEventHandler from any thread ends with its handler run.
PostedHandlerRuns ==
    \A t \in Threads, h \in Handlers :
        (call[t] = "lock" /\ arg[t] = h) ~> (h \in Range(ran))
=============================================================================
