--------------------------- MODULE EventLoopGroup ---------------------------
(***************************************************************************)
(* EventLoopGroup: N + 1 event loops, loop i run by thread i, thread 0     *)
(* being the one that calls run() and later destroys the group.  Each loop *)
(* tests bf_, polls once, and tests again; when the test fails its thread  *)
(* writes every loop's eventfd and ends.  The destructor joins.            *)
(*                                                                         *)
(* The eventfd and the list of handlers of one loop are coarser here than  *)
(* in EventQueue.tla, which shows what a push and a wake-up amount to.     *)
(***************************************************************************)
EXTENDS Integers, FiniteSets

CONSTANTS
    N,           \* n_: the loops besides loop 0
    Jobs,        \* handlers, each posted to one loop at most once (a bound)
    InitCount,   \* initial counter of each eventfd (1000 in the code)
    MaxCount     \* largest value of a counter

ASSUME NAssumption == N \in Nat
ASSUME CountAssumption == /\ InitCount \in Nat /\ MaxCount \in Nat
                          /\ 0 < MaxCount /\ InitCount <= MaxCount

Loops == 0 .. N

VARIABLES
    pc,       \* per thread, where it is
    efd,      \* per loop, the counter of its eventfd
    queue,    \* per loop, the jobs in its EventQueue
    done,     \* history: per loop, the jobs run
    next,     \* per thread that is ending, the next loop it will wake
    stop,     \* bf_() answers FALSE
    joined,   \* main thread: how many threads the destructor has joined
    alive     \* the loops of the group have not been destroyed

vars == <<pc, efd, queue, done, next, stop, joined, alive>>

TypeOK ==
    /\ pc \in [Loops -> {"unborn", "start", "test", "poll", "drain", "job",
                         "other", "wake", "ended"}]
    /\ efd \in [Loops -> 0 .. MaxCount]
    /\ queue \in [Loops -> SUBSET Jobs]
    /\ done \in [Loops -> SUBSET Jobs]
    /\ next \in [Loops -> 0 .. N + 1]
    /\ stop \in BOOLEAN
    /\ joined \in 0 .. N
    /\ alive \in BOOLEAN

Init ==
    /\ pc = [i \in Loops |-> "unborn"]
    /\ efd = [i \in Loops |-> InitCount]
    /\ queue = [i \in Loops |-> {}]
    /\ done = [i \in Loops |-> {}]
    /\ next = [i \in Loops |-> 0]
    /\ stop \in BOOLEAN
    /\ joined = 0
    /\ alive = TRUE

-----------------------------------------------------------------------------

Goto(i, l) == pc' = [pc EXCEPT ![i] = l]

Written(c) == IF c < MaxCount THEN c + 1 ELSE c

\* fd % n_ + 1, or loop 0 when there is no other (robinLoop1); fd % (n_ + 1)
\* (robinLoop).
robinLoop1(fd) == IF N = 0 THEN 0 ELSE (fd % N) + 1
robinLoop(fd) == fd % (N + 1)

\* run(): the main thread starts the threads in order, then serves loop 0.
Spawn(i) ==
    /\ pc[i] = "unborn"
    /\ IF i = 0 THEN \A j \in 1 .. N : pc[j] # "unborn"
                ELSE \A j \in 1 .. i - 1 : pc[j] # "unborn"
    /\ Goto(i, "start")
    /\ UNCHANGED <<efd, queue, done, next, stop, joined, alive>>

\* worker_thread up to the loop: bind, set the robin functors, start the queues.
Start(i) ==
    /\ pc[i] = "start"
    /\ Goto(i, "test")
    /\ UNCHANGED <<efd, queue, done, next, stop, joined, alive>>

\* while (bf()): the group's functor takes a mutex round the user's.
TestBf(i) ==
    /\ pc[i] = "test"
    /\ Goto(i, IF stop THEN "wake" ELSE "poll")
    /\ UNCHANGED <<efd, queue, done, next, stop, joined, alive>>

\* epoll_wait returns with the eventfd, or with another channel.
ReadEventfd(i) ==
    /\ pc[i] = "poll"
    /\ efd[i] > 0
    /\ Goto(i, "drain")
    /\ efd' = [efd EXCEPT ![i] = 0]
    /\ UNCHANGED <<queue, done, next, stop, joined, alive>>

OtherEvent(i) ==
    /\ pc[i] = "poll"
    /\ Goto(i, "other")
    /\ UNCHANGED <<efd, queue, done, next, stop, joined, alive>>

OtherReturns(i) ==
    /\ pc[i] = "other"
    /\ Goto(i, "test")
    /\ UNCHANGED <<efd, queue, done, next, stop, joined, alive>>

Pop(i) ==
    /\ pc[i] = "drain"
    /\ \E j \in queue[i] : /\ queue' = [queue EXCEPT ![i] = @ \ {j}]
                           /\ done' = [done EXCEPT ![i] = @ \cup {j}]
    /\ Goto(i, "job")
    /\ UNCHANGED <<efd, next, stop, joined, alive>>

\* (Mutant of Drained: polls again without asking bf_.)
DrainedPolls(i) ==
    /\ pc[i] = "drain"
    /\ queue[i] = {}
    /\ Goto(i, "poll")
    /\ UNCHANGED <<efd, queue, done, next, stop, joined, alive>>

Drained(i) ==
    /\ pc[i] = "drain"
    /\ queue[i] = {}
    /\ Goto(i, "test")
    /\ UNCHANGED <<efd, queue, done, next, stop, joined, alive>>

JobReturns(i) ==
    /\ pc[i] = "job"
    /\ Goto(i, "drain")
    /\ UNCHANGED <<efd, queue, done, next, stop, joined, alive>>

\* User code: the handlers of loop i, and the main thread before run().
InHandler(i) == pc[i] \in {"job", "other"} \/ (i = 0 /\ pc[0] = "unborn")

Unposted(j) == \A k \in Loops : j \notin queue[k] \cup done[k]

\* The loops that descriptors are given to: 0 .. N is enough to reach each.
Targets == {robinLoop(fd) : fd \in 0 .. N} \cup {robinLoop1(fd) : fd \in 0 .. N}

\* (Mutant of Post: pushes and does not wake the loop up.)
PostSilently(i, k, j) ==
    /\ InHandler(i)
    /\ Unposted(j)
    /\ queue' = [queue EXCEPT ![k] = @ \cup {j}]
    /\ UNCHANGED <<pc, efd, done, next, stop, joined, alive>>

\* runEventHandler of the loop chosen for some descriptor.
Post(i, k, j) ==
    /\ InHandler(i)
    /\ Unposted(j)
    /\ queue' = [queue EXCEPT ![k] = @ \cup {j}]
    /\ efd' = [efd EXCEPT ![k] = Written(@)]
    /\ UNCHANGED <<pc, done, next, stop, joined, alive>>

\* A handler on one of the loops makes the user's condition false; nothing makes it true
\* again.  (Another thread, or the clock, may make it false too: no loop notices before
\* it wakes for something else.  Left out.)
SetStop(i) ==
    /\ pc[i] \in {"job", "other"}
    /\ ~stop
    /\ stop' = TRUE
    /\ UNCHANGED <<pc, efd, queue, done, next, joined, alive>>

\* for (auto loop : ploops_) loop->wakeup()
WakeNext(i) ==
    /\ pc[i] = "wake"
    /\ next[i] <= N
    /\ efd' = [efd EXCEPT ![next[i]] = Written(@)]
    /\ next' = [next EXCEPT ![i] = @ + 1]
    /\ UNCHANGED <<pc, queue, done, stop, joined, alive>>

\* (Mutant of End: one loop short of the n_ + 1.)
EndEarly(i) ==
    /\ pc[i] = "wake"
    /\ next[i] = N
    /\ Goto(i, "ended")
    /\ UNCHANGED <<efd, queue, done, next, stop, joined, alive>>

End(i) ==
    /\ pc[i] = "wake"
    /\ next[i] = N + 1
    /\ Goto(i, "ended")
    /\ UNCHANGED <<efd, queue, done, next, stop, joined, alive>>

\* ~EventLoopGroup on the main thread, after run() has returned.
Join ==
    /\ pc[0] = "ended"
    /\ joined < N
    /\ pc[joined + 1] = "ended"
    /\ joined' = joined + 1
    /\ UNCHANGED <<pc, efd, queue, done, next, stop, alive>>

\* (Mutant of Destroy: the destructor does not join.)
DestroyUnjoined ==
    /\ pc[0] = "ended"
    /\ alive
    /\ alive' = FALSE
    /\ UNCHANGED <<pc, efd, queue, done, next, stop, joined>>

Destroy ==
    /\ pc[0] = "ended"
    /\ joined = N
    /\ alive
    /\ alive' = FALSE
    /\ UNCHANGED <<pc, efd, queue, done, next, stop, joined>>

\* Nothing is left to do: the group is gone.
Gone == ~alive /\ UNCHANGED vars

-----------------------------------------------------------------------------

\* What thread i does by itself once it has been started.
Advance(i) ==
    \/ Start(i) \/ TestBf(i) \/ OtherReturns(i) \/ Pop(i) \/ Drained(i)
    \/ JobReturns(i) \/ WakeNext(i) \/ End(i)

User(i) == SetStop(i) \/ \E k \in Targets, j \in Jobs : Post(i, k, j)

Next ==
    \/ \E i \in Loops : \/ Spawn(i) \/ Advance(i) \/ ReadEventfd(i)
                        \/ OtherEvent(i) \/ User(i)
    \/ Join \/ Destroy \/ Gone

SafeSpec == Init /\ [][Next]_vars

\* Threads are scheduled and handlers return; an eventfd that is readable
\* whenever its loop polls is reported in the end (epoll rotates its ready
\* list), which is strong fairness.
Fairness ==
    /\ \A i \in Loops : /\ WF_vars(Spawn(i)) /\ WF_vars(Advance(i))
                        /\ SF_vars(ReadEventfd(i))
    /\ WF_vars(Join) /\ WF_vars(Destroy)

Spec == SafeSpec /\ Fairness

-----------------------------------------------------------------------------
(* Properties                                                               *)

\* EventLoopGroup.cpp:54-55: "no need to worry that the EventLoopGroup is
\* destroyed when wakeup is called, because the destructor on the main thread
\* waits for the other threads to end".  No thread that may still touch a loop
\* is running when the loops are destroyed.
NoUseAfterDestroy == ~alive => \A i \in Loops : pc[i] = "ended"

\* Once bf_ is FALSE no thread is left asleep in its poller: a loop that polls
\* with a zero counter will be woken by a thread that has yet to test bf_ or
\* has yet to reach it in its round of wake-ups.
StopReachesSleepers ==
    stop => \A i \in Loops :
        pc[i] = "poll" /\ efd[i] = 0 =>
            \E j \in Loops : \/ pc[j] \in {"test", "drain", "job", "other"}
                             \/ pc[j] = "wake" /\ next[j] <= i

\* When the user's condition turns false every thread ends, and the group can
\* be destroyed: join() does not hang.
StopEndsGroup == stop ~> ~alive

\* A handler posted to a loop, even before that loop's thread exists, is run
\* unless the group is told to stop.
JobsRunUnlessStopped ==
    \A k \in Loops, j \in Jobs : (j \in queue[k]) ~> (j \in done[k] \/ stop)
=============================================================================
