------------------------------ MODULE Resolver ------------------------------
(***************************************************************************)
(* Resolver::async_resolve: one thread for the whole process takes         *)
(* requests from a BlockingQueue, resolves each, and posts the handler to  *)
(* the loop that asked.  The thread and its queue are function-local       *)
(* statics: they are made by the first call and end after main() returns,  *)
(* when the EventLoopGroup of main() is gone.                              *)
(*                                                                         *)
(* EventQueue.tla shows that a posted handler is run.                      *)
(***************************************************************************)
EXTENDS Naturals, SequencesExt

CONSTANTS
    Loops,        \* the loops, each with its thread
    None,         \* no request
    MaxRequests,  \* requests made in all (a bound)
    QuitEarly     \* the group may end while a request is under way

ASSUME NoneAssumption == None \notin Loops
ASSUME BoundAssumption == MaxRequests \in Nat
ASSUME QuitAssumption == QuitEarly \in BOOLEAN

VARIABLES
    requests,   \* requests_: [loop, id]; loop None is the empty handler of stop()
    keepRunning,\* keep_running
    pc,         \* the resolver's thread
    cur,        \* the request it has taken, or None
    handlers,   \* per loop, the posted handlers
    asked,      \* history: per loop, the requests it made
    ran,        \* history: per loop, the requests whose handler it ran
    main,       \* the main thread: in run(), then at the exit of the process
    alive       \* the EventLoopGroup exists

thread == <<pc, cur>>
exit == <<keepRunning, main, alive>>
vars == <<requests, thread, handlers, asked, ran, exit>>

Request == [loop: Loops \cup {None}, id: 0 .. MaxRequests]

TypeOK ==
    /\ requests \in Seq(Request)
    /\ keepRunning \in BOOLEAN /\ alive \in BOOLEAN
    /\ pc \in {"unborn", "test", "wait", "asleep", "resolve", "post", "ended"}
    /\ IF pc \in {"resolve", "post"} THEN cur \in Request ELSE cur = None
    /\ \A l \in Loops : {handlers[l], asked[l], ran[l]} \subseteq Seq(1 .. MaxRequests)
    /\ main \in {"run", "over", "stop", "join", "exited"}

Init ==
    /\ requests = <<>> /\ keepRunning = TRUE /\ pc = "unborn" /\ cur = None
    /\ handlers = [l \in Loops |-> <<>>]
    /\ asked = [l \in Loops |-> <<>>] /\ ran = [l \in Loops |-> <<>>]
    /\ main = "run" /\ alive = TRUE

-----------------------------------------------------------------------------
(* BlockingQueue: push_notify and pop_wait, each one critical section.     *)

\* (Mutant of PushNotify: push_back, which wakes nobody.)
PushQuietly(r) ==
    /\ requests' = Append(requests, r)
    /\ UNCHANGED thread

\* The thread that notify_one wakes tests the predicate again.
PushNotify(r) ==
    /\ requests' = Append(requests, r)
    /\ pc' = IF pc = "asleep" THEN "wait" ELSE pc
    /\ UNCHANGED cur

PopWait ==
    /\ pc = "wait"
    /\ IF requests = <<>>
       THEN pc' = "asleep" /\ UNCHANGED <<requests, cur>>
       ELSE cur' = Head(requests) /\ requests' = Tail(requests) /\ pc' = "resolve"
    /\ UNCHANGED <<handlers, asked, ran, exit>>

\* A condition variable may wake without a notification.
SpuriousWakeup ==
    /\ pc = "asleep"
    /\ pc' = "wait"
    /\ UNCHANGED <<requests, cur, handlers, asked, ran, exit>>

-----------------------------------------------------------------------------
(* The thread.                                                             *)

\* while (keep_running)
TestKeepRunning ==
    /\ pc = "test"
    /\ pc' = IF keepRunning THEN "wait" ELSE "ended"
    /\ UNCHANGED <<requests, cur, handlers, asked, ran, exit>>

\* getaddrinfo, which may take long; an empty handler is skipped.
Resolve ==
    /\ pc = "resolve"
    /\ IF cur.loop = None THEN pc' = "test" /\ cur' = None
                          ELSE pc' = "post" /\ UNCHANGED cur
    /\ UNCHANGED <<requests, handlers, asked, ran, exit>>

\* (Mutant of PostResult: the newest result is run first.)
PostInFront ==
    /\ pc = "post"
    /\ handlers' = [handlers EXCEPT ![cur.loop] = <<cur.id>> \o @]
    /\ pc' = "test" /\ cur' = None
    /\ UNCHANGED <<requests, asked, ran, exit>>

\* loop->runEventHandler
PostResult ==
    /\ pc = "post"
    /\ handlers' = [handlers EXCEPT ![cur.loop] = Append(@, cur.id)]
    /\ pc' = "test" /\ cur' = None
    /\ UNCHANGED <<requests, asked, ran, exit>>

-----------------------------------------------------------------------------
(* The loops.                                                              *)

Made == UNION {Range(asked[l]) : l \in Loops}

\* async_resolve, on the thread of loop l; the first call starts the thread.
AsyncResolve(l) ==
    /\ alive
    /\ \E id \in 1 .. MaxRequests :
         /\ Made = 1 .. id - 1
         /\ asked' = [asked EXCEPT ![l] = Append(@, id)]
         /\ IF pc = "unborn"
            THEN /\ pc' = "test"
                 /\ requests' = Append(requests, [loop |-> l, id |-> id])
                 /\ UNCHANGED cur
            ELSE PushNotify([loop |-> l, id |-> id])
    /\ UNCHANGED <<handlers, ran, exit>>

\* The loop drains its EventQueue.
RunHandler(l) ==
    /\ alive
    /\ handlers[l] # <<>>
    /\ ran' = [ran EXCEPT ![l] = Append(@, Head(handlers[l]))]
    /\ handlers' = [handlers EXCEPT ![l] = Tail(@)]
    /\ UNCHANGED <<requests, thread, asked, exit>>

-----------------------------------------------------------------------------
(* The end of the process.                                                 *)

\* run() returns and the group is destroyed.
EndGroup ==
    /\ main = "run"
    /\ QuitEarly \/ (requests = <<>> /\ cur = None)
    /\ main' = "over" /\ alive' = FALSE
    /\ UNCHANGED <<requests, thread, handlers, asked, ran, keepRunning>>

\* ~ResolverImp calls stop(), if there is a ResolverImp.
StopRunning ==
    /\ main = "over"
    /\ IF pc = "unborn" THEN main' = "exited" /\ UNCHANGED keepRunning
                        ELSE main' = "stop" /\ keepRunning' = FALSE
    /\ UNCHANGED <<requests, thread, handlers, asked, ran, alive>>

\* (Mutant of StopRequest: keep_running alone.)
StopWithoutRequest ==
    /\ main = "stop"
    /\ main' = "join"
    /\ UNCHANGED <<requests, thread, handlers, asked, ran, keepRunning, alive>>

\* stop() also sends a request with no handler, for the thread that waits.
StopRequest ==
    /\ main = "stop"
    /\ PushNotify([loop |-> None, id |-> 0])
    /\ main' = "join"
    /\ UNCHANGED <<handlers, asked, ran, keepRunning, alive>>

Join ==
    /\ main = "join" /\ pc = "ended"
    /\ main' = "exited"
    /\ UNCHANGED <<requests, thread, handlers, asked, ran, keepRunning, alive>>

Exited == main = "exited" /\ UNCHANGED vars

ThreadStep == TestKeepRunning \/ PopWait \/ Resolve \/ PostResult
ExitStep == StopRunning \/ StopRequest \/ Join

Next ==
    \/ ThreadStep \/ SpuriousWakeup
    \/ \E l \in Loops : AsyncResolve(l) \/ RunHandler(l)
    \/ EndGroup \/ ExitStep \/ Exited

\* Threads are scheduled and getaddrinfo returns; no spurious wake-up is owed.
Fairness ==
    /\ WF_vars(ThreadStep) /\ WF_vars(ExitStep)
    /\ \A l \in Loops : WF_vars(RunHandler(l))

Spec == Init /\ [][Next]_vars /\ Fairness

-----------------------------------------------------------------------------
(* Properties                                                              *)

\* The ids of those of the requests rs that loop l made.
IdsOf(rs, l) ==
    FlattenSeq([i \in DOMAIN rs |-> IF rs[i].loop = l THEN <<rs[i].id>> ELSE <<>>])

\* The requests that are not answered: the one that the thread has, and the queue.
Waiting == IF pc \in {"resolve", "post"} THEN <<cur>> \o requests ELSE requests

\* Every request is somewhere on its way until the thread ends - in the queue,
\* with the thread, posted, or run - exactly once, on the loop that asked, and in
\* the order in which that loop asked, whatever the other loops ask meanwhile.
AnswersInOrder ==
    \A l \in Loops :
        pc # "ended" => ran[l] \o (handlers[l] \o IdsOf(Waiting, l)) = asked[l]

\* A request is answered as long as the group lives: no notification is lost
\* between the predicate of pop_wait and the sleep.
Answered ==
    \A l \in Loops, id \in 1 .. MaxRequests :
        (id \in Range(asked[l])) ~> (id \in Range(ran[l]) \/ ~alive)

\* The process exits: the destructor's join() does not wait for a thread that
\* waits for a request.
ProcessExits == (main = "over") ~> (main = "exited")

\* EventLoopGroup.cpp:54-55, "no need to worry that the EventLoopGroup is
\* destroyed when wakeup is called, because the main thread's destructor waits for
\* the other threads to end": a handler is posted, and its loop woken, only while
\* the group exists.
PostsToLivingLoop == pc = "post" => alive
=============================================================================
