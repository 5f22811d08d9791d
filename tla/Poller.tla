------------------------------- MODULE Poller -------------------------------
(***************************************************************************)
(* The deferred handlers of Poller.cpp - nextTick, nextLoop, afterLoop -   *)
(* and the places of loop_once (PollerEpoll.cpp) that run them.            *)
(*                                                                         *)
(* Each kind is a std::list that is walked by a range-for and cleared      *)
(* after the walk.  A handler may defer further handlers of any kind; one  *)
(* appended to the list being walked is reached by the same walk.          *)
(***************************************************************************)
EXTENDS Naturals, Sequences

CONSTANTS
    Handlers,     \* handlers that may be deferred, each once (a bound)
    MaxLoops,     \* bound on the iterations of the loop
    MaxEvents     \* bound on the events of one epoll_wait

ASSUME BoundsAssumption == MaxLoops \in Nat /\ MaxEvents \in Nat

Kinds == {"tick", "next", "after"}

VARIABLES
    list,      \* per kind, the handlers deferred since it was last cleared
    phase,     \* where loop_once is
    pos,       \* how many handlers of the list being walked have started
    busy,      \* user code is running: a channel's or a deferred handler
    left,      \* events of this iteration that are still to be dispatched
    loopNo,    \* iterations begun
    eventNo,   \* events dispatched
    asked,     \* history: per deferred handler, its kind and when it was deferred
    ran        \* history: per handler run, when it was (last) run

pollerVars == <<list, phase, pos, busy, left, loopNo, eventNo, asked, ran>>

Stamp == [loop : Nat, event : Nat]
Now == [loop |-> loopNo, event |-> eventNo]

Phases == {"idle", "next", "wait", "events", "event", "tick", "after"}

PollerTypeOK ==
    /\ list \in [Kinds -> Seq(Handlers)]
    /\ phase \in Phases
    /\ pos \in Nat
    /\ busy \in BOOLEAN
    /\ left \in 0 .. MaxEvents
    /\ Now \in Stamp
    /\ \A h \in DOMAIN asked : asked[h] \in [kind : Kinds, at : Stamp, phase : Phases]
    /\ DOMAIN ran \subseteq DOMAIN asked
    /\ DOMAIN asked \subseteq Handlers
    /\ \A h \in DOMAIN ran : ran[h] \in Stamp

PollerInit ==
    /\ list = [k \in Kinds |-> <<>>]
    /\ phase = "idle"
    /\ pos = 0
    /\ busy = FALSE
    /\ left = 0
    /\ loopNo = 0
    /\ eventNo = 0
    /\ asked = <<>>
    /\ ran = <<>>

-----------------------------------------------------------------------------

\* f with x mapped to y.
Set(f, x, y) == [z \in DOMAIN f \cup {x} |-> IF z = x THEN y ELSE f[z]]

\* nextTick, nextLoop, afterLoop: called by user code that the loop runs, or
\* between two iterations (before run(), or by the functor that run() tests).
Defer(k, h) ==
    /\ busy \/ phase = "idle"
    /\ h \notin DOMAIN asked
    /\ list' = [list EXCEPT ![k] = Append(@, h)]
    /\ asked' = Set(asked, h, [kind |-> k, at |-> Now, phase |-> phase])
    /\ UNCHANGED <<phase, pos, busy, left, loopNo, eventNo, ran>>

\* (Mutant of Return: an event ends without its nextTick handlers.)
ReturnWithoutTick ==
    /\ busy
    /\ busy' = FALSE
    /\ phase' = IF phase = "event" THEN "events" ELSE phase
    /\ UNCHANGED <<list, pos, left, loopNo, eventNo, asked, ran>>

Return ==
    /\ busy
    /\ busy' = FALSE
    /\ phase' = IF phase = "event" THEN "tick" ELSE phase
    /\ UNCHANGED <<list, pos, left, loopNo, eventNo, asked, ran>>

\* A walk of list[k]: call the handler at the iterator, or, past the last one,
\* clear the list and go on.
Call(k) ==
    /\ phase = k /\ ~busy
    /\ pos < Len(list[k])
    /\ pos' = pos + 1
    /\ busy' = TRUE
    /\ ran' = Set(ran, list[k][pos + 1], Now)
    /\ UNCHANGED <<list, phase, left, loopNo, eventNo, asked>>

\* (Mutant of Clear: the list is dropped after one handler.)
ClearAfterFirst(k, then) ==
    /\ phase = k /\ ~busy
    /\ pos > 0 \/ list[k] = <<>>
    /\ list' = [list EXCEPT ![k] = <<>>]
    /\ pos' = 0
    /\ phase' = then
    /\ UNCHANGED <<busy, left, loopNo, eventNo, asked, ran>>

Clear(k, then) ==
    /\ phase = k /\ ~busy
    /\ pos = Len(list[k])
    /\ list' = [list EXCEPT ![k] = <<>>]
    /\ pos' = 0
    /\ phase' = then
    /\ UNCHANGED <<busy, left, loopNo, eventNo, asked, ran>>

\* loop_once begins: runNextLoopHandlers.
BeginLoop ==
    /\ phase = "idle"
    /\ loopNo < MaxLoops
    /\ loopNo' = loopNo + 1
    /\ phase' = "next"
    /\ UNCHANGED <<list, pos, busy, left, eventNo, asked, ran>>

\* epoll_wait returns some events, or none when a signal interrupts it.
Wait ==
    /\ phase = "wait"
    /\ left' \in 0 .. MaxEvents
    /\ phase' = "events"
    /\ UNCHANGED <<list, pos, busy, loopNo, eventNo, asked, ran>>

\* The next event of the batch: its channel's handler is called; when the fd has
\* no channel any more the iteration is cut short, but the DeferCaller of the
\* iteration still runs the nextTick handlers.
Event ==
    /\ phase = "events" /\ left > 0
    /\ left' = left - 1
    /\ eventNo' = eventNo + 1
    /\ \/ phase' = "event" /\ busy' = TRUE
       \/ phase' = "tick" /\ busy' = FALSE
    /\ UNCHANGED <<list, pos, loopNo, asked, ran>>

EventsDone ==
    /\ phase = "events" /\ left = 0
    /\ phase' = "after"
    /\ UNCHANGED <<list, pos, busy, left, loopNo, eventNo, asked, ran>>

\* The bound on iterations is reached.
Bounded == phase = "idle" /\ loopNo = MaxLoops /\ UNCHANGED pollerVars

PollerNext ==
    \/ \E k \in Kinds, h \in Handlers : Defer(k, h)
    \/ \E k \in Kinds : Call(k)
    \/ Return \/ BeginLoop \/ Wait \/ Event \/ EventsDone
    \/ Clear("next", "wait") \/ Clear("tick", "events") \/ Clear("after", "idle")
    \/ Bounded

PollerSpec == PollerInit /\ [][PollerNext]_pollerVars

-----------------------------------------------------------------------------
(* Properties                                                               *)

\* The part of a list its walk has not reached.
Ahead(k) == {list[k][i] : i \in (IF phase = k THEN pos + 1 ELSE 1) .. Len(list[k])}

\* The walks and their clear() drop no handler that has not been run and leave
\* none that has (Poller.cpp:39, 47, 55): every deferred handler has been run or
\* is still ahead, and never both.
RunOrAhead ==
    \A h \in DOMAIN asked : (h \in DOMAIN ran) # (h \in Ahead(asked[h].kind))

\* Poller.h:23, "called when the handling of the event ends": a handler that
\* an event defers with nextTick has run before the next event is dispatched.
TickEndsEvent ==
    \A h \in DOMAIN asked :
        asked[h].kind = "tick" /\ asked[h].phase \in {"event", "tick"} =>
            IF h \in DOMAIN ran THEN ran[h].event = asked[h].at.event
                                ELSE eventNo = asked[h].at.event

\* Poller.h:27, "called at the end of this loop of the Poller": in the very
\* iteration that deferred it, and after the last of its events.
AfterLoopEndsLoop ==
    \A h \in DOMAIN asked :
        asked[h].kind = "after" /\ asked[h].phase # "idle" =>
            IF h \in DOMAIN ran THEN ran[h].loop = asked[h].at.loop
                                ELSE loopNo = asked[h].at.loop /\ phase # "idle"

\* What nextLoop does: the handler runs at the start of the next iteration,
\* unless a nextLoop handler deferred it - then in the same one.
NextLoopStartsLoop ==
    \A h \in DOMAIN asked :
        asked[h].kind = "next" =>
            LET due == asked[h].at.loop + (IF asked[h].phase = "next" THEN 0 ELSE 1)
            IN  IF h \in DOMAIN ran THEN ran[h].loop = due
                ELSE loopNo = due => phase = "next"

PollerInv == PollerTypeOK /\ RunOrAhead

\* Each of the three kinds runs at its point of the loop, whichever handler of
\* whichever kind, or which event, deferred it.
RunsWhenDue == TickEndsEvent /\ AfterLoopEndsLoop /\ NextLoopStartsLoop

\* Poller.h:25, "called in the next loop of the Poller".  Not so for a handler
\* that a nextLoop handler defers: see NextLoopStartsLoop.
NextLoopMeansNextLoop ==
    \A h \in DOMAIN ran :
        asked[h].kind = "next" => ran[h].loop = asked[h].at.loop + 1
=============================================================================
