---------------------------- MODULE HandlerQueue ----------------------------
(***************************************************************************)
(* What EventLoop::runEventHandler promises its callers, whatever thread   *)
(* they are on: a handler that is accepted is run, once, after every       *)
(* handler accepted before it.  EventQueue.tla shows that the eventfd and  *)
(* the locked list of EventQueue.cpp keep this promise.                    *)
(***************************************************************************)
EXTENDS Naturals, Sequences, Functions

CONSTANT Handlers     \* the handlers that may be posted, each at most once

VARIABLES pending,    \* accepted and not started, oldest first
          ran         \* started, in the order they were started

vars == <<pending, ran>>

Init == pending = <<>> /\ ran = <<>>

Accept(h) ==
    /\ h \notin Range(pending) \cup Range(ran)
    /\ pending' = Append(pending, h)
    /\ UNCHANGED ran

Run ==
    /\ pending # <<>>
    /\ ran' = Append(ran, Head(pending))
    /\ pending' = Tail(pending)

Next == (\E h \in Handlers : Accept(h)) \/ Run

SafeSpec == Init /\ [][Next]_vars

\* An accepted handler is not left waiting for ever.
Spec == SafeSpec /\ WF_vars(Run)
=============================================================================
