---------------------------- MODULE BatchPoller ----------------------------
(***************************************************************************)
(* What PollerEpoll and PollerKevent have in common: a wait that answers a *)
(* batch of events in the array events_, and loop_once, which looks the    *)
(* Channel of an event up when the event is DISPATCHED - after earlier     *)
(* handlers of the same batch may have destroyed Channels, closed their    *)
(* descriptors, and got the same descriptor numbers for new ones.          *)
(***************************************************************************)
EXTENDS Channel

VARIABLES
    interest,     \* kernel: what is watched, per registered descriptor
    eventsSize,   \* eventsSize_
    capacity,     \* events_.size()
    batch,        \* events of this wait that are still to be dispatched
    cur           \* the Channel whose handler is running, and the event's owner

registryVars == <<interest, eventsSize>>
loopVars == <<capacity, batch, cur>>
vars == <<chanVars, phase, registryVars, loopVars>>

NoCall == [chan |-> None, owner |-> None]

BatchInit ==
    /\ interest = [fd \in {} |-> {}]
    /\ eventsSize = 0
    /\ capacity = DefaultSize
    /\ batch = {}
    /\ cur = NoCall

-----------------------------------------------------------------------------
(* What user code does.                                                     *)

NewChannel(c) == Make(c) /\ UNCHANGED <<registryVars, loopVars>>

\* f with x mapped to y.
Set(f, x, y) == [z \in DOMAIN f \cup {x} |-> IF z = x THEN y ELSE f[z]]

Unregistered(c) == interest' = [fd \in DOMAIN interest \ {fdOf[c]} |-> interest[fd]]

-----------------------------------------------------------------------------
(* loop_once                                                                *)

BeginLoop ==
    /\ phase = "user"
    /\ phase' = "wait"
    /\ UNCHANGED <<chanVars, registryVars, loopVars>>

\* The system call answers events, at most events_.size() of them.
Reported(events) ==
    /\ phase = "wait"
    /\ Cardinality(events) <= capacity
    /\ batch' = events
    /\ phase' = "dispatch"
    /\ UNCHANGED <<chanVars, registryVars, capacity, cur>>

\* (Mutant of Dispatch: the event carries the pointer epoll_wait was given.)
DispatchToOwner(e) ==
    /\ phase = "dispatch"
    /\ batch' = batch \ {e}
    /\ phase' = "handler"
    /\ cur' = [chan |-> e.owner, owner |-> e.owner]
    /\ UNCHANGED <<chanVars, registryVars, capacity>>

\* getChannel(fd): no channel any more, and the event is dropped.
Dispatch(e) ==
    /\ phase = "dispatch"
    /\ batch' = batch \ {e}
    /\ IF channels[e.fd] = None
       THEN UNCHANGED <<phase, cur>>
       ELSE /\ phase' = "handler"
            /\ cur' = [chan |-> channels[e.fd], owner |-> e.owner]
    /\ UNCHANGED <<chanVars, registryVars, capacity>>

HandlerReturns ==
    /\ phase = "handler"
    /\ phase' = "dispatch"
    /\ cur' = NoCall
    /\ UNCHANGED <<chanVars, registryVars, capacity, batch>>

\* All events are dispatched; events_ is given room for resized events.
EndOfBatch(resized) ==
    /\ phase = "dispatch"
    /\ batch = {}
    /\ capacity' = resized
    /\ phase' = "user"
    /\ UNCHANGED <<chanVars, batch, cur>>
=============================================================================
