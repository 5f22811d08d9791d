---------------------------- MODULE PollerKevent ----------------------------
(***************************************************************************)
(* PollerKevent, the poller of Apple systems: a BatchPoller whose registry *)
(* is a kqueue with a filter for reading and one for writing.  What        *)
(* changes of it is put in a list, which addChanel and the end of          *)
(* loop_once hand to kevent(2) in stretches without a descriptor that has  *)
(* no Channel.  kevent(2), given no room for events, stops at the first    *)
(* change it refuses: the deletion of a filter that is not there.          *)
(***************************************************************************)
EXTENDS BatchPoller, Sequences

CONSTANT MaxChanges     \* bound on the length of changes_ between two uses

VARIABLES
    changes,    \* changes_
    skipped     \* history: descriptors and filters whose last change was skipped

keventVars == <<changes, skipped>>

\* An event is of a filter; its flags EV_EOF and EV_ERROR, which choose the error
\* callback, are left out: any callback may do anything.
Events == [fd : Fds, kind : Kinds, owner : Chans]

TypeOK ==
    /\ DOMAIN interest \subseteq Fds
    /\ \A fd \in DOMAIN interest : interest[fd] \subseteq Kinds
    /\ eventsSize \in Int
    /\ capacity \in Nat \ {0}
    /\ batch \subseteq Events
    /\ cur \in [chan : Chans \cup {None}, owner : Chans \cup {None}]
    /\ changes \in Seq([fd : Fds, kind : Kinds, add : BOOLEAN])
    /\ skipped \subseteq Fds \X Kinds

Init == BatchInit /\ changes = <<>> /\ skipped = {}

-----------------------------------------------------------------------------
(* changes_                                                                 *)

EvSet(fd, kind, add) == [fd |-> fd, kind |-> kind, add |-> add]

\* What updateChanel puts in for a descriptor and the flags it is to have.
Both(fd, flags) == <<EvSet(fd, "in", "in" \in flags), EvSet(fd, "out", "out" \in flags)>>

\* What addChanel puts in: a filter that is not wanted is not mentioned.
Wanted(fd, flags) ==
    LET Add(kind) == IF kind \in flags THEN <<EvSet(fd, kind, TRUE)>> ELSE <<>>
    IN  Add("in") \o Add("out")

\* kevent(2) takes change x: a filter that is there already may be added again.
Taken(acc, x) ==
    LET set == acc.interest[x.fd]
    IN  [interest |-> [acc.interest EXCEPT ![x.fd] = IF x.add THEN set \cup {x.kind}
                                                     ELSE set \ {x.kind}],
         skipped  |-> acc.skipped \ {<<x.fd, x.kind>>},
         stopped  |-> ~x.add /\ x.kind \notin set]

\* The next change of the list: a descriptor without a Channel ends a stretch, and
\* within a stretch what comes after a refused change is not looked at.
Apply(acc, x, table) ==
    IF table[x.fd] = None THEN [acc EXCEPT !.stopped = FALSE]
    ELSE IF acc.stopped THEN [acc EXCEPT !.skipped = @ \cup {<<x.fd, x.kind>>}]
    ELSE Taken(acc, x)

\* The registry and what was skipped, after the list.
Applied(list, start, table) ==
    LET after[i \in 0 .. Len(list)] == IF i = 0 THEN start ELSE Apply(after[i - 1], list[i], table)
    IN  after[Len(list)]

\* updateKevents, with the list and the registry as they are by then.
UpdateKevents(list, set) ==
    LET start == [interest |-> set, skipped |-> skipped, stopped |-> FALSE]
        end == Applied(list, start, channels')
    IN  interest' = end.interest /\ skipped' = end.skipped /\ changes' = <<>>

-----------------------------------------------------------------------------
(* What user code does.                                                     *)

\* addChanel hands the list over at once, with all that waited in it.
AddChannel(c) ==
    /\ Enter(c)
    /\ UpdateKevents(changes \o Wanted(fdOf[c], wants'[c]), Set(interest, fdOf[c], {}))
    /\ eventsSize' = eventsSize + 1
    /\ UNCHANGED loopVars

Queue(list) == Len(changes \o list) <= MaxChanges /\ changes' = changes \o list

UpdateChannel(c, k, on) ==
    /\ Change(c, k, on)
    /\ Queue(Both(fdOf[c], wants'[c]))
    /\ UNCHANGED <<registryVars, loopVars, skipped>>

\* ~Channel (removeChanel); when the owner closes the descriptor its filters go.
\* eventsSize_ is an int, and goes down for a Channel that was never added too.
Destroy(c) ==
    /\ Leave(c)
    /\ UNCHANGED phase
    /\ Queue(Both(fdOf[c], {}))
    /\ Unregistered(c)
    /\ skipped' = skipped \ ({fdOf[c]} \X Kinds)
    /\ eventsSize' = eventsSize - 1
    /\ UNCHANGED loopVars

-----------------------------------------------------------------------------
(* loop_once                                                                *)

Reportable ==
    {e \in Events : /\ e.fd \in DOMAIN interest /\ e.kind \in interest[e.fd]
                    /\ channels[e.fd] = e.owner}

\* One event per filter.  What nextLoop handlers have changed is still in the list.
Wait == \E events \in SUBSET Reportable : Reported(events) /\ UNCHANGED keventVars

Resized == IF eventsSize > capacity THEN eventsSize * 2 + 1 ELSE capacity

EndLoop ==
    /\ EndOfBatch(Resized)
    /\ UpdateKevents(changes, interest)
    /\ UNCHANGED eventsSize

Next ==
    \/ \E c \in Chans : \/ NewChannel(c) /\ UNCHANGED keventVars
                        \/ AddChannel(c) \/ Destroy(c)
                        \/ \E k \in Kinds, on \in BOOLEAN : UpdateChannel(c, k, on)
    \/ Wait \/ EndLoop
    \/ (BeginLoop \/ HandlerReturns \/ \E e \in batch : Dispatch(e)) /\ UNCHANGED keventVars

-----------------------------------------------------------------------------
(* Properties                                                               *)

Pending(fd, k) == \E i \in DOMAIN changes : changes[i].fd = fd /\ changes[i].kind = k

\* The kqueue watches what the flags of the added Channels ask for, and nothing of
\* an earlier Channel of the descriptor, but where a change waits or was skipped.
\* eventsSize_ is too low by the number of Channels destroyed without being added.
KeventOK ==
    /\ DOMAIN interest = {fd \in Fds : channels[fd] # None}
    /\ eventsSize = Cardinality(DOMAIN interest) - Cardinality(Discarded)
    /\ \A c \in Added, k \in Kinds :
          \/ k \in interest[fdOf[c]] <=> k \in wants[c]
          \/ Pending(fdOf[c], k)
          \/ <<fdOf[c], k>> \in skipped

\* No change of a flag is lost.  Not so: enableWrit of a Channel that does not read
\* deletes a filter that is not there first, and a Channel that takes over a
\* descriptor's number is added behind the deletions of its predecessor
\* (PollerKevent.cpp:38-53, :126).
NothingSkipped == skipped = {}
=============================================================================
