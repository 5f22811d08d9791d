----------------------------- MODULE PollerEpoll -----------------------------
(***************************************************************************)
(* PollerEpoll: a BatchPoller whose registry is the kernel's epoll set,    *)
(* changed at once by addChanel, updateChanel and removeChanel.            *)
(***************************************************************************)
EXTENDS BatchPoller

Events == [fd : Fds, kind : {"erro", "in", "out"}, owner : Chans]

EpollTypeOK ==
    /\ DOMAIN interest \subseteq Fds
    /\ \A fd \in DOMAIN interest : interest[fd] \subseteq Kinds
    /\ eventsSize \in Int
    /\ capacity \in Nat \ {0}
    /\ batch \subseteq Events
    /\ cur \in [chan : Chans \cup {None}, owner : Chans \cup {None}]

TypeOK == ChanTypeOK /\ EpollTypeOK

EpollInit == BatchInit

Init == ChanInit /\ EpollInit

-----------------------------------------------------------------------------
(* What user code does.                                                     *)

\* addChanel.  EPOLL_CTL_ADD would fail, and addChanel throw, if the descriptor
\* were closed or registered already: EpollCtlSucceeds.
AddChannel(c) ==
    /\ Enter(c)
    /\ interest' = Set(interest, fdOf[c], wants'[c])
    /\ eventsSize' = eventsSize + 1
    /\ UNCHANGED loopVars

\* enableRead or enableWrit, and updateChanel: EPOLL_CTL_MOD.
UpdateChannel(c, k, on) ==
    /\ Change(c, k, on)
    /\ interest' = [interest EXCEPT ![fdOf[c]] = wants'[c]]
    /\ UNCHANGED <<eventsSize, loopVars>>

\* ~Channel (removeChanel).  EPOLL_CTL_DEL fails for a descriptor that is not in
\* the set (ENOENT), or that its owner has closed already, as UdpSocket::destroy
\* does (EBADF); what is thrown then leaves ~Channel, and std::terminate is called.
\* (eventsSize_, a size_t, may have wrapped by then; nobody reads it any more.)
Destroy(c) ==
    /\ Leave(c)
    /\ \E closedFirst \in BOOLEAN :
           phase' = IF closedFirst \/ fdOf[c] \notin DOMAIN interest THEN "ended" ELSE phase
    /\ Unregistered(c)
    /\ eventsSize' = eventsSize - 1
    /\ UNCHANGED loopVars

-----------------------------------------------------------------------------
(* loop_once                                                                *)

\* One event per registered descriptor: an error or hang-up whatever was asked
\* for, readiness only as asked.
Reportable ==
    {e \in Events : /\ e.fd \in DOMAIN interest
                    /\ e.kind = "erro" \/ e.kind \in interest[e.fd]
                    /\ channels[e.fd] = e.owner}

Wait ==
    \E events \in SUBSET Reportable :
        /\ \A e, f \in events : e.fd = f.fd => e = f
        /\ Reported(events)

Resized == IF eventsSize > capacity THEN eventsSize * 2 ELSE capacity

EndLoop == EndOfBatch(Resized) /\ UNCHANGED registryVars

-----------------------------------------------------------------------------

Next ==
    \/ \E c \in Chans : \/ NewChannel(c) \/ AddChannel(c) \/ Destroy(c)
                        \/ \E k \in Kinds, on \in BOOLEAN : UpdateChannel(c, k, on)
    \/ BeginLoop \/ Wait \/ HandlerReturns \/ EndLoop
    \/ \E e \in batch : Dispatch(e)

Spec == Init /\ [][Next]_vars

-----------------------------------------------------------------------------
(* Properties                                                               *)

\* Exactly the descriptors of the table are in the epoll set, and what the kernel
\* reports is what the Channel's flags ask for (PollerEpoll.cpp:67-73).
RegistryOK == DOMAIN interest = {fd \in Fds : channels[fd] # None}

InterestFollowsFlags == \A c \in Added : interest[fdOf[c]] = wants[c]

\* epoll_ctl fails for no Channel that is used as it should be: one about to be
\* added has an open descriptor that is not registered, and one about to be changed
\* or removed has been added, and its descriptor is open and registered still.
EpollCtlSucceeds ==
    /\ \A c \in Chans : state[c] = "made" => fdOf[c] \in open \ DOMAIN interest
    /\ \A c \in Added : fdOf[c] \in open \cap DOMAIN interest

\* The count that sizes events_ is the number of registered descriptors.
EventsSizeCounts == eventsSize = Cardinality(DOMAIN interest)

\* The process does not survive the destruction of a Channel that was never added.
NoneDiscarded == Discarded = {}

\* All of it as long as the process lives.
EpollOK ==
    phase # "ended" =>
        /\ RegistryOK /\ InterestFollowsFlags
        /\ EpollCtlSucceeds
        /\ EventsSizeCounts
        /\ NoneDiscarded
=============================================================================
