------------------------------- MODULE Pollers -------------------------------
(***************************************************************************)
(* An EventLoop made with the chooser "POLL", "SELECT" or any other name   *)
(* (EventLoop.cpp): one set of Channels on one of the pollers.  Any other  *)
(* name is PollerEpoll on Linux ("EPOLL" here) and PollerKevent on Apple   *)
(* systems ("KEVENT" here).                                                *)
(***************************************************************************)
EXTENDS ScanningPoller, TLC

CONSTANTS
    Junk,       \* what the revents of a pollfd may be before they are set
    Garbage,    \* what the uninitialised sets may hold for a descriptor
    MaxChanges  \* bound on the changes that wait for the kqueue

ASSUME JunkAssumption == Junk \subseteq SUBSET Bits
ASSUME GarbageAssumption == Garbage \subseteq SUBSET (Bits \ {"hup"})

VARIABLES
    chooser,                                        \* the constructor's argument
    interest, eventsSize, capacity, batch, cur,     \* PollerEpoll and PollerKevent
    changes, skipped,                               \* PollerKevent
    pollfds,                                        \* PollerPoll
    watched, maxfd, result, stray                   \* PollerSelect

batchVars == <<interest, eventsSize, capacity, batch, cur>>
keventVars == <<changes, skipped>>
selectVars == <<watched, maxfd, result, stray>>
vars == <<chanVars, phase, scanVars, chooser, batchVars, keventVars, pollfds, selectVars>>

E == INSTANCE PollerEpoll
K == INSTANCE PollerKevent
P == INSTANCE PollerPoll
S == INSTANCE PollerSelect

NoBatch == interest = <<>> /\ eventsSize = 0 /\ capacity = 0 /\ batch = {} /\ cur = {}
NoKevent == changes = <<>> /\ skipped = {}
NoPoll == pollfds = <<>>
NoSelect == watched = <<>> /\ maxfd = -1 /\ result = <<>> /\ stray = <<>>

Init ==
    /\ ChanInit /\ ScanInit
    /\ \/ chooser = "EPOLL" /\ E!EpollInit /\ NoKevent /\ NoPoll /\ NoSelect
       \/ chooser = "KEVENT" /\ K!Init /\ NoPoll /\ NoSelect
       \/ chooser = "POLL" /\ P!Init /\ NoBatch /\ NoKevent /\ NoSelect
       \/ chooser = "SELECT" /\ S!Init /\ NoBatch /\ NoKevent /\ NoPoll

Next ==
    /\ UNCHANGED chooser
    /\ \/ /\ chooser = "EPOLL" /\ E!Next
          /\ UNCHANGED <<scanVars, keventVars, pollfds, selectVars>>
       \/ chooser = "KEVENT" /\ K!Next /\ UNCHANGED <<scanVars, pollfds, selectVars>>
       \/ chooser = "POLL" /\ P!Next /\ UNCHANGED <<batchVars, keventVars, selectVars>>
       \/ chooser = "SELECT" /\ S!Next /\ UNCHANGED <<batchVars, keventVars, pollfds>>

Spec == Init /\ [][Next]_vars

\* Channels are interchangeable; every property is about a state or a step.
Symmetry == Permutations(Chans)

-----------------------------------------------------------------------------
(* Properties                                                               *)

TypeOK ==
    /\ ChanTypeOK /\ ScanTypeOK
    /\ chooser \in {"EPOLL", "KEVENT", "POLL", "SELECT"}
    /\ chooser = "EPOLL" => E!EpollTypeOK
    /\ chooser = "KEVENT" => K!TypeOK
    /\ chooser = "POLL" => P!TypeOK
    /\ chooser = "SELECT" => S!TypeOK

\* Channels and what the system call is given agree (PollerEpoll.cpp:59-127,
\* PollerPoll.cpp:8-57, PollerSelect.cpp:8-67), whatever handlers add, change and
\* destroy in the middle of a batch, with PollerEpoll as long as the process lives.
\* It is ended by the destruction of a Channel that was never added; PollerSelect
\* and PollerKevent have their counts wrong from then on, and say by how much.
PollersInv ==
    /\ TypeOK
    /\ chooser = "EPOLL" => E!EpollOK
    /\ chooser = "KEVENT" => K!KeventOK
    /\ chooser = "POLL" => P!PollfdsOK
    /\ chooser = "SELECT" => S!SetsOK

\* called is alive, and another one than the report was about only if that one is
\* dead: its descriptor's number has been used again.
RightChannel(called, reported) ==
    /\ state[called] = "added"
    /\ reported \notin {None, called} => state[reported] = "dead"

\* A handler is called on the right Channel, although handlers of the same batch
\* have run since the report (PollerEpoll.cpp:28, PollerPoll.cpp:98,
\* PollerSelect.cpp:103).
CalledOnLiveChannel ==
    [][phase = "dispatch" /\ phase' = "handler" =>
           IF chooser \in {"EPOLL", "KEVENT"} THEN RightChannel(cur'.chan, cur'.owner)
           ELSE fdOf[ch'] = pos /\ RightChannel(ch', owner[pos])]_vars

\* Nobody that has something to report is left out.  The walk of poll and select
\* ends early when nready has gone down to 0: it then has come to every Channel
\* that was reported, unless one was added on the way (whose pollfd's revents may
\* be junk that is counted like a report), or select's maxfd_ went down with a
\* Channel that was never added.  The next epoll_wait has room for every Channel that
\* is registered (PollerEpoll.cpp:54), and kevent for all but as many as were
\* discarded.
ReportedAreServed ==
    [][phase = "dispatch" /\ phase' = "user" =>
           CASE chooser \in {"EPOLL", "KEVENT"} ->
                    capacity' >= Cardinality(DOMAIN interest) - Cardinality(Discarded)
             [] chooser \in {"POLL", "SELECT"} ->
                 added = {} /\ (chooser = "SELECT" => Discarded = {}) =>
                 \A c \in Added : owner[fdOf[c]] = c =>
                    ~IF chooser = "POLL" THEN P!Ahead(fdOf[c]) ELSE S!Ahead(fdOf[c])]_vars

\* errorif(nready == -1) after select(2) (PollerSelect.cpp:88): with a Channel added
\* there is no reason for it to fail.  Not so when an uninitialised set holds a
\* descriptor below maxfd_ that is not open.
SelectSucceeds == chooser = "SELECT" /\ Added # {} => ~S!Fails

\* ~Channel does not end the process.  Not so: EPOLL_CTL_DEL fails for a Channel that
\* was never added, and the throw leaves the destructor (PollerEpoll.cpp:122-125).
DestructionIsSafe == phase # "ended"

\* select(2) watches every Channel that is added.  Not so: see AllBelowMaxfd.
SelectWatchesAll == chooser = "SELECT" => S!AllBelowMaxfd

\* The kqueue takes every change of a flag that it is given.  Not so: see
\* NothingSkipped.
ChangesReachKqueue == chooser = "KEVENT" => K!NothingSkipped
=============================================================================
