------------------------------- MODULE Channel -------------------------------
(***************************************************************************)
(* Channel objects and the table channels_ of Poller.h, from descriptors   *)
(* to Channels: what PollerEpoll, PollerPoll and PollerSelect have in      *)
(* common, and the abstract specification that each of them implements.    *)
(*                                                                         *)
(* A Channel does not own its descriptor (Channel.h:6): its owner destroys *)
(* it and closes the descriptor, in one step of the loop's thread.  It may *)
(* be destroyed before it was added: a UdpSocket that is not started       *)
(* (UdpSocket.cpp:121), a loop that does not run (EventQueue.cpp:31,       *)
(* TimerQueue.cpp:26), a connection that is not registered before its loop *)
(* goes (TcpServer.cpp:46).  Number 0 is standard input and no Channel's.  *)
(* Left out: an update of a Channel that is not added (UdpSocket.cpp:138,  *)
(* 144, called before start).                                              *)
(***************************************************************************)
EXTENDS Integers, FiniteSets

CONSTANTS
    Chans,          \* Channel objects, each created at most once (a bound)
    Fds,            \* descriptor numbers
    None,           \* nullptr
    DefaultSize     \* initial size of the poller's array (48 in the code)

ASSUME FdsAssumption == Fds \subseteq Nat \ {0}
ASSUME NoneAssumption == None \notin Chans
ASSUME SizeAssumption == DefaultSize \in Nat \ {0}

VARIABLES
    state,      \* per Channel: unborn, made, added; dead, or discarded: never added
    fdOf,       \* per Channel, its fd_ once it is made
    wants,      \* per Channel that is added, its readable_ and writable_ flags
    open,       \* the descriptors that are open
    channels,   \* channels_: per descriptor, the Channel or None
    phase       \* where loop_once is, or ended: so is the process

chanVars == <<state, fdOf, wants, open, channels>>

Kinds == {"in", "out"}
Phases == {"user", "wait", "dispatch", "handler", "ended"}

ChanTypeOK ==
    /\ state \in [Chans -> {"unborn", "made", "added", "dead", "discarded"}]
    /\ fdOf \in [Chans -> Fds \cup {None}]
    /\ wants \in [Chans -> SUBSET Kinds]
    /\ open \subseteq Fds
    /\ channels \in [Fds -> Chans \cup {None}]
    /\ phase \in Phases

ChanInit ==
    /\ state = [c \in Chans |-> "unborn"]
    /\ fdOf = [c \in Chans |-> None]
    /\ wants = [c \in Chans |-> {}]
    /\ open = {}
    /\ channels = [fd \in Fds |-> None]
    /\ phase = "user"

-----------------------------------------------------------------------------
(* What user code does, before run(), in nextLoop handlers and in channels' *)
(* handlers: the part of each operation that the pollers share.             *)

UserCode == phase \in {"user", "handler"}

\* A descriptor is opened and a Channel made for it.  (The kernel gives the
\* lowest free number; the rest of the process may hold lower ones for a while.)
Make(c) ==
    /\ UserCode
    /\ state[c] = "unborn"
    /\ \E fd \in Fds \ open :
           /\ open' = open \cup {fd}
           /\ fdOf' = [fdOf EXCEPT ![c] = fd]
    /\ state' = [state EXCEPT ![c] = "made"]
    /\ UNCHANGED <<wants, channels, phase>>

\* enableRead and enableWrit, then addChanel's setChannel(fd, ch).
Enter(c) ==
    /\ UserCode
    /\ state[c] = "made"
    /\ state' = [state EXCEPT ![c] = "added"]
    /\ \E w \in SUBSET Kinds : wants' = [wants EXCEPT ![c] = w]
    /\ channels' = [channels EXCEPT ![fdOf[c]] = c]
    /\ UNCHANGED <<fdOf, open, phase>>

\* enableRead or enableWrit, then updateChanel.
Change(c, k, on) ==
    /\ UserCode
    /\ state[c] = "added"
    /\ wants' = [wants EXCEPT ![c] = IF on THEN @ \cup {k} ELSE @ \ {k}]
    /\ UNCHANGED <<state, fdOf, open, channels, phase>>

\* (Mutant of Leave: the entry in channels_ is left.)
LeaveDangling(c) ==
    /\ UserCode
    /\ state[c] \in {"made", "added"}
    /\ state' = [state EXCEPT ![c] = IF @ = "added" THEN "dead" ELSE "discarded"]
    /\ wants' = [wants EXCEPT ![c] = {}]
    /\ open' = open \ {fdOf[c]}
    /\ UNCHANGED <<fdOf, channels>>

\* ~Channel, which calls removeChanel whether the Channel was added or not, with
\* its setChannel(fd, nullptr), and the owner's close.  What becomes of phase depends
\* on the poller: removeChanel may be the end of the process.
Leave(c) ==
    /\ UserCode
    /\ state[c] \in {"made", "added"}
    /\ state' = [state EXCEPT ![c] = IF @ = "added" THEN "dead" ELSE "discarded"]
    /\ wants' = [wants EXCEPT ![c] = {}]
    /\ channels' = [channels EXCEPT ![fdOf[c]] = None]
    /\ open' = open \ {fdOf[c]}
    /\ UNCHANGED fdOf

-----------------------------------------------------------------------------
(* The abstract specification: the loop's own steps leave all of this alone *)
(* but for the phase.                                                       *)

ChanNext ==
    \/ \E c \in Chans : \/ Make(c) \/ Enter(c)
                        \/ Leave(c) /\ phase' \in {phase, "ended"}
                        \/ \E k \in Kinds, on \in BOOLEAN : Change(c, k, on)
    \/ phase # "ended" /\ phase' \in Phases \ {"ended"} /\ UNCHANGED chanVars

ChanSpec == ChanInit /\ [][ChanNext]_<<chanVars, phase>>

-----------------------------------------------------------------------------

Added == {c \in Chans : state[c] = "added"}
Alive == {c \in Chans : state[c] \in {"made", "added"}}
Discarded == {c \in Chans : state[c] = "discarded"}

\* Channels that are alive have descriptors of their own, which are open.
OwnFds == \A c, d \in Alive : /\ fdOf[c] \in open
                              /\ fdOf[c] = fdOf[d] => c = d

\* An entry of the table is a Channel that is alive and has that descriptor,
\* open and its own; every added Channel has its entry.  So a lookup by a number
\* that came with an event never answers a dead Channel (Poller.h:19).
TableOK ==
    /\ OwnFds
    /\ \A fd \in Fds : channels[fd] # None =>
           channels[fd] \in Added /\ fdOf[channels[fd]] = fd
    /\ \A c \in Added : channels[fdOf[c]] = c
=============================================================================
