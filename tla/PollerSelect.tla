---------------------------- MODULE PollerSelect ----------------------------
(***************************************************************************)
(* PollerSelect: three sets of descriptors and maxfd_, one more than the   *)
(* greatest of them.  The sets are members that no constructor zeroes, so  *)
(* they start with whatever the memory held.  Descriptors from FD_SETSIZE  *)
(* on, which addChanel refuses, are left out.                              *)
(***************************************************************************)
EXTENDS ScanningPoller

CONSTANT Garbage   \* what the uninitialised sets may hold for a descriptor

VARIABLES
    watched,    \* per descriptor, in which of eset_, rset_ and wset_ it is
    maxfd,      \* maxfd_
    result,     \* the local copies of the sets, as select(2) leaves them
    stray       \* history: what watched still holds of its initial garbage

selectVars == <<watched, maxfd, result, stray>>

Sets == {"erro"} \cup Kinds

TypeOK ==
    /\ watched \in [Fds -> SUBSET Sets]
    /\ result \in [Fds -> SUBSET Sets]
    /\ stray \in [Fds -> SUBSET Sets]
    /\ maxfd \in Int

Init ==
    /\ watched \in [Fds -> Garbage]
    /\ stray = watched
    /\ maxfd = -1
    /\ result = [fd \in Fds |-> {}]

\* maxfd_ once fd is in a set.
MaxWith(fd) == IF fd >= maxfd THEN fd + 1 ELSE maxfd

\* FD_SET only: a bit that was set already stays.
AddChannel(c) ==
    /\ Entered(c)
    /\ maxfd' = MaxWith(fdOf[c])
    /\ watched' = [watched EXCEPT ![fdOf[c]] = @ \cup {"erro"} \cup wants'[c]]
    /\ UNCHANGED <<result, stray>>

\* (Mutant of UpdateChannel: FD_SET without the FD_CLR of the other case.)
UpdateSetsOnly(c, k, on) ==
    /\ Changed(c, k, on)
    /\ watched' = [watched EXCEPT ![fdOf[c]] = @ \cup wants'[c]]
    /\ UNCHANGED <<maxfd, result, stray>>

UpdateChannel(c, k, on) ==
    /\ Changed(c, k, on)
    /\ watched' = [watched EXCEPT ![fdOf[c]] = (@ \cap {"erro"}) \cup wants'[c]]
    /\ stray' = [stray EXCEPT ![fdOf[c]] = @ \cap {"erro"}]
    /\ UNCHANGED <<maxfd, result>>

\* m is the greatest descriptor below maxfd in a set, or 0.  maxfd_ is one more than any
\* descriptor that was added, so that removeChanel gets here only with a Channel that
\* was never added - and then makes maxfd_ too small for the one it finds.
Shrunk(m, sets) ==
    /\ m = 0 \/ (m \in Fds /\ sets[m] # {})
    /\ \A fd \in Fds : m < fd /\ fd < maxfd => sets[fd] = {}

Destroy(c) ==
    /\ Left(c)
    /\ UNCHANGED phase
    /\ watched' = [watched EXCEPT ![fdOf[c]] = {}]
    /\ stray' = [stray EXCEPT ![fdOf[c]] = {}]
    /\ IF fdOf[c] = maxfd
       THEN \E m \in 0 .. maxfd - 1 : Shrunk(m, watched') /\ maxfd' = m
       ELSE UNCHANGED maxfd
    /\ UNCHANGED result

\* select(2) on copies of the sets: the bits it leaves are counted.
Answer ==
    \E left \in [Fds -> SUBSET Sets] :
        /\ \A fd \in Fds : left[fd] \subseteq IF fd < maxfd THEN watched[fd] ELSE {}
        /\ result' = left
        /\ Reported(Cardinality({b \in Fds \X Sets : b[2] \in left[b[1]]}))
        /\ UNCHANGED <<watched, maxfd, stray>>

\* It fails with EBADF on a descriptor that is not open, and with EINVAL on a
\* negative maxfd_: nothing is dispatched.
Fails == maxfd < 0 \/ \E fd \in Fds \ open : fd < maxfd /\ watched[fd] # {}

WaitFails ==
    /\ Fails
    /\ Reported(0)
    /\ UNCHANGED selectVars

Wait == ~Fails /\ Answer

EndWalk ==
    /\ EndLoop(maxfd)
    /\ result' = [fd \in Fds |-> {}]
    /\ UNCHANGED <<watched, maxfd, stray>>

VisitFd ==
    /\ pos < maxfd
    /\ IF pos \in Fds THEN Visit(channels[pos], result[pos]) ELSE Visit(None, {})
    /\ UNCHANGED selectVars

Next ==
    \/ \E c \in Chans : \/ Made(c) /\ UNCHANGED selectVars
                        \/ AddChannel(c) \/ Destroy(c)
                        \/ \E k \in Kinds, on \in BOOLEAN : UpdateChannel(c, k, on)
    \/ Wait \/ WaitFails \/ VisitFd \/ EndWalk
    \/ (BeginLoop \/ Writ \/ HandlerReturns) /\ UNCHANGED selectVars

-----------------------------------------------------------------------------

\* select(2) watches what the Channels' flags say and apart from these at most bits
\* that were in the sets from the start; so it fails for no other reason.  All are
\* below maxfd_ until a Channel that was never added is destroyed.
SetsOK ==
    /\ \A fd \in Fds : watched[fd] = stray[fd] \cup
           IF channels[fd] = None THEN {} ELSE {"erro"} \cup wants[channels[fd]]
    /\ Discarded = {} => \A c \in Added : fdOf[c] < maxfd
    /\ Fails => Added = {} \/ \E fd \in Fds \ open : stray[fd] # {}

\* select(2) is asked about every Channel that is added.  Not so once a Channel that
\* was never added is destroyed whose descriptor is maxfd_ (PollerSelect.cpp:58).
AllBelowMaxfd == \A c \in Added : fdOf[c] < maxfd

\* select(2) left a bit for fd that the walk has not come to.
Ahead(fd) == fd >= pos /\ result[fd] # {}
=============================================================================
