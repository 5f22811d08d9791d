----------------------------- MODULE PollerPoll -----------------------------
(***************************************************************************)
(* PollerPoll: pollfds_, an array indexed by descriptor.  addChanel fills  *)
(* a pollfd on the stack whose revents nobody sets; when a handler adds a  *)
(* Channel ahead of the walk, the walk reads them.  The slots that growing *)
(* the array makes are zeroed, so that poll(2) looks at descriptor 0 for   *)
(* each of them.                                                           *)
(***************************************************************************)
EXTENDS ScanningPoller

CONSTANT Junk   \* what revents may be before they are set

VARIABLE pollfds   \* pollfds_: per index the fd, events and revents

Slots == [fd : Fds \cup {0, -1}, events : SUBSET Kinds, revents : SUBSET Bits]
Spare == [fd |-> 0, events |-> {}, revents |-> {}]
Size == Cardinality(DOMAIN pollfds)

TypeOK ==
    /\ Size \in Nat \ {0} /\ DOMAIN pollfds = 0 .. Size - 1
    /\ \A i \in DOMAIN pollfds : pollfds[i] \in Slots

Init == pollfds = [i \in 0 .. DefaultSize - 1 |-> Spare]

\* The array once index fd exists: resize() fills with zeroes.
Grown(fd) ==
    IF fd < Size THEN pollfds
    ELSE [i \in 0 .. 2 * fd |-> IF i < Size THEN pollfds[i] ELSE Spare]

\* Before the next poll(2), which sets all revents, only a walk reads them.
AddChannel(c) ==
    /\ Entered(c)
    /\ \E junk \in IF phase = "handler" THEN Junk ELSE {{}} :
           pollfds' = [Grown(fdOf[c]) EXCEPT ![fdOf[c]] =
                           [fd |-> fdOf[c], events |-> wants'[c], revents |-> junk]]

UpdateChannel(c, k, on) ==
    /\ Changed(c, k, on)
    /\ pollfds' = [pollfds EXCEPT ![fdOf[c]].events = wants'[c]]

\* The slot stays, for no descriptor.  A Channel that was never added may have no
\* slot: then the -1 is written behind the array, into memory that is not modelled,
\* and the process may end there.
Destroy(c) ==
    /\ Left(c)
    /\ IF fdOf[c] < Size
       THEN pollfds' = [pollfds EXCEPT ![fdOf[c]].fd = -1] /\ UNCHANGED phase
       ELSE phase' \in {phase, "ended"} /\ UNCHANGED pollfds

\* What poll(2) says of slot i: errors and hang-ups are not asked for, and each
\* spare slot tells when standard input is hung up.
Revents(i, hungUp, says) ==
    CASE pollfds[i].fd = -1 -> {}
      [] pollfds[i].fd = 0  -> IF hungUp THEN {"hup"} ELSE {}
      [] OTHER              -> says[pollfds[i].fd]

Wait ==
    \E hungUp \in BOOLEAN, says \in [Fds -> SUBSET {"erro", "in", "out"}] :
        /\ \A fd \in Fds : says[fd] \subseteq
               IF channels[fd] = None THEN {} ELSE pollfds[fd].events \cup {"erro"}
        /\ pollfds' = [i \in DOMAIN pollfds |->
                          [pollfds[i] EXCEPT !.revents = Revents(i, hungUp, says)]]
        /\ Reported(Cardinality({i \in DOMAIN pollfds : Revents(i, hungUp, says) # {}}))

\* The next poll(2) sets all revents before they are read again.
EndWalk ==
    /\ EndLoop(Size)
    /\ pollfds' = [i \in DOMAIN pollfds |-> [pollfds[i] EXCEPT !.revents = {}]]

VisitSlot ==
    /\ pos < Size
    /\ Visit(IF pollfds[pos].fd \in Fds THEN channels[pollfds[pos].fd] ELSE None,
             pollfds[pos].revents)
    /\ UNCHANGED pollfds

Next ==
    \/ \E c \in Chans : \/ Made(c) /\ UNCHANGED pollfds
                        \/ AddChannel(c) \/ Destroy(c)
                        \/ \E k \in Kinds, on \in BOOLEAN : UpdateChannel(c, k, on)
    \/ Wait \/ VisitSlot \/ EndWalk
    \/ (BeginLoop \/ Writ \/ HandlerReturns) /\ UNCHANGED pollfds

-----------------------------------------------------------------------------

\* poll(2) is asked for what the Channels' flags say, for every one that is
\* added and for nothing else.
PollfdsOK ==
    /\ \A c \in Added : /\ fdOf[c] \in DOMAIN pollfds
                        /\ pollfds[fdOf[c]].fd = fdOf[c]
                        /\ pollfds[fdOf[c]].events = wants[c]
    /\ \A i \in DOMAIN pollfds : pollfds[i].fd > 0 => pollfds[i].fd = i /\ channels[i] # None

\* Something was reported for fd that the walk has not come to.
Ahead(fd) == fd >= pos /\ fd \in DOMAIN pollfds /\ pollfds[fd].revents \ {"hup"} # {}
=============================================================================
