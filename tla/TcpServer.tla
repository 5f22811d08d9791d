----------------------------- MODULE TcpServer ------------------------------
(***************************************************************************)
(* TcpServer on loop 0: connections are accepted there, each is given to   *)
(* the loop its descriptor falls to, and is registered there by a handler  *)
(* posted through that loop's EventQueue.  The server's three callbacks    *)
(* are set before the group runs and cleared by loop 0 when accept fails.  *)
(*                                                                         *)
(* EventQueue.tla shows that a posted handler is run, PollerEpoll.tla what *)
(* the channel's registration needs.  The application keeps the TcpServer  *)
(* as long as the group runs: connections refer to it by a plain pointer.  *)
(***************************************************************************)
EXTENDS Naturals, FiniteSets, SequencesExt

CONSTANTS
    N,           \* n_: the loops besides loop 0
    Conns,       \* connections peers make, each once (a bound)
    None,        \* no connection
    AcceptErrors \* accept may fail

ASSUME NAssumption == N \in Nat
ASSUME ConnsAssumption == IsFiniteSet(Conns)
ASSUME NoneAssumption == None \notin Conns
ASSUME ErrorsAssumption == AcceptErrors \in BOOLEAN

Loops == 0 .. N
Fds == 0 .. Cardinality(Conns) - 1

VARIABLES
    backlog,    \* the kernel's queue of connections to accept
    st,         \* per connection: unborn, backlog, posted, open, dead
    fd,         \* per connection, its descriptor once it is accepted
    open,       \* the descriptors in use
    data,       \* per connection, the data its peer sends once: none, waiting, read
    queue,      \* per loop, the posted handlers, by their connection
    listening,  \* chan_ exists
    callbacks,  \* the three callbacks are set
    hasRead,    \* the connections that got the read callback
    pc,         \* per loop's thread: idle, accept, call (a callback), in it (cb);
                \* ended when the process is
    cur,        \* per loop, the connection of that callback and which it is
    told        \* history: per connection, the callbacks called

server == <<listening, callbacks, hasRead>>
kernel == <<backlog, data>>
conns == <<st, fd, open>>
vars == <<server, kernel, conns, queue, pc, cur, told>>

Kinds == {"accept", "read", "erro"}
NoCall == [conn |-> None, kind |-> "read"]

\* EventLoopGroup::robinLoop
robinLoop(f) == f % (N + 1)

TypeOK ==
    /\ backlog \in Seq(Conns) /\ data \in [Conns -> {"none", "waiting", "read"}]
    /\ st \in [Conns -> {"unborn", "backlog", "posted", "open", "dead"}]
    /\ open \subseteq Fds
    /\ \A c \in Conns : fd[c] \in (IF st[c] \in {"posted", "open"} THEN open ELSE Fds \cup {None})
    /\ \A l \in Loops : \A c \in Range(queue[l]) : st[c] = "posted" /\ robinLoop(fd[c]) = l
    /\ listening \in BOOLEAN /\ callbacks \in BOOLEAN /\ hasRead \subseteq Conns
    /\ pc \in [Loops -> {"idle", "accept", "call", "cb", "ended"}]
    /\ \A l \in Loops : cur[l] \in [conn: Conns \cup {None}, kind: Kinds]
    /\ \A c \in Conns : told[c] \in Seq(Kinds)

Init ==
    /\ backlog = <<>> /\ data = [c \in Conns |-> "none"] /\ open = {}
    /\ st = [c \in Conns |-> "unborn"] /\ fd = [c \in Conns |-> None]
    /\ queue = [l \in Loops |-> <<>>]
    /\ listening = TRUE /\ callbacks = TRUE /\ hasRead = {}
    /\ pc = [l \in Loops |-> "idle"] /\ cur = [l \in Loops |-> NoCall]
    /\ told = [c \in Conns |-> <<>>]

-----------------------------------------------------------------------------
(* Peers.                                                                  *)

PeerConnects(c) ==
    /\ st[c] = "unborn"
    /\ st' = [st EXCEPT ![c] = "backlog"]
    /\ backlog' = Append(backlog, c)
    /\ UNCHANGED <<server, data, fd, open, queue, pc, cur, told>>

\* Also before the connection is accepted.
PeerSends(c) ==
    /\ st[c] \in {"backlog", "posted", "open"} /\ data[c] = "none"
    /\ data' = [data EXCEPT ![c] = "waiting"]
    /\ UNCHANGED <<server, backlog, conns, queue, pc, cur, told>>

-----------------------------------------------------------------------------
(* handleAcceptEvent, on loop 0.                                           *)

AcceptEvent ==
    /\ pc[0] = "idle" /\ listening /\ backlog # <<>>
    /\ pc' = [pc EXCEPT ![0] = "accept"]
    /\ UNCHANGED <<server, kernel, conns, queue, cur, told>>

\* The lowest free descriptor.
Lowest == CHOOSE f \in Fds \ open : \A g \in Fds \ open : f <= g

\* (Mutant of Accept: the channel is registered at once.)
AcceptRegistered ==
    /\ pc[0] = "accept" /\ backlog # <<>>
    /\ LET c == Head(backlog)
       IN /\ fd' = [fd EXCEPT ![c] = Lowest] /\ open' = open \cup {Lowest}
          /\ st' = [st EXCEPT ![c] = "open"]
          /\ hasRead' = IF callbacks THEN hasRead \cup {c} ELSE hasRead
          /\ queue' = [queue EXCEPT ![robinLoop(Lowest)] = Append(@, c)]
    /\ backlog' = Tail(backlog)
    /\ UNCHANGED <<listening, callbacks, data, pc, cur, told>>

\* A Connection with the server's read callback is made for the loop the
\* descriptor falls to, and the rest is posted there.
Accept ==
    /\ pc[0] = "accept" /\ backlog # <<>>
    /\ LET c == Head(backlog)
       IN /\ fd' = [fd EXCEPT ![c] = Lowest] /\ open' = open \cup {Lowest}
          /\ st' = [st EXCEPT ![c] = "posted"]
          /\ hasRead' = IF callbacks THEN hasRead \cup {c} ELSE hasRead
          /\ queue' = [queue EXCEPT ![robinLoop(Lowest)] = Append(@, c)]
    /\ backlog' = Tail(backlog)
    /\ UNCHANGED <<listening, callbacks, data, pc, cur, told>>

\* EAGAIN
AcceptNothing ==
    /\ pc[0] = "accept" /\ backlog = <<>>
    /\ pc' = [pc EXCEPT ![0] = "idle"]
    /\ UNCHANGED <<server, kernel, conns, queue, cur, told>>

\* Any other error (EMFILE, or ECONNABORTED, which takes a connection away): the
\* channel and the callbacks go, and the loop of accepts goes on.
AcceptFails ==
    /\ AcceptErrors
    /\ pc[0] = "accept"
    /\ listening' = FALSE /\ callbacks' = FALSE
    /\ \/ UNCHANGED <<backlog, st>>
       \/ /\ backlog # <<>>
          /\ backlog' = Tail(backlog) /\ st' = [st EXCEPT ![Head(backlog)] = "dead"]
    /\ UNCHANGED <<hasRead, data, fd, open, queue, pc, cur, told>>

-----------------------------------------------------------------------------
(* The loops.                                                              *)

\* (Mutant of RunPosted: the channel is not added.)
RunPostedUnadded(l) ==
    /\ pc[l] = "idle" /\ queue[l] # <<>>
    /\ pc' = [pc EXCEPT ![l] = "call"]
    /\ cur' = [cur EXCEPT ![l] = [conn |-> Head(queue[l]), kind |-> "accept"]]
    /\ queue' = [queue EXCEPT ![l] = Tail(@)]
    /\ UNCHANGED <<server, kernel, conns, told>>

\* The posted handler: the channel is registered, then acceptorCallback_ tested.
RunPosted(l) ==
    /\ pc[l] = "idle" /\ queue[l] # <<>>
    /\ LET c == Head(queue[l])
       IN /\ st' = [st EXCEPT ![c] = "open"]
          /\ IF callbacks
             THEN /\ pc' = [pc EXCEPT ![l] = "call"]
                  /\ cur' = [cur EXCEPT ![l] = [conn |-> c, kind |-> "accept"]]
             ELSE UNCHANGED <<pc, cur>>
    /\ queue' = [queue EXCEPT ![l] = Tail(@)]
    /\ UNCHANGED <<server, kernel, fd, open, told>>

\* The callback that was tested is called.
CallBack(l) ==
    /\ pc[l] = "call" /\ callbacks
    /\ told' = [told EXCEPT ![cur[l].conn] = Append(@, cur[l].kind)]
    /\ pc' = [pc EXCEPT ![l] = "cb"]
    /\ UNCHANGED <<server, kernel, conns, queue, cur>>

\* It has been cleared since: the call throws std::bad_function_call, which no
\* thread catches.
CallEmpty(l) ==
    /\ pc[l] = "call" /\ ~callbacks
    /\ pc' = [m \in Loops |-> "ended"]
    /\ UNCHANGED <<server, kernel, conns, queue, cur, told>>

\* (Mutant of DestroyConn: the descriptor is closed and the channel stays.)
CloseConn(l) ==
    /\ pc[l] = "cb" /\ st[cur[l].conn] = "open"
    /\ open' = open \ {fd[cur[l].conn]}
    /\ UNCHANGED <<server, kernel, st, fd, queue, pc, cur, told>>

\* Connection::destroy in the callback: the channel first, then the descriptor.
DestroyConn(l) ==
    /\ pc[l] = "cb" /\ st[cur[l].conn] = "open"
    /\ st' = [st EXCEPT ![cur[l].conn] = "dead"]
    /\ open' = open \ {fd[cur[l].conn]}
    /\ UNCHANGED <<server, kernel, fd, queue, pc, cur, told>>

\* The callback returns; initConnection's error callback ends with destroy().
Return(l) ==
    /\ pc[l] = "cb"
    /\ cur[l].kind = "erro" => st[cur[l].conn] = "dead"
    /\ pc' = [pc EXCEPT ![l] = "idle"] /\ cur' = [cur EXCEPT ![l] = NoCall]
    /\ UNCHANGED <<server, kernel, conns, queue, told>>

\* Input on loop l: the connection's own copy of the read callback.
ReadEvent(l) ==
    /\ pc[l] = "idle"
    /\ \E c \in Conns :
         /\ st[c] = "open" /\ robinLoop(fd[c]) = l
         /\ data[c] = "waiting" /\ data' = [data EXCEPT ![c] = "read"]
         /\ IF c \in hasRead
            THEN /\ pc' = [pc EXCEPT ![l] = "cb"]
                 /\ cur' = [cur EXCEPT ![l] = [conn |-> c, kind |-> "read"]]
                 /\ told' = [told EXCEPT ![c] = Append(@, "read")]
            ELSE UNCHANGED <<pc, cur, told>>
    /\ UNCHANGED <<server, backlog, conns, queue>>

\* An error on loop l: erroEventCallback_ of the SERVER is tested.
ErroEvent(l) ==
    /\ pc[l] = "idle"
    /\ \E c \in Conns :
         /\ st[c] = "open" /\ robinLoop(fd[c]) = l
         /\ pc' = [pc EXCEPT ![l] = IF callbacks THEN "call" ELSE "cb"]
         /\ cur' = [cur EXCEPT ![l] = [conn |-> c, kind |-> "erro"]]
    /\ UNCHANGED <<server, kernel, conns, queue, told>>

\* Nothing to do until peers act: every loop sleeps.
Asleep ==
    /\ \A l \in Loops : pc[l] = "ended" \/ (pc[l] = "idle" /\ queue[l] = <<>>)
    /\ UNCHANGED vars

Serve(l) == RunPosted(l) \/ CallBack(l) \/ CallEmpty(l) \/ Return(l) \/ (cur[l].kind = "erro" /\ DestroyConn(l))

AcceptStep == AcceptEvent \/ Accept \/ AcceptNothing

Next ==
    \/ \E c \in Conns : PeerConnects(c) \/ PeerSends(c)
    \/ AcceptStep \/ AcceptFails
    \/ \E l \in Loops : Serve(l) \/ DestroyConn(l) \/ ReadEvent(l) \/ ErroEvent(l)
    \/ Asleep

\* Threads run, callbacks return, and what is ready is reported in the end.
Fairness ==
    /\ SF_vars(AcceptEvent) /\ WF_vars(Accept \/ AcceptNothing)
    /\ \A l \in Loops : SF_vars(RunPosted(l)) /\ WF_vars(Serve(l)) /\ SF_vars(ReadEvent(l))

Spec == Init /\ [][Next]_vars /\ Fairness

-----------------------------------------------------------------------------
(* Properties                                                              *)

\* The accept callback of a connection is its first callback and is called once,
\* on whichever loop it lives and however early its peer sends or fails; nothing
\* follows the error callback.  While the server has its callbacks, that is: a server
\* that is gone before the registration leaves its connections the others only.
AcceptFirst ==
    \A c \in Conns :
        told[c] # <<>> /\ callbacks =>
            /\ told[c][1] = "accept"
            /\ \A i \in 2 .. Len(told[c]) : /\ told[c][i] # "accept"
                                            /\ told[c][i - 1] # "erro"

\* A descriptor number that loop 0 gets again while other loops close theirs is
\* never that of two channels: the table of the loop it falls to has its slot
\* free when the new connection is registered.
SlotFree ==
    \A c, d \in Conns :
        c # d /\ st[c] = "open" /\ st[d] \in {"posted", "open"} => fd[c] # fd[d]

ServerInv == TypeOK /\ SlotFree

\* TcpServer.cpp:27 and 52 test a callback before they call it: a thread that
\* has found a callback calls one that is there.
CallbackExists == \A l \in Loops : pc[l] = "call" => callbacks

\* A connection that a peer makes is accepted, given to its loop and announced, as
\* long as the server listens.
Announced ==
    \A c \in Conns :
        st[c] = "backlog" ~> (told[c] # <<>> \/ ~listening)

\* Data that arrives, even before the connection is registered, reaches the read
\* callback unless the connection ends first.
DataRead ==
    \A c \in Conns :
        data[c] = "waiting" ~> ("read" \in Range(told[c]) \/ st[c] = "dead" \/ ~listening)
=============================================================================
