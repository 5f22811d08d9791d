----------------------------- MODULE UdpSocket ------------------------------
(***************************************************************************)
(* A UDP socket on its loop: one UdpConnection per peer, created by the    *)
(* first datagram from it or by handleConnectEvent, a queue of datagrams   *)
(* to send, and destroy(), which closes the descriptor before it removes   *)
(* the channel.                                                            *)
(*                                                                         *)
(* The application is assumed to use nothing of the socket after           *)
(* destroy(), and to destroy a UdpConnection only when no datagram to its  *)
(* peer is queued (a task points into its connection).                     *)
(***************************************************************************)
EXTENDS Integers, SequencesExt

CONSTANTS
    Peers,
    MaxIn, MaxOut,       \* datagrams received and sent in all (bounds)
    Epoll,               \* the poller is PollerEpoll
    EmptyDatagrams,      \* peers send datagrams of no bytes too
    CallbacksMayDestroy, \* accept, read and send callbacks may call destroy()
    None

ASSUME BoundsAssumption == MaxIn \in Nat /\ MaxOut \in Nat
ASSUME FlagsAssumption == {Epoll, EmptyDatagrams, CallbacksMayDestroy} \subseteq BOOLEAN
ASSUME NoneAssumption == None \notin Peers

VARIABLES
    tasks,      \* writTasks_
    conns,      \* the keys of conns_
    readBuf,    \* per connection, the datagrams in its read buffer
    destroyed,  \* destroy_
    open,       \* the descriptor is open
    added,      \* the channel is registered with the poller
    wantOut,    \* the channel's interest in EPOLLOUT
    pc,         \* where the loop's thread is
    back,       \* where it was when it called destroy()
    cur,        \* the peer of the datagram being handled
    got,        \* the datagram being handled
    answer,     \* the kernel's last answer
    net,        \* datagrams in the socket's receive queue
    arrived,    \* history: number of datagrams that arrived
    greeted,    \* history: peers whose connection was given to a callback
    heard,      \* history: per connection, the datagrams recvfrom returned
    used,       \* history: per connection, those the application has taken
    sent,       \* history: the tasks, as sent
    wire,       \* history: what the kernel took
    calls       \* history: the tasks whose handler was called

sock == <<destroyed, open, added, wantOut>>
input == <<conns, readBuf, greeted, heard, used>>
output == <<tasks, sent, wire, calls>>
kernel == <<net, arrived>>
vars == <<sock, input, output, kernel, pc, back, cur, got, answer>>

Datagram == [from: Peers, id: 1 .. MaxIn, empty: BOOLEAN]
Task == [dest: Peers, id: 1 .. MaxOut]
UserCode == {"acceptcb", "readcb", "sendcb", "errocb", "othercb"}

TypeOK ==
    /\ tasks \in Seq(Task) /\ sent \in Seq(Task) /\ wire \in Seq(Task)
    /\ calls \in Seq(Task) /\ net \in Seq(Datagram)
    /\ conns \subseteq Peers /\ greeted \subseteq Peers
    /\ \A f \in {readBuf, heard, used} : f \in [Peers -> Seq(Datagram)]
    /\ destroyed \in BOOLEAN /\ open \in BOOLEAN /\ added \in BOOLEAN
    /\ wantOut \in BOOLEAN
    /\ pc \in UserCode \cup {"idle", "recv", "append", "notify", "send",
                             "closing", "aborted", "terminated", "undefined"}
    /\ back \in UserCode \cup {"idle"}
    /\ cur \in Peers \cup {None} /\ got \in Datagram \cup {None}
    /\ answer \in {"ok", "again", "error"}
    /\ arrived \in 0 .. MaxIn

\* As start() leaves it.
Init ==
    /\ tasks = <<>> /\ sent = <<>> /\ wire = <<>> /\ calls = <<>>
    /\ conns = {} /\ greeted = {} /\ net = <<>> /\ arrived = 0
    /\ readBuf = [p \in Peers |-> <<>>] /\ heard = readBuf /\ used = readBuf
    /\ destroyed = FALSE /\ open = TRUE /\ added = TRUE /\ wantOut = FALSE
    /\ pc = "idle" /\ back = "idle" /\ cur = None /\ got = None /\ answer = "ok"

Goto(l) == pc' = l /\ UNCHANGED <<back, cur, got>>

-----------------------------------------------------------------------------
(* What application code calls.                                            *)

\* UdpConnection::send and UdpSocket::send.
Send(p) ==
    /\ pc \in UserCode /\ ~destroyed /\ p \in conns /\ Len(sent) < MaxOut
    /\ LET t == [dest |-> p, id |-> Len(sent) + 1]
       IN tasks' = Append(tasks, t) /\ sent' = Append(sent, t)
    /\ wantOut' = TRUE
    /\ UNCHANGED <<destroyed, open, added, input, wire, calls, kernel, pc, back,
                   cur, got, answer>>

\* The application empties the read buffer of a connection.
Take(p) ==
    /\ pc \in UserCode /\ p \in conns /\ readBuf[p] # <<>>
    /\ used' = [used EXCEPT ![p] = @ \o readBuf[p]]
    /\ readBuf' = [readBuf EXCEPT ![p] = <<>>]
    /\ UNCHANGED <<sock, conns, greeted, heard, output, kernel, pc, back, cur,
                   got, answer>>

Emptied(f, p) == [f EXCEPT ![p] = <<>>]

\* UdpConnection::destroy and UdpSocket::destroyConn.
DestroyConn(p) ==
    /\ pc \in UserCode /\ p \in conns
    /\ \A i \in DOMAIN tasks : tasks[i].dest # p
    /\ conns' = conns \ {p}
    /\ greeted' = greeted \ {p}
    /\ readBuf' = Emptied(readBuf, p)
    /\ heard' = Emptied(heard, p) /\ used' = Emptied(used, p)
    /\ UNCHANGED <<sock, output, kernel, pc, back, cur, got, answer>>

\* handleConnectEvent, a connector callback being application code.
Connect(p) ==
    /\ pc = "othercb" /\ ~destroyed /\ p \notin conns
    /\ conns' = conns \cup {p}
    /\ greeted' = greeted \cup {p}
    /\ UNCHANGED <<sock, readBuf, heard, used, output, kernel, pc, back, cur, got,
                   answer>>

\* destroy() up to socket_.reset().
CloseFd(from) ==
    /\ destroyed' = TRUE
    /\ tasks' = <<>>
    /\ conns' = {} /\ greeted' = {}
    /\ readBuf' = [p \in Peers |-> <<>>] /\ heard' = readBuf' /\ used' = readBuf'
    /\ open' = FALSE
    /\ pc' = "closing" /\ back' = from
    /\ cur' = None /\ got' = None
    /\ UNCHANGED <<added, wantOut, sent, wire, calls, kernel, answer>>

Destroy ==
    /\ pc \in UserCode /\ ~destroyed
    /\ pc \in {"acceptcb", "readcb", "sendcb"} => CallbacksMayDestroy
    /\ CloseFd(pc)

\* chan_.reset(): ~Channel removes the descriptor from the poller.  Epoll knows
\* no closed descriptor, and what removeChanel throws leaves a destructor.
RemoveChannel ==
    /\ pc = "closing"
    /\ IF Epoll /\ ~open
       THEN pc' = "terminated" /\ UNCHANGED <<added, wantOut>>
       ELSE pc' = back /\ added' = FALSE /\ wantOut' = FALSE
    /\ back' = "idle"
    /\ UNCHANGED <<destroyed, open, input, output, kernel, cur, got, answer>>

-----------------------------------------------------------------------------
(* Input.                                                                  *)

\* The network delivers a datagram.
Arrive(p) ==
    /\ arrived < MaxIn /\ open
    /\ arrived' = arrived + 1
    /\ \E e \in IF EmptyDatagrams THEN BOOLEAN ELSE {FALSE} :
         net' = Append(net, [from |-> p, id |-> arrived + 1, empty |-> e])
    /\ UNCHANGED <<sock, input, output, pc, back, cur, got, answer>>

ReadEvent ==
    /\ pc = "idle" /\ added /\ net # <<>>
    /\ Goto("recv")
    /\ UNCHANGED <<sock, input, output, kernel, answer>>

\* One round of for (;;): recvfrom through a pointer that destroy() has reset,
\* no datagram, an error, or a datagram from a known or from a new peer.
NoSocket ==
    /\ pc = "recv" /\ destroyed
    /\ Goto("undefined")
    /\ UNCHANGED <<sock, input, output, kernel, answer>>

RecvNothing ==
    /\ pc = "recv" /\ ~destroyed /\ net = <<>>
    /\ answer' = "again"
    /\ Goto("idle")
    /\ UNCHANGED <<sock, input, output, kernel>>

RecvFails ==
    /\ pc = "recv" /\ ~destroyed
    /\ answer' = "error"
    /\ Goto("errocb")
    /\ UNCHANGED <<sock, input, output, kernel>>

\* (Mutant of Recv: a new connection is not put into conns_ before it is used.)
RecvUnregistered ==
    /\ pc = "recv" /\ ~destroyed /\ net # <<>>
    /\ answer' = "ok"
    /\ net' = Tail(net) /\ got' = Head(net) /\ cur' = got'.from
    /\ pc' = IF cur' \in conns THEN "append" ELSE "acceptcb"
    /\ greeted' = greeted \cup {cur'}
    /\ UNCHANGED <<sock, conns, readBuf, heard, used, output, arrived, back>>

Recv ==
    /\ pc = "recv" /\ ~destroyed /\ net # <<>>
    /\ answer' = "ok"
    /\ net' = Tail(net) /\ got' = Head(net) /\ cur' = got'.from
    /\ pc' = IF cur' \in conns THEN "append" ELSE "acceptcb"
    /\ conns' = conns \cup {cur'}
    /\ greeted' = greeted \cup {cur'}
    /\ UNCHANGED <<sock, readBuf, heard, used, output, arrived, back>>

\* After a destroy() what is left of the round touches the connection only.
AcceptReturns ==
    /\ pc = "acceptcb"
    /\ Goto(IF destroyed THEN "recv" ELSE "append")
    /\ UNCHANGED <<sock, input, output, kernel, answer>>

\* (Mutant of AppendToBuf: the read buffer of any connection.)
AppendAnywhere ==
    /\ pc = "append"
    /\ IF got.empty
       THEN pc' = "aborted" /\ UNCHANGED <<readBuf, heard>>
       ELSE /\ pc' = "notify"
            /\ \E p \in conns : readBuf' = [readBuf EXCEPT ![p] = Append(@, got)]
            /\ heard' = IF cur \in conns
                        THEN [heard EXCEPT ![cur] = Append(@, got)] ELSE heard
    /\ UNCHANGED <<sock, conns, greeted, used, output, kernel, back, cur, got,
                   answer>>

\* getReadBuf().append(buffer, n), which asserts n > 0.  The accept callback may
\* have erased the connection, whose buffer goes with it.
AppendToBuf ==
    /\ pc = "append"
    /\ IF got.empty
       THEN pc' = "aborted" /\ UNCHANGED <<readBuf, heard>>
       ELSE /\ pc' = "notify"
            /\ LET Appended(f) == IF cur \in conns
                                  THEN [f EXCEPT ![cur] = Append(@, got)] ELSE f
               IN readBuf' = Appended(readBuf) /\ heard' = Appended(heard)
    /\ UNCHANGED <<sock, conns, greeted, used, output, kernel, back, cur, got,
                   answer>>

\* The read callback, if one is set.
Notify ==
    /\ pc = "notify"
    /\ pc' = "readcb" /\ got' = None
    /\ UNCHANGED <<sock, input, output, kernel, back, cur, answer>>

ReadReturns ==
    /\ pc = "readcb"
    /\ pc' = "recv" /\ cur' = None
    /\ UNCHANGED <<sock, input, output, kernel, back, got, answer>>

-----------------------------------------------------------------------------
(* Output.                                                                 *)

\* (Mutant of WritEvent: the interest is given up at every event.)
WritEventOnce ==
    /\ pc = "idle" /\ wantOut /\ net = <<>>
    /\ wantOut' = FALSE
    /\ Goto("send")
    /\ UNCHANGED <<destroyed, open, added, input, output, kernel, answer>>

\* handleWritEvent; its DeferCaller runs at once, as in Connection.
WritEvent ==
    /\ pc = "idle" /\ wantOut /\ net = <<>>
    /\ wantOut' = (tasks # <<>>)
    /\ Goto("send")
    /\ UNCHANGED <<destroyed, open, added, input, output, kernel, answer>>

NothingToSend ==
    /\ pc = "send" /\ tasks = <<>>
    /\ Goto("idle")
    /\ UNCHANGED <<sock, input, output, kernel, answer>>

\* sendto returns -1.  The test "n != EAGAIN" looks at n and not at errno.
SendFails ==
    /\ pc = "send" /\ tasks # <<>>
    /\ answer' \in {"again", "error"}
    /\ Goto("errocb")
    /\ UNCHANGED <<sock, input, output, kernel>>

\* (Mutant of SendReturns: the last task stays in the queue.)
SendReturnsLate ==
    /\ pc = "sendcb"
    /\ Goto("send")
    /\ tasks' = IF Len(tasks) > 1 THEN Tail(tasks) ELSE tasks
    /\ UNCHANGED <<sock, input, sent, wire, calls, kernel, answer>>

SendTo ==
    /\ pc = "send" /\ tasks # <<>>
    /\ answer' = "ok"
    /\ wire' = Append(wire, Head(tasks))
    /\ calls' = Append(calls, Head(tasks))
    /\ Goto("sendcb")
    /\ UNCHANGED <<sock, input, tasks, sent, kernel>>

\* pop_front after the handler, even if that emptied the deque.
SendReturns ==
    /\ pc = "sendcb"
    /\ IF tasks = <<>> THEN Goto("undefined") /\ UNCHANGED tasks
                       ELSE Goto("send") /\ tasks' = Tail(tasks)
    /\ UNCHANGED <<sock, input, sent, wire, calls, kernel, answer>>

-----------------------------------------------------------------------------
(* Other events.                                                           *)

ErroEvent ==
    /\ pc = "idle" /\ added
    /\ Goto("errocb")
    /\ answer' = "error"
    /\ UNCHANGED <<sock, input, output, kernel>>

\* handleErroEvent: the callback, then destroy().
ErroReturns ==
    /\ pc = "errocb"
    /\ IF destroyed
       THEN Goto("idle") /\ UNCHANGED <<sock, input, output, kernel, answer>>
       ELSE CloseFd("idle")

OtherEvent ==
    /\ pc = "idle"
    /\ Goto("othercb")
    /\ UNCHANGED <<sock, input, output, kernel, answer>>

OtherReturns ==
    /\ pc = "othercb"
    /\ Goto("idle")
    /\ UNCHANGED <<sock, input, output, kernel, answer>>

Returns == AcceptReturns \/ ReadReturns \/ SendReturns \/ ErroReturns \/ OtherReturns

Steps ==
    \/ RemoveChannel
    \/ NoSocket \/ RecvNothing \/ RecvFails \/ Recv \/ AppendToBuf \/ Notify
    \/ NothingToSend \/ SendFails \/ SendTo
    \/ Returns

Next ==
    \/ \E p \in Peers : Send(p) \/ Take(p) \/ DestroyConn(p) \/ Connect(p) \/ Arrive(p)
    \/ Destroy
    \/ ReadEvent \/ WritEvent \/ ErroEvent \/ OtherEvent
    \/ Steps

\* As for a TCP connection: the thread goes on, callbacks return, ready
\* descriptors are reported.
Fairness ==
    /\ WF_vars(Steps) /\ WF_vars(Returns)
    /\ SF_vars(ReadEvent) /\ SF_vars(WritEvent)

Spec == Init /\ [][Next]_vars /\ Fairness

-----------------------------------------------------------------------------
(* Properties.                                                             *)

\* Datagrams leave in the order of the sends, each once, and its handler is
\* called after it has left; a live socket has lost none.
DatagramsInOrder ==
    /\ IsPrefix(wire, sent)
    /\ calls = wire
    /\ ~destroyed /\ pc # "sendcb" => wire \o tasks = sent

\* Whatever the interleaving of peers, what a connection's read buffer gave the
\* application and still holds is what its peer sent since it was created.
InputPerPeer ==
    \A p \in Peers :
        /\ used[p] \o readBuf[p] = heard[p]
        /\ \A i \in DOMAIN readBuf[p] : readBuf[p][i].from = p

\* A peer has one connection at a time: it is announced to the accept callback
\* only when it had none.
AnnouncedOnce ==
    [][pc' = "acceptcb" /\ pc # "acceptcb" => cur' \notin greeted]_vars

\* Output that waits is output the poller watches for.
WriteInterest == ~destroyed /\ tasks # <<>> => wantOut

UdpInv == TypeOK /\ WriteInterest

\* Queued datagrams are sent, or go with the socket.
OutputDrains == tasks # <<>> ~> tasks = <<>>

\* What waits in the receive queue is delivered, or the socket is closed.
InputDelivered == net # <<>> ~> (net = <<>> \/ destroyed)

\* The comment of TcpClient::destroy: the descriptor is valid when the channel
\* goes.
FdValidAtRemoval == added => open

\* The intent of "if (n != EAGAIN)": a full send buffer is no error.
AgainIsNoError == pc = "errocb" => answer # "again"

\* The assertion of Buffer::append holds.
AppendHasData == pc # "aborted"

\* handleReadEvent and handleWritEvent, which keep the object alive across their
\* callbacks, do not go on with the socket and the deque that a callback's
\* destroy() has reset.
SurvivesDestroy == pc # "undefined"
=============================================================================
