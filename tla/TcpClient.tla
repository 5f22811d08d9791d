----------------------------- MODULE TcpClient ------------------------------
(***************************************************************************)
(* creatTcpClient and TcpClient: a name is resolved, the client is started *)
(* on the loop its descriptor falls to, and when the socket is writable    *)
(* its channel and socket pass from the TcpClient to a new Connection,     *)
(* which the connector is given.  What matters is who holds what: the      *)
(* client, the channel, the socket and the connection are all shared       *)
(* pointers, the callbacks hold plain ones.                                *)
(*                                                                         *)
(* AsyncClient.tla puts it behind the Resolver; Connection.tla has what a  *)
(* connection does, Poller.tla why nextTick runs right after the event.    *)
(* With Udp the client is one of creatUdpClient, which is started wherever *)
(* the answer arrives; only its start is modelled here.                    *)
(***************************************************************************)
EXTENDS Naturals, Sequences

CONSTANTS
    Loops,   \* the loops, each with its thread
    Home,    \* the loop that asked for the client, one of Loops: the answer
             \* arrives there
    None,    \* no loop
    Udp      \* creatUdpClient

VARIABLES
    pc,          \* how far the client has come
    loop,        \* its loop_
    startedBy,   \* history: the thread that ran start()
    connector,   \* connector_ is set
    clientRefs,  \* who holds the TcpClient: app, the posted start, self_
    chanRefs,    \* who holds the Channel: client, conn
    sockRefs,    \* who holds the Socket: client, conn (nobody: it is closed)
    connRefs,    \* who holds the Connection: the tick, self_, app
    bound,       \* whose callbacks the channel has: none, client, conn
    wants,       \* the channel's interest
    calls        \* history: what the connector was called with

refs == <<clientRefs, chanRefs, sockRefs, connRefs>>
channel == <<bound, wants>>
vars == <<pc, loop, startedBy, connector, refs, channel, calls>>

TypeOK ==
    /\ pc \in {"asked", "unresolved", "posted", "connecting", "refused",
               "closing", "tick", "made", "connector", "done"}
    /\ loop \in Loops \cup {None} /\ startedBy \in Loops \cup {None}
    /\ connector \in BOOLEAN
    /\ clientRefs \subseteq {"app", "start", "self"}
    /\ chanRefs \subseteq {"client", "conn"} /\ sockRefs \subseteq {"client", "conn"}
    /\ connRefs \subseteq {"tick", "self", "app"}
    /\ bound \in {"none", "client", "conn"} /\ wants \subseteq {"in", "out"}
    /\ calls \in Seq({"null", "conn"})
    /\ pc = "posted" <=> "start" \in clientRefs
    /\ startedBy = None <=> pc \in {"asked", "unresolved", "posted"}

Init ==
    /\ pc = "asked" /\ loop = None /\ startedBy = None
    /\ connector \in BOOLEAN
    /\ clientRefs = {"app"} /\ chanRefs = {} /\ sockRefs = {} /\ connRefs = {}
    /\ bound = "none" /\ wants = {} /\ calls = <<>>

-----------------------------------------------------------------------------
(* The application.                                                        *)

\* It lets go of the TcpClient, at any time.  Once the client has been started
\* self_ holds it; before, there is no channel.
DropClient ==
    /\ "app" \in clientRefs
    /\ clientRefs' = clientRefs \ {"app"}
    /\ UNCHANGED <<pc, loop, startedBy, connector, chanRefs, sockRefs, connRefs, channel, calls>>

KeepConn ==
    /\ pc = "connector" /\ connRefs # {}
    /\ connRefs' = connRefs \cup {"app"}
    /\ UNCHANGED <<pc, loop, startedBy, connector, clientRefs, chanRefs, sockRefs, channel, calls>>

DropConn ==
    /\ "app" \in connRefs
    /\ connRefs' = connRefs \ {"app"}
    /\ UNCHANGED <<pc, loop, startedBy, connector, clientRefs, chanRefs, sockRefs, channel, calls>>

-----------------------------------------------------------------------------
(* The answer and the start.                                               *)

\* start() on some thread: the channel goes into the poller of loop l.
Start(l, thread) ==
    /\ startedBy' = thread /\ loop' = l
    /\ clientRefs' = (clientRefs \ {"start"}) \cup {"self"}
    /\ chanRefs' = {"client"} /\ bound' = "client" /\ wants' = {"out"}
    /\ pc' = "connecting"

StartsHere(l) == Udp \/ l = Home

\* The resolver's handler, on the thread of Home.  (A connect() that is refused at once
\* throws out of it, Socket.cpp:63-66, and ends the process: left out.)
Resolved ==
    /\ pc = "asked"
    /\ clientRefs # {}
    /\ \E l \in Loops :
         /\ sockRefs' = {"client"}
         /\ IF StartsHere(l)
            THEN Start(l, Home)
            ELSE /\ clientRefs' = clientRefs \cup {"start"}
                 /\ loop' = l /\ pc' = "posted"
                 /\ UNCHANGED <<startedBy, chanRefs, channel>>
    /\ UNCHANGED <<connector, connRefs, calls>>

\* No address, or nobody holds the client any more: nobody is told.
Unresolved ==
    /\ pc = "asked"
    /\ pc' = "unresolved"
    /\ UNCHANGED <<loop, startedBy, connector, refs, channel, calls>>

\* The posted start, on the client's loop.
RunStart ==
    /\ pc = "posted"
    /\ Start(loop, loop)
    /\ UNCHANGED <<connector, sockRefs, connRefs, calls>>

-----------------------------------------------------------------------------
(* The channel's events, on the thread of the client's loop.               *)

\* Connected: a Connection shares the channel and the socket.
WritEvent ==
    /\ pc = "connecting" /\ bound = "client" /\ "out" \in wants /\ ~Udp
    /\ connRefs' = {"tick"}
    /\ chanRefs' = chanRefs \cup {"conn"} /\ sockRefs' = sockRefs \cup {"conn"}
    /\ wants' = {}
    /\ pc' = "tick"
    /\ UNCHANGED <<loop, startedBy, connector, clientRefs, bound, calls>>

\* Refused: connector(nullptr), in which the application may do what it likes.
ErroEvent ==
    /\ pc = "connecting" /\ bound = "client" /\ ~Udp
    /\ calls' = IF connector THEN Append(calls, "null") ELSE calls
    /\ pc' = "refused"
    /\ UNCHANGED <<loop, startedBy, connector, refs, channel>>

\* TcpClient::destroy up to chan_.reset() ...
ResetChan ==
    /\ chanRefs' = chanRefs \ {"client"}
    /\ IF chanRefs = {"client"} THEN bound' = "none" /\ wants' = {}
                                ELSE UNCHANGED channel

\* ... and from socket_.reset() on.
ResetRest ==
    /\ sockRefs' = sockRefs \ {"client"}
    /\ connector' = FALSE
    /\ clientRefs' = clientRefs \ {"self"}

\* (Mutant of Refused: socket_ before chan_.)
RefusedSocketFirst ==
    /\ pc = "refused"
    /\ ResetRest
    /\ pc' = "closing"
    /\ UNCHANGED <<loop, startedBy, chanRefs, connRefs, channel, calls>>

Refused ==
    /\ pc = "refused"
    /\ ResetChan
    /\ pc' = "closing"
    /\ UNCHANGED <<loop, startedBy, connector, clientRefs, sockRefs, connRefs, calls>>

Closing ==
    /\ pc = "closing"
    /\ ResetRest
    /\ pc' = "done"
    /\ UNCHANGED <<loop, startedBy, chanRefs, connRefs, channel, calls>>

\* (Mutant of Tick: no copy of the connector was taken before destroy() cleared
\* it.)
TickWithoutCopy ==
    /\ pc = "tick"
    /\ chanRefs' = chanRefs \ {"client"}
    /\ bound' = "none"
    /\ ResetRest
    /\ pc' = "made"
    /\ UNCHANGED <<loop, startedBy, connRefs, wants, calls>>

\* nextTick: onWrit and onErro are cleared and the client destroys itself, ...
Tick ==
    /\ pc = "tick"
    /\ chanRefs' = chanRefs \ {"client"}
    /\ bound' = "none"
    /\ sockRefs' = sockRefs \ {"client"}
    /\ clientRefs' = clientRefs \ {"self"}
    /\ pc' = "made"
    /\ UNCHANGED <<loop, startedBy, connector, connRefs, wants, calls>>

\* ... then init() and enableRead() of the connection, and the connector, a copy
\* of which was taken with the event.
InitConn ==
    /\ pc = "made"
    /\ connRefs' = connRefs \cup {"self"}
    /\ bound' = "conn" /\ wants' = wants \cup {"in"}
    /\ calls' = IF connector THEN Append(calls, "conn") ELSE calls
    /\ pc' = "connector"
    /\ UNCHANGED <<loop, startedBy, connector, clientRefs, chanRefs, sockRefs>>

\* Connection::destroy, by the connector or a later callback, or after an error.
DestroyConn ==
    /\ pc \in {"connector", "done"} /\ bound = "conn"
    /\ chanRefs' = chanRefs \ {"conn"} /\ sockRefs' = sockRefs \ {"conn"}
    /\ bound' = "none" /\ wants' = {}
    /\ connRefs' = connRefs \ {"self"}
    /\ UNCHANGED <<pc, loop, startedBy, connector, clientRefs, calls>>

\* The tick's handler is done and its copy of the ConnPtr goes.
ConnectorReturns ==
    /\ pc = "connector"
    /\ connRefs' = connRefs \ {"tick"}
    /\ pc' = "done"
    /\ UNCHANGED <<loop, startedBy, connector, clientRefs, chanRefs, sockRefs, channel, calls>>

Settled == pc \in {"unresolved", "done"} /\ UNCHANGED vars

Answer == Resolved \/ Unresolved

LoopStep ==
    \/ RunStart \/ WritEvent \/ ErroEvent
    \/ Refused \/ Closing \/ Tick \/ InitConn \/ ConnectorReturns

ApplicationStep == DropClient \/ KeepConn \/ DropConn

Next == Answer \/ LoopStep \/ ApplicationStep \/ DestroyConn \/ Settled

\* The resolver answers, the loops run, and the kernel ends every attempt to
\* connect one way or the other.
Spec == Init /\ [][Next]_vars /\ WF_vars(Answer \/ LoopStep)

-----------------------------------------------------------------------------
(* Properties                                                              *)

\* EventLoopGroup.cpp:118, "BUG: memory errors are possible when the client is not
\* on the current thread": start(), which writes the poller's tables, is run by
\* the thread of the loop it registers the channel with.
StartsOnItsLoop == startedBy # None => startedBy = loop

\* A channel's callbacks hold their object by a plain pointer: as long as the
\* poller may call them the object exists, whatever the application lets go of.
BoundExists ==
    /\ bound = "client" => clientRefs # {}
    /\ bound = "conn" => connRefs # {}
    /\ wants # {} => bound # "none"

\* TcpClient.cpp:69, "socket_.reset must come after chan_, so that the fd is valid
\* when chan_ is destroyed": the descriptor outlives the channel, also when both
\* pass from the client to the connection and are let go of there.
FdOutlivesChannel == chanRefs # {} => sockRefs # {}

\* The connector is called at most once, with a connection or with none, and
\* with a connection only once that has its callbacks and the client has let go.
ConnectorOnce ==
    /\ Len(calls) <= 1
    /\ calls = <<"null">> => connRefs = {}
    /\ calls = <<"conn">> => clientRefs \subseteq {"app"} /\ "client" \notin chanRefs \cup sockRefs
=============================================================================
