---------------------------- MODULE Applications ----------------------------
(***************************************************************************)
(* A Connection and the code that uses it: any code that keeps to the      *)
(* rules of Connection.tla, an HttpServer, or an HttpClient.               *)
(***************************************************************************)
EXTENDS HttpEndpoint

CONSTANTS
    Apps,                                       \* the applications of this run
    Size, MaxRequests, Pipelined, Trailer,      \* HttpServer
    MaxGets, DestroyEarly, Cuts                 \* HttpClient

ASSUME SizesAssumption == \A f \in DOMAIN Size : Size[f] \in Nat
ASSUME SwitchesAssumption == {Pipelined, DestroyEarly} \subseteq BOOLEAN
ASSUME CutsAssumption == Cuts \subseteq {"nowhere", "status", "empty", "body"}

VARIABLES
    app,                                        \* which one it is
    keepAlive, asked,                           \* HttpServer
    requestLists, sendReqeustLists, connected,  \* HttpClient
    gets, lost, replied, answers,
    cut                                         \* where replies to an HttpClient are cut

chosen == <<app, cut>>
serverVars == <<keepAlive, asked>>
clientVars == <<requestLists, sendReqeustLists, connected, gets, lost, replied, answers>>
allVars == <<vars, endpointVars, chosen, serverVars, clientVars>>

\* Files of one and of two bytes, and what most clients send after a request.
FileSizes == [a |-> 1, b |-> 2]
Nothing == <<>>

S == INSTANCE HttpServer
C == INSTANCE HttpClient

NoServer == keepAlive = FALSE /\ asked = <<>>

NoClient ==
    /\ requestLists = <<>> /\ sendReqeustLists = <<>> /\ connected = FALSE
    /\ gets = 0 /\ lost = FALSE /\ replied = 0 /\ answers = <<>>
    /\ cut = "nowhere"

AppInit ==
    /\ app \in Apps
    /\ \/ app = "any" /\ EndpointInit /\ parser = NewRequest /\ NoServer /\ NoClient
       \/ app = "HttpServer" /\ S!ServerInit /\ NoClient
       \/ app = "HttpClient" /\ C!ClientInit /\ NoServer

AppNext ==
    /\ ~died
    /\ UNCHANGED chosen
    /\ \/ app = "any" /\ Next /\ UNCHANGED <<endpointVars, serverVars, clientVars>>
       \/ app = "HttpServer" /\ S!ServerNext /\ UNCHANGED clientVars
       \/ app = "HttpClient" /\ C!ClientNext /\ UNCHANGED serverVars

Others == UNCHANGED <<chosen, serverVars, clientVars>>

\* A step of the Connection, with any code or with one of the two others.
Lib(A) == Others /\ IF app = "any" THEN A /\ UNCHANGED endpointVars ELSE Step(A)

LibRead == Others /\ IF app = "any" THEN ReadEvent /\ UNCHANGED endpointVars ELSE Read

\* The Connection's fairness.  Besides, callbacks go on, a peer sends what it has
\* begun, and the server at the other end of an HttpClient answers.
AppFairness ==
    /\ WF_allVars(Lib(LoopSteps)) /\ WF_allVars(Lib(Returns))
    /\ SF_allVars(LibRead) /\ SF_allVars(Lib(WritEvent)) /\ SF_allVars(Lib(Progress))
    /\ WF_allVars(Others /\ PeerWrites)
    /\ WF_allVars(app = "HttpServer" /\ S!ServerCode /\ UNCHANGED <<chosen, clientVars>>)
    /\ WF_allVars(app = "HttpClient" /\ (C!ClientCode \/ C!ServerReplies)
                                   /\ UNCHANGED <<chosen, serverVars>>)

AppSpec == AppInit /\ [][AppNext]_allVars /\ AppFairness

-----------------------------------------------------------------------------
(* Properties                                                               *)

\* The process does not end on one of its own assertions or on an exception of
\* stoi (HttpDef.cpp:188, 246, 261, 386).
AssertionsHold == ~died

\* The replies to an HttpClient that its parser cannot take in pieces end the
\* process, and nothing else does: of one that is cut after its status line it wants
\* the length at once (stoi of nothing, HttpDef.cpp:386); of one that is cut before
\* its last, empty line that line is left, as the beginning of a wrong reply whose
\* error clears http_conn_ while a request is being written (HttpClient.cpp:69).
OnlyCutsAreFatal == died => app = "HttpClient" /\ cut \in {"status", "empty"}

\* The replies to an HttpClient have ended the process, or keep its thread in the
\* loop of handleReadEvent, which waits there for the rest of a body.
Held == died \/ (cut = "body" /\ pc = "readcb" /\ running)

\* As long as the peer takes some output now and then, every queued task is written
\* (or goes with the connection); input, served first, cannot hold it up for ever
\* when it is finite.  And with nothing left to write the interest in writability is
\* given up, which the loop would spin on (Connection.cpp:168-262).
OutputDrains == tasks # <<>> \/ wantOut ~> (tasks = <<>> /\ ~wantOut) \/ Held


\* The peer of an HttpServer gets the replies to its requests, whole and in the
\* order of the requests; the handlers of an HttpClient get each its own reply.
RepliesRight ==
    /\ app = "HttpServer" => S!RepliesInOrder
    /\ app = "HttpClient" => C!RepliesMatch

\* Every request for a file that exists is answered in the end, by a server that
\* then closes if it was the last, or the connection is gone.  The handler of every
\* request of a client is called unless its connection is gone or the process has
\* ended, or the replies' bodies come in pieces.
Answered ==
    /\ []<>(app = "HttpServer" => S!ServerAnswered /\ (keepAlive \/ destroyed))
    /\ []<>(app = "HttpClient" => C!ClientAnswered \/ died \/ cut = "body")

\* Whatever a request asks for, the server says something.  Not so: with a file that
\* does not exist it is silent (HttpServer.cpp:52), and keeps the connection.
EveryRequestServed == []<>(app = "HttpServer" => S!HeadPerRequest)

\* The loop of handleReadEvent ends.  Not so: it goes round without an exit while a
\* body is not complete, and nothing else runs on its thread (HttpClient.cpp:36).
ReadLoopEnds == []<>(app = "HttpClient" => ~running \/ died)
=============================================================================
