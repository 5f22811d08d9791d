----------------------------- MODULE HttpServer -----------------------------
(***************************************************************************)
(* HttpServer on one accepted connection: parse what was read, send the    *)
(* head of the reply, send the file when the head is out, close when the   *)
(* file is out and the request did not ask to be kept alive.               *)
(*                                                                         *)
(* The requests come from any client.  One that waits for its reply before *)
(* it sends the next request, and sends none after one without keep-alive, *)
(* is the client the server can serve: after such a request its parser     *)
(* stays as it is, and with two requests in one read it sends two heads    *)
(* before the first file.                                                  *)
(***************************************************************************)
EXTENDS HttpEndpoint

CONSTANTS
    Size,           \* per file under root_, its size
    MaxRequests,    \* requests of the client (a bound)
    Pipelined,      \* the client does not wait
    Trailer         \* what the client sends after each request

VARIABLES
    keepAlive,  \* keep_alive_ of the connection's HttpContext
    asked       \* history: the requests that the client has begun to send

serverVars == <<keepAlive, asked>>

Uris == DOMAIN Size
HeadLen == 1

ServerInit ==
    /\ EndpointInit
    /\ parser = NewRequest
    /\ keepAlive = TRUE
    /\ asked = <<>>

-----------------------------------------------------------------------------
(* The client.                                                              *)

\* What the requests' replies are made of: per byte, the part and the file.
ReplyTo(req) ==
    IF req.uri \notin Uris THEN <<>>
    ELSE [i \in 1 .. HeadLen |-> <<"head", req.uri>>]
         \o [i \in 1 .. Size[req.uri] |-> <<"file", req.uri>>]

Replies(reqs) == FlattenSeq([i \in DOMAIN reqs |-> ReplyTo(reqs[i])])

Received == [i \in DOMAIN wire |-> what[wire[i]]]

\* A client that waits asks again when it has the whole reply to a request with
\* keep-alive.
MayAsk ==
    asked # <<>> /\ ~Pipelined =>
        Last(asked).keep /\ Last(asked).uri \in Uris /\ Received = Replies(asked)

Ask ==
    /\ Len(asked) < MaxRequests /\ ~destroyed /\ MayAsk
    /\ \E uri \in Uris \cup {"missing"}, keep \in BOOLEAN :
          /\ asked' = Append(asked, [uri |-> uri, keep |-> keep])
          /\ coming' = coming \o
                Pieces(Request(uri, IF keep THEN <<KeepAlive>> ELSE <<>>) \o Trailer)
    /\ UNCHANGED <<vars, parser, readBuf, arrived, running, died, what, keepAlive>>

-----------------------------------------------------------------------------
(* handleReadEvent: the iterations of its loop.                             *)

Reading == pc = "readcb" /\ running

NothingToParse ==
    /\ Reading /\ readBuf = <<>>
    /\ Done
    /\ NothingSent
    /\ UNCHANGED <<parser, inputVars, died, serverVars>>

Parsed == ParseRequest(parser, readBuf)

ParseAborts ==
    /\ Reading /\ readBuf # <<>> /\ Dies(Parsed)
    /\ Aborts
    /\ UNCHANGED <<arrived, coming, serverVars>>

Consume == parser' = Parsed /\ Retrieve(Parsed) /\ UNCHANGED <<arrived, coming, died>>

\* The request is not complete; or it is wrong, and the reply, Reply::Error(404),
\* is empty and send() returns, with the handler that would close; or there is no
\* such file.
ParseEnds ==
    /\ Reading /\ readBuf # <<>> /\ ~Dies(Parsed)
    /\ isGood(Parsed) => Parsed.uri[1] \notin Uris
    /\ Consume /\ Done
    /\ NothingSent
    /\ UNCHANGED serverVars

SendHead == SendOut(FALSE, HeadLen, <<"head", Parsed.uri[1]>>)

\* Without keep-alive the loop ends and the parser is not cleared.
ServeLast ==
    /\ Reading /\ readBuf # <<>>
    /\ isGood(Parsed) /\ Parsed.uri[1] \in Uris
    /\ KeepAlive \notin Parsed.headers
    /\ SendHead
    /\ keepAlive' = FALSE
    /\ Consume /\ Done
    /\ UNCHANGED asked

\* With keep-alive the parser is cleared and the loop goes on.
Serve ==
    /\ Reading /\ readBuf # <<>>
    /\ isGood(Parsed) /\ Parsed.uri[1] \in Uris
    /\ KeepAlive \in Parsed.headers
    /\ SendHead
    /\ Retrieve(Parsed) /\ parser' = NewRequest
    /\ UNCHANGED <<running, arrived, coming, died, serverVars>>

-----------------------------------------------------------------------------
(* The completion handlers, and handleErroEvent.                            *)

\* The head is out: the file it announced.
HeadSent ==
    /\ pc = "bufcb" /\ running
    /\ LET uri == what[Last(calls)][2] IN SendOut(TRUE, Size[uri], <<"file", uri>>)
    /\ Done
    /\ UNCHANGED <<parser, inputVars, died, serverVars>>

FileSent ==
    /\ pc = "filecb" /\ running
    /\ IF keepAlive THEN NothingSent ELSE DestroyLater /\ UNCHANGED what
    /\ Done
    /\ UNCHANGED <<parser, inputVars, died, serverVars>>

ErroHandled ==
    /\ pc = "errocb" /\ running
    /\ Destroy
    /\ Done
    /\ UNCHANGED <<parser, inputVars, died, what, serverVars>>

ServerCode ==
    \/ NothingToParse \/ ParseAborts \/ ParseEnds \/ Serve \/ ServeLast
    \/ HeadSent \/ FileSent \/ ErroHandled

ServerNext == ServerCode \/ Ask \/ (ConnectionSteps /\ UNCHANGED serverVars)

-----------------------------------------------------------------------------

\* The client gets the replies it asked for, whole and in order, and nothing else.
RepliesInOrder == IsPrefix(Received, Replies(asked))

\* The connection is closed on purpose only when the last reply is out, once, and
\* while it exists (destroyLater posts a plain pointer).
ClosedWhenOut == later => ~destroyed /\ Received = Replies(asked)

\* A request that has come in whole is answered unless the connection fails, with
\* nothing if it asks for a file that does not exist.
ServerAnswered == Received = Replies(asked) \/ destroyed

\* Each has had the head of a reply.
HeadPerRequest ==
    destroyed \/ Len(SelectSeq(Received, LAMBDA b : b[1] = "head")) = Len(asked) * HeadLen
=============================================================================
