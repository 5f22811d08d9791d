----------------------------- MODULE HttpClient -----------------------------
(***************************************************************************)
(* HttpClient: requests that wait (before the connection is made, or for   *)
(* the completion of the one before), requests that were sent and wait for *)
(* their replies, and the loop that parses replies and calls handlers.     *)
(* It does not wait for a reply before it sends the next request.          *)
(*                                                                         *)
(* The server answers every request in order.  User code calls get() and   *)
(* destroy() on the client's loop: in reply handlers and elsewhere.        *)
(***************************************************************************)
EXTENDS HttpEndpoint, TLC

CONSTANTS
    MaxGets,        \* calls of get() (a bound)
    DestroyEarly,   \* destroy() may be called while requests are being written
    Cuts            \* where replies may be cut, besides after their heads if a body
                    \* follows: nowhere, or after the status line, or before the
                    \* empty line of one that has no body, or within the body

VARIABLES
    requestLists,       \* requestLists_
    sendReqeustLists,   \* sendReqeustLists_
    connected,          \* http_conn_ is not null
    gets,               \* calls of get()
    lost,               \* http_client_ is null: the client has been destroyed
    replied,            \* requests the server has answered
    answers,            \* history: per handler called, its request and the content
    cut                 \* the one of Cuts where this network cuts replies

lists == <<requestLists, sendReqeustLists>>
clientVars == <<lists, connected, gets, lost, replied, answers>>

RequestLen == 1

\* The content of the reply to request r: of two bytes, none, one, ...
Body(r) == [i \in 1 .. (r + 1) % 3 |-> ToString(r)]

ClientInit ==
    /\ EndpointInit
    /\ parser = NewReply
    /\ requestLists = <<>> /\ sendReqeustLists = <<>>
    /\ connected = FALSE /\ lost = FALSE
    /\ gets = 0 /\ replied = 0
    /\ cut \in Cuts
    /\ answers = <<>>

-----------------------------------------------------------------------------


\* sendRequest, with reqs in the list.
SendRequest(reqs) ==
    /\ SendOut(FALSE, RequestLen, Head(reqs))
    /\ sendReqeustLists' = Append(sendReqeustLists, Head(reqs))
    /\ requestLists' = Tail(reqs)

MayGet == gets < MaxGets

MayDestroy == DestroyEarly \/ tasks = <<>>

\* get()
GetNow ==
    /\ MayGet
    /\ gets' = gets + 1
    /\ IF connected THEN SendRequest(Append(requestLists, gets + 1))
       ELSE /\ requestLists' = Append(requestLists, gets + 1)
            /\ NothingSent /\ UNCHANGED sendReqeustLists
    /\ UNCHANGED <<connected, lost>>

\* destroy()
DestroyNow ==
    /\ MayDestroy
    /\ requestLists' = <<>>
    /\ connected' = FALSE /\ lost' = TRUE
    /\ NothingSent
    /\ UNCHANGED <<sendReqeustLists, gets>>

\* Some other handler on the loop: a call of get() or destroy(), or the handler
\* of the connector.
Elsewhere ==
    /\ pc = "idle" /\ ~destroyed
    /\ MayGet \/ MayDestroy \/ ~(connected \/ lost)
    /\ Goto("othercb")
    /\ running' = TRUE
    /\ UNCHANGED <<conn, peer, wire, parser, inputVars, died, what, clientVars>>

\* handleConnection
HandleConnection ==
    /\ ~connected /\ ~lost
    /\ connected' = TRUE
    /\ IF requestLists = <<>> THEN NothingSent /\ UNCHANGED lists
                              ELSE SendRequest(requestLists)
    /\ UNCHANGED <<gets, lost>>

CalledElsewhere ==
    /\ pc = "othercb" /\ running
    /\ GetNow \/ DestroyNow \/ HandleConnection
    /\ Done
    /\ UNCHANGED <<parser, inputVars, died, replied, answers>>

\* The completion handler of a request: http_conn_->enableRead(), which must not
\* be null, and the next request.
RequestSent ==
    /\ pc = "bufcb" /\ running
    /\ IF ~connected THEN Aborts /\ UNCHANGED lists
       ELSE /\ Done
            /\ IF requestLists = <<>> THEN NothingSent /\ UNCHANGED lists
                                      ELSE SendRequest(requestLists)
            /\ UNCHANGED <<parser, readBuf, died>>
    /\ UNCHANGED <<arrived, coming, connected, gets, lost, replied, answers>>

ErroHandled ==
    /\ pc = "errocb" /\ running
    /\ requestLists' = <<>> /\ connected' = FALSE /\ lost' = TRUE
    /\ Done
    /\ NothingSent
    /\ UNCHANGED <<parser, inputVars, died, sendReqeustLists, gets, replied, answers>>

-----------------------------------------------------------------------------
(* handleReadEvent: the iterations of its loop.                             *)

Reading == pc = "readcb" /\ running

NothingToParse ==
    /\ Reading /\ readBuf = <<>>
    /\ Done
    /\ NothingSent
    /\ UNCHANGED <<parser, inputVars, died, clientVars>>

Parsed == ParseReply(parser, readBuf)

\* An assertion, an exception of stoi, or front() of an empty list.
ParseAborts ==
    /\ Reading /\ readBuf # <<>>
    /\ Dies(Parsed) \/ (isGood(Parsed) /\ sendReqeustLists = <<>>)
    /\ Aborts
    /\ UNCHANGED <<arrived, coming, clientVars>>

Consume == Retrieve(Parsed) /\ UNCHANGED <<arrived, coming, died>>

ParseFails ==
    /\ Reading /\ readBuf # <<>> /\ isError(Parsed)
    /\ parser' = Parsed /\ Consume
    /\ requestLists' = <<>> /\ connected' = FALSE /\ lost' = TRUE
    /\ Done
    /\ NothingSent
    /\ UNCHANGED <<sendReqeustLists, gets, replied, answers>>

\* The loop goes round again, also when there is no progress.
ParseGoesOn ==
    /\ Reading /\ readBuf # <<>>
    /\ ~Dies(Parsed) /\ ~isError(Parsed) /\ ~isGood(Parsed)
    /\ parser' = Parsed /\ Consume
    /\ NothingSent
    /\ UNCHANGED <<running, clientVars>>

\* (Mutant of ReplyParsed: the parser is not cleared.)
ReplyParsedUncleared ==
    /\ Reading /\ readBuf # <<>> /\ isGood(Parsed) /\ sendReqeustLists # <<>>
    /\ answers' = Append(answers, [req |-> Head(sendReqeustLists),
                                   content |-> Parsed.content])
    /\ parser' = Parsed /\ Consume
    /\ sendReqeustLists' = Tail(sendReqeustLists)
    /\ NothingSent
    /\ UNCHANGED <<running, requestLists, connected, gets, lost, replied>>

\* The handler of the first request that waits, which may call get() or
\* destroy(); then the parser is cleared and the request is taken out.
ReplyParsed ==
    /\ Reading /\ readBuf # <<>> /\ isGood(Parsed) /\ sendReqeustLists # <<>>
    /\ answers' = Append(answers, [req |-> Head(sendReqeustLists),
                                   content |-> Parsed.content])
    /\ parser' = NewReply /\ Consume
    /\ \/ /\ sendReqeustLists' = Tail(sendReqeustLists)
          /\ NothingSent
          /\ UNCHANGED <<requestLists, connected, gets, lost>>
       \/ /\ MayGet /\ connected
          /\ gets' = gets + 1
          /\ LET reqs == Append(requestLists, gets + 1)
             IN /\ SendOut(FALSE, RequestLen, Head(reqs))
                /\ sendReqeustLists' = Append(Tail(sendReqeustLists), Head(reqs))
                /\ requestLists' = Tail(reqs)
          /\ UNCHANGED <<connected, lost>>
       \/ /\ MayDestroy
          /\ requestLists' = <<>> /\ connected' = FALSE /\ lost' = TRUE
          /\ sendReqeustLists' = Tail(sendReqeustLists)
          /\ NothingSent
          /\ UNCHANGED gets
    /\ UNCHANGED <<running, replied>>

-----------------------------------------------------------------------------
(* The server: it has request i once all of its bytes are out.  The parser  *)
(* takes a head that says there is no body for the whole reply, and what is *)
(* left of it then for a wrong one.                                         *)

Arrived(i) ==
    /\ i \in DOMAIN sent
    /\ Len(SelectSeq(wire, LAMBDA b : b = i)) = RequestLen

\* first before the pieces of rest, on its own or together with the first of them.
Before(rest, apart, first) ==
    IF apart THEN <<first>> \o rest ELSE <<first \o Head(rest)>> \o Tail(rest)

\* A reply as it arrives.
Lines(body) ==
    LET text == CASE body = <<>> -> <<>>
                  [] body # <<>> /\ cut = "body" -> [i \in DOMAIN body |-> <<body[i]>>]
                  [] OTHER -> <<body>>
        end == Before(<<EOL>> \o text, cut = "empty" \/ body # <<>>, LengthLine(Len(body)))
    IN  Before(end, cut = "status", StatusLine)

ServerReplies ==
    /\ Arrived(replied + 1) /\ ~destroyed
    /\ replied' = replied + 1
    /\ coming' = coming \o Pieces(Lines(Body(what[replied + 1])))
    /\ UNCHANGED <<vars, parser, readBuf, arrived, running, died, what>>
    /\ UNCHANGED <<lists, connected, gets, lost, answers>>

ClientCode ==
    \/ CalledElsewhere \/ RequestSent \/ ErroHandled
    \/ NothingToParse \/ ParseAborts \/ ParseFails \/ ParseGoesOn \/ ReplyParsed

ClientNext ==
    \/ ClientCode \/ Elsewhere \/ ServerReplies
    \/ /\ connected \/ lost \/ pc # "idle"
       /\ ConnectionSteps /\ UNCHANGED clientVars

-----------------------------------------------------------------------------

\* Handlers are called in the order of get(), each with the content of its reply.
RepliesMatch ==
    answers = [i \in DOMAIN answers |-> [req |-> i, content |-> Body(i)]]

\* Every request is in one place: waiting to be sent, or sent and not answered,
\* or answered; in that order.
RequestsInOrder ==
    ~lost => [i \in DOMAIN answers |-> answers[i].req] \o sendReqeustLists \o requestLists
                = [i \in 1 .. gets |-> i]

\* Once connected, and unless it fails or is destroyed, every request is answered.
ClientAnswered == ~connected \/ lost \/ destroyed \/ Len(answers) = gets
=============================================================================
