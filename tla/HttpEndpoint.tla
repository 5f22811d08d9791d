---------------------------- MODULE HttpEndpoint ----------------------------
(***************************************************************************)
(* What HttpServer and HttpClient have in common: a Connection with its    *)
(* read buffer, a parser on it, and a peer whose bytes arrive in pieces.   *)
(* A callback of theirs runs, in one step or several, when the Connection  *)
(* gets to it, and the Connection goes on when the callback has returned.  *)
(***************************************************************************)
EXTENDS Connection, HttpDef

CONSTANTS
    AnySplit    \* a piece of input may end anywhere, not only at the end of a line

ASSUME SplitAssumption == AnySplit \in BOOLEAN

VARIABLES
    parser,     \* the RequestParser or the ReplyParser
    readBuf,    \* readBuf_
    arrived,    \* bytes in the socket
    coming,     \* what the peer has still to send: the pieces it goes out in
    running,    \* the callback's code has not returned
    died,       \* the process has ended on an assertion or an exception
    what        \* history: what each task that was sent is or is for

inputVars == <<readBuf, arrived, coming>>
endpointVars == <<parser, inputVars, running, died, what>>

EndpointInit ==
    /\ Init
    /\ readBuf = <<>> /\ arrived = <<>> /\ coming = <<>>
    /\ running = FALSE /\ died = FALSE
    /\ what = <<>>

\* An endpoint in use has a task for every entry of what.
EndpointOK ==
    /\ running \in BOOLEAN /\ died \in BOOLEAN
    /\ running => pc \in UserCode
    /\ readable <=> arrived # <<>>
    /\ Len(what) = Len(sent)

\* The pieces of a message that goes out.
Pieces(lines) ==
    IF AnySplit THEN [i \in DOMAIN FlattenSeq(lines) |-> <<FlattenSeq(lines)[i]>>]
                ELSE lines

\* A step of the Connection: of its own code or of its loop.
Step(A) ==
    /\ A
    /\ pc \in UserCode => ~running
    /\ running' = (pc' \in UserCode)
    /\ UNCHANGED <<parser, inputVars, died, what>>

\* The bytes go out in pieces; a read gets what has arrived by then.
PeerWrites ==
    /\ coming # <<>>
    /\ \E n \in DOMAIN coming :
          /\ arrived' = arrived \o FlattenSeq(SubSeq(coming, 1, n))
          /\ coming' = SubSeq(coming, n + 1, Len(coming))
    /\ readable' = TRUE
    /\ UNCHANGED <<conn, pc, ret, input, sent, wire, calls>>
    /\ UNCHANGED <<parser, readBuf, running, died, what>>

\* handleReadEvent: the bytes are appended and the callback is called; or the
\* connection has failed.
Read ==
    /\ ReadEvent
    /\ pc' # "tick"
    /\ readBuf' = readBuf \o arrived
    /\ arrived' = <<>>
    /\ running' = TRUE
    /\ UNCHANGED <<parser, coming, died, what>>

\* The callback returns.
Done == running' = FALSE

\* conn.send() or sendFile() of x.
SendOut(file, len, x) ==
    /\ Send(file, len, TRUE)
    /\ what' = Append(what, x)

NothingSent == UNCHANGED <<conn, pc, ret, peer, sent, wire, calls, what>>

\* readBuf.retrieve(parser.bytes_ - savedBytes): more than there is takes all.
Retrieve(p) ==
    readBuf' = SubSeq(readBuf, p.bytes - parser.bytes + 1, Len(readBuf))

Aborts == died' = TRUE /\ UNCHANGED <<parser, readBuf, running>> /\ NothingSent

ConnectionSteps ==
    \/ Step(ErroEvent) \/ Step(WritEvent) \/ Step(LoopSteps)
    \/ Read \/ PeerWrites
=============================================================================
