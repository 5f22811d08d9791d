----------------------------- MODULE Connection -----------------------------
(***************************************************************************)
(* A TCP connection on its loop: the queue of output tasks (buffers and    *)
(* files), the interest in writability, the three event handlers, and the  *)
(* application code that runs inside callbacks and may send, stop reading, *)
(* destroy the connection at once or at the end of the event.              *)
(*                                                                         *)
(* One byte of output is the number of its task.  The kernel takes any     *)
(* prefix of what it is offered, answers EAGAIN, or fails.                 *)
(*                                                                         *)
(* The application is assumed to send nothing after destroy() (chan_ is    *)
(* null then), to leave enableWrit() to the library, and to keep a ConnPtr *)
(* until a destroyLater() it asked for has run.                            *)
(***************************************************************************)
EXTENDS Integers, SequencesExt

CONSTANTS
    Lens,                  \* lengths of a buffer or a file
    MaxTasks,              \* tasks sent in all (a bound)
    MaxInput,              \* bursts of data the peer sends (a bound)
    IovMax,                \* buffers one writev takes (IOV_MAX)
    FileHandlersMayDestroy \* handlers given to sendFile may call destroy()

ASSUME LensAssumption == Lens \subseteq Nat
ASSUME BoundsAssumption == MaxTasks \in Nat /\ MaxInput \in Nat
ASSUME IovAssumption == IovMax \in Nat \ {0}
ASSUME FlagAssumption == FileHandlersMayDestroy \in BOOLEAN

VARIABLES
    tasks,      \* writTasks_
    destroyed,  \* destroy_
    wantIn,     \* the channel's interest in EPOLLIN
    wantOut,    \* and in EPOLLOUT
    later,      \* destroy() is among the next-tick handlers
    pc,         \* where the loop's thread is, as far as this connection goes
    ret,        \* bytes of the last writev not yet accounted for
    readable,   \* data waits in the socket
    input,      \* bursts the peer may still send
    sent,       \* history: every task sent, as it was sent
    wire,       \* history: the bytes the kernel took, in order
    calls       \* history: the tasks whose handler was called, in order

conn == <<tasks, destroyed, wantIn, wantOut, later>>
peer == <<readable, input>>
vars == <<conn, pc, ret, peer, sent, wire, calls>>

\* Where application code runs: handlers of buffers and of files, the read and
\* the error callback, and anything else on the same loop.
UserCode == {"bufcb", "filecb", "readcb", "errocb", "othercb"}

Task == [id: Nat, file: BOOLEAN, left: Nat, handler: BOOLEAN]

TypeOK ==
    /\ tasks \in Seq(Task) /\ sent \in Seq(Task)
    /\ destroyed \in BOOLEAN /\ later \in BOOLEAN
    /\ wantIn \in BOOLEAN /\ wantOut \in BOOLEAN
    /\ pc \in {"idle", "writ", "acct", "tick"} \cup UserCode
    /\ ret \in Nat
    /\ readable \in BOOLEAN /\ input \in 0 .. MaxInput
    /\ wire \in Seq(Nat) /\ calls \in Seq(Nat)

\* As init() and init1() leave it.
Init ==
    /\ tasks = <<>> /\ destroyed = FALSE /\ later = FALSE
    /\ wantIn = TRUE /\ wantOut = FALSE
    /\ pc = "idle" /\ ret = 0
    /\ readable = FALSE /\ input = MaxInput
    /\ sent = <<>> /\ wire = <<>> /\ calls = <<>>

-----------------------------------------------------------------------------
(* Bytes and tasks.                                                        *)

Copies(task) == [j \in 1 .. task.left |-> task.id]

Bytes(ts) == FlattenSeq([i \in DOMAIN ts |-> Copies(ts[i])])

\* The tasks with a completion handler.
WithHandler(ts) ==
    FlattenSeq([i \in DOMAIN ts |-> IF ts[i].handler THEN <<ts[i].id>> ELSE <<>>])

\* The buffers at the head of the queue: what one writev is given.
Bufs(ts) == SelectInSeq(ts, LAMBDA t: t.file)
LeadingBufs(ts) == IF Bufs(ts) = 0 THEN ts ELSE SubSeq(ts, 1, Bufs(ts) - 1)

\* (Mutant of Retrieved: the bytes taken from a partly written task stay.)
NotRetrieved(ts, n) == ts

Retrieved(ts, n) == [ts EXCEPT ![1].left = @ - n]

-----------------------------------------------------------------------------
(* What application code calls.                                            *)

\* (Mutant of Send: no enableWrit() for what the read callback sends.)
SendQuietly(file, len, handler) ==
    /\ pc \in UserCode /\ ~destroyed
    /\ LET t == [id |-> Len(sent) + 1, file |-> file, left |-> len,
                 handler |-> handler]
       IN tasks' = Append(tasks, t) /\ sent' = Append(sent, t)
    /\ wantOut' = (wantOut \/ pc # "readcb")
    /\ UNCHANGED <<destroyed, wantIn, later, pc, ret, peer, wire, calls>>

\* send and sendFile.
Send(file, len, handler) ==
    /\ pc \in UserCode /\ ~destroyed
    /\ LET t == [id |-> Len(sent) + 1, file |-> file, left |-> len,
                 handler |-> handler]
       IN tasks' = Append(tasks, t) /\ sent' = Append(sent, t)
    /\ wantOut' = TRUE
    /\ UNCHANGED <<destroyed, wantIn, later, pc, ret, peer, wire, calls>>

\* enableRead
EnableRead ==
    /\ pc \in UserCode /\ ~destroyed
    /\ wantIn' = ~wantIn
    /\ UNCHANGED <<tasks, destroyed, wantOut, later, pc, ret, peer, sent, wire, calls>>

\* destroy(): the channel is removed, the tasks go with their handlers.
Destroyed ==
    /\ destroyed' = TRUE
    /\ tasks' = <<>>
    /\ wantIn' = FALSE /\ wantOut' = FALSE

Destroy ==
    /\ pc \in UserCode
    /\ pc = "filecb" => FileHandlersMayDestroy
    /\ Destroyed
    /\ UNCHANGED <<later, pc, ret, peer, sent, wire, calls>>

DestroyLater ==
    /\ pc \in UserCode /\ ~destroyed
    /\ later' = TRUE
    /\ UNCHANGED <<tasks, destroyed, wantIn, wantOut, pc, ret, peer, sent, wire, calls>>

-----------------------------------------------------------------------------
(* Events: an error first, then input, then output.                        *)

Goto(l) == pc' = l /\ UNCHANGED <<ret, sent, calls>>

OtherEvent ==
    /\ pc = "idle"
    /\ Goto("othercb")
    /\ UNCHANGED <<conn, peer, wire>>

PeerSends ==
    /\ input > 0
    /\ input' = input - 1
    /\ readable' = TRUE
    /\ UNCHANGED <<conn, pc, ret, sent, wire, calls>>

\* EPOLLRDHUP or EPOLLERR: the channel's error callback.
ErroEvent ==
    /\ pc = "idle" /\ ~destroyed
    /\ Goto("errocb")
    /\ UNCHANGED <<conn, peer, wire>>

\* handleReadEvent: data and the callback; EAGAIN; or the end of the stream
\* and failure, both handleErroEvent.
ReadEvent ==
    /\ pc = "idle" /\ wantIn /\ readable
    /\ readable' = FALSE
    /\ \/ Goto("readcb")
       \/ Goto("tick")
       \/ Goto("errocb")
    /\ UNCHANGED <<conn, input, wire>>

\* (Mutant of WritEvent: the interest is given up at every event.)
WritEventOnce ==
    /\ pc = "idle" /\ wantOut
    /\ ~(wantIn /\ readable)
    /\ wantOut' = FALSE
    /\ Goto("writ")
    /\ UNCHANGED <<tasks, destroyed, wantIn, later, peer, wire>>

\* handleWritEvent.  The DeferCaller is a temporary: its functor runs here and
\* not when the function returns.
WritEvent ==
    /\ pc = "idle" /\ wantOut
    /\ ~(wantIn /\ readable)
    /\ wantOut' = (tasks # <<>>)
    /\ Goto("writ")
    /\ UNCHANGED <<tasks, destroyed, wantIn, later, peer, wire>>

-----------------------------------------------------------------------------
(* The loop of handleWritEvent.                                            *)

NothingToWrite ==
    /\ pc = "writ" /\ tasks = <<>>
    /\ Goto("tick")
    /\ UNCHANGED <<conn, peer, wire>>

\* sendfile or writev has no room.
NoRoom ==
    /\ pc = "writ" /\ tasks # <<>>
    /\ IF Head(tasks).file THEN Head(tasks).left > 0
                           ELSE /\ Bytes(LeadingBufs(tasks)) # <<>>
                                /\ Len(LeadingBufs(tasks)) <= IovMax
    /\ Goto("tick")
    /\ UNCHANGED <<conn, peer, wire>>

\* sendfile or writev fails (more than IovMax buffers: EINVAL), or takes nothing
\* because there is nothing: an empty or truncated file, only empty buffers.
WritFails ==
    /\ pc = "writ" /\ tasks # <<>>
    /\ Goto("errocb")
    /\ UNCHANGED <<conn, peer, wire>>

\* sendfile took n bytes.
SendFile ==
    /\ pc = "writ" /\ tasks # <<>> /\ Head(tasks).file
    /\ \E n \in 1 .. Head(tasks).left :
         /\ wire' = wire \o SubSeq(Copies(Head(tasks)), 1, n)
         /\ \/ /\ n = Head(tasks).left /\ Head(tasks).handler
               /\ calls' = Append(calls, Head(tasks).id)
               /\ pc' = "filecb" /\ UNCHANGED tasks
            \/ /\ n = Head(tasks).left /\ ~Head(tasks).handler
               /\ tasks' = Tail(tasks)
               /\ UNCHANGED <<pc, calls>>
            \/ /\ n < Head(tasks).left
               /\ tasks' = Retrieved(tasks, n)
               /\ pc' = "tick" /\ UNCHANGED calls
    /\ UNCHANGED <<destroyed, wantIn, wantOut, later, ret, peer, sent>>

\* writev took n bytes of the leading buffers.
Writev ==
    /\ pc = "writ" /\ tasks # <<>> /\ ~Head(tasks).file
    /\ Len(LeadingBufs(tasks)) <= IovMax
    /\ LET offered == Bytes(LeadingBufs(tasks))
       IN \E n \in 1 .. Len(offered) :
            /\ wire' = wire \o SubSeq(offered, 1, n)
            /\ ret' = n
    /\ pc' = "acct"
    /\ UNCHANGED <<conn, peer, sent, calls>>

\* (Mutant of Account: every task is taken for a completely written one.)
AccountWhole ==
    /\ pc = "acct" /\ ret > 0 /\ tasks # <<>>
    /\ ret' = ret - Head(tasks).left
    /\ IF Head(tasks).handler
       THEN calls' = Append(calls, Head(tasks).id) /\ pc' = "bufcb" /\ UNCHANGED tasks
       ELSE tasks' = Tail(tasks) /\ UNCHANGED <<pc, calls>>
    /\ UNCHANGED <<destroyed, wantIn, wantOut, later, peer, sent, wire>>

\* One round of while (ret > 0).
Account ==
    /\ pc = "acct" /\ ret > 0 /\ tasks # <<>>
    /\ LET first == Head(tasks)
       IN \/ /\ first.left <= ret /\ first.handler
             /\ ret' = ret - first.left
             /\ calls' = Append(calls, first.id)
             /\ pc' = "bufcb" /\ UNCHANGED tasks
          \/ /\ first.left <= ret /\ ~first.handler
             /\ ret' = ret - first.left
             /\ tasks' = Tail(tasks)
             /\ UNCHANGED <<pc, calls>>
          \/ /\ first.left > ret
             /\ tasks' = Retrieved(tasks, ret)
             /\ ret' = 0
             /\ pc' = "tick" /\ UNCHANGED calls
    /\ UNCHANGED <<destroyed, wantIn, wantOut, later, peer, sent, wire>>

Accounted ==
    /\ pc = "acct" /\ ret = 0
    /\ Goto("writ")
    /\ UNCHANGED <<conn, peer, wire>>

\* After the handler of a buffer: return if it destroyed the connection.
BufHandlerReturns ==
    /\ pc = "bufcb"
    /\ IF destroyed
       THEN pc' = "tick" /\ ret' = 0 /\ UNCHANGED tasks
       ELSE pc' = "acct" /\ tasks' = Tail(tasks) /\ UNCHANGED ret
    /\ UNCHANGED <<destroyed, wantIn, wantOut, later, peer, sent, wire, calls>>

\* After the handler of a file: pop_front whatever the handler did.
FileHandlerReturns ==
    /\ pc = "filecb" /\ tasks # <<>>
    /\ pc' = "writ"
    /\ tasks' = Tail(tasks)
    /\ UNCHANGED <<destroyed, wantIn, wantOut, later, ret, peer, sent, wire, calls>>

\* The other callbacks return; the error callback is followed by destroy().
CallbackReturns ==
    /\ pc \in {"readcb", "othercb"}
    /\ Goto("tick")
    /\ UNCHANGED <<conn, peer, wire>>

ErroReturns ==
    /\ pc = "errocb"
    /\ Destroyed
    /\ Goto("tick")
    /\ UNCHANGED <<later, peer, wire>>

\* The end of the event: the next-tick handlers.
Tick ==
    /\ pc = "tick"
    /\ later' = FALSE
    /\ IF later THEN Destroyed ELSE UNCHANGED <<destroyed, tasks, wantIn, wantOut>>
    /\ Goto("idle")
    /\ UNCHANGED <<peer, wire>>

UserCalls ==
    \/ /\ Len(sent) < MaxTasks
       /\ \E file, handler \in BOOLEAN, len \in Lens : Send(file, len, handler)
    \/ EnableRead
    \/ Destroy
    \/ DestroyLater

Returns == BufHandlerReturns \/ FileHandlerReturns \/ CallbackReturns \/ ErroReturns

Progress == SendFile \/ Writev

LoopSteps == NothingToWrite \/ NoRoom \/ WritFails \/ Progress \/ Account
             \/ Accounted \/ Returns \/ Tick

Next ==
    \/ UserCalls
    \/ OtherEvent \/ ErroEvent \/ ReadEvent \/ WritEvent
    \/ LoopSteps
    \/ PeerSends

\* The thread goes on and callbacks return; a ready descriptor is reported in
\* spite of other events; the peer takes some of the output now and then.
Fairness ==
    /\ WF_vars(LoopSteps) /\ WF_vars(Returns)
    /\ SF_vars(ReadEvent) /\ SF_vars(WritEvent)
    /\ SF_vars(Progress)

Spec == Init /\ [][Next]_vars /\ Fairness

-----------------------------------------------------------------------------
(* Properties.                                                             *)

\* What was sent, in the order it was sent, is what the kernel takes: no byte of
\* a buffer or a file is dropped, repeated or overtaken across partial writes,
\* writes that span several tasks, and sends from inside handlers.  Between two
\* writes the rest of the bytes is exactly what the queue still holds.
StreamIntact ==
    /\ IsPrefix(wire, Bytes(sent))
    /\ ~destroyed /\ pc \notin {"acct", "bufcb", "filecb"} =>
         wire \o Bytes(tasks) = Bytes(sent)

\* A handler is called at most once, in the order of the sends, and only when
\* every byte of its task and of those before it is with the kernel; once the
\* task has left the queue of a live connection the handler has been called.
HandlersInOrder ==
    /\ IsPrefix(calls, WithHandler(sent))
    /\ \A i \in DOMAIN calls :
         Len(Bytes(SubSeq(sent, 1, calls[i]))) <= Len(wire)
    /\ ~destroyed /\ pc \notin {"bufcb", "filecb"} =>
         calls \o WithHandler(tasks) = WithHandler(sent)

\* Output that waits is output the poller watches for.
WriteInterest == ~destroyed /\ tasks # <<>> => wantOut

\* handleWritEvent never takes the front of an empty deque: the bytes it still
\* has to account for, and the task whose handler it has just called, are there.
HeadExists ==
    /\ pc = "acct" /\ ret > 0 => tasks # <<>>
    /\ pc = "filecb" => tasks # <<>>

ConnectionInv == TypeOK /\ WriteInterest /\ HeadExists
=============================================================================
