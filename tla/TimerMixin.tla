----------------------------- MODULE TimerMixin -----------------------------
(***************************************************************************)
(* The timers of an object that is a TimerMixin (a Connection): it keeps   *)
(* the TimerHolders, and the timers wait in the TimerQueue of the loop     *)
(* whose thread CONSTRUCTED the object.  A Connection that a TcpServer     *)
(* accepts is constructed on loop 0 and lives on another loop.             *)
(*                                                                         *)
(* The other objects of that loop keep timers in the same queue: the       *)
(* timers that are not in own are theirs.  The races of two threads on the *)
(* queue itself are left out: what matters is when the object ends.  The   *)
(* application makes no timer for the object after destroy().              *)
(***************************************************************************)
EXTENDS TimerQueue

CONSTANT SameLoop   \* the object lives on the loop it was constructed on

ASSUME SameLoopAssumption == SameLoop \in BOOLEAN

VARIABLES
    owner,      \* alive; destroyed (but referenced); freed
    refs,       \* the application keeps a ConnPtr of its own
    own         \* the timers made for the object

mixinVars == <<owner, refs, own>>
allVars == <<vars, mixinVars>>

MixinTypeOK ==
    /\ TypeOK
    /\ owner \in {"alive", "destroyed", "freed"} /\ refs \in BOOLEAN
    /\ own \subseteq Timers

MixinInit == Init /\ owner = "alive" /\ refs \in BOOLEAN /\ own = {}

-----------------------------------------------------------------------------
(* The object's own thread.                                                *)

\* On one loop the object's code runs between the timers or inside a handler.
CanRun == SameLoop => UserCode

\* runAt, runAfter, runEvery.
MakeTimer ==
    \/ \E d \in Delays \cup {-p : p \in Pasts} : RunAt(d)
    \/ \E p \in Periods : RunEvery(p)

RunTimer ==
    /\ owner = "alive"
    /\ MakeTimer
    /\ own' = own \cup {Len(period) + 1}
    /\ UNCHANGED <<owner, refs>>

MixinCancelTimer ==
    /\ owner # "freed"
    /\ \E t \in held \cap own : CancelTimer(t)
    /\ UNCHANGED mixinVars

CancelAllTimer ==
    /\ CanRun /\ owner # "freed" /\ held \cap own # {}
    /\ held' = held \ own
    /\ UNCHANGED <<heap, period, ran, armed, pc, lag, mixinVars>>

\* The last reference goes: ~TimerMixin destroys the holders.
Freed == owner' = "freed" /\ held' = held \ own

\* Connection::destroy: self_.reset() and nothing about timers.
Destroy ==
    /\ CanRun /\ owner = "alive"
    /\ IF refs THEN owner' = "destroyed" /\ UNCHANGED held ELSE Freed
    /\ UNCHANGED <<heap, period, ran, armed, pc, lag, refs, own>>

\* The application lets its ConnPtr go.
DropRef ==
    /\ CanRun /\ refs
    /\ refs' = FALSE
    /\ IF owner = "destroyed" THEN Freed ELSE UNCHANGED <<owner, held>>
    /\ UNCHANGED <<heap, period, ran, armed, pc, lag, own>>

-----------------------------------------------------------------------------

\* Another object's timer, made or cancelled whatever has become of this one.
OthersTimer ==
    /\ MakeTimer \/ \E t \in held \ own : CancelTimer(t)
    /\ UNCHANGED mixinVars

QueueHandling == Handling /\ UNCHANGED mixinVars
QueueTick == Tick /\ UNCHANGED mixinVars

MixinNext ==
    \/ RunTimer \/ MixinCancelTimer \/ CancelAllTimer \/ Destroy \/ DropRef
    \/ OthersTimer \/ QueueHandling \/ QueueTick

\* As in TimerQueue: time passes, the loop polls, and handlers return.
MixinSpec ==
    /\ MixinInit /\ [][MixinNext]_allVars
    /\ WF_allVars(QueueTick) /\ WF_allVars(QueueHandling)
    /\ WF_allVars(HandlerReturns /\ UNCHANGED mixinVars)

-----------------------------------------------------------------------------
(* Properties                                                              *)

MixinInv == MixinTypeOK /\ ArmedForRoot

StartsHandler == pc = "handle" /\ pc' = "handler"

\* A one-shot timer runs at most once, no timer runs before its time, none runs
\* once cancelled, even within the batch it was due in - and a handler of the object,
\* which holds it by a plain reference, is started only while the object exists.
StartedRightly ==
    [][StartsHandler =>
           /\ Min.due <= 0
           /\ Min.id \in held
           /\ period[Min.id] = 0 => Min.id \notin ran
           /\ Min.id \in own => owner # "freed"]_allVars

\* What a freed object left in the queue, where only the root is ever taken out, goes
\* out of it - unless some other object keeps a periodic timer in the same queue: by
\* the order of TimerQueue.h:91 an entry may stay below that one for ever.
EntriesGoWithOwner ==
    (owner = "freed") ~> \/ \A i \in 1 .. Len(heap) : heap[i].id \notin own
                         \/ \E t \in held : period[t] # 0

\* (With any other object's periodic timer the exception above is needed.)
EntriesAlwaysGo ==
    (owner = "freed") ~> \A i \in 1 .. Len(heap) : heap[i].id \notin own

\* README.md:46, "timers bound to conn are cancelled automatically when conn is
\* destructed or destroy is called": no handler of the object starts after destroy().
DestroyCancels ==
    [][StartsHandler /\ Min.id \in own => owner = "alive"]_allVars

\* README.md:46, "timers bound to conn are cancelled automatically when conn is
\* destructed": while a handler of the object runs nobody but the handler itself,
\* on its own thread, ends the object.
OwnerOutlivesHandler ==
    pc = "handler" /\ Min.id \in own /\ ~SameLoop => owner # "freed"
=============================================================================
