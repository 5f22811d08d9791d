----------------------------- MODULE TimerQueue -----------------------------
(***************************************************************************)
(* TimerQueue and the timers of EventLoop and TimerMixin: a BinaryHeap of  *)
(* weak references with a copy of each timer's id and timeout, one timerfd *)
(* armed for some timeout, and handleTimeoutEvents.                        *)
(*                                                                         *)
(* Time is kept relative to the present: a timeout is the time left, a     *)
(* passing second takes one from each, and timeouts overdue by more than   *)
(* MaxOverdue are not told apart.  So the clock has no end.                *)
(***************************************************************************)
EXTENDS Integers, Sequences

CONSTANTS
    MaxTimers,     \* bound on the timers made
    Delays,        \* arguments of runAfter, and of runAt as time left
    Pasts,         \* how long ago the time given to runAt may be
    Periods,       \* arguments of runEvery
    MaxOverdue,    \* bound on how overdue a timeout is
    None           \* the timerfd is not armed

ASSUME TimerAssumption ==
    /\ MaxTimers \in Nat /\ MaxOverdue \in Nat
    /\ Delays \subseteq Nat /\ Periods \subseteq Nat \ {0} /\ Pasts \subseteq 0 .. MaxOverdue
    /\ \E d \in Delays \cup Periods : \A e \in Delays \cup Periods : e <= d
    /\ None \notin Int

VARIABLES
    heap,       \* queue_: [id, due] per entry, the heap's array
    period,     \* per timer made: 0, or what runEvery was given
    held,       \* the timers whose TimerHolder still exists
    ran,        \* history: the timers run at least once
    armed,      \* time left on the timerfd (0: readable), or None
    pc,         \* idle in the poller, in handleTimeoutEvents, or in a handler
    lag         \* time passed since handleTimeoutEvents read the clock

vars == <<heap, period, held, ran, armed, pc, lag>>

Timers == DOMAIN period
MaxDelay == CHOOSE d \in Delays \cup Periods : \A e \in Delays \cup Periods : e <= d
Dues == -MaxOverdue .. MaxDelay

TypeOK ==
    /\ \A i \in 1 .. Len(heap) : heap[i].id \in Timers /\ heap[i].due \in Dues
    /\ Len(period) <= MaxTimers
    /\ \A t \in Timers : period[t] \in Periods \cup {0}
    /\ held \subseteq Timers /\ ran \subseteq Timers
    /\ armed \in 0 .. MaxDelay \cup {None}
    /\ pc \in {"idle", "handle", "handler"}
    /\ lag \in 0 .. MaxOverdue

Init ==
    /\ heap = <<>> /\ period = <<>> /\ held = {} /\ ran = {}
    /\ armed = None /\ pc = "idle" /\ lag = 0

-----------------------------------------------------------------------------

\* (Mutant of EntryLess: by timeout, then by id.)
LexicographicLess(x, y) == x.due < y.due \/ (x.due = y.due /\ x.id < y.id)

\* operator< of WeakTimerHolder: earlier AND made earlier.
EntryLess(x, y) == x.due < y.due /\ x.id < y.id

H == INSTANCE BinaryHeap WITH Less <- EntryLess

AtLeast(x, y) == IF x < y THEN y ELSE x

\* timerfd_settime with an absolute time that has passed expires at once.  (It refuses
\* 10^9 nanoseconds and takes a time of zero as disarm: no time of the model is either.)
Armed(due) == AtLeast(due, 0)

Min == H!FindMin(heap)

\* (Mutant of Insert: the timerfd is set for the new timer in any case.)
InsertAndArm(t, due) ==
    /\ heap' = H!Insert(heap, [id |-> t, due |-> due])
    /\ armed' = Armed(due)

\* TimerQueue::insert: the timerfd is set only if the queue was empty.
Insert(t, due) ==
    /\ heap' = H!Insert(heap, [id |-> t, due |-> due])
    /\ armed' = IF heap = <<>> THEN Armed(due) ELSE armed

-----------------------------------------------------------------------------
(* What handlers, of timers or of other channels, do                        *)

UserCode == pc \in {"idle", "handler"}

\* A new timer, whose TimerHolder is kept; its id is the next number.
New(p, due) ==
    /\ UserCode
    /\ Len(period) < MaxTimers
    /\ period' = Append(period, p)
    /\ held' = held \cup {Len(period) + 1}
    /\ Insert(Len(period) + 1, due)
    /\ UNCHANGED <<ran, pc, lag>>

\* runAt and runAfter; runAt may name a time that has passed.
RunAt(d) == New(0, d)

\* runEvery puts the period itself in as the first timeout, a time long past.
RunEvery(p) == New(p, -MaxOverdue)

\* The last TimerHolder goes away: cancelTimer, or the user drops it.
CancelTimer(t) ==
    /\ UserCode
    /\ t \in held
    /\ held' = held \ {t}
    /\ UNCHANGED <<heap, period, ran, armed, pc, lag>>

-----------------------------------------------------------------------------
(* The timerfd's channel and handleTimeoutEvents                            *)

\* The timerfd is readable: read it, and read the clock.
ReadTimerfd ==
    /\ pc = "idle"
    /\ armed = 0
    /\ armed' = None
    /\ lag' = 0
    /\ pc' = "handle"
    /\ UNCHANGED <<heap, period, held, ran>>

\* now < timeout, by the clock as it was when the handling began.
NotYet(e) == -lag < e.due

\* (Mutant of RunMin: the weak pointer is not asked.)
RunUnchecked ==
    /\ pc = "handle"
    /\ heap # <<>> /\ ~NotYet(Min)
    /\ IF period[Min.id] = 0 THEN UNCHANGED <<heap, armed>>
                             ELSE Insert(Min.id, period[Min.id])
    /\ ran' = ran \cup {Min.id}
    /\ pc' = "handler"
    /\ UNCHANGED <<period, held, lag>>

\* The least entry is due and its timer still there: run its handler.  A timer
\* of runEvery first puts itself in again, after the present time.
RunMin ==
    /\ pc = "handle"
    /\ heap # <<>> /\ ~NotYet(Min)
    /\ Min.id \in held
    /\ IF period[Min.id] = 0 THEN UNCHANGED <<heap, armed>>
                             ELSE Insert(Min.id, period[Min.id])
    /\ ran' = ran \cup {Min.id}
    /\ pc' = "handler"
    /\ UNCHANGED <<period, held, lag>>

DeleteMin == heap' = H!DeleteMin(heap)

\* The handler returns, and the least entry is taken out.
HandlerReturns ==
    /\ pc = "handler"
    /\ DeleteMin
    /\ pc' = "handle"
    /\ UNCHANGED <<period, held, ran, armed, lag>>

\* The least entry is due and its timer gone.
DropExpired ==
    /\ pc = "handle"
    /\ heap # <<>> /\ ~NotYet(Min)
    /\ Min.id \notin held
    /\ DeleteMin
    /\ UNCHANGED <<period, held, ran, armed, pc, lag>>

\* (Mutant of Rearm: the timerfd is left as it was.)
RearmForgotten ==
    /\ pc = "handle"
    /\ heap # <<>> => NotYet(Min)
    /\ pc' = "idle"
    /\ lag' = 0
    /\ UNCHANGED <<heap, period, held, ran, armed>>

\* Nothing is due any more at the root: set the timerfd for it.
Rearm ==
    /\ pc = "handle"
    /\ heap # <<>> => NotYet(Min)
    /\ armed' = IF heap = <<>> THEN armed ELSE Armed(Min.due)
    /\ pc' = "idle"
    /\ lag' = 0
    /\ UNCHANGED <<heap, period, held, ran>>

\* A second passes, in the poller or in a handler.
Tick ==
    /\ UserCode
    /\ pc = "handler" => lag < MaxOverdue
    /\ heap' = [i \in 1 .. Len(heap) |->
                  [heap[i] EXCEPT !.due = AtLeast(@ - 1, -MaxOverdue)]]
    /\ armed' = IF armed = None THEN None ELSE AtLeast(armed - 1, 0)
    /\ lag' = IF pc = "handler" THEN lag + 1 ELSE lag
    /\ UNCHANGED <<period, held, ran, pc>>

-----------------------------------------------------------------------------

User == \/ \E d \in Delays \cup {-p : p \in Pasts} : RunAt(d)
        \/ \E p \in Periods : RunEvery(p)
        \/ \E t \in held : CancelTimer(t)

Handling == ReadTimerfd \/ RunMin \/ HandlerReturns \/ DropExpired \/ Rearm

Next == User \/ Handling \/ Tick

SafeSpec == Init /\ [][Next]_vars

\* Time passes, the loop polls, and handlers return.
Spec == SafeSpec /\ WF_vars(Tick) /\ WF_vars(Handling) /\ WF_vars(HandlerReturns)

-----------------------------------------------------------------------------
(* Properties                                                               *)

Entries(t) == {i \in 1 .. Len(heap) : heap[i].id = t}

\* The loop never sleeps on a wrong timeout: when entries wait, the timerfd is
\* set, for the timeout at the root or (readable) one that has passed
\* (TimerQueue.cpp:104, :114, :136, :146).
ArmedForRoot ==
    pc = "idle" => armed = IF heap = <<>> THEN None ELSE Armed(Min.due)

\* delete_min after the handler takes out the entry that was run, whatever the
\* handler has put in (TimerQueue.cpp:90-102): a timer that still exists and has
\* something to do has an entry - one, besides the root that is being run.
NoTimerLost ==
    \A t \in held :
        LET waiting == Entries(t) \ (IF pc = "handler" THEN {1} ELSE {})
        IN  \/ \E i \in waiting : waiting = {i}
            \/ waiting = {} /\ t \in ran /\ period[t] = 0

\* Every timer is run in the end, unless it is cancelled.
TimerRuns == \A t \in 1 .. MaxTimers : (t \in held) ~> (t \in ran \/ t \notin held)

\* README.md:40, "at the absolute time given": when the loop goes to sleep no
\* timer's time has come.
OnTime ==
    pc = "idle" /\ armed # 0 =>
        \A i \in 1 .. Len(heap) : heap[i].id \in held => heap[i].due > 0
=============================================================================
