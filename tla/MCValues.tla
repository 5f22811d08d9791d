------------------------------ MODULE MCValues ------------------------------
(***************************************************************************)
(* The library's two value types for model checking: a Buffer driven       *)
(* through its operations (MCBuffer), or a Timestamp driven through sums   *)
(* and differences beside the number of microseconds it should be.         *)
(***************************************************************************)
EXTENDS MCBuffer, Timestamp

CONSTANT MaxSec     \* bound on the seconds of a Timestamp

ASSUME MaxSecAssumption == MaxSec \in Nat

VARIABLES
    time,       \* a Timestamp, or no operation on one yet
    micros      \* history: what time should be, in microseconds

Zero == Made(0, 0)

\* Arguments: what gettimeofday gives, and what users construct.
Given == {Made(s, u) : s \in 0 .. MaxSec, u \in 0 .. 2 * Micro}

TimeIs(t, n) == t.sec <= 2 * MaxSec /\ time' = t /\ micros' = n

\* runAfter and runEvery: now + the interval, again and again.
DoPlus == \E d \in Given : TimeIs(Plus(time, d), micros + ToMicroSec(d))

\* The time that is left until time, at now.
DoRemaining ==
    \E now \in Given :
        LET n == ToMicroSec(now)
        IN  TimeIs(Remaining(time, now), IF micros < n THEN 0 ELSE micros - n)

ValuesInit == BufferInit /\ time = Zero /\ micros = 0

\* One of the two is driven at a time.
ValuesNext ==
    \/ time = Zero /\ BufferNext /\ UNCHANGED <<time, micros>>
    \/ b = Null /\ out = <<>> /\ (DoPlus \/ DoRemaining) /\ UNCHANGED bufferVars

ValuesSpec == ValuesInit /\ [][ValuesNext]_<<bufferVars, time, micros>>

\* Sums and differences are exact through any number of operations, and in spite
\* of the two forms the same time may have, a Timestamp that compares as earlier
\* is not later, one that is earlier compares as such, and the milliseconds a
\* poller sleeps (PollerPoll.cpp:68) do not go past the time (util.h:168-290).
TimesRight ==
    /\ time \in Timestamps
    /\ ToMicroSec(time) = micros
    /\ \A t \in Given :
           /\ CompareTo(time, t) = -1 => ToMicroSec(time) <= ToMicroSec(t)
           /\ ToMicroSec(time) < ToMicroSec(t) => CompareTo(time, t) = -1
           /\ CompareTo(time, t) = -CompareTo(t, time)
    /\ ToMillSec(time) * PerMilli <= micros /\ micros < (ToMillSec(time) + 1) * PerMilli
=============================================================================
