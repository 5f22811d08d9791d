----------------------------- MODULE Timestamp -----------------------------
(***************************************************************************)
(* Timestamp: seconds and microseconds.  The constructor carries only when *)
(* usec is MORE than a second, so that a time may have two forms: (0,      *)
(* 1000000) and (1, 0) with one second's microseconds scaled to Micro.     *)
(*                                                                         *)
(* Seconds and microseconds are not negative (the constructor's test casts *)
(* usec to 32 bits without a sign; no caller has one that this changes).   *)
(***************************************************************************)
EXTENDS Integers

CONSTANTS
    Milli,      \* milliseconds of a second (1000 in the code)
    PerMilli    \* microseconds of a millisecond (1000 in the code)

ASSUME MilliAssumption == Milli \in Nat \ {0}
ASSUME PerMilliAssumption == PerMilli \in Nat \ {0}

\* kMicrosecondsPerSecond
Micro == Milli * PerMilli

\* The forms a Timestamp may have.
Timestamps == [sec : Nat, usec : 0 .. Micro]

\* (Mutant of Made: nothing is carried.)
MadeAsGiven(sec, usec) == [sec |-> sec, usec |-> usec]

\* Timestamp(sec, usec)
Made(sec, usec) ==
    IF usec > Micro THEN [sec |-> sec + usec \div Micro, usec |-> usec % Micro]
    ELSE [sec |-> sec, usec |-> usec]

CompareTo(t, u) ==
    IF t.sec # u.sec THEN IF t.sec < u.sec THEN -1 ELSE 1
    ELSE IF t.usec = u.usec THEN 0
    ELSE IF t.usec < u.usec THEN -1 ELSE 1

\* operator+
Plus(t, u) == Made(t.sec + u.sec, t.usec + u.usec)

\* operator-
Minus(t, u) ==
    IF t.usec < u.usec THEN Made(t.sec - u.sec - 1, t.usec + Micro - u.usec)
    ELSE Made(t.sec - u.sec, t.usec - u.usec)

\* What the pollers other than epoll sleep when the next timer is at t.
Remaining(t, now) == IF CompareTo(t, now) = -1 THEN Made(0, 0) ELSE Minus(t, now)

\* toMicroSec and toMillSec
ToMicroSec(t) == t.sec * Micro + t.usec
ToMillSec(t) == t.sec * Milli + t.usec \div PerMilli
=============================================================================
