--------------------------- MODULE ScanningPoller ---------------------------
(***************************************************************************)
(* What PollerPoll and PollerSelect have in common: the walk of loop_once   *)
(* over descriptor numbers, which stops when as many have been served as   *)
(* were reported.  The Channels' handlers run inside the walk and may add, *)
(* change and destroy Channels, before and behind the walk's position.     *)
(***************************************************************************)
EXTENDS Channel

VARIABLES
    pos,        \* the walk's position
    nready,     \* local nready
    at,         \* "slot": at the top of the walk's body; "writ": past its first half
    revent,     \* what the body holds of the report for pos
    ch,         \* local ch: the Channel whose handler was called last
    owner,      \* history: per descriptor, the Channel it was when reported
    added       \* history: descriptors added in this walk

walkVars == <<pos, nready, at, revent, ch>>
scanVars == <<walkVars, owner, added>>

\* (A hang-up alone is reported of descriptor 0 only, for which nobody asks.)
Bits == Kinds \cup {"erro", "hup"}

ScanInit ==
    /\ pos = 0
    /\ nready = 0
    /\ at = "slot"
    /\ revent = {}
    /\ ch = None
    /\ owner = [fd \in Fds |-> None]
    /\ added = {}

ScanTypeOK ==
    /\ added \subseteq Fds
    /\ owner \in [Fds -> Chans \cup {None}]
    /\ pos \in Nat /\ nready \in Nat
    /\ at \in {"slot", "writ"} /\ revent \subseteq Bits
    /\ ch \in Chans \cup {None}

-----------------------------------------------------------------------------
(* What user code does, and where in the walk.                              *)

Made(c) == Make(c) /\ UNCHANGED scanVars

Entered(c) ==
    /\ Enter(c)
    /\ added' = IF phase = "handler" THEN added \cup {fdOf[c]} ELSE {}
    /\ UNCHANGED <<walkVars, owner>>

Changed(c, k, on) == Change(c, k, on) /\ UNCHANGED scanVars

Left(c) == Leave(c) /\ UNCHANGED scanVars

-----------------------------------------------------------------------------
(* The walk of loop_once                                                    *)

BeginLoop ==
    /\ phase = "user"
    /\ phase' = "wait"
    /\ UNCHANGED <<chanVars, pos, nready, at, revent, ch, owner, added>>

\* The system call answers n (0 stands for -1 too); the walk starts at 0.
Reported(n) ==
    /\ phase = "wait"
    /\ phase' = "dispatch"
    /\ pos' = 0
    /\ nready' = n
    /\ owner' = channels
    /\ added' = {}
    /\ UNCHANGED <<chanVars, at, revent, ch>>

NextSlot == pos' = pos + 1 /\ at' = "slot" /\ revent' = {}

\* The top of the body: c is what getChannel gives, bits what was reported.
Skip(c) ==
    /\ c = None
    /\ NextSlot
    /\ UNCHANGED <<phase, nready, ch>>

Erro(c, bits) ==
    /\ c # None /\ "erro" \in bits
    /\ ch' = c /\ phase' = "handler"
    /\ NextSlot
    /\ UNCHANGED nready

Read(c, bits) ==
    /\ c # None /\ "erro" \notin bits
    /\ ch' = c /\ phase' = IF "in" \in bits THEN "handler" ELSE phase
    /\ at' = "writ" /\ revent' = bits
    /\ UNCHANGED <<pos, nready>>

Visit(c, bits) ==
    /\ phase = "dispatch" /\ at = "slot" /\ nready > 0
    /\ Skip(c) \/ Erro(c, bits) \/ Read(c, bits)
    /\ UNCHANGED <<chanVars, owner, added>>

\* (Mutant of Writ: every descriptor visited is counted, not only those with
\* something to read or to write.)
WritCountsAll ==
    /\ phase = "dispatch" /\ at = "writ"
    /\ NextSlot
    /\ IF "out" \in revent /\ channels[pos] # None
       THEN ch' = channels[pos] /\ phase' = "handler"
       ELSE ch' = None /\ UNCHANGED phase
    /\ nready' = nready - 1
    /\ UNCHANGED <<chanVars, owner, added>>

\* The rest of the body: the Channel is looked up again, as the read handler
\* may have destroyed it.
Writ ==
    /\ phase = "dispatch" /\ at = "writ"
    /\ NextSlot
    /\ IF "out" \in revent /\ channels[pos] # None
       THEN ch' = channels[pos] /\ phase' = "handler" /\ nready' = nready - 1
       ELSE /\ nready' = IF "in" \in revent THEN nready - 1 ELSE nready
            /\ ch' = None /\ UNCHANGED phase
    /\ UNCHANGED <<chanVars, owner, added>>

HandlerReturns ==
    /\ phase = "handler"
    /\ phase' = "dispatch"
    /\ ch' = IF at = "writ" THEN ch ELSE None
    /\ UNCHANGED <<chanVars, pos, nready, at, revent, owner, added>>

\* The locals and the report end with the walk.
EndLoop(limit) ==
    /\ phase = "dispatch" /\ at = "slot"
    /\ nready = 0 \/ pos >= limit
    /\ phase' = "user"
    /\ pos' = 0 /\ nready' = 0
    /\ owner' = [fd \in Fds |-> None] /\ added' = {}
    /\ UNCHANGED <<chanVars, at, revent, ch>>
=============================================================================
