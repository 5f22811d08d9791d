--------------------------- MODULE Pollers_proofs ---------------------------
(***************************************************************************)
(* The pollers, for any number of Channels, descriptors and changes.       *)
(* 1. The table of Channels (Channel.tla) on its own.                      *)
(* 2. PollerEpoll: the registry and the count of what is registered.       *)
(* 3. Each poller implements the specification of the table, so that what  *)
(*    is proved of the table holds of all; and the reports that wait to be *)
(*    served (ReportsOK) and the place of the walk (WalkOK) make a handler *)
(*    run on the right Channel.                                            *)
(* 4. PollerPoll: the array of pollfds.  5. PollerSelect: the sets.        *)
(* 6. The walk of both: the count of what is still to be served.           *)
(* 7. PollerKevent: lists of changes, what a list does to a kqueue, and    *)
(*    the words a list has last on each filter.                            *)
(* 8. All of them.  9. Nobody that was reported is left out: as long as no *)
(*    Channel is added on the way, nready is at least the number of those  *)
(*    that the walk has not come to (CountInv).                            *)
(***************************************************************************)
EXTENDS Pollers, FiniteSetTheorems, SequenceTheorems, WellFoundedInduction, TLAPS

-----------------------------------------------------------------------------
(* 1. The table of Channels.                                                *)

\* TableOK is inductive once the types are known.
TableInv == ChanTypeOK /\ TableOK

LEMMA ChanInitOK == ChanInit => TableInv
<1> SUFFICES ASSUME ChanInit
             PROVE  TableInv
  OBVIOUS
<1>1. ChanTypeOK
  BY DEF ChanInit, ChanTypeOK, Phases
<1>2. Alive = {} /\ Added = {}
  BY DEF ChanInit, Alive, Added
<1> QED
  BY <1>1, <1>2 DEF ChanInit, TableInv, TableOK, OwnFds

\* A Channel that is made, and one that is added, and its entry in the table.
LEMMA AddedEntry ==
    ASSUME TableInv, NEW c \in Added
    PROVE  /\ c \in Alive /\ fdOf[c] \in Fds /\ fdOf[c] \in open
           /\ channels[fdOf[c]] = c
<1>1. c \in Alive /\ fdOf[c] \in open /\ open \subseteq Fds
  BY DEF TableInv, ChanTypeOK, TableOK, OwnFds, Alive, Added
<1> QED
  BY <1>1 DEF TableInv, TableOK

LEMMA MadeEntry ==
    ASSUME TableInv, NEW c \in Chans, state[c] = "made"
    PROVE  /\ c \in Alive /\ fdOf[c] \in Fds /\ fdOf[c] \in open
           /\ channels[fdOf[c]] = None
<1>1. c \in Alive /\ fdOf[c] \in open /\ open \subseteq Fds
  BY DEF TableInv, ChanTypeOK, TableOK, OwnFds, Alive
<1>2. ASSUME channels[fdOf[c]] # None
      PROVE  FALSE
  <2>1. PICK d \in Added : d = channels[fdOf[c]] /\ fdOf[d] = fdOf[c]
    BY <1>1, <1>2 DEF TableInv, TableOK
  <2>2. d \in Alive /\ d # c
    BY <2>1 DEF Alive, Added
  <2> QED
    BY <1>1, <2>1, <2>2 DEF TableInv, TableOK, OwnFds
<1> QED
  BY <1>1, <1>2

-----------------------------------------------------------------------------

LEMMA MakeStep ==
    ASSUME TableInv, NEW c \in Chans, Make(c)
    PROVE  TableInv'
<1>1. PICK fd \in Fds \ open : /\ open' = open \cup {fd}
                               /\ fdOf' = [fdOf EXCEPT ![c] = fd]
  BY DEF Make
<1>2. /\ state[c] = "unborn" /\ state' = [state EXCEPT ![c] = "made"]
      /\ UNCHANGED <<wants, channels, phase>>
  BY DEF Make
<1>3. ChanTypeOK'
  BY <1>1, <1>2 DEF TableInv, ChanTypeOK
<1>4. Alive' = Alive \cup {c} /\ Added' = Added /\ c \notin Alive
  BY <1>2 DEF TableInv, ChanTypeOK, Alive, Added
<1>5. \A d \in Alive : fdOf'[d] = fdOf[d] /\ fdOf'[d] # fd
  BY <1>1, <1>4 DEF TableInv, ChanTypeOK, TableOK, OwnFds, Alive
<1>6. fdOf'[c] = fd
  BY <1>1 DEF TableInv, ChanTypeOK
<1>7. OwnFds'
  BY <1>1, <1>4, <1>5, <1>6 DEF TableInv, TableOK, OwnFds
<1>8. \A d \in Added : fdOf'[d] = fdOf[d]
  BY <1>5 DEF Added, Alive
<1> QED
  BY <1>2, <1>3, <1>4, <1>7, <1>8 DEF TableInv, TableOK

LEMMA EnterStep ==
    ASSUME TableInv, NEW c \in Chans, Enter(c)
    PROVE  TableInv'
<1> DEFINE fd == fdOf[c]
<1>1. c \in Alive /\ fd \in Fds /\ fd \in open /\ channels[fd] = None
  BY MadeEntry DEF Enter
<1>2. /\ channels' = [channels EXCEPT ![fd] = c]
      /\ state' = [state EXCEPT ![c] = "added"]
      /\ UNCHANGED <<fdOf, open, phase>>
  BY DEF Enter
<1>3. PICK w \in SUBSET Kinds : wants' = [wants EXCEPT ![c] = w]
  BY DEF Enter
<1>4. ChanTypeOK'
  BY <1>1, <1>2, <1>3 DEF TableInv, ChanTypeOK
<1>5. Alive' = Alive /\ Added' = Added \cup {c}
  BY <1>1, <1>2 DEF TableInv, ChanTypeOK, Alive, Added
<1>6. OwnFds'
  BY <1>2, <1>5 DEF TableInv, TableOK, OwnFds
<1>7. \A d \in Added : fdOf[d] # fd
  <2> SUFFICES ASSUME NEW d \in Added, fdOf[d] = fd
               PROVE  FALSE
    OBVIOUS
  <2>1. channels[fd] = d
    BY AddedEntry
  <2> QED
    BY <1>1, <2>1, NoneAssumption DEF Added
<1>8. \A g \in Fds : channels'[g] # None =>
          channels'[g] \in Added' /\ fdOf'[channels'[g]] = g
  <2> TAKE g \in Fds
  <2>1. CASE g = fd
    BY <1>1, <1>2, <1>5, <2>1 DEF TableInv, ChanTypeOK
  <2>2. CASE g # fd
    BY <1>1, <1>2, <1>5, <2>2 DEF TableInv, TableOK, ChanTypeOK
  <2> QED
    BY <2>1, <2>2
<1>9. \A d \in Added' : channels'[fdOf'[d]] = d
  <2> TAKE d \in Added'
  <2>1. CASE d = c
    BY <1>1, <1>2, <2>1 DEF TableInv, ChanTypeOK
  <2>2. CASE d # c
    <3>1. d \in Added /\ fdOf[d] # fd /\ fdOf[d] \in Fds /\ channels[fdOf[d]] = d
      BY <1>5, <1>7, <2>2, AddedEntry
    <3> QED
      BY <1>1, <1>2, <3>1 DEF TableInv, ChanTypeOK
  <2> QED
    BY <2>1, <2>2
<1> QED
  BY <1>4, <1>6, <1>8, <1>9 DEF TableInv, TableOK

LEMMA ChangeStep ==
    ASSUME TableInv, NEW c \in Chans, NEW k \in Kinds, NEW on \in BOOLEAN,
           Change(c, k, on)
    PROVE  TableInv'
<1>1. UNCHANGED <<state, fdOf, open, channels, phase>>
  BY DEF Change
<1>2. PICK w \in SUBSET Kinds : wants' = [wants EXCEPT ![c] = w]
  <2>1. wants[c] \cup {k} \in SUBSET Kinds /\ wants[c] \ {k} \in SUBSET Kinds
    BY DEF TableInv, ChanTypeOK
  <2> QED
    BY <2>1 DEF Change
<1>3. ChanTypeOK'
  BY <1>1, <1>2 DEF TableInv, ChanTypeOK
<1>4. TableOK'
  BY <1>1 DEF TableInv, TableOK, OwnFds, Alive, Added
<1> QED
  BY <1>3, <1>4 DEF TableInv

LEMMA LeaveStep ==
    ASSUME TableInv, NEW c \in Chans, Leave(c), phase' \in {phase, "ended"}
    PROVE  TableInv'
<1> DEFINE fd == fdOf[c]
<1>1. c \in Alive /\ fd \in Fds /\ channels[fd] \in {c, None}
  BY AddedEntry, MadeEntry DEF Leave, Added, Alive
<1>2. /\ channels' = [channels EXCEPT ![fd] = None]
      /\ open' = open \ {fd}
      /\ state' = [state EXCEPT ![c] = IF @ = "added" THEN "dead" ELSE "discarded"]
      /\ wants' = [wants EXCEPT ![c] = {}]
      /\ UNCHANGED fdOf
  BY DEF Leave
<1>3. state'[c] \in {"dead", "discarded"} /\ \A d \in Chans : d # c => state'[d] = state[d]
  BY <1>2 DEF TableInv, ChanTypeOK
<1>4. ChanTypeOK'
  <2>1. phase' \in Phases
    BY DEF TableInv, ChanTypeOK, Phases
  <2>2. state' \in [Chans -> {"unborn", "made", "added", "dead", "discarded"}]
    BY <1>2, <1>3 DEF TableInv, ChanTypeOK
  <2> QED
    BY <1>1, <1>2, <2>1, <2>2 DEF TableInv, ChanTypeOK
<1>5. Alive' = Alive \ {c} /\ Added' = Added \ {c}
  BY <1>3 DEF Alive, Added
<1>6. \A d \in Alive : d # c => fdOf[d] # fd
  BY <1>1 DEF TableInv, TableOK, OwnFds
<1>7. OwnFds'
  BY <1>2, <1>5, <1>6 DEF TableInv, TableOK, OwnFds
<1>8. \A g \in Fds : channels'[g] # None =>
          channels'[g] \in Added' /\ fdOf'[channels'[g]] = g
  BY <1>1, <1>2, <1>5 DEF TableInv, TableOK, ChanTypeOK
<1>9. \A d \in Added' : channels'[fdOf'[d]] = d
  <2> TAKE d \in Added'
  <2>1. d \in Added /\ d \in Alive /\ d # c
    BY <1>5, AddedEntry
  <2>2. fdOf[d] \in Fds /\ fdOf[d] # fd /\ channels[fdOf[d]] = d
    BY <1>6, <2>1, AddedEntry
  <2> QED
    BY <1>2, <2>2 DEF TableInv, ChanTypeOK
<1> QED
  BY <1>4, <1>7, <1>8, <1>9 DEF TableInv, TableOK

LEMMA ChanStep ==
    ASSUME TableInv, [ChanNext]_<<chanVars, phase>>
    PROVE  TableInv'
<1>1. CASE UNCHANGED chanVars /\ phase' \in Phases
  BY <1>1 DEF TableInv, ChanTypeOK, TableOK, OwnFds, Alive, Added, chanVars
<1>2. CASE UNCHANGED <<chanVars, phase>>
  BY <1>2 DEF TableInv, ChanTypeOK, TableOK, OwnFds, Alive, Added, chanVars
<1> QED
  BY <1>1, <1>2, MakeStep, EnterStep, ChangeStep, LeaveStep DEF ChanNext

\* A lookup in the table never answers a dead Channel, and never misses one that
\* is added, whatever is made, added, changed and destroyed - added or not - from
\* handlers.
THEOREM TableConsistent == ChanSpec => []TableInv
  BY ChanInitOK, ChanStep, PTL DEF ChanSpec

-----------------------------------------------------------------------------

(* 2. PollerEpoll: the registry.                                           *)

EpollCountOK == IsFiniteSet(DOMAIN interest) /\ eventsSize = Cardinality(DOMAIN interest)

EpollRegistry ==
    E!RegistryOK /\ E!InterestFollowsFlags /\ EpollCountOK /\ Discarded = {}

\* What holds while the process lives, and what holds always.
EpollLive == TableInv /\ E!EpollTypeOK /\ EpollRegistry

EpollInv == TableInv /\ E!EpollTypeOK /\ (phase # "ended" => EpollRegistry)

LEMMA EpollAtFirst == ChanInit /\ E!EpollInit => EpollInv
<1> SUFFICES ASSUME ChanInit, E!EpollInit
             PROVE  EpollInv
  OBVIOUS
<1>1. TableInv
  BY ChanInitOK
<1>2. DOMAIN interest = {}
  BY DEF E!EpollInit, E!BatchInit
<1>3. E!EpollTypeOK
  BY <1>2, SizeAssumption DEF E!EpollInit, E!BatchInit, E!EpollTypeOK, E!NoCall, E!Events
<1>4. EpollCountOK
  BY <1>2, FS_EmptySet DEF E!EpollInit, E!BatchInit, EpollCountOK
<1>5. E!RegistryOK /\ E!InterestFollowsFlags
  BY <1>2 DEF ChanInit, E!ChanInit, E!RegistryOK, E!InterestFollowsFlags, Added, E!Added
<1>6. Discarded = {}
  BY DEF ChanInit, Discarded
<1> QED
  BY <1>1, <1>3, <1>4, <1>5, <1>6 DEF EpollInv, EpollRegistry

\* The conclusions drawn from the registry at a Channel that is alive.
LEMMA EpollAdded ==
    ASSUME EpollLive, NEW c \in Added
    PROVE  fdOf[c] \in Fds /\ fdOf[c] \in open /\ fdOf[c] \in DOMAIN interest
<1>1. fdOf[c] \in Fds /\ fdOf[c] \in open /\ channels[fdOf[c]] = c
  BY AddedEntry DEF EpollLive
<1>2. c # None
  BY NoneAssumption DEF Added, E!Added
<1> QED
  BY <1>1, <1>2 DEF EpollLive, EpollRegistry, E!RegistryOK

LEMMA EpollMade ==
    ASSUME EpollLive, NEW c \in Chans, state[c] = "made"
    PROVE  fdOf[c] \in Fds /\ fdOf[c] \in open /\ fdOf[c] \notin DOMAIN interest
<1>1. fdOf[c] \in Fds /\ fdOf[c] \in open /\ channels[fdOf[c]] = None
  BY MadeEntry DEF EpollLive
<1> QED
  BY <1>1 DEF EpollLive, EpollRegistry, E!RegistryOK

-----------------------------------------------------------------------------

\* The steps of user code; what becomes of the table is known.

LEMMA EpollNewStep ==
    ASSUME EpollLive, NEW c \in Chans, E!NewChannel(c)
    PROVE  E!EpollTypeOK' /\ EpollRegistry'
<1>1. Added' = Added
  BY DEF E!NewChannel, Make, E!Make, EpollLive, TableInv, ChanTypeOK, E!ChanTypeOK, Added, E!Added
<1>2. UNCHANGED <<wants, channels, E!registryVars, E!loopVars>>
  BY DEF E!NewChannel, Make, E!Make
<1>3. \A d \in Added : fdOf'[d] = fdOf[d]
  BY DEF E!NewChannel, Make, E!Make, EpollLive, TableInv, ChanTypeOK, E!ChanTypeOK, Added, E!Added
<1>4. Discarded' = {}
  BY DEF E!NewChannel, E!Make, EpollLive, EpollRegistry, TableInv, ChanTypeOK, Discarded
<1> QED
  BY <1>1, <1>2, <1>3, <1>4
  DEF EpollLive, E!EpollTypeOK, EpollRegistry, E!RegistryOK, E!InterestFollowsFlags, EpollCountOK, Added, E!Added,
      E!registryVars, E!loopVars

LEMMA EpollAddStep ==
    ASSUME EpollLive, NEW c \in Chans, E!AddChannel(c)
    PROVE  E!EpollTypeOK' /\ EpollRegistry'
<1> DEFINE fd == fdOf[c]
<1>1. fd \in Fds /\ fd \in open /\ fd \notin DOMAIN interest /\ c # None
  BY EpollMade, NoneAssumption DEF E!AddChannel, Enter, E!Enter
<1>2. /\ interest' = E!Set(interest, fd, wants'[c])
      /\ channels' = [channels EXCEPT ![fd] = c]
      /\ eventsSize' = eventsSize + 1
      /\ state' = [state EXCEPT ![c] = "added"]
      /\ UNCHANGED <<fdOf, E!loopVars>>
  BY DEF E!AddChannel, Enter, E!Enter
<1>3. PICK w \in SUBSET Kinds : wants' = [wants EXCEPT ![c] = w]
  BY DEF E!AddChannel, Enter, E!Enter, Kinds, E!Kinds
<1>4. /\ DOMAIN interest' = DOMAIN interest \cup {fd}
      /\ interest'[fd] = wants'[c] /\ wants'[c] = w
      /\ \A g \in DOMAIN interest : interest'[g] = interest[g]
  BY <1>1, <1>2, <1>3 DEF E!Set, EpollLive, TableInv, ChanTypeOK, E!ChanTypeOK
<1>5. EpollCountOK'
  BY <1>1, <1>2, <1>4, FS_AddElement, FS_CardinalityType
  DEF EpollLive, E!EpollTypeOK, EpollRegistry, EpollCountOK
<1>6. E!EpollTypeOK'
  <2>1. \A g \in DOMAIN interest' : g \in Fds /\ interest'[g] \subseteq E!Kinds
    BY <1>1, <1>4 DEF EpollLive, E!EpollTypeOK, Kinds, E!Kinds
  <2> QED
    BY <1>2, <2>1 DEF EpollLive, E!EpollTypeOK, E!loopVars
<1>7. Added' = Added \cup {c}
  BY <1>2 DEF EpollLive, TableInv, ChanTypeOK, E!ChanTypeOK, Added, E!Added
<1>8. \A d \in Added : d # c /\ fdOf[d] \in DOMAIN interest /\ wants'[d] = wants[d]
  BY <1>3, EpollAdded DEF EpollLive, TableInv, ChanTypeOK, E!ChanTypeOK, E!AddChannel, Enter, E!Enter, Added, E!Added
<1>9. E!RegistryOK'
  BY <1>1, <1>2, <1>4 DEF EpollLive, TableInv, ChanTypeOK, E!ChanTypeOK, EpollRegistry, E!RegistryOK
<1>10. E!InterestFollowsFlags'
  BY <1>2, <1>4, <1>7, <1>8 DEF EpollLive, EpollRegistry, E!InterestFollowsFlags, Added, E!Added, TableInv, ChanTypeOK
<1>11. Discarded' = {}
  BY <1>2 DEF EpollLive, EpollRegistry, TableInv, ChanTypeOK, Discarded
<1> QED
  BY <1>5, <1>6, <1>9, <1>10, <1>11 DEF EpollRegistry

LEMMA EpollUpdateStep ==
    ASSUME EpollLive, NEW c \in Chans, NEW k \in Kinds, NEW on \in BOOLEAN,
           E!UpdateChannel(c, k, on)
    PROVE  E!EpollTypeOK' /\ EpollRegistry'
<1> DEFINE fd == fdOf[c]
<1>1. c \in Added /\ fd \in DOMAIN interest
  BY EpollAdded DEF E!UpdateChannel, Change, E!Change, Added, E!Added
<1>2. /\ interest' = [interest EXCEPT ![fd] = wants'[c]]
      /\ UNCHANGED <<state, fdOf, channels, eventsSize, E!loopVars>>
  BY DEF E!UpdateChannel, Change, E!Change
<1>3. PICK w \in SUBSET Kinds : wants' = [wants EXCEPT ![c] = w]
  <2>1. wants[c] \cup {k} \in SUBSET Kinds /\ wants[c] \ {k} \in SUBSET Kinds
    BY DEF EpollLive, TableInv, ChanTypeOK, E!ChanTypeOK
  <2> QED
    BY <2>1 DEF E!UpdateChannel, Change, E!Change
<1>4. DOMAIN interest' = DOMAIN interest /\ wants'[c] = w
  BY <1>2, <1>3 DEF EpollLive, TableInv, ChanTypeOK, E!ChanTypeOK
<1>5. E!EpollTypeOK'
  BY <1>1, <1>2, <1>4 DEF EpollLive, E!EpollTypeOK, Kinds, E!Kinds, TableInv, ChanTypeOK, E!loopVars
<1>6. E!RegistryOK' /\ EpollCountOK'
  BY <1>2, <1>4 DEF EpollLive, EpollRegistry, E!RegistryOK, EpollCountOK
<1>7. Added' = Added
  BY <1>2 DEF Added, E!Added
<1>8. \A d \in Added : d # c => fdOf[d] # fd /\ fdOf[d] \in DOMAIN interest
  BY <1>1, EpollAdded, AddedEntry DEF EpollLive
<1>9. E!InterestFollowsFlags'
  BY <1>1, <1>2, <1>3, <1>7, <1>8
  DEF EpollLive, TableInv, ChanTypeOK, E!ChanTypeOK, EpollRegistry, E!InterestFollowsFlags, Added, E!Added
<1>10. Discarded' = {}
  BY <1>2 DEF EpollLive, EpollRegistry, Discarded
<1> QED
  BY <1>5, <1>6, <1>9, <1>10 DEF EpollRegistry

\* A Channel that goes was added and is registered, and its descriptor open still,
\* or the process ends.
LEMMA EpollDestroyStep ==
    ASSUME EpollLive, NEW c \in Chans, E!Destroy(c)
    PROVE  E!EpollTypeOK' /\ (phase' # "ended" => EpollRegistry')
<1> DEFINE fd == fdOf[c]
<1>1. /\ channels' = [channels EXCEPT ![fd] = None]
      /\ eventsSize' = eventsSize - 1
      /\ interest' = [g \in DOMAIN interest \ {fd} |-> interest[g]]
      /\ state' = [state EXCEPT ![c] = IF @ = "added" THEN "dead" ELSE "discarded"]
      /\ wants' = [wants EXCEPT ![c] = {}]
      /\ UNCHANGED <<fdOf, E!loopVars>>
  BY DEF E!Destroy, Leave, E!Leave, E!Unregistered
<1>2. DOMAIN interest' = DOMAIN interest \ {fd}
  BY <1>1
<1>3. E!EpollTypeOK'
  <2>1. eventsSize' \in Int
    BY <1>1 DEF EpollLive, E!EpollTypeOK
  <2> QED
    BY <1>1, <1>2, <2>1 DEF EpollLive, E!EpollTypeOK, E!loopVars
<1>4. ASSUME phase' # "ended"
      PROVE  EpollRegistry'
  <2>1. c \in Added /\ fd \in Fds /\ fd \in DOMAIN interest
    <3>1. fd \in DOMAIN interest
      BY <1>4 DEF E!Destroy
    <3>2. state[c] # "made"
      BY <3>1, EpollMade
    <3> QED
      BY <3>1, <3>2, EpollAdded DEF E!Destroy, E!Leave, Added
  <2>2. state' = [state EXCEPT ![c] = "dead"]
    BY <1>1, <2>1 DEF Added
  <2>3. EpollCountOK'
    BY <1>1, <1>2, <2>1, FS_RemoveElement, FS_CardinalityType
    DEF EpollLive, E!EpollTypeOK, EpollRegistry, EpollCountOK
  <2>4. Added' = Added \ {c} /\ Discarded' = {}
    BY <2>1, <2>2 DEF EpollLive, EpollRegistry, TableInv, ChanTypeOK, Added, Discarded
  <2>5. \A d \in Added : d # c => fdOf[d] # fd /\ fdOf[d] \in DOMAIN interest
    BY <2>1, EpollAdded, AddedEntry DEF EpollLive
  <2>6. E!RegistryOK'
    BY <1>1, <1>2, <2>1 DEF EpollLive, TableInv, ChanTypeOK, E!ChanTypeOK, EpollRegistry, E!RegistryOK
  <2>7. E!InterestFollowsFlags'
    BY <1>1, <2>1, <2>4, <2>5
    DEF EpollLive, TableInv, ChanTypeOK, E!ChanTypeOK, EpollRegistry, E!InterestFollowsFlags, Added, E!Added
  <2> QED
    BY <2>3, <2>4, <2>6, <2>7 DEF EpollRegistry
<1> QED
  BY <1>3, <1>4

\* The loop's own steps leave the registry alone.
LEMMA EpollLoopStep ==
    ASSUME EpollLive,
           \/ E!BeginLoop \/ E!Wait \/ E!HandlerReturns \/ E!EndLoop
           \/ \E e \in batch : E!Dispatch(e)
    PROVE  E!EpollTypeOK' /\ EpollRegistry'
<1>1. UNCHANGED <<chanVars, E!registryVars>>
  BY DEF E!BeginLoop, E!Wait, E!Reported, E!HandlerReturns, E!EndLoop, E!EndOfBatch, E!Dispatch, chanVars, E!chanVars, E!registryVars
<1>2. EpollRegistry'
  BY <1>1 DEF EpollLive, EpollRegistry, E!RegistryOK, E!InterestFollowsFlags, EpollCountOK, Added, E!Added,
      Discarded, chanVars, E!registryVars
<1> DEFINE LoopTypeOK ==
        /\ capacity' \in Nat \ {0} /\ batch' \subseteq E!Events
        /\ cur' \in [chan : Chans \cup {None}, owner : Chans \cup {None}]
<1>3. LoopTypeOK
  <2>1. CASE E!BeginLoop
    BY <2>1 DEF E!BeginLoop, EpollLive, E!EpollTypeOK, E!loopVars
  <2>2. CASE E!Wait
    BY <2>2 DEF E!Wait, E!Reported, E!Reportable, EpollLive, E!EpollTypeOK
  <2>3. CASE E!HandlerReturns
    BY <2>3 DEF E!HandlerReturns, E!NoCall, EpollLive, E!EpollTypeOK
  <2>4. CASE E!EndLoop
    BY <2>4 DEF E!EndLoop, E!EndOfBatch, E!Resized, EpollLive, E!EpollTypeOK
  <2>5. ASSUME NEW e \in batch, E!Dispatch(e)
        PROVE  LoopTypeOK
    BY <2>5 DEF E!Dispatch, E!Events, EpollLive, E!EpollTypeOK, TableInv, ChanTypeOK, E!ChanTypeOK
  <2> QED
    BY <2>1, <2>2, <2>3, <2>4, <2>5
<1>4. E!EpollTypeOK'
  BY <1>1, <1>3 DEF EpollLive, E!EpollTypeOK, E!registryVars
<1> QED
  BY <1>2, <1>4

LEMMA EpollKept ==
    ASSUME EpollInv, E!Next, TableInv'
    PROVE  EpollInv'
<1>1. phase # "ended"
  BY DEF E!Next, E!NewChannel, E!AddChannel, E!UpdateChannel, E!Destroy, E!Make, E!Enter,
         E!Change, E!Leave, E!UserCode, E!BeginLoop, E!Wait, E!Reported, E!HandlerReturns,
         E!EndLoop, E!EndOfBatch, E!Dispatch
<1>2. EpollLive
  BY <1>1 DEF EpollInv, EpollLive
<1> QED
  BY <1>2, EpollNewStep, EpollAddStep, EpollUpdateStep, EpollDestroyStep, EpollLoopStep
  DEF E!Next, EpollInv, Kinds, E!Kinds

LEMMA EpollImplies == EpollInv => E!EpollTypeOK /\ E!EpollOK
<1> SUFFICES ASSUME EpollInv PROVE E!EpollTypeOK /\ E!EpollOK
  OBVIOUS
<1>1. ASSUME phase # "ended"
      PROVE  /\ E!RegistryOK /\ E!InterestFollowsFlags /\ E!EpollCtlSucceeds
             /\ E!EventsSizeCounts /\ E!NoneDiscarded
  <2>1. EpollLive
    BY <1>1 DEF EpollInv, EpollLive
  <2>2. E!EpollCtlSucceeds
    BY <2>1, EpollMade, EpollAdded DEF E!EpollCtlSucceeds, Added, E!Added
  <2>3. E!EventsSizeCounts
    BY <2>1 DEF EpollLive, EpollRegistry, EpollCountOK, E!EventsSizeCounts, Cardinality, E!Cardinality
  <2>4. E!NoneDiscarded
    BY <2>1 DEF EpollLive, EpollRegistry, E!NoneDiscarded, E!Discarded, Discarded
  <2> QED
    BY <2>1, <2>2, <2>3, <2>4 DEF EpollLive, EpollRegistry
<1> QED
  BY <1>1 DEF EpollInv, E!EpollOK

-----------------------------------------------------------------------------
(* 3. Every poller implements the specification of the table.              *)

LEMMA InitImplements == Init => ChanInit
  BY DEF Init

LEMMA EpollStep ==
    ASSUME ChanTypeOK, E!Next
    PROVE  ChanNext
<1>1. ASSUME NEW c \in Chans,
             \/ E!NewChannel(c) \/ E!AddChannel(c) \/ E!Destroy(c)
             \/ \E k \in Kinds, on \in BOOLEAN : E!UpdateChannel(c, k, on)
      PROVE  ChanNext
  BY <1>1 DEF E!NewChannel, E!AddChannel, E!Destroy, E!UpdateChannel, ChanNext,
              E!Make, E!Enter, E!Leave, E!Change, E!UserCode, E!Kinds,
              Make, Enter, Leave, Change, UserCode, Kinds
<1>2. CASE E!BeginLoop \/ E!Wait \/ E!HandlerReturns \/ E!EndLoop
  BY <1>2 DEF E!BeginLoop, E!Wait, E!HandlerReturns, E!EndLoop, E!Reported,
              E!EndOfBatch, E!chanVars, chanVars, ChanNext, Phases
<1>3. ASSUME NEW e \in batch, E!Dispatch(e)
      PROVE  ChanNext
  BY <1>3 DEF E!Dispatch, E!chanVars, chanVars, ChanNext, ChanTypeOK, Phases
<1> QED
  BY <1>1, <1>2, <1>3 DEF E!Next, E!Kinds, Kinds

LEMMA KeventStep ==
    ASSUME ChanTypeOK, K!Next
    PROVE  ChanNext
<1>1. ASSUME NEW c \in Chans,
             \/ K!NewChannel(c) \/ K!AddChannel(c) \/ K!Destroy(c)
             \/ \E k \in Kinds, on \in BOOLEAN : K!UpdateChannel(c, k, on)
      PROVE  ChanNext
  BY <1>1 DEF K!NewChannel, K!AddChannel, K!Destroy, K!UpdateChannel, ChanNext,
              K!Make, K!Enter, K!Leave, K!Change, K!UserCode, K!Kinds,
              Make, Enter, Leave, Change, UserCode, Kinds
<1>2. CASE K!BeginLoop \/ K!Wait \/ K!HandlerReturns \/ K!EndLoop
  BY <1>2 DEF K!BeginLoop, K!Wait, K!HandlerReturns, K!EndLoop, K!Reported,
              K!EndOfBatch, K!chanVars, chanVars, ChanNext, Phases
<1>3. ASSUME NEW e \in batch, K!Dispatch(e)
      PROVE  ChanNext
  BY <1>3 DEF K!Dispatch, K!chanVars, chanVars, ChanNext, ChanTypeOK, Phases
<1> QED
  BY <1>1, <1>2, <1>3 DEF K!Next, K!Kinds, Kinds

LEMMA PollStep ==
    ASSUME ChanTypeOK, P!Next
    PROVE  ChanNext
<1>1. ASSUME NEW c \in Chans,
             \/ P!Made(c) \/ P!AddChannel(c) \/ P!Destroy(c)
             \/ \E k \in Kinds, on \in BOOLEAN : P!UpdateChannel(c, k, on)
      PROVE  ChanNext
  BY <1>1 DEF P!AddChannel, P!Destroy, P!UpdateChannel, ChanNext,
              P!Made, P!Entered, P!Changed, P!Left,
              P!Make, P!Enter, P!Leave, P!Change, P!UserCode, P!Kinds,
              Make, Enter, Leave, Change, UserCode, Kinds
<1>2. CASE P!Wait \/ P!EndWalk
  BY <1>2 DEF P!Wait, P!Reported, P!EndWalk, P!EndLoop, P!chanVars, chanVars, ChanNext, Phases
<1>3. CASE P!VisitSlot
  BY <1>3 DEF P!VisitSlot, P!Visit, P!Skip, P!Erro, P!Read, P!chanVars, chanVars,
              ChanNext, ChanTypeOK, Phases
<1>4. CASE P!BeginLoop \/ P!Writ \/ P!HandlerReturns
  BY <1>4 DEF P!BeginLoop, P!Writ, P!HandlerReturns, P!chanVars, chanVars, ChanNext, Phases
<1> QED
  BY <1>1, <1>2, <1>3, <1>4 DEF P!Next, P!Kinds, Kinds

LEMMA SelectStep ==
    ASSUME ChanTypeOK, S!Next
    PROVE  ChanNext
<1>1. ASSUME NEW c \in Chans,
             \/ S!Made(c) \/ S!AddChannel(c) \/ S!Destroy(c)
             \/ \E k \in Kinds, on \in BOOLEAN : S!UpdateChannel(c, k, on)
      PROVE  ChanNext
  BY <1>1 DEF S!AddChannel, S!Destroy, S!UpdateChannel, ChanNext,
              S!Made, S!Entered, S!Changed, S!Left,
              S!Make, S!Enter, S!Leave, S!Change, S!UserCode, S!Kinds,
              Make, Enter, Leave, Change, UserCode, Kinds
<1>2. CASE S!Wait \/ S!WaitFails \/ S!EndWalk
  BY <1>2 DEF S!Wait, S!Answer, S!WaitFails, S!Reported, S!EndWalk, S!EndLoop,
              S!chanVars, chanVars, ChanNext, Phases
<1>3. CASE S!VisitFd
  BY <1>3 DEF S!VisitFd, S!Visit, S!Skip, S!Erro, S!Read, S!chanVars, chanVars,
              ChanNext, ChanTypeOK, Phases
<1>4. CASE S!BeginLoop \/ S!Writ \/ S!HandlerReturns
  BY <1>4 DEF S!BeginLoop, S!Writ, S!HandlerReturns, S!chanVars, chanVars, ChanNext, Phases
<1> QED
  BY <1>1, <1>2, <1>3, <1>4 DEF S!Next, S!Kinds, Kinds

LEMMA StepImplements ==
    ASSUME TableInv, [Next]_vars
    PROVE  [ChanNext]_<<chanVars, phase>>
<1>1. CASE Next
  BY <1>1, EpollStep, KeventStep, PollStep, SelectStep DEF Next, TableInv
<1>2. CASE UNCHANGED vars
  BY <1>2 DEF vars
<1> QED
  BY <1>1, <1>2

LEMMA Invariance == Spec => []TableInv
<1>1. TableInv /\ [Next]_vars => TableInv'
  BY StepImplements, ChanStep
<1> QED
  BY <1>1, InitImplements, ChanInitOK, PTL DEF Spec

\* PollerEpoll, PollerKevent, PollerPoll and PollerSelect implement the abstract
\* specification of the Channels and their table.
THEOREM ImplementsChannels == Spec => ChanSpec
  BY InitImplements, StepImplements, Invariance, PTL DEF Spec, ChanSpec

\* PollerEpoll on its own, as long as the process lives: channels_, the epoll set, the
\* flags of the added Channels and eventsSize_ agree, epoll_ctl is given nothing that
\* it would refuse by whoever adds a Channel once, and changes or destroys one that
\* was added before its descriptor is closed; and no Channel was destroyed that was
\* never added, because ~Channel ends the process then (PollerEpoll.cpp:59-127).
THEOREM EpollAlwaysOK == E!Spec => [](E!TypeOK /\ E!EpollOK)
<1>1. E!Init => EpollInv
  <2>1. E!ChanInit => ChanInit
    BY DEF E!ChanInit, ChanInit
  <2> QED
    BY <2>1, EpollAtFirst DEF E!Init
<1>2. EpollInv /\ [E!Next]_(E!vars) => EpollInv'
  <2> SUFFICES ASSUME EpollInv, [E!Next]_(E!vars) PROVE EpollInv'
    OBVIOUS
  <2>1. CASE E!Next
    <3>1. TableInv'
      BY <2>1, EpollStep, ChanStep DEF EpollInv, TableInv
    <3> QED
      BY <2>1, <3>1, EpollKept
  <2>2. CASE UNCHANGED E!vars
    <3>1. UNCHANGED <<state, fdOf, wants, open, channels, phase, interest, eventsSize, capacity, batch, cur>>
      BY <2>2 DEF E!vars, E!chanVars, E!registryVars, E!loopVars
    <3>2. TableInv'
      BY <3>1 DEF EpollInv, TableInv, ChanTypeOK, TableOK, OwnFds, Alive, Added
    <3> QED
      BY <3>1, <3>2 DEF EpollInv, E!EpollTypeOK, EpollRegistry, E!RegistryOK,
                        E!InterestFollowsFlags, EpollCountOK, E!Added, Discarded
  <2> QED
    BY <2>1, <2>2
<1>3. EpollInv => E!TypeOK /\ E!EpollOK
  <2>1. ChanTypeOK => E!ChanTypeOK
    BY DEF ChanTypeOK, E!ChanTypeOK, Kinds, E!Kinds, Phases, E!Phases
  <2> QED
    BY <2>1, EpollImplies DEF EpollInv, TableInv, E!TypeOK
<1> QED
  BY <1>1, <1>2, <1>3, PTL DEF E!Spec

\* Whichever poller the loop was made with: a lookup in channels_ never answers a
\* dead Channel and never misses one that is added.
THEOREM TableAlwaysOK == Spec => []TableOK
<1>1. TableInv => TableOK
  BY DEF TableInv
<1> QED
  BY <1>1, Invariance, PTL

-----------------------------------------------------------------------------
(* Handlers are called on the right Channel.                               *)

\* c has been reported for fd, some time in this loop.
Seen(c, fd) == fd \in Fds /\ c \in Chans /\ fdOf[c] = fd /\ state[c] \in {"added", "dead"}

ReportsOK ==
    /\ \A e \in batch : Seen(e.owner, e.fd)
    /\ \A fd \in Fds : owner[fd] # None => Seen(owner[fd], fd)

\* Every slot of PollerPoll is that of the descriptor with its index, or of none.
SlotsOK ==
    /\ \E n \in Nat \ {0} : pollfds \in [0 .. n - 1 -> P!Slots]
    /\ \A i \in DOMAIN pollfds : pollfds[i].fd \in Fds => pollfds[i].fd = i

\* Between the halves of its body the walk is at a descriptor.
WalkOK ==
    /\ pos \in Nat
    /\ at # "slot" =>
         chooser \in {"POLL", "SELECT"} /\ pos \in Fds /\ phase \in {"dispatch", "handler", "ended"}

CallInv == TableInv /\ ReportsOK /\ WalkOK /\ (chooser = "POLL" => SlotsOK)

\* A Channel that was reported keeps its number and is never made again.
LEMMA SeenStays ==
    ASSUME ChanTypeOK, [ChanNext]_<<chanVars, phase>>, NEW c, NEW fd, Seen(c, fd)
    PROVE  Seen(c, fd)'
<1>1. ASSUME NEW d \in Chans, Make(d)
      PROVE  Seen(c, fd)'
  BY <1>1 DEF Make, Seen, ChanTypeOK
<1>2. ASSUME NEW d \in Chans, Enter(d)
      PROVE  Seen(c, fd)'
  BY <1>2 DEF Enter, Seen, ChanTypeOK
<1>3. ASSUME NEW d \in Chans, Leave(d)
      PROVE  Seen(c, fd)'
  BY <1>3 DEF Leave, Seen, ChanTypeOK
<1>4. ASSUME NEW d \in Chans, NEW k \in Kinds, NEW on \in BOOLEAN, Change(d, k, on)
      PROVE  Seen(c, fd)'
  BY <1>4 DEF Change, Seen
<1>5. CASE UNCHANGED chanVars
  BY <1>5 DEF chanVars, Seen
<1> QED
  BY <1>1, <1>2, <1>3, <1>4, <1>5 DEF ChanNext

\* What the table answers is seen: events and the walk's owners come from it.
LEMMA TableSeen ==
    ASSUME TableInv, NEW fd \in Fds, channels[fd] # None
    PROVE  Seen(channels[fd], fd) /\ state[channels[fd]] = "added"
  BY DEF TableInv, TableOK, Added, Seen

\* Where the owners of the reports come from.
LEMMA BatchFrom ==
    ASSUME [Next]_vars
    PROVE  \A e \in batch' : \/ e \in batch
                             \/ e.fd \in Fds /\ e.owner \in Chans /\ e.owner = channels[e.fd]
<1>1. CASE chooser = "EPOLL" /\ E!Next
  <2>1. CASE E!Wait
    BY <2>1 DEF E!Wait, E!Reported, E!Reportable, E!Events
  <2>2. CASE E!BeginLoop \/ E!HandlerReturns \/ E!EndLoop \/ \E e \in batch : E!Dispatch(e)
    BY <2>2 DEF E!BeginLoop, E!HandlerReturns, E!EndLoop, E!EndOfBatch, E!Dispatch, E!loopVars
  <2>3. CASE \E c \in Chans :
               \/ E!NewChannel(c) \/ E!AddChannel(c) \/ E!Destroy(c)
               \/ \E k \in E!Kinds, on \in BOOLEAN : E!UpdateChannel(c, k, on)
    BY <2>3 DEF E!NewChannel, E!AddChannel, E!Destroy, E!UpdateChannel, E!loopVars
  <2> QED
    BY <1>1, <2>1, <2>2, <2>3 DEF E!Next
<1>2. CASE chooser = "KEVENT" /\ K!Next
  <2>1. CASE K!Wait
    BY <2>1 DEF K!Wait, K!Reported, K!Reportable, K!Events
  <2>2. CASE K!BeginLoop \/ K!HandlerReturns \/ K!EndLoop \/ \E e \in batch : K!Dispatch(e)
    BY <2>2 DEF K!BeginLoop, K!HandlerReturns, K!EndLoop, K!EndOfBatch, K!Dispatch, K!loopVars
  <2>3. CASE \E c \in Chans :
               \/ K!NewChannel(c) \/ K!AddChannel(c) \/ K!Destroy(c)
               \/ \E k \in K!Kinds, on \in BOOLEAN : K!UpdateChannel(c, k, on)
    BY <2>3 DEF K!NewChannel, K!AddChannel, K!Destroy, K!UpdateChannel, K!loopVars
  <2> QED
    BY <1>2, <2>1, <2>2, <2>3 DEF K!Next
<1>3. CASE UNCHANGED batch
  BY <1>3
<1> QED
  BY <1>1, <1>2, <1>3 DEF Next, vars, batchVars

LEMMA OwnersFrom ==
    ASSUME [Next]_vars
    PROVE  owner' = owner \/ owner' = channels \/ owner' = [fd \in Fds |-> None]
<1>1. CASE chooser = "POLL" /\ P!Next
  <2>1. CASE P!Wait \/ P!EndWalk
    BY <2>1 DEF P!Wait, P!Reported, P!EndWalk, P!EndLoop
  <2>2. CASE P!VisitSlot \/ P!BeginLoop \/ P!Writ \/ P!HandlerReturns
    BY <2>2 DEF P!VisitSlot, P!Visit, P!BeginLoop, P!Writ, P!HandlerReturns
  <2>3. ASSUME NEW c \in Chans,
               \/ P!Made(c) \/ P!AddChannel(c) \/ P!Destroy(c)
               \/ \E k \in P!Kinds, on \in BOOLEAN : P!UpdateChannel(c, k, on)
        PROVE  owner' = owner
    BY <2>3 DEF P!AddChannel, P!Destroy, P!UpdateChannel, P!Made, P!Entered, P!Changed,
                P!Left, P!scanVars
  <2> QED
    BY <1>1, <2>1, <2>2, <2>3 DEF P!Next
<1>2. CASE chooser = "SELECT" /\ S!Next
  <2>1. CASE S!Wait \/ S!WaitFails \/ S!EndWalk
    BY <2>1 DEF S!Wait, S!Answer, S!WaitFails, S!Reported, S!EndWalk, S!EndLoop
  <2>2. CASE S!VisitFd \/ S!BeginLoop \/ S!Writ \/ S!HandlerReturns
    BY <2>2 DEF S!VisitFd, S!Visit, S!BeginLoop, S!Writ, S!HandlerReturns
  <2>3. ASSUME NEW c \in Chans,
               \/ S!Made(c) \/ S!AddChannel(c) \/ S!Destroy(c)
               \/ \E k \in S!Kinds, on \in BOOLEAN : S!UpdateChannel(c, k, on)
        PROVE  owner' = owner
    BY <2>3 DEF S!AddChannel, S!Destroy, S!UpdateChannel, S!Made, S!Entered, S!Changed,
                S!Left, S!scanVars
  <2> QED
    BY <1>2, <2>1, <2>2, <2>3 DEF S!Next
<1>3. CASE UNCHANGED owner
  BY <1>3
<1> QED
  BY <1>1, <1>2, <1>3 DEF Next, vars, scanVars

LEMMA ReportsStep ==
    ASSUME TableInv, ReportsOK, [Next]_vars
    PROVE  ReportsOK'
<1>1. [ChanNext]_<<chanVars, phase>> /\ ChanTypeOK
  BY StepImplements DEF TableInv
<1>2. ASSUME NEW e \in batch'
      PROVE  Seen(e.owner, e.fd)'
  <2>1. Seen(e.owner, e.fd)
    BY BatchFrom, TableSeen, NoneAssumption DEF ReportsOK
  <2> QED
    BY <1>1, <2>1, SeenStays DEF Seen
<1>3. ASSUME NEW fd \in Fds, owner'[fd] # None
      PROVE  Seen(owner[fd], fd)'
  <2>1. Seen(owner'[fd], fd)
    BY <1>3, OwnersFrom, TableSeen DEF ReportsOK
  <2> QED
    BY <1>1, <2>1, SeenStays DEF Seen
<1> QED
  BY <1>2, <1>3 DEF ReportsOK

-----------------------------------------------------------------------------

LEMMA SizeIs ==
    ASSUME NEW n \in Nat, NEW T, pollfds \in [0 .. n - 1 -> T]
    PROVE  P!Size = n
<1>1. Cardinality(0 .. n - 1) = n
  BY FS_Interval, SMT
<1>2. P!Cardinality(0 .. n - 1) = Cardinality(0 .. n - 1)
  BY DEF Cardinality, P!Cardinality
<1> QED
  BY <1>1, <1>2 DEF P!Size

LEMMA SlotsInit == P!Init => SlotsOK
<1> SUFFICES ASSUME P!Init PROVE SlotsOK
  OBVIOUS
<1>1. P!Spare \in P!Slots /\ P!Spare.fd \notin Fds
  BY FdsAssumption DEF P!Spare, P!Slots
<1>2. DefaultSize \in Nat \ {0}
  BY SizeAssumption
<1> QED
  BY <1>1, <1>2 DEF P!Init, SlotsOK

LEMMA SlotsStep ==
    ASSUME TableInv, ChanTypeOK', SlotsOK, P!Next
    PROVE  SlotsOK'
<1>1. PICK n \in Nat \ {0} : pollfds \in [0 .. n - 1 -> P!Slots]
  BY DEF SlotsOK
<1>2. P!Size = n
  BY <1>1, SizeIs
<1>3. ASSUME NEW c \in Chans, P!AddChannel(c)
      PROVE  SlotsOK'
  <2> DEFINE fd == fdOf[c]
             g == P!Grown(fd)
  <2>1. fd \in Fds /\ fd \in Nat
    BY <1>3, MadeEntry, FdsAssumption DEF P!AddChannel, P!Entered, P!Enter
  <2>2. P!Spare \in P!Slots /\ P!Spare.fd = 0
    BY DEF P!Spare, P!Slots
  <2>3. PICK m \in Nat :
          /\ g \in [0 .. m - 1 -> P!Slots] /\ fd \in 0 .. m - 1
          /\ \A i \in 0 .. m - 1 : g[i].fd = 0 \/ (i \in 0 .. n - 1 /\ g[i] = pollfds[i])
    <3>1. CASE fd < n
      <4>1. g = pollfds /\ fd \in 0 .. n - 1
        BY <1>1, <1>2, <2>1, <3>1, SMT DEF P!Grown
      <4> QED
        BY <1>1, <4>1
    <3>2. CASE ~(fd < n)
      <4>1. g = [i \in 0 .. 2 * fd |-> IF i < n THEN pollfds[i] ELSE P!Spare]
        BY <1>2, <3>2 DEF P!Grown
      <4>2. 2 * fd + 1 \in Nat /\ 0 .. 2 * fd = 0 .. (2 * fd + 1) - 1 /\ fd \in 0 .. 2 * fd
        BY <2>1, SMT
      <4>3. \A i \in 0 .. 2 * fd : i < n => i \in 0 .. n - 1
        BY <1>1, <2>1, SMT
      <4>4. /\ g \in [0 .. 2 * fd -> P!Slots]
            /\ \A i \in 0 .. 2 * fd : g[i].fd = 0 \/ (i \in 0 .. n - 1 /\ g[i] = pollfds[i])
        BY <1>1, <2>2, <4>1, <4>3
      <4> HIDE DEF g
      <4> QED
        BY <4>2, <4>4
    <3> QED
      BY <3>1, <3>2
  <2>4. wants'[c] \in SUBSET Kinds
    BY DEF ChanTypeOK
  <2>5. PICK junk \in SUBSET Bits :
          pollfds' = [g EXCEPT ![fd] = [fd |-> fd, events |-> wants'[c], revents |-> junk]]
    BY <1>3, JunkAssumption DEF P!AddChannel
  <2>6. [fd |-> fd, events |-> wants'[c], revents |-> junk] \in P!Slots
    BY <2>1, <2>4 DEF P!Slots, P!Kinds, Kinds, P!Bits, Bits
  <2> HIDE DEF fd, g
  <2>7. /\ pollfds' \in [0 .. m - 1 -> P!Slots]
        /\ \A i \in 0 .. m - 1 :
              IF i = fd THEN pollfds'[i].fd = fd ELSE pollfds'[i] = g[i]
    BY <2>3, <2>5, <2>6
  <2>8. \A i \in 0 .. m - 1 : pollfds'[i].fd \in Fds => pollfds'[i].fd = i
    BY <1>1, <2>3, <2>7, FdsAssumption DEF SlotsOK
  <2>9. m \in Nat \ {0}
    BY <2>3
  <2> QED
    BY <2>7, <2>8, <2>9 DEF SlotsOK
<1>4. ASSUME NEW c \in Chans, NEW k \in P!Kinds, NEW on \in BOOLEAN, P!UpdateChannel(c, k, on)
      PROVE  SlotsOK'
  <2>1. wants'[c] \in SUBSET Kinds
    BY DEF ChanTypeOK
  <2>2. pollfds' = [pollfds EXCEPT ![fdOf[c]].events = wants'[c]]
    BY <1>4 DEF P!UpdateChannel
  <2>3. pollfds' \in [0 .. n - 1 -> P!Slots] /\ \A i \in 0 .. n - 1 : pollfds'[i].fd = pollfds[i].fd
    BY <1>1, <2>1, <2>2, ZenonT(60) DEF P!Slots, P!Kinds, Kinds
  <2> QED
    BY <1>1, <2>3 DEF SlotsOK
<1>5. ASSUME NEW c \in Chans, P!Destroy(c)
      PROVE  SlotsOK'
  <2>1. pollfds' = [pollfds EXCEPT ![fdOf[c]].fd = -1] \/ pollfds' = pollfds
    BY <1>5 DEF P!Destroy
  <2>2. /\ pollfds' \in [0 .. n - 1 -> P!Slots]
        /\ \A i \in 0 .. n - 1 : pollfds'[i].fd = pollfds[i].fd \/ pollfds'[i].fd = -1
    BY <1>1, <2>1, SMTT(60) DEF P!Slots
  <2> QED
    BY <1>1, <2>2, FdsAssumption DEF SlotsOK
<1>6. ASSUME P!Wait \/ P!EndWalk
      PROVE  SlotsOK'
  <2>1. /\ pollfds' \in [0 .. n - 1 -> P!Slots]
        /\ \A i \in 0 .. n - 1 : pollfds'[i].fd = pollfds[i].fd
    <3>1. CASE P!EndWalk
      BY <1>1, <3>1 DEF P!EndWalk, P!Slots
    <3>2. CASE P!Wait
      <4>1. PICK hungUp \in BOOLEAN, says \in [Fds -> SUBSET {"erro", "in", "out"}] :
              pollfds' = [i \in DOMAIN pollfds |->
                             [pollfds[i] EXCEPT !.revents = P!Revents(i, hungUp, says)]]
        BY <3>2 DEF P!Wait
      <4>2. \A i \in 0 .. n - 1 : P!Revents(i, hungUp, says) \in SUBSET P!Bits
        BY <1>1 DEF P!Revents, P!Slots, P!Bits, P!Kinds
      <4> QED
        BY <1>1, <4>1, <4>2 DEF P!Slots
    <3> QED
      BY <1>6, <3>1, <3>2
  <2> QED
    BY <1>1, <2>1 DEF SlotsOK
<1>7. CASE UNCHANGED pollfds
  BY <1>7 DEF SlotsOK
<1> QED
  BY <1>3, <1>4, <1>5, <1>6, <1>7 DEF P!Next, P!VisitSlot

-----------------------------------------------------------------------------

LEMMA VisitWalk ==
    ASSUME WalkOK, NEW c, NEW bits, P!Visit(c, bits), chooser \in {"POLL", "SELECT"},
           c # None => pos \in Fds, UNCHANGED chooser
    PROVE  WalkOK'
<1>1. pos \in Nat /\ pos + 1 \in Nat
  BY SMT DEF WalkOK
<1>2. CASE P!Skip(c) \/ P!Erro(c, bits)
  BY <1>1, <1>2 DEF P!Skip, P!Erro, P!NextSlot, WalkOK
<1>3. CASE P!Read(c, bits)
  BY <1>1, <1>3 DEF P!Read, P!Visit, WalkOK
<1> QED
  BY <1>2, <1>3 DEF P!Visit

LEMMA WalkStep ==
    ASSUME WalkOK, chooser = "POLL" => SlotsOK, [Next]_vars
    PROVE  WalkOK'
<1>1. CASE UNCHANGED <<scanVars, chooser>> /\ at = "slot"
  BY <1>1 DEF WalkOK, scanVars, walkVars
<1>2. CASE chooser \in {"EPOLL", "KEVENT"} /\ Next
  BY <1>1, <1>2 DEF Next, WalkOK
<1>3. CASE UNCHANGED vars
  BY <1>3 DEF vars, WalkOK, scanVars, walkVars
<1>4. CASE chooser = "POLL" /\ P!Next /\ UNCHANGED chooser
  <2>1. CASE P!VisitSlot
    <3> DEFINE c == IF pollfds[pos].fd \in Fds THEN channels[pollfds[pos].fd] ELSE None
    <3>1. P!Visit(c, pollfds[pos].revents) /\ pos < P!Size
      BY <2>1 DEF P!VisitSlot
    <3>2. pos \in DOMAIN pollfds
      <4>1. PICK n \in Nat : pollfds \in [0 .. n - 1 -> P!Slots]
        BY <1>4 DEF SlotsOK
      <4>2. P!Size = n
        BY <4>1, SizeIs
      <4> QED
        BY <3>1, <4>1, <4>2, SMT DEF WalkOK
    <3>3. c # None => pos \in Fds
      BY <1>4, <3>2 DEF SlotsOK
    <3> HIDE DEF c
    <3> QED
      BY <1>4, <3>1, <3>3, VisitWalk
  <2>2. CASE P!Wait \/ P!EndWalk
    <3>1. phase = "wait" \/ at = "slot"
      BY <2>2 DEF P!Wait, P!Reported, P!EndWalk, P!EndLoop
    <3>2. pos' = 0 /\ at' = at
      BY <2>2 DEF P!Wait, P!Reported, P!EndWalk, P!EndLoop
    <3> QED
      BY <3>1, <3>2 DEF WalkOK
  <2>3. CASE P!BeginLoop \/ P!HandlerReturns
    BY <1>4, <2>3 DEF P!BeginLoop, P!HandlerReturns, WalkOK
  <2>4. CASE P!Writ
    <3>1. pos' = pos + 1 /\ at' = "slot"
      BY <2>4 DEF P!Writ, P!NextSlot
    <3> QED
      BY <3>1, SMT DEF WalkOK
  <2>5. ASSUME NEW c \in Chans,
               \/ P!Made(c) \/ P!AddChannel(c) \/ P!Destroy(c)
               \/ \E k \in P!Kinds, on \in BOOLEAN : P!UpdateChannel(c, k, on)
        PROVE  WalkOK'
    <3>1. UNCHANGED <<pos, at>> /\ phase' \in {phase, "ended"}
      BY <2>5 DEF P!AddChannel, P!Destroy, P!UpdateChannel, P!Made, P!Entered, P!Changed,
                  P!Left, P!scanVars, P!walkVars, P!Make, P!Enter, P!Change, P!Leave
    <3> QED
      BY <1>4, <3>1 DEF WalkOK
  <2> QED
    BY <1>4, <2>1, <2>2, <2>3, <2>4, <2>5 DEF P!Next
<1>5. CASE chooser = "SELECT" /\ S!Next /\ UNCHANGED chooser
  <2>1. CASE S!VisitFd
    <3>1. PICK c, bits : P!Visit(c, bits) /\ (c # None => pos \in Fds)
      <4>1. CASE pos \in Fds
        <5>1. S!Visit(channels[pos], result[pos])
          BY <2>1, <4>1 DEF S!VisitFd
        <5>2. P!Visit(channels[pos], result[pos])
          BY <5>1 DEF S!Visit, S!Skip, S!Erro, S!Read, S!NextSlot, S!chanVars,
                      P!Visit, P!Skip, P!Erro, P!Read, P!NextSlot, P!chanVars
        <5> QED
          BY <4>1, <5>2
      <4>2. CASE pos \notin Fds
        <5>1. S!Visit(None, {})
          BY <2>1, <4>2 DEF S!VisitFd
        <5>2. P!Visit(None, {})
          BY <5>1 DEF S!Visit, S!Skip, S!Erro, S!Read, S!NextSlot, S!chanVars,
                      P!Visit, P!Skip, P!Erro, P!Read, P!NextSlot, P!chanVars
        <5> QED
          BY <5>2
      <4> QED
        BY <4>1, <4>2
    <3> QED
      BY <1>5, <3>1, VisitWalk
  <2>2. CASE S!Wait \/ S!WaitFails \/ S!EndWalk
    <3>1. phase = "wait" \/ at = "slot"
      BY <2>2 DEF S!Wait, S!Answer, S!WaitFails, S!Reported, S!EndWalk, S!EndLoop
    <3>2. pos' = 0 /\ at' = at
      BY <2>2 DEF S!Wait, S!Answer, S!WaitFails, S!Reported, S!EndWalk, S!EndLoop
    <3> QED
      BY <3>1, <3>2 DEF WalkOK
  <2>3. CASE S!BeginLoop \/ S!HandlerReturns
    BY <1>5, <2>3 DEF S!BeginLoop, S!HandlerReturns, WalkOK
  <2>4. CASE S!Writ
    <3>1. pos' = pos + 1 /\ at' = "slot"
      BY <2>4 DEF S!Writ, S!NextSlot
    <3> QED
      BY <3>1, SMT DEF WalkOK
  <2>5. ASSUME NEW c \in Chans,
               \/ S!Made(c) \/ S!AddChannel(c) \/ S!Destroy(c)
               \/ \E k \in S!Kinds, on \in BOOLEAN : S!UpdateChannel(c, k, on)
        PROVE  WalkOK'
    <3>1. UNCHANGED <<pos, at, phase>>
      BY <2>5 DEF S!AddChannel, S!Destroy, S!UpdateChannel, S!Made, S!Entered, S!Changed,
                  S!Left, S!scanVars, S!walkVars, S!Make, S!Enter, S!Change, S!Leave
    <3> QED
      BY <1>5, <3>1 DEF WalkOK
  <2> QED
    BY <1>5, <2>1, <2>2, <2>3, <2>4, <2>5 DEF S!Next
<1> QED
  BY <1>2, <1>3, <1>4, <1>5 DEF Next

LEMMA CallInvariance == Spec => []CallInv
<1>1. Init => CallInv
  <2> SUFFICES ASSUME Init PROVE CallInv
    OBVIOUS
  <2>1. TableInv
    BY InitImplements, ChanInitOK
  <2>2. batch = {}
    BY DEF Init, NoBatch, E!EpollInit, E!BatchInit, K!Init, K!BatchInit
  <2>3. \A fd \in Fds : owner[fd] = None
    BY DEF Init, ScanInit
  <2>4. WalkOK
    BY DEF Init, ScanInit, WalkOK
  <2>5. chooser = "POLL" => SlotsOK
    BY SlotsInit DEF Init
  <2> QED
    BY <2>1, <2>2, <2>3, <2>4, <2>5 DEF CallInv, ReportsOK
<1>2. CallInv /\ [Next]_vars => CallInv'
  <2> SUFFICES ASSUME CallInv, [Next]_vars PROVE CallInv'
    OBVIOUS
  <2>1. TableInv'
    BY StepImplements, ChanStep DEF CallInv
  <2>2. ReportsOK'
    BY ReportsStep DEF CallInv
  <2>3. WalkOK'
    BY WalkStep DEF CallInv
  <2>4. ASSUME chooser' = "POLL" PROVE SlotsOK'
    <3>1. chooser = "POLL" /\ SlotsOK
      BY <2>4 DEF CallInv, Next, vars
    <3>2. CASE P!Next
      BY <2>1, <3>1, <3>2, SlotsStep DEF CallInv, TableInv
    <3>3. CASE UNCHANGED pollfds
      BY <3>1, <3>3 DEF SlotsOK
    <3> QED
      BY <3>1, <3>2, <3>3 DEF Next, vars
  <2> QED
    BY <2>1, <2>2, <2>3, <2>4 DEF CallInv
<1> QED
  BY <1>1, <1>2, PTL DEF Spec

\* What the table answers for fd is the right Channel for a report about fd.
LEMMA Right ==
    ASSUME TableInv, NEW fd \in Fds, channels[fd] # None, NEW r, r # None => Seen(r, fd)
    PROVE  RightChannel(channels[fd], r) /\ fdOf[channels[fd]] = fd
<1>1. state[channels[fd]] = "added" /\ fdOf[channels[fd]] = fd
  BY TableSeen DEF Seen
<1>2. ASSUME r \notin {None, channels[fd]}
      PROVE  state[r] = "dead"
  <2>1. r \in Chans /\ fdOf[r] = fd /\ state[r] \in {"added", "dead"}
    BY <1>2 DEF Seen
  <2>2. state[r] # "added"
    BY <1>2, <2>1 DEF TableInv, TableOK, Added
  <2> QED
    BY <2>1, <2>2
<1> QED
  BY <1>1, <1>2 DEF RightChannel

\* Whichever the poller, and whatever the handlers of the same batch or walk did
\* since the wait, a handler is called on a Channel that is alive, of the
\* descriptor that was reported; if it is not the Channel that was reported, then
\* that one is dead (PollerEpoll.cpp:28, PollerKevent.cpp:90, PollerPoll.cpp:98,
\* PollerSelect.cpp:103).
THEOREM HandlersOnLiveChannels == Spec => CalledOnLiveChannel
<1>1. ASSUME CallInv, Next, phase = "dispatch", phase' = "handler"
      PROVE  IF chooser \in {"EPOLL", "KEVENT"} THEN RightChannel(cur'.chan, cur'.owner)
             ELSE fdOf[ch'] = pos /\ RightChannel(ch', owner[pos])
  <2>1. CASE chooser = "EPOLL" /\ E!Next
    <3>1. PICK e \in batch : E!Dispatch(e)
      BY <1>1, <2>1 DEF E!Next, E!BeginLoop, E!Wait, E!Reported, E!HandlerReturns, E!EndLoop,
            E!EndOfBatch, E!NewChannel, E!AddChannel, E!UpdateChannel, E!Destroy,
            E!Make, E!Enter, E!Change, E!Leave
    <3>2. cur' = [chan |-> channels[e.fd], owner |-> e.owner] /\ channels[e.fd] # None
      BY <1>1, <3>1 DEF E!Dispatch
    <3>3. Seen(e.owner, e.fd) /\ e.fd \in Fds
      BY <1>1 DEF CallInv, ReportsOK, Seen
    <3> QED
      BY <1>1, <2>1, <3>2, <3>3, Right DEF CallInv
  <2>2. CASE chooser = "KEVENT" /\ K!Next
    <3>1. PICK e \in batch : K!Dispatch(e)
      BY <1>1, <2>2 DEF K!Next, K!BeginLoop, K!Wait, K!Reported, K!HandlerReturns, K!EndLoop,
            K!EndOfBatch, K!NewChannel, K!AddChannel, K!UpdateChannel, K!Destroy,
            K!Make, K!Enter, K!Change, K!Leave
    <3>2. cur' = [chan |-> channels[e.fd], owner |-> e.owner] /\ channels[e.fd] # None
      BY <1>1, <3>1 DEF K!Dispatch
    <3>3. Seen(e.owner, e.fd) /\ e.fd \in Fds
      BY <1>1 DEF CallInv, ReportsOK, Seen
    <3> QED
      BY <1>1, <2>2, <3>2, <3>3, Right DEF CallInv
  <2>3. ASSUME pos \in Fds, channels[pos] # None, ch' = channels[pos],
               chooser \notin {"EPOLL", "KEVENT"}
        PROVE  fdOf[ch'] = pos /\ RightChannel(ch', owner[pos])
    BY <1>1, <2>3, Right DEF CallInv, ReportsOK
  <2>4. CASE chooser = "POLL" /\ P!Next
    <3>1. P!VisitSlot \/ P!Writ
      BY <1>1, <2>4 DEF P!Next, P!BeginLoop, P!Wait, P!Reported, P!HandlerReturns, P!EndWalk,
            P!EndLoop, P!AddChannel, P!UpdateChannel, P!Destroy, P!Made, P!Entered,
            P!Changed, P!Left, P!Make, P!Enter, P!Change, P!Leave
    <3>2. CASE P!VisitSlot
      <4> DEFINE c == IF pollfds[pos].fd \in Fds THEN channels[pollfds[pos].fd] ELSE None
      <4>1. ch' = c /\ c # None /\ pos < P!Size
        BY <1>1, <3>2 DEF P!VisitSlot, P!Visit, P!Skip, P!Erro, P!Read
      <4>2. pos \in DOMAIN pollfds
        <5>1. PICK n \in Nat : pollfds \in [0 .. n - 1 -> P!Slots]
          BY <1>1, <2>4 DEF CallInv, SlotsOK
        <5>2. P!Size = n
          BY <5>1, SizeIs
        <5> QED
          BY <1>1, <4>1, <5>1, <5>2, SMT DEF CallInv, WalkOK
      <4>3. pollfds[pos].fd \in Fds /\ pollfds[pos].fd = pos
        BY <1>1, <2>4, <4>1, <4>2 DEF CallInv, SlotsOK
      <4> QED
        BY <2>3, <2>4, <4>1, <4>3
    <3>3. CASE P!Writ
      <4>1. ch' = channels[pos] /\ channels[pos] # None /\ at = "writ"
        BY <1>1, <3>3 DEF P!Writ
      <4> QED
        BY <1>1, <2>3, <2>4, <4>1 DEF CallInv, WalkOK
    <3> QED
      BY <2>4, <3>1, <3>2, <3>3
  <2>5. CASE chooser = "SELECT" /\ S!Next
    <3>1. S!VisitFd \/ S!Writ
      BY <1>1, <2>5 DEF S!Next, S!BeginLoop, S!Wait, S!Answer, S!WaitFails, S!Reported,
            S!HandlerReturns, S!EndWalk, S!EndLoop, S!AddChannel, S!UpdateChannel, S!Destroy,
            S!Made, S!Entered, S!Changed, S!Left, S!Make, S!Enter, S!Change, S!Leave
    <3>2. CASE S!VisitFd
      <4>1. pos \in Fds /\ ch' = channels[pos] /\ channels[pos] # None
        BY <1>1, <3>2 DEF S!VisitFd, S!Visit, S!Skip, S!Erro, S!Read
      <4> QED
        BY <2>3, <2>5, <4>1
    <3>3. CASE S!Writ
      <4>1. ch' = channels[pos] /\ channels[pos] # None /\ at = "writ"
        BY <1>1, <3>3 DEF S!Writ
      <4> QED
        BY <1>1, <2>3, <2>5, <4>1 DEF CallInv, WalkOK
    <3> QED
      BY <2>5, <3>1, <3>2, <3>3
  <2> QED
    BY <1>1, <2>1, <2>2, <2>4, <2>5 DEF Next
<1> QED
  BY <1>1, CallInvariance, PTL DEF Spec, CalledOnLiveChannel

-----------------------------------------------------------------------------
(* 4. PollerPoll: the pollfds of the added Channels, and no others.        *)

PollInv == TableInv /\ SlotsOK /\ P!PollfdsOK

\* A slot of an added Channel is another one than that of c.
LEMMA OwnSlot ==
    ASSUME TableInv, NEW c \in Chans, state[c] \in {"made", "added"}, NEW d \in Added, d # c
    PROVE  fdOf[d] # fdOf[c] /\ fdOf[d] \in Fds
<1>1. c \in Alive /\ d \in Alive
  BY DEF Alive, Added
<1> QED
  BY <1>1, AddedEntry DEF TableInv, TableOK, OwnFds

\* What PollerPoll's array has after addChanel.
LEMMA PollAdded ==
    ASSUME PollInv, NEW c \in Chans, P!AddChannel(c)
    PROVE  /\ fdOf[c] \in DOMAIN pollfds' /\ fdOf[c] \in Fds
           /\ pollfds'[fdOf[c]].fd = fdOf[c] /\ pollfds'[fdOf[c]].events = wants'[c]
           /\ \A i \in DOMAIN pollfds : i \in DOMAIN pollfds'
           /\ \A i \in DOMAIN pollfds' : i # fdOf[c] =>
                 \/ i \in DOMAIN pollfds /\ pollfds'[i] = pollfds[i]
                 \/ i \notin DOMAIN pollfds /\ pollfds'[i].fd = 0
<1> DEFINE fd == fdOf[c]
           g == P!Grown(fd)
<1>1. PICK n \in Nat : pollfds \in [0 .. n - 1 -> P!Slots]
  BY DEF PollInv, SlotsOK
<1>2. P!Size = n
  BY <1>1, SizeIs
<1>3. fd \in Fds /\ fd \in Nat
  BY MadeEntry, FdsAssumption DEF PollInv, P!AddChannel, P!Entered, P!Enter
<1>4. /\ fd \in DOMAIN g /\ \A i \in DOMAIN pollfds : i \in DOMAIN g
      /\ \A i \in DOMAIN g : \/ i \in DOMAIN pollfds /\ g[i] = pollfds[i]
                             \/ i \notin DOMAIN pollfds /\ g[i].fd = 0
  <2>1. CASE fd < n
    <3>1. g = pollfds /\ fd \in 0 .. n - 1
      BY <1>1, <1>2, <1>3, <2>1, SMT DEF P!Grown
    <3> QED
      BY <1>1, <3>1
  <2>2. CASE ~(fd < n)
    <3>1. g = [i \in 0 .. 2 * fd |-> IF i < n THEN pollfds[i] ELSE P!Spare]
      BY <1>2, <2>2 DEF P!Grown
    <3>2. fd \in 0 .. 2 * fd /\ \A i \in 0 .. n - 1 : i \in 0 .. 2 * fd
      BY <1>1, <1>3, <2>2, SMT
    <3>3. \A i \in 0 .. 2 * fd : i < n <=> i \in 0 .. n - 1
      BY <1>1, <1>3, SMT
    <3>4. P!Spare.fd = 0
      BY DEF P!Spare
    <3>5. /\ DOMAIN g = 0 .. 2 * fd
          /\ \A i \in 0 .. 2 * fd : g[i] = IF i < n THEN pollfds[i] ELSE P!Spare
      BY <3>1
    <3> HIDE DEF g
    <3> QED
      BY <1>1, <3>2, <3>3, <3>4, <3>5
  <2> QED
    BY <2>1, <2>2
<1>5. PICK junk : pollfds' = [g EXCEPT ![fd] = [fd |-> fd, events |-> wants'[c], revents |-> junk]]
  BY DEF P!AddChannel
<1> HIDE DEF g
<1>6. /\ DOMAIN pollfds' = DOMAIN g
      /\ pollfds'[fd] = [fd |-> fd, events |-> wants'[c], revents |-> junk]
      /\ \A i \in DOMAIN g : i # fd => pollfds'[i] = g[i]
  BY <1>4, <1>5
<1> QED
  BY <1>3, <1>4, <1>6

LEMMA PollKept ==
    ASSUME PollInv, P!Next, TableInv'
    PROVE  PollInv'
<1> USE DEF PollInv
<1>1. SlotsOK'
  BY SlotsStep DEF TableInv
<1>2. ChanTypeOK /\ ChanTypeOK'
  BY DEF TableInv
<1>3. PICK n \in Nat : pollfds \in [0 .. n - 1 -> P!Slots]
  BY DEF SlotsOK
<1>4. /\ \A d \in Added : /\ fdOf[d] \in DOMAIN pollfds /\ pollfds[fdOf[d]].fd = fdOf[d]
                          /\ pollfds[fdOf[d]].events = wants[d]
      /\ \A i \in DOMAIN pollfds : pollfds[i].fd > 0 => pollfds[i].fd = i /\ channels[i] # None
  BY DEF P!PollfdsOK, Added, P!Added
<1> DEFINE Goal == /\ \A d \in Added' : /\ fdOf'[d] \in DOMAIN pollfds' /\ pollfds'[fdOf'[d]].fd = fdOf'[d]
                                        /\ pollfds'[fdOf'[d]].events = wants'[d]
                   /\ \A i \in DOMAIN pollfds' : pollfds'[i].fd > 0 => pollfds'[i].fd = i /\ channels'[i] # None
<1>5. Goal => P!PollfdsOK'
  BY DEF P!PollfdsOK, Added, P!Added
<1>6. ASSUME NEW c \in Chans, P!AddChannel(c)
      PROVE  Goal
  <2> DEFINE fd == fdOf[c]
  <2>1. /\ channels' = [channels EXCEPT ![fd] = c] /\ UNCHANGED fdOf
        /\ state[c] = "made" /\ state' = [state EXCEPT ![c] = "added"]
    BY <1>6 DEF P!AddChannel, P!Entered, P!Enter
  <2>2. PICK w \in SUBSET P!Kinds : wants' = [wants EXCEPT ![c] = w]
    BY <1>6 DEF P!AddChannel, P!Entered, P!Enter
  <2>3. Added' = Added \cup {c} /\ c # None /\ c \notin Added
    BY <1>2, <2>1, NoneAssumption DEF Added, ChanTypeOK
  <2>4. ASSUME NEW d \in Added
        PROVE  fdOf[d] # fd /\ wants'[d] = wants[d]
    <3>1. d # c
      BY <2>3
    <3>2. fdOf[d] # fdOf[c]
      BY <2>1, <3>1, OwnSlot
    <3> QED
      BY <1>2, <2>2, <3>1, <3>2 DEF ChanTypeOK, Added
  <2>5. /\ fd \in DOMAIN pollfds' /\ fd \in Fds
        /\ pollfds'[fd].fd = fd /\ pollfds'[fd].events = wants'[c]
        /\ \A i \in DOMAIN pollfds : i \in DOMAIN pollfds'
        /\ \A i \in DOMAIN pollfds' : i # fd =>
                 \/ i \in DOMAIN pollfds /\ pollfds'[i] = pollfds[i]
                 \/ i \notin DOMAIN pollfds /\ pollfds'[i].fd = 0
    BY <1>6, PollAdded
  <2>6. channels'[fd] = c /\ \A i : i # fd => channels'[i] = channels[i]
    BY <1>2, <2>1, <2>5 DEF ChanTypeOK
  <2> HIDE DEF fd
  <2>7. ASSUME NEW d \in Added'
        PROVE  /\ fdOf'[d] \in DOMAIN pollfds' /\ pollfds'[fdOf'[d]].fd = fdOf'[d]
               /\ pollfds'[fdOf'[d]].events = wants'[d]
    <3>1. CASE d = c
      BY <2>1, <2>5, <3>1 DEF fd
    <3>2. CASE d # c
      BY <1>4, <2>1, <2>3, <2>4, <2>5, <3>2
    <3> QED
      BY <3>1, <3>2
  <2>8. ASSUME NEW i \in DOMAIN pollfds', pollfds'[i].fd > 0
        PROVE  pollfds'[i].fd = i /\ channels'[i] # None
    <3>1. CASE i = fd
      BY <2>3, <2>5, <2>6, <3>1
    <3>2. CASE i # fd
      BY <1>4, <2>5, <2>6, <2>8, <3>2, ~(0 > 0)
    <3> QED
      BY <3>1, <3>2
  <2> QED
    BY <2>7, <2>8
<1>7. ASSUME NEW c \in Chans, NEW k \in P!Kinds, NEW on \in BOOLEAN, P!UpdateChannel(c, k, on)
      PROVE  Goal
  <2>1. /\ UNCHANGED <<channels, fdOf, state>> /\ state[c] = "added"
        /\ pollfds' = [pollfds EXCEPT ![fdOf[c]].events = wants'[c]]
        /\ \A d \in Added : d # c => wants'[d] = wants[d]
    BY <1>2, <1>7 DEF P!UpdateChannel, P!Changed, P!Change, ChanTypeOK, Added
  <2>2. c \in Added /\ Added' = Added
    BY <2>1 DEF Added
  <2>3. \A d \in Added : d # c => fdOf[d] # fdOf[c]
    BY <2>1, OwnSlot
  <2>4. /\ DOMAIN pollfds' = DOMAIN pollfds
        /\ \A i \in DOMAIN pollfds : pollfds'[i].fd = pollfds[i].fd
        /\ \A i \in DOMAIN pollfds : i # fdOf[c] => pollfds'[i] = pollfds[i]
        /\ pollfds'[fdOf[c]].events = wants'[c]
    BY <1>3, <1>4, <2>1, <2>2 DEF P!Slots
  <2> QED
    BY <1>4, <2>1, <2>2, <2>3, <2>4
<1>8. ASSUME NEW c \in Chans, P!Destroy(c)
      PROVE  Goal
  <2> DEFINE fd == fdOf[c]
  <2>1. /\ channels' = [channels EXCEPT ![fd] = None] /\ UNCHANGED fdOf
        /\ state[c] \in {"made", "added"} /\ wants' = [wants EXCEPT ![c] = {}]
        /\ state' = [state EXCEPT ![c] = IF @ = "added" THEN "dead" ELSE "discarded"]
    BY <1>8 DEF P!Destroy, P!Left, P!Leave
  <2>2. fd \in Fds /\ fd \in Nat /\ P!Size = n
    BY <1>3, <2>1, MadeEntry, AddedEntry, FdsAssumption, SizeIs DEF Added
  <2>3. \/ pollfds' = [pollfds EXCEPT ![fd].fd = -1]
        \/ fd \notin DOMAIN pollfds /\ pollfds' = pollfds
    BY <1>3, <1>8, <2>2 DEF P!Destroy
  <2>4. /\ DOMAIN pollfds' = DOMAIN pollfds
        /\ \A i \in DOMAIN pollfds : i # fd => pollfds'[i] = pollfds[i]
        /\ fd \in DOMAIN pollfds => pollfds'[fd].fd = -1
    BY <1>3, <2>3 DEF P!Slots
  <2>5. Added' = Added \ {c}
    BY <1>2, <2>1 DEF Added, ChanTypeOK
  <2>6. \A d \in Added : d # c => fdOf[d] # fd /\ wants'[d] = wants[d]
    BY <1>2, <2>1, OwnSlot DEF ChanTypeOK, Added
  <2>7. \A i : i # fd => channels'[i] = channels[i]
    BY <1>2, <2>1 DEF ChanTypeOK
  <2> HIDE DEF fd
  <2>8. \A i \in DOMAIN pollfds' : pollfds'[i].fd > 0 => pollfds'[i].fd = i /\ channels'[i] # None
    BY <1>4, <2>4, <2>7, ~(-1 > 0)
  <2> QED
    BY <1>4, <2>1, <2>4, <2>5, <2>6, <2>8
<1>9. ASSUME P!Wait \/ P!EndWalk
      PROVE  Goal
  <2>1. UNCHANGED <<state, fdOf, wants, channels>>
    BY <1>9 DEF P!Wait, P!Reported, P!EndWalk, P!EndLoop, P!chanVars
  <2>2. DOMAIN pollfds' = DOMAIN pollfds /\ \A i \in DOMAIN pollfds :
          pollfds'[i].fd = pollfds[i].fd /\ pollfds'[i].events = pollfds[i].events
    BY <1>3, <1>9, ZenonT(60) DEF P!Wait, P!EndWalk, P!Slots
  <2>3. Added' = Added
    BY <2>1 DEF Added
  <2> QED
    BY <1>4, <2>1, <2>2, <2>3
<1>10. ASSUME NEW c \in Chans, P!Made(c), UNCHANGED pollfds
       PROVE  Goal
  <2>1. Added' = Added /\ UNCHANGED <<wants, channels>> /\ \A d \in Added : fdOf'[d] = fdOf[d]
    BY <1>2, <1>10 DEF P!Made, P!Make, Added, ChanTypeOK
  <2> QED
    BY <1>4, <1>10, <2>1
<1>11. ASSUME P!VisitSlot \/ ((P!BeginLoop \/ P!Writ \/ P!HandlerReturns) /\ UNCHANGED pollfds)
       PROVE  Goal
  <2>1. UNCHANGED <<pollfds, state, fdOf, wants, channels>>
    BY <1>11 DEF P!VisitSlot, P!Visit, P!BeginLoop, P!Writ, P!HandlerReturns, P!chanVars
  <2>2. Added' = Added
    BY <2>1 DEF Added
  <2> QED
    BY <1>4, <2>1, <2>2
<1> HIDE DEF Goal
<1> QED
  BY <1>1, <1>5, <1>6, <1>7, <1>8, <1>9, <1>10, <1>11 DEF P!Next

LEMMA PollAtFirst == ChanInit /\ P!Init => PollInv
<1> SUFFICES ASSUME ChanInit, P!Init PROVE PollInv
  OBVIOUS
<1>1. TableInv /\ SlotsOK
  BY ChanInitOK, SlotsInit
<1>2. \A i \in DOMAIN pollfds : pollfds[i].fd = 0
  BY DEF P!Init, P!Spare
<1>3. P!Added = {}
  BY DEF ChanInit, P!Added
<1> QED
  BY <1>1, <1>2, <1>3 DEF PollInv, P!PollfdsOK

-----------------------------------------------------------------------------
(* 5. PollerSelect: the three sets.                                        *)

SelectInv == TableInv /\ S!TypeOK /\ S!SetsOK /\ (Added # {} => maxfd >= 0)

\* Why select(2) does not fail on a descriptor that is not open.
LEMMA SelectFails ==
    ASSUME TableInv, maxfd \in Int,
           \A fd \in Fds : watched[fd] = stray[fd] \cup
               IF channels[fd] = None THEN {} ELSE {"erro"} \cup wants[channels[fd]],
           Discarded = {} => \A c \in Added : fdOf[c] < maxfd,
           Added # {} => maxfd >= 0
    PROVE  S!SetsOK
<1>1. ASSUME S!Fails, Added # {}
      PROVE  \E fd \in Fds \ open : stray[fd] # {}
  <2>1. PICK fd \in Fds \ open : watched[fd] # {}
    BY <1>1 DEF S!Fails
  <2>2. channels[fd] = None
    BY <2>1, AddedEntry DEF TableInv, TableOK
  <2> QED
    BY <2>1, <2>2
<1>2. S!Added = Added /\ S!Discarded = Discarded
  BY DEF S!Added, Added, S!Discarded, Discarded
<1> QED
  BY <1>1, <1>2 DEF S!SetsOK

LEMMA SelectAtFirst == ChanInit /\ S!Init => SelectInv
<1> SUFFICES ASSUME ChanInit, S!Init PROVE SelectInv
  OBVIOUS
<1>1. TableInv
  BY ChanInitOK
<1>2. S!TypeOK
  <2>1. Garbage \subseteq SUBSET S!Sets
    BY GarbageAssumption DEF S!Sets, S!Kinds, Bits, Kinds
  <2> QED
    BY <2>1 DEF S!Init, S!TypeOK
<1>3. S!SetsOK
  <2>1. Added = {}
    BY DEF ChanInit, Added
  <2>2. \A fd \in Fds : channels[fd] = None /\ watched[fd] = stray[fd]
    BY DEF ChanInit, S!Init
  <2> QED
    BY <1>1, <1>2, <2>1, <2>2, SelectFails DEF S!TypeOK
<1>4. Added = {}
  BY DEF ChanInit, Added
<1> QED
  BY <1>1, <1>2, <1>3, <1>4 DEF SelectInv

LEMMA SelectKept ==
    ASSUME SelectInv, S!Next, TableInv'
    PROVE  SelectInv'
<1>1. ChanTypeOK /\ ChanTypeOK' /\ TableInv /\ TableInv'
  BY DEF SelectInv, TableInv
<1>2. /\ watched \in [Fds -> SUBSET S!Sets] /\ stray \in [Fds -> SUBSET S!Sets]
      /\ result \in [Fds -> SUBSET S!Sets] /\ maxfd \in Int
      /\ \A fd \in Fds : watched[fd] = stray[fd] \cup
               IF channels[fd] = None THEN {} ELSE {"erro"} \cup wants[channels[fd]]
      /\ Discarded = {} => \A c \in Added : fdOf[c] < maxfd
      /\ Added # {} => maxfd >= 0
  BY DEF SelectInv, S!TypeOK, S!SetsOK, S!Added, Added, S!Discarded, Discarded
<1> DEFINE Goal == /\ watched' \in [Fds -> SUBSET S!Sets] /\ stray' \in [Fds -> SUBSET S!Sets]
                   /\ result' \in [Fds -> SUBSET S!Sets] /\ maxfd' \in Int
                   /\ \A fd \in Fds : watched'[fd] = stray'[fd] \cup
                        IF channels'[fd] = None THEN {} ELSE {"erro"} \cup wants'[channels'[fd]]
                   /\ Discarded' = {} => \A c \in Added' : fdOf'[c] < maxfd'
                   /\ Added' # {} => maxfd' >= 0
<1>3. ASSUME Goal PROVE SelectInv'
  <2>1. S!TypeOK'
    BY <1>3 DEF S!TypeOK
  <2>2. S!SetsOK'
    <3>1. S!Added' = Added' /\ S!Discarded' = Discarded'
      BY DEF S!Added, Added, S!Discarded, Discarded
    <3>2. ASSUME S!Fails', Added' # {}
          PROVE  \E fd \in Fds \ open' : stray'[fd] # {}
      <4>3. PICK fd \in Fds \ open' : watched'[fd] # {}
        BY <1>3, <3>2 DEF S!Fails
      <4>4. channels'[fd] = None
        <5> SUFFICES ASSUME channels'[fd] # None PROVE FALSE
          OBVIOUS
        <5>1. channels'[fd] \in Added' /\ fdOf'[channels'[fd]] = fd
          BY <1>1, <4>3 DEF TableInv, TableOK
        <5>2. fdOf'[channels'[fd]] \in open'
          BY <1>1, <5>1 DEF TableInv, TableOK, OwnFds, Added, Alive
        <5> QED
          BY <4>3, <5>1, <5>2
      <4> QED
        BY <1>3, <4>3, <4>4
    <3> HIDE DEF Goal
    <3>3. Goal
      BY <1>3
    <3> QED
      BY <3>1, <3>2, <3>3 DEF S!SetsOK, Goal
  <2> QED
    BY <1>1, <1>3, <2>1, <2>2 DEF SelectInv
<1>4. ASSUME NEW c \in Chans, S!AddChannel(c)
      PROVE  Goal
  <2> DEFINE fd == fdOf[c]
  <2>1. /\ channels' = [channels EXCEPT ![fd] = c] /\ UNCHANGED <<fdOf, result, stray>>
        /\ state[c] = "made" /\ state' = [state EXCEPT ![c] = "added"]
        /\ watched' = [watched EXCEPT ![fd] = @ \cup {"erro"} \cup wants'[c]]
        /\ maxfd' = IF fd >= maxfd THEN fd + 1 ELSE maxfd
    BY <1>4 DEF S!AddChannel, S!Entered, S!Enter, S!MaxWith
  <2>2. PICK w \in SUBSET S!Kinds : wants' = [wants EXCEPT ![c] = w]
    BY <1>4 DEF S!AddChannel, S!Entered, S!Enter
  <2>3. Added' = Added \cup {c} /\ c # None /\ c \notin Added
    BY <1>1, <2>1, NoneAssumption DEF Added, ChanTypeOK
  <2>4. fd \in Fds /\ fd \in Nat /\ channels[fd] = None
    BY <1>1, <2>1, MadeEntry, FdsAssumption
  <2>5. wants'[c] = w /\ \A d \in Added : wants'[d] = wants[d]
    BY <1>1, <2>2, <2>3 DEF ChanTypeOK, Added
  <2>6. \A g \in Fds : channels[g] # None => channels[g] \in Added
    BY <1>1 DEF TableInv, TableOK
  <2>7. w \subseteq S!Sets /\ {"erro"} \subseteq S!Sets
    BY DEF S!Sets
  <2>8. watched' \in [Fds -> SUBSET S!Sets]
    BY <1>2, <2>1, <2>4, <2>5, <2>7
  <2>9. ASSUME NEW g \in Fds
        PROVE  watched'[g] = stray'[g] \cup
                 IF channels'[g] = None THEN {} ELSE {"erro"} \cup wants'[channels'[g]]
    <3>1. CASE g = fd
      <4>1. channels'[g] = c
        BY <1>1, <2>1, <2>4, <3>1 DEF ChanTypeOK
      <4>2. watched'[g] = watched[g] \cup {"erro"} \cup w
        BY <1>2, <2>1, <2>4, <2>5, <3>1
      <4>3. watched[g] = stray[g]
        BY <1>2, <2>4, <3>1
      <4> QED
        BY <2>1, <2>3, <2>5, <4>1, <4>2, <4>3
    <3>2. CASE g # fd
      BY <1>1, <1>2, <2>1, <2>5, <2>6, <3>2 DEF ChanTypeOK
    <3> QED
      BY <3>1, <3>2
  <2>10. maxfd' \in Int /\ (Discarded' = {} => \A d \in Added' : fdOf'[d] < maxfd')
    <3>1. ASSUME NEW d \in Added PROVE fdOf[d] \in Int
      <4>1. fdOf[d] \in Fds
        BY <1>1, AddedEntry
      <4>2. Fds \subseteq Int
        BY FdsAssumption
      <4> QED
        BY <4>1, <4>2
    <3>2. maxfd' \in Int /\ maxfd <= maxfd' /\ fd < maxfd'
      BY <1>2, <2>1, <2>4
    <3>3. ASSUME Discarded = {}, NEW d \in Added PROVE fdOf'[d] < maxfd'
      BY <1>2, <2>1, <3>1, <3>2, <3>3
    <3>4. Discarded' = Discarded
      BY <1>1, <2>1 DEF Discarded, ChanTypeOK
    <3> QED
      BY <2>1, <2>3, <3>2, <3>3, <3>4
  <2>11. maxfd' >= 0
    BY <1>2, <2>1, <2>4
  <2> QED
    BY <1>2, <2>1, <2>8, <2>9, <2>10, <2>11
<1>5. ASSUME NEW c \in Chans, NEW k \in S!Kinds, NEW on \in BOOLEAN, S!UpdateChannel(c, k, on)
      PROVE  Goal
  <2> DEFINE fd == fdOf[c]
  <2>1. /\ UNCHANGED <<channels, fdOf, state, maxfd, result>> /\ state[c] = "added"
        /\ watched' = [watched EXCEPT ![fd] = (@ \cap {"erro"}) \cup wants'[c]]
        /\ stray' = [stray EXCEPT ![fd] = @ \cap {"erro"}]
        /\ \A d \in Added : d # c => wants'[d] = wants[d]
    BY <1>1, <1>5 DEF S!UpdateChannel, S!Changed, S!Change, ChanTypeOK, Added
  <2>2. c \in Added /\ Added' = Added /\ c # None
    BY <2>1, NoneAssumption DEF Added
  <2>3. fd \in Fds /\ channels[fd] = c /\ wants'[c] \subseteq Kinds /\ wants[c] \subseteq Kinds
    BY <1>1, <2>2, AddedEntry DEF ChanTypeOK, Added
  <2>4. \A g \in Fds : g # fd => channels[g] # c
    BY <1>1, <2>2 DEF TableInv, TableOK
  <2>5. \A g \in Fds : channels[g] # None => channels[g] \in Added
    BY <1>1 DEF TableInv, TableOK
  <2>6. Kinds \subseteq S!Sets /\ "erro" \in S!Sets /\ "erro" \notin Kinds
    BY DEF S!Sets, S!Kinds, Kinds
  <2>7. watched' \in [Fds -> SUBSET S!Sets] /\ stray' \in [Fds -> SUBSET S!Sets]
    BY <1>2, <2>1, <2>3, <2>6
  <2>8. ASSUME NEW g \in Fds
        PROVE  watched'[g] = stray'[g] \cup
                 IF channels'[g] = None THEN {} ELSE {"erro"} \cup wants'[channels'[g]]
    <3>1. CASE g = fd
      <4>1. /\ channels'[g] = c /\ watched'[g] = (watched[g] \cap {"erro"}) \cup wants'[c]
            /\ watched[g] = stray[g] \cup {"erro"} \cup wants[c] /\ stray'[g] = stray[g] \cap {"erro"}
        BY <1>2, <2>1, <2>2, <2>3, <3>1
      <4> QED
        BY <2>2, <4>1
    <3>2. CASE g # fd
      <4>1. watched'[g] = watched[g] /\ stray'[g] = stray[g] /\ channels'[g] = channels[g]
        BY <1>2, <2>1, <3>2
      <4>2. channels[g] # None => wants'[channels[g]] = wants[channels[g]]
        BY <2>1, <2>4, <2>5, <3>2
      <4> QED
        BY <1>2, <4>1, <4>2
    <3> QED
      BY <3>1, <3>2
  <2>9. Discarded' = Discarded
    BY <2>1 DEF Discarded
  <2> QED
    BY <1>2, <2>1, <2>2, <2>7, <2>8, <2>9
<1>6. ASSUME NEW c \in Chans, S!Destroy(c)
      PROVE  Goal
  <2> DEFINE fd == fdOf[c]
  <2>1. /\ channels' = [channels EXCEPT ![fd] = None] /\ UNCHANGED <<fdOf, result>>
        /\ state[c] \in {"made", "added"} /\ wants' = [wants EXCEPT ![c] = {}]
        /\ state' = [state EXCEPT ![c] = IF @ = "added" THEN "dead" ELSE "discarded"]
        /\ watched' = [watched EXCEPT ![fd] = {}] /\ stray' = [stray EXCEPT ![fd] = {}]
    BY <1>6 DEF S!Destroy, S!Left, S!Leave
  <2>2. \/ maxfd' = maxfd
        \/ fd = maxfd /\ \E m \in 0 .. maxfd - 1 : maxfd' = m
    BY <1>6 DEF S!Destroy
  <2>3. fd \in Fds /\ fd \in Nat /\ channels[fd] \in {c, None}
    BY <1>1, <2>1, AddedEntry, MadeEntry, FdsAssumption DEF Added
  <2>4. Added' = Added \ {c}
    BY <1>1, <2>1 DEF Added, ChanTypeOK
  <2>5. \A g \in Fds : channels[g] # None => channels[g] \in Added /\ fdOf[channels[g]] = g
    BY <1>1 DEF TableInv, TableOK
  <2>6. watched' \in [Fds -> SUBSET S!Sets] /\ stray' \in [Fds -> SUBSET S!Sets]
    BY <1>2, <2>1
  <2>7. ASSUME NEW g \in Fds
        PROVE  watched'[g] = stray'[g] \cup
                 IF channels'[g] = None THEN {} ELSE {"erro"} \cup wants'[channels'[g]]
    <3>1. CASE g = fd
      BY <1>1, <1>2, <2>1, <2>3, <3>1 DEF ChanTypeOK
    <3>2. CASE g # fd
      <4>1. watched'[g] = watched[g] /\ stray'[g] = stray[g] /\ channels'[g] = channels[g]
        BY <1>1, <1>2, <2>1, <3>2 DEF ChanTypeOK
      <4>2. channels[g] # None => channels[g] # c
        BY <2>5, <3>2
      <4>3. channels[g] # None => wants'[channels[g]] = wants[channels[g]]
        BY <1>1, <2>1, <2>5, <4>2 DEF ChanTypeOK, Added
      <4> QED
        BY <1>2, <4>1, <4>3
    <3> QED
      BY <3>1, <3>2
  <2>8. maxfd' \in Int /\ (Added' # {} => maxfd' >= 0)
    <3>1. CASE maxfd' = maxfd
      BY <1>2, <2>4, <3>1
    <3>2. ASSUME NEW m \in 0 .. maxfd - 1, maxfd' = m PROVE maxfd' \in Int /\ maxfd' >= 0
      BY <1>2, <3>2
    <3> QED
      BY <2>2, <3>1, <3>2
  <2>9. ASSUME Discarded' = {}
        PROVE  \A d \in Added' : fdOf'[d] < maxfd'
    <3>1. state[c] # "made"
      BY <1>1, <2>1, <2>9 DEF Discarded, ChanTypeOK
    <3>2. c \in Added
      BY <2>1, <3>1 DEF Added
    <3>3. Discarded = {}
      BY <1>1, <2>1, <2>9 DEF Discarded, ChanTypeOK
    <3>4. fd < maxfd
      BY <1>2, <3>2, <3>3
    <3>5. maxfd' = maxfd
      BY <1>2, <2>2, <2>3, <3>4
    <3> QED
      BY <1>2, <2>1, <2>4, <3>3, <3>5
  <2> QED
    BY <1>2, <2>1, <2>6, <2>7, <2>8, <2>9
<1>7. ASSUME NEW c \in Chans, S!Made(c), UNCHANGED S!selectVars
      PROVE  Goal
  <2>1. Added' = Added /\ UNCHANGED <<wants, channels>> /\ \A d \in Added : fdOf'[d] = fdOf[d]
    BY <1>1, <1>7 DEF S!Made, S!Make, Added, ChanTypeOK
  <2>2. Discarded' = Discarded
    BY <1>1, <1>7 DEF S!Made, S!Make, Discarded, ChanTypeOK
  <2> QED
    BY <1>2, <1>7, <2>1, <2>2 DEF S!selectVars
<1>8. ASSUME S!Wait \/ S!WaitFails \/ S!EndWalk \/ S!VisitFd
             \/ ((S!BeginLoop \/ S!Writ \/ S!HandlerReturns) /\ UNCHANGED S!selectVars)
      PROVE  Goal
  <2>1. UNCHANGED <<watched, maxfd, stray, state, fdOf, wants, channels>>
    BY <1>8 DEF S!Wait, S!Answer, S!WaitFails, S!EndWalk, S!VisitFd, S!BeginLoop, S!Writ,
        S!HandlerReturns, S!Reported, S!EndLoop, S!Visit, S!selectVars, S!chanVars
  <2>2. result' \in [Fds -> SUBSET S!Sets]
    BY <1>2, <1>8 DEF S!Wait, S!Answer, S!WaitFails, S!EndWalk, S!VisitFd, S!selectVars
  <2>3. Added' = Added /\ Discarded' = Discarded
    BY <2>1 DEF Added, Discarded
  <2> QED
    BY <1>2, <2>1, <2>2, <2>3
<1> HIDE DEF Goal
<1> QED
  BY <1>3, <1>4, <1>5, <1>6, <1>7, <1>8 DEF S!Next

-----------------------------------------------------------------------------
(* 6. The walk of poll and select.                                         *)

ScanOK == ScanTypeOK /\ (at # "slot" => nready > 0)

LEMMA ReportedScan ==
    ASSUME ScanOK, ChanTypeOK, NEW n \in Nat, at = "slot", P!Reported(n)
    PROVE  ScanOK'
  BY DEF P!Reported, ScanOK, ScanTypeOK, ChanTypeOK

LEMMA EndScan ==
    ASSUME ScanOK, NEW limit, P!EndLoop(limit)
    PROVE  ScanOK'
  BY DEF P!EndLoop, ScanOK, ScanTypeOK

LEMMA VisitScan ==
    ASSUME ScanOK, NEW c \in Chans \cup {None}, NEW bits \in SUBSET Bits, P!Visit(c, bits)
    PROVE  ScanOK'
<1>1. UNCHANGED <<owner, added>> /\ nready > 0 /\ pos + 1 \in Nat /\ nready \in Nat
  BY DEF P!Visit, ScanOK, ScanTypeOK
<1>2. CASE P!Skip(c) \/ P!Erro(c, bits)
  BY <1>1, <1>2 DEF P!Skip, P!Erro, P!NextSlot, ScanOK, ScanTypeOK
<1>3. CASE P!Read(c, bits)
  BY <1>1, <1>3 DEF P!Read, ScanOK, ScanTypeOK
<1> QED
  BY <1>2, <1>3 DEF P!Visit

LEMMA WritScan ==
    ASSUME ScanOK, ChanTypeOK, P!Writ, pos \in Fds
    PROVE  ScanOK'
<1>1. /\ nready - 1 \in Nat /\ pos + 1 \in Nat /\ nready \in Nat
      /\ channels[pos] \in Chans \cup {None}
  BY DEF P!Writ, ScanOK, ScanTypeOK, ChanTypeOK
<1>2. /\ pos' = pos + 1 /\ at' = "slot" /\ revent' = {} /\ UNCHANGED <<owner, added>>
      /\ nready' \in Nat /\ ch' \in Chans \cup {None}
  BY <1>1 DEF P!Writ, P!NextSlot
<1> QED
  BY <1>1, <1>2 DEF ScanOK, ScanTypeOK

LEMMA OtherScan ==
    ASSUME ScanOK, P!BeginLoop \/ P!HandlerReturns \/ \E c \in Chans : P!Made(c) \/ P!Left(c) \/
             \E k \in Kinds, on \in BOOLEAN : P!Changed(c, k, on)
    PROVE  ScanOK'
  BY DEF P!BeginLoop, P!HandlerReturns, P!Made, P!Left, P!Changed, P!scanVars, P!walkVars,
         ScanOK, ScanTypeOK

LEMMA EnteredScan ==
    ASSUME ScanOK, TableInv, NEW c \in Chans, P!Entered(c)
    PROVE  ScanOK'
<1>1. fdOf[c] \in Fds
  BY MadeEntry DEF P!Entered, P!Enter
<1> QED
  BY <1>1 DEF P!Entered, P!walkVars, ScanOK, ScanTypeOK

LEMMA PollScan ==
    ASSUME ScanOK, TableInv, SlotsOK, WalkOK, P!Next, chooser = "POLL"
    PROVE  ScanOK'
<1>0. ChanTypeOK
  BY DEF TableInv
<1>1. PICK n \in Nat : pollfds \in [0 .. n - 1 -> P!Slots]
  BY DEF SlotsOK
<1>2. CASE P!Wait
  <2>1. PICK hungUp \in BOOLEAN, says \in [Fds -> SUBSET {"erro", "in", "out"}] :
          P!Reported(P!Cardinality({i \in DOMAIN pollfds : P!Revents(i, hungUp, says) # {}}))
    BY <1>2 DEF P!Wait
  <2> DEFINE T == {i \in DOMAIN pollfds : P!Revents(i, hungUp, says) # {}}
  <2>2. Cardinality(T) \in Nat
    <3>1. IsFiniteSet(0 .. n - 1) /\ T \in SUBSET (0 .. n - 1)
      BY <1>1, FS_Interval
    <3> HIDE DEF T
    <3> QED
      BY <3>1, FS_Subset, FS_CardinalityType
  <2>3. P!Cardinality(T) = Cardinality(T)
    BY DEF Cardinality, P!Cardinality
  <2>4. at = "slot"
    BY <2>1 DEF P!Reported, WalkOK
  <2> QED
    BY <1>0, <2>1, <2>2, <2>3, <2>4, ReportedScan
<1>3. CASE P!EndWalk
  BY <1>3, EndScan DEF P!EndWalk
<1>4. CASE P!VisitSlot
  <2> DEFINE c == IF pollfds[pos].fd \in Fds THEN channels[pollfds[pos].fd] ELSE None
  <2>1. P!Visit(c, pollfds[pos].revents) /\ pos < P!Size
    BY <1>4 DEF P!VisitSlot
  <2>2. P!Size = n
    BY <1>1, SizeIs
  <2>3. pos \in 0 .. n - 1
    BY <2>1, <2>2 DEF ScanOK, ScanTypeOK
  <2>4. pollfds[pos].revents \in SUBSET Bits /\ c \in Chans \cup {None}
    BY <1>0, <1>1, <2>3 DEF P!Slots, P!Bits, Bits, P!Kinds, Kinds, ChanTypeOK
  <2> HIDE DEF c
  <2> QED
    BY <2>1, <2>4, VisitScan
<1>5. CASE P!Writ
  BY <1>0, <1>5, WritScan DEF WalkOK, P!Writ
<1>6. ASSUME NEW c \in Chans, P!AddChannel(c)
      PROVE  ScanOK'
  BY <1>6, EnteredScan DEF P!AddChannel
<1>7. CASE P!BeginLoop \/ P!HandlerReturns \/ \E c \in Chans : P!Made(c) \/ P!Destroy(c) \/
             \E k \in P!Kinds, on \in BOOLEAN : P!UpdateChannel(c, k, on)
  BY <1>7, OtherScan DEF P!Destroy, P!UpdateChannel, P!Kinds, Kinds
<1> QED
  BY <1>2, <1>3, <1>4, <1>5, <1>6, <1>7 DEF P!Next

\* The walk of PollerSelect is that of PollerPoll.
LEMMA SameWalk ==
    /\ \A n : S!Reported(n) <=> P!Reported(n)
    /\ \A limit : S!EndLoop(limit) <=> P!EndLoop(limit)
    /\ \A c, bits : S!Visit(c, bits) <=> P!Visit(c, bits)
    /\ S!Writ <=> P!Writ
    /\ S!BeginLoop <=> P!BeginLoop
    /\ S!HandlerReturns <=> P!HandlerReturns
    /\ \A c : /\ S!Made(c) <=> P!Made(c)
              /\ S!Entered(c) <=> P!Entered(c)
              /\ S!Left(c) <=> P!Left(c)
              /\ \A k, on : S!Changed(c, k, on) <=> P!Changed(c, k, on)
  BY DEF S!Reported, P!Reported, S!EndLoop, P!EndLoop, S!Visit, P!Visit, S!Skip, P!Skip,
         S!Erro, P!Erro, S!Read, P!Read, S!Writ, P!Writ, S!NextSlot, P!NextSlot,
         S!BeginLoop, P!BeginLoop, S!HandlerReturns, P!HandlerReturns, S!Made, P!Made,
         S!Make, P!Make, S!Entered, P!Entered, S!Enter, P!Enter, S!Left, P!Left,
         S!Leave, P!Leave, S!Changed, P!Changed, S!Change, P!Change, S!UserCode, P!UserCode,
         S!Kinds, P!Kinds, S!chanVars, P!chanVars, S!walkVars, P!walkVars, S!scanVars, P!scanVars

\* The bits that select(2) leaves: there is a number of them.
LEMMA BitsFinite ==
    ASSUME maxfd \in Int, NEW left,
           \A fd \in Fds : left[fd] \subseteq IF fd < maxfd THEN watched[fd] ELSE {}
    PROVE  IsFiniteSet({b \in Fds \X S!Sets : b[2] \in left[b[1]]})
<1> DEFINE T == {b \in Fds \X S!Sets : b[2] \in left[b[1]]}
<1>1. IsFiniteSet((0 .. maxfd) \X S!Sets)
  <2>1. IsFiniteSet(0 .. maxfd)
    BY FS_Interval
  <2>2. IsFiniteSet(S!Sets)
    <3>1. S!Sets = ({} \cup {"erro"} \cup {"in"}) \cup {"out"}
      BY DEF S!Sets, S!Kinds
    <3> QED
      BY <3>1, FS_EmptySet, FS_AddElement
  <2> QED
    BY <2>1, <2>2, FS_Product
<1>2. T \subseteq (0 .. maxfd) \X S!Sets
  <2> SUFFICES ASSUME NEW b \in T PROVE b \in (0 .. maxfd) \X S!Sets
    OBVIOUS
  <2>1. b \in Fds \X S!Sets /\ b[2] \in left[b[1]]
    OBVIOUS
  <2>2. b[1] < maxfd /\ b[1] \in Nat
    BY <2>1, FdsAssumption
  <2>3. b[1] \in 0 .. maxfd
    BY <2>2
  <2> QED
    BY <2>1, <2>3
<1> HIDE DEF T
<1>3. IsFiniteSet(T)
  BY <1>1, <1>2, FS_Subset
<1> QED
  BY <1>3 DEF T

LEMMA SelectScan ==
    ASSUME ScanOK, SelectInv, WalkOK, S!Next, chooser = "SELECT"
    PROVE  ScanOK'
<1>0. ChanTypeOK /\ TableInv /\ maxfd \in Int /\ result \in [Fds -> SUBSET S!Sets]
  BY DEF SelectInv, TableInv, S!TypeOK
<1>1. S!Sets \subseteq Bits
  BY DEF S!Sets, S!Kinds, Bits, Kinds
<1>2. CASE S!Wait
  <2>1. PICK left \in [Fds -> SUBSET S!Sets] :
          /\ \A fd \in Fds : left[fd] \subseteq IF fd < maxfd THEN watched[fd] ELSE {}
          /\ S!Reported(S!Cardinality({b \in Fds \X S!Sets : b[2] \in left[b[1]]}))
    BY <1>2 DEF S!Wait, S!Answer
  <2> DEFINE T == {b \in Fds \X S!Sets : b[2] \in left[b[1]]}
  <2>2. IsFiniteSet(T)
    BY <1>0, <2>1, BitsFinite
  <2>4. Cardinality(T) \in Nat
    <3> HIDE DEF T
    <3> QED
      BY <2>2, FS_CardinalityType
  <2>5. S!Cardinality(T) = Cardinality(T)
    BY DEF Cardinality, S!Cardinality
  <2>6. at = "slot"
    BY <2>1 DEF S!Reported, WalkOK
  <2>7. P!Reported(Cardinality(T))
    BY <2>1, <2>5, SameWalk
  <2> HIDE DEF T
  <2> QED
    BY <1>0, <2>4, <2>6, <2>7, ReportedScan
<1>3. CASE S!WaitFails
  <2>1. P!Reported(0) /\ at = "slot"
    BY <1>3, SameWalk DEF S!WaitFails, S!Reported, WalkOK
  <2> QED
    BY <1>0, <2>1, ReportedScan
<1>4. CASE S!EndWalk
  BY <1>4, SameWalk, EndScan DEF S!EndWalk
<1>5. CASE S!VisitFd
  <2>1. CASE pos \in Fds
    <3>1. P!Visit(channels[pos], result[pos])
      BY <1>5, <2>1, SameWalk DEF S!VisitFd
    <3>2. channels[pos] \in Chans \cup {None} /\ result[pos] \in SUBSET Bits
      BY <1>0, <1>1, <2>1 DEF ChanTypeOK
    <3> QED
      BY <3>1, <3>2, VisitScan
  <2>2. CASE pos \notin Fds
    <3>1. P!Visit(None, {})
      BY <1>5, <2>2, SameWalk DEF S!VisitFd
    <3> QED
      BY <3>1, VisitScan
  <2> QED
    BY <2>1, <2>2
<1>6. CASE S!Writ
  <2>1. P!Writ /\ pos \in Fds
    BY <1>6, SameWalk DEF WalkOK, S!Writ
  <2> QED
    BY <1>0, <2>1, WritScan
<1>7. ASSUME NEW c \in Chans, S!AddChannel(c)
      PROVE  ScanOK'
  BY <1>0, <1>7, SameWalk, EnteredScan DEF S!AddChannel
<1>8. CASE S!BeginLoop \/ S!HandlerReturns \/ \E c \in Chans : S!Made(c) \/ S!Destroy(c) \/
             \E k \in S!Kinds, on \in BOOLEAN : S!UpdateChannel(c, k, on)
  BY <1>8, SameWalk, OtherScan DEF S!Destroy, S!UpdateChannel, S!Kinds, Kinds
<1> QED
  BY <1>2, <1>3, <1>4, <1>5, <1>6, <1>7, <1>8 DEF S!Next

-----------------------------------------------------------------------------
(* 7. PollerKevent: what a list of changes does to a kqueue.               *)

LEMMA NatMin ==
    ASSUME NEW A, A \subseteq Nat, A # {}
    PROVE  \E n \in A : \A m \in A : n <= m
<1>1. PICK n \in A : \A m \in A : ~ (<<m, n>> \in OpToRel(<, Nat))
  BY NatLessThanWellFounded, WFMin
<1>2. \A m \in A : ~ (m < n)
  BY <1>1 DEF OpToRel
<1> QED
  BY <1>2

LEMMA NatInduct ==
    ASSUME NEW A, 0 \in A, \A n \in Nat : n \in A => n + 1 \in A
    PROVE  Nat \subseteq A
<1> DEFINE B == {n \in Nat : n \notin A}
<1> SUFFICES ASSUME B # {} PROVE FALSE
  OBVIOUS
<1>1. PICK n \in B : \A m \in B : n <= m
  BY NatMin, B \subseteq Nat
<1>2. n # 0 /\ n \in Nat /\ n - 1 \in Nat
  OBVIOUS
<1>3. n - 1 \in A
  BY <1>1, <1>2
<1> QED
  BY <1>2, <1>3

Changes == [fd : Fds, kind : Kinds, add : BOOLEAN]

\* What Applied has after each change of the list.
Steps(f, list, start, table) ==
    f = [i \in 0 .. Len(list) |-> IF i = 0 THEN start ELSE K!Apply(f[i - 1], list[i], table)]

LEMMA StepsExist ==
    ASSUME NEW list \in Seq(Changes), NEW start, NEW table
    PROVE  \E f : Steps(f, list, start, table)
<1> DEFINE Good(n) == \E f : f = [i \in 0 .. n |-> IF i = 0 THEN start
                                                   ELSE K!Apply(f[i - 1], list[i], table)]
           A == {n \in Nat : Good(n)}
<1>1. 0 \in A
  <2> DEFINE f == [i \in 0 .. 0 |-> start]
  <2>1. f = [i \in 0 .. 0 |-> IF i = 0 THEN start ELSE K!Apply(f[i - 1], list[i], table)]
    OBVIOUS
  <2>2. Good(0)
    BY <2>1
  <2> QED
    BY <2>2
<1>2. ASSUME NEW n \in Nat, n \in A PROVE n + 1 \in A
  <2>1. PICK f : f = [i \in 0 .. n |-> IF i = 0 THEN start
                                       ELSE K!Apply(f[i - 1], list[i], table)]
    BY <1>2
  <2> DEFINE Next1(i) == IF i = 0 THEN start ELSE K!Apply(f[i - 1], list[i], table)
             g == [i \in 0 .. n + 1 |-> Next1(i)]
  <2>2. \A i \in 0 .. n : f[i] = Next1(i)
    BY <2>1
  <2>3. \A i \in 0 .. n : g[i] = f[i]
    <3> HIDE DEF Next1
    <3> QED
      BY <2>2
  <2>4. \A i \in 0 .. n + 1 : g[i] = IF i = 0 THEN start ELSE K!Apply(g[i - 1], list[i], table)
    <3> SUFFICES ASSUME NEW i \in 0 .. n + 1
                 PROVE  g[i] = IF i = 0 THEN start ELSE K!Apply(g[i - 1], list[i], table)
      OBVIOUS
    <3>1. CASE i = 0
      BY <3>1
    <3>2. CASE i # 0
      <4>1. g[i - 1] = f[i - 1]
        <5>1. i - 1 \in 0 .. n
          BY <3>2
        <5> HIDE DEF g
        <5> QED
          BY <2>3, <5>1
      <4>2. g[i] = K!Apply(f[i - 1], list[i], table)
        BY <3>2
      <4> QED
        BY <3>2, <4>1, <4>2
    <3> QED
      BY <3>1, <3>2
  <2>5. g = [i \in 0 .. n + 1 |-> IF i = 0 THEN start ELSE K!Apply(g[i - 1], list[i], table)]
    <3>1. g = [i \in 0 .. n + 1 |-> Next1(i)] /\ \A i \in 0 .. n + 1 : g[i] = Next1(i)
      OBVIOUS
    <3> HIDE DEF g, Next1
    <3> QED
      BY <2>4, <3>1
  <2>6. Good(n + 1)
    <3> HIDE DEF g
    <3> QED
      BY <2>5
  <2>7. n + 1 \in Nat
    OBVIOUS
  <2> HIDE DEF Good
  <2> QED
    BY <2>6, <2>7
<1> HIDE DEF A
<1>3. Nat \subseteq A
  BY <1>1, <1>2, NatInduct
<1>4. Len(list) \in A
  BY <1>3
<1> QED
  BY <1>4 DEF A, Steps

LEMMA AppliedIs ==
    ASSUME NEW list \in Seq(Changes), NEW start, NEW table
    PROVE  \E f : /\ K!Applied(list, start, table) = f[Len(list)]
                  /\ f[0] = start
                  /\ \A i \in 1 .. Len(list) : f[i] = K!Apply(f[i - 1], list[i], table)
<1> DEFINE f == CHOOSE g : Steps(g, list, start, table)
<1>1. Steps(f, list, start, table)
  BY StepsExist, Zenon
<1>2. K!Applied(list, start, table) = f[Len(list)]
  BY Zenon DEF K!Applied, Steps
<1> HIDE DEF f
<1>3. f = [i \in 0 .. Len(list) |-> IF i = 0 THEN start ELSE K!Apply(f[i - 1], list[i], table)]
  BY <1>1 DEF Steps
<1>4. f[0] = start
  BY <1>3
<1>5. ASSUME NEW i \in 1 .. Len(list) PROVE f[i] = K!Apply(f[i - 1], list[i], table)
  BY <1>3
<1> QED
  BY <1>2, <1>4, <1>5

Registries(D) == [interest : [D -> SUBSET Kinds], skipped : SUBSET (Fds \X Kinds), stopped : BOOLEAN]

\* The last change of fd's filter k, if there is one, turns it on or off.
EndsOn(list, fd, k) ==
    \A i \in 1 .. Len(list) : list[i].fd = fd /\ list[i].kind = k /\ ~list[i].add =>
        \E j \in i + 1 .. Len(list) : list[j].fd = fd /\ list[j].kind = k /\ list[j].add
EndsOff(list, fd, k) ==
    \A i \in 1 .. Len(list) : list[i].fd = fd /\ list[i].kind = k /\ list[i].add =>
        \E j \in i + 1 .. Len(list) : list[j].fd = fd /\ list[j].kind = k /\ ~list[j].add
Silent(list, fd, k) == \A i \in 1 .. Len(list) : ~(list[i].fd = fd /\ list[i].kind = k)

IsOn(reg, fd, k) == k \in reg.interest[fd] \/ <<fd, k>> \in reg.skipped
IsOff(reg, fd, k) == k \notin reg.interest[fd] \/ <<fd, k>> \in reg.skipped

LEMMA ApplyShape ==
    ASSUME NEW D \in SUBSET Fds, NEW table, \A fd \in Fds : table[fd] # None => fd \in D,
           NEW reg \in Registries(D), NEW x \in Changes
    PROVE  K!Apply(reg, x, table) \in Registries(D)
<1> USE DEF Registries
<1>1. x.fd \in Fds /\ x.kind \in Kinds /\ <<x.fd, x.kind>> \in Fds \X Kinds
  BY DEF Changes
<1>2. CASE table[x.fd] = None
  BY <1>2 DEF K!Apply
<1>3. CASE table[x.fd] # None /\ reg.stopped
  <2>1. reg.skipped \cup {<<x.fd, x.kind>>} \in SUBSET (Fds \X Kinds)
    BY <1>1
  <2>2. K!Apply(reg, x, table) = [reg EXCEPT !.skipped = @ \cup {<<x.fd, x.kind>>}]
    BY <1>3 DEF K!Apply
  <2> QED
    BY <2>1, <2>2
<1>4. CASE table[x.fd] # None /\ ~reg.stopped
  <2> DEFINE set == IF x.add THEN reg.interest[x.fd] \cup {x.kind} ELSE reg.interest[x.fd] \ {x.kind}
             now == [reg.interest EXCEPT ![x.fd] = set]
             past == reg.skipped \ {<<x.fd, x.kind>>}
             halt == ~x.add /\ x.kind \notin reg.interest[x.fd]
  <2>1. K!Apply(reg, x, table) = [interest |-> now, skipped |-> past, stopped |-> halt]
    BY <1>4 DEF K!Apply, K!Taken
  <2>2. x.fd \in D /\ reg.interest \in [D -> SUBSET Kinds]
    BY <1>1, <1>4
  <2>3. set \in SUBSET Kinds
    BY <1>1, <2>2
  <2>4. now \in [D -> SUBSET Kinds]
    <3> HIDE DEF set
    <3> QED
      BY <2>2, <2>3
  <2>5. past \in SUBSET (Fds \X Kinds)
    OBVIOUS
  <2>6. halt \in BOOLEAN
    OBVIOUS
  <2> HIDE DEF now, past, halt
  <2> QED
    BY <2>1, <2>4, <2>5, <2>6
<1> QED
  BY <1>2, <1>3, <1>4

LEMMA ApplyOn ==
    ASSUME NEW D \in SUBSET Fds, NEW table, NEW fd \in D, table[fd] # None, NEW k \in Kinds,
           \A g \in Fds : table[g] # None => g \in D,
           NEW reg \in Registries(D), NEW x \in Changes,
           IsOn(reg, fd, k) \/ (x.fd = fd /\ x.kind = k /\ x.add),
           ~(x.fd = fd /\ x.kind = k /\ ~x.add)
    PROVE  IsOn(K!Apply(reg, x, table), fd, k)
<1> USE DEF IsOn, Registries
<1>1. x.fd \in Fds /\ x.kind \in Kinds
  BY DEF Changes
<1>2. CASE table[x.fd] = None
  BY <1>2 DEF K!Apply
<1>3. CASE table[x.fd] # None /\ reg.stopped
  BY <1>3 DEF K!Apply
<1>4. CASE table[x.fd] # None /\ ~reg.stopped
  <2> DEFINE set == IF x.add THEN reg.interest[x.fd] \cup {x.kind} ELSE reg.interest[x.fd] \ {x.kind}
             now == [reg.interest EXCEPT ![x.fd] = set]
             past == reg.skipped \ {<<x.fd, x.kind>>}
             halt == ~x.add /\ x.kind \notin reg.interest[x.fd]
  <2>1. K!Apply(reg, x, table) = [interest |-> now, skipped |-> past, stopped |-> halt]
    BY <1>4 DEF K!Apply, K!Taken
  <2>2. x.fd \in D /\ reg.interest \in [D -> SUBSET Kinds]
    BY <1>1, <1>4
  <2>3. k \in now[fd] \/ <<fd, k>> \in past
    <3>1. CASE x.fd = fd /\ x.kind = k
      BY <2>2, <3>1
    <3>2. CASE x.fd = fd /\ x.kind # k
      BY <2>2, <3>2
    <3>3. CASE x.fd # fd
      BY <2>2, <3>3
    <3> QED
      BY <3>1, <3>2, <3>3
  <2> HIDE DEF now, past, halt
  <2> QED
    BY <2>1, <2>3
<1> QED
  BY <1>2, <1>3, <1>4

LEMMA ApplyOff ==
    ASSUME NEW D \in SUBSET Fds, NEW table, NEW fd \in D, table[fd] # None, NEW k \in Kinds,
           \A g \in Fds : table[g] # None => g \in D,
           NEW reg \in Registries(D), NEW x \in Changes,
           IsOff(reg, fd, k) \/ (x.fd = fd /\ x.kind = k /\ ~x.add),
           ~(x.fd = fd /\ x.kind = k /\ x.add)
    PROVE  IsOff(K!Apply(reg, x, table), fd, k)
<1> USE DEF IsOff, Registries
<1>1. x.fd \in Fds /\ x.kind \in Kinds
  BY DEF Changes
<1>2. CASE table[x.fd] = None
  BY <1>2 DEF K!Apply
<1>3. CASE table[x.fd] # None /\ reg.stopped
  BY <1>3 DEF K!Apply
<1>4. CASE table[x.fd] # None /\ ~reg.stopped
  <2> DEFINE set == IF x.add THEN reg.interest[x.fd] \cup {x.kind} ELSE reg.interest[x.fd] \ {x.kind}
             now == [reg.interest EXCEPT ![x.fd] = set]
             past == reg.skipped \ {<<x.fd, x.kind>>}
             halt == ~x.add /\ x.kind \notin reg.interest[x.fd]
  <2>1. K!Apply(reg, x, table) = [interest |-> now, skipped |-> past, stopped |-> halt]
    BY <1>4 DEF K!Apply, K!Taken
  <2>2. x.fd \in D /\ reg.interest \in [D -> SUBSET Kinds]
    BY <1>1, <1>4
  <2>3. k \notin now[fd] \/ <<fd, k>> \in past
    <3>1. CASE x.fd = fd /\ x.kind = k
      BY <2>2, <3>1
    <3>2. CASE x.fd = fd /\ x.kind # k
      BY <2>2, <3>2
    <3>3. CASE x.fd # fd
      BY <2>2, <3>3
    <3> QED
      BY <3>1, <3>2, <3>3
  <2> HIDE DEF now, past, halt
  <2> QED
    BY <2>1, <2>3
<1> QED
  BY <1>2, <1>3, <1>4

LEMMA AppliedShape ==
    ASSUME NEW D \in SUBSET Fds, NEW table, \A g \in Fds : table[g] # None => g \in D,
           NEW start \in Registries(D), NEW list \in Seq(Changes)
    PROVE  K!Applied(list, start, table) \in Registries(D)
<1>1. PICK f : /\ K!Applied(list, start, table) = f[Len(list)]
               /\ f[0] = start
               /\ \A i \in 1 .. Len(list) : f[i] = K!Apply(f[i - 1], list[i], table)
  BY AppliedIs
<1> DEFINE A == {n \in Nat : n <= Len(list) => f[n] \in Registries(D)}
<1>2. 0 \in A
  BY <1>1
<1>3. ASSUME NEW n \in Nat, n \in A PROVE n + 1 \in A
  <2> SUFFICES ASSUME n + 1 <= Len(list) PROVE f[n + 1] \in Registries(D)
    OBVIOUS
  <2> DEFINE reg == f[n]
             x == list[n + 1]
  <2>1. reg \in Registries(D) /\ x \in Changes
    BY <1>3
  <2>2. f[n + 1] = K!Apply(reg, x, table)
    <3>1. n + 1 \in 1 .. Len(list) /\ (n + 1) - 1 = n
      OBVIOUS
    <3>2. f[n + 1] = K!Apply(f[(n + 1) - 1], list[n + 1], table)
      BY <1>1, <3>1
    <3> QED
      BY <3>1, <3>2
  <2> HIDE DEF reg, x
  <2>3. K!Apply(reg, x, table) \in Registries(D)
    BY <2>1, ApplyShape
  <2> QED
    BY <2>2, <2>3
<1> HIDE DEF A
<1>4. Nat \subseteq A
  BY <1>2, <1>3, NatInduct
<1> QED
  BY <1>1, <1>4, Len(list) \in Nat DEF A

\* What a list leaves of a filter that it turns on last, or does not mention.
LEMMA AppliedOn ==
    ASSUME NEW D \in SUBSET Fds, NEW table, \A g \in Fds : table[g] # None => g \in D,
           NEW start \in Registries(D), NEW list \in Seq(Changes),
           NEW fd \in D, table[fd] # None, NEW k \in Kinds,
           EndsOn(list, fd, k), Silent(list, fd, k) => IsOn(start, fd, k)
    PROVE  IsOn(K!Applied(list, start, table), fd, k)
<1>1. PICK f : /\ K!Applied(list, start, table) = f[Len(list)]
               /\ f[0] = start
               /\ \A i \in 1 .. Len(list) : f[i] = K!Apply(f[i - 1], list[i], table)
  BY AppliedIs
<1> DEFINE Says(x) == x.fd = fd /\ x.kind = k /\ x.add
           Comes(n) == \E j \in n + 1 .. Len(list) : Says(list[j])
           A == {n \in Nat : n <= Len(list) =>
                    f[n] \in Registries(D) /\ (IsOn(f[n], fd, k) \/ Comes(n))}
<1>2. 0 \in A
  BY <1>1 DEF EndsOn, Silent
<1>3. ASSUME NEW n \in Nat, n \in A PROVE n + 1 \in A
  <2> SUFFICES ASSUME n + 1 <= Len(list)
               PROVE  f[n + 1] \in Registries(D) /\ (IsOn(f[n + 1], fd, k) \/ Comes(n + 1))
    OBVIOUS
  <2> DEFINE reg == f[n]
             x == list[n + 1]
  <2>1. reg \in Registries(D) /\ x \in Changes /\ (IsOn(reg, fd, k) \/ Comes(n))
    BY <1>3
  <2>2. f[n + 1] = K!Apply(reg, x, table)
    <3>1. n + 1 \in 1 .. Len(list) /\ (n + 1) - 1 = n
      OBVIOUS
    <3>2. f[n + 1] = K!Apply(f[(n + 1) - 1], list[n + 1], table)
      BY <1>1, <3>1
    <3> QED
      BY <3>1, <3>2
  <2>3. Comes(n) => Comes(n + 1) \/ Says(x)
    OBVIOUS
  <2>4. x.fd = fd /\ x.kind = k /\ ~x.add => Comes(n + 1)
    BY n + 1 \in 1 .. Len(list) DEF EndsOn
  <2> HIDE DEF reg, x, Comes
  <2>5. K!Apply(reg, x, table) \in Registries(D)
    BY <2>1, ApplyShape
  <2>6. ASSUME ~Comes(n + 1) PROVE IsOn(K!Apply(reg, x, table), fd, k)
    BY <2>1, <2>3, <2>4, <2>6, ApplyOn
  <2> QED
    BY <2>2, <2>5, <2>6
<1> HIDE DEF A
<1>4. Nat \subseteq A
  BY <1>2, <1>3, NatInduct
<1>5. Len(list) \in A /\ ~Comes(Len(list))
  BY <1>4
<1> QED
  BY <1>1, <1>5 DEF A

\* What a list leaves of a filter that it turns off last, or does not mention.
LEMMA AppliedOff ==
    ASSUME NEW D \in SUBSET Fds, NEW table, \A g \in Fds : table[g] # None => g \in D,
           NEW start \in Registries(D), NEW list \in Seq(Changes),
           NEW fd \in D, table[fd] # None, NEW k \in Kinds,
           EndsOff(list, fd, k), Silent(list, fd, k) => IsOff(start, fd, k)
    PROVE  IsOff(K!Applied(list, start, table), fd, k)
<1>1. PICK f : /\ K!Applied(list, start, table) = f[Len(list)]
               /\ f[0] = start
               /\ \A i \in 1 .. Len(list) : f[i] = K!Apply(f[i - 1], list[i], table)
  BY AppliedIs
<1> DEFINE Says(x) == x.fd = fd /\ x.kind = k /\ ~x.add
           Comes(n) == \E j \in n + 1 .. Len(list) : Says(list[j])
           A == {n \in Nat : n <= Len(list) =>
                    f[n] \in Registries(D) /\ (IsOff(f[n], fd, k) \/ Comes(n))}
<1>2. 0 \in A
  BY <1>1, SMTT(60) DEF EndsOff, Silent
<1>3. ASSUME NEW n \in Nat, n \in A PROVE n + 1 \in A
  <2> SUFFICES ASSUME n + 1 <= Len(list)
               PROVE  f[n + 1] \in Registries(D) /\ (IsOff(f[n + 1], fd, k) \/ Comes(n + 1))
    OBVIOUS
  <2> DEFINE reg == f[n]
             x == list[n + 1]
  <2>1. reg \in Registries(D) /\ x \in Changes /\ (IsOff(reg, fd, k) \/ Comes(n))
    BY <1>3
  <2>2. f[n + 1] = K!Apply(reg, x, table)
    <3>1. n + 1 \in 1 .. Len(list) /\ (n + 1) - 1 = n
      OBVIOUS
    <3>2. f[n + 1] = K!Apply(f[(n + 1) - 1], list[n + 1], table)
      BY <1>1, <3>1
    <3> QED
      BY <3>1, <3>2
  <2>3. Comes(n) => Comes(n + 1) \/ Says(x)
    OBVIOUS
  <2>4. x.fd = fd /\ x.kind = k /\ x.add => Comes(n + 1)
    BY n + 1 \in 1 .. Len(list) DEF EndsOff
  <2> HIDE DEF reg, x, Comes
  <2>5. K!Apply(reg, x, table) \in Registries(D)
    BY <2>1, ApplyShape
  <2>6. ASSUME ~Comes(n + 1) PROVE IsOff(K!Apply(reg, x, table), fd, k)
    BY <2>1, <2>3, <2>4, <2>6, ApplyOff
  <2> QED
    BY <2>2, <2>5, <2>6
<1> HIDE DEF A
<1>4. Nat \subseteq A
  BY <1>2, <1>3, NatInduct
<1>5. Len(list) \in A /\ ~Comes(Len(list))
  BY <1>4
<1> QED
  BY <1>1, <1>5 DEF A

\* Lists put behind one another.
LEMMA BehindOn ==
    ASSUME NEW a \in Seq(Changes), NEW b \in Seq(Changes), NEW fd, NEW k,
           EndsOn(b, fd, k), Silent(b, fd, k) => EndsOn(a, fd, k)
    PROVE  EndsOn(a \o b, fd, k)
<1> DEFINE Says(x) == x.fd = fd /\ x.kind = k /\ x.add
<1>1. /\ Len(a) \in Nat /\ Len(b) \in Nat /\ Len(a \o b) = Len(a) + Len(b)
      /\ \A i \in 1 .. Len(a) : (a \o b)[i] = a[i]
      /\ \A i \in 1 .. Len(b) : (a \o b)[Len(a) + i] = b[i]
  OBVIOUS
<1> DEFINE l == a \o b
<1> HIDE DEF l
<1>2. SUFFICES ASSUME NEW i \in 1 .. Len(l), l[i].fd = fd, l[i].kind = k, ~l[i].add
               PROVE  \E j \in i + 1 .. Len(l) : Says(l[j])
  BY DEF EndsOn, l
<1>3. CASE i > Len(a)
  <2>1. i - Len(a) \in 1 .. Len(b) /\ l[i] = b[i - Len(a)]
    <3>1. i - Len(a) \in 1 .. Len(b) /\ Len(a) + (i - Len(a)) = i
      BY <1>1, <1>3 DEF l
    <3> QED
      BY <1>1, <3>1 DEF l
  <2>2. PICK j \in (i - Len(a)) + 1 .. Len(b) : Says(b[j])
    BY <1>2, <2>1 DEF EndsOn
  <2>3. Len(a) + j \in i + 1 .. Len(l) /\ l[Len(a) + j] = b[j]
    BY <1>1, <2>1, <2>2 DEF l
  <2> QED
    BY <2>2, <2>3
<1>4. CASE i <= Len(a) /\ ~Silent(b, fd, k)
  <2>1. PICK h \in 1 .. Len(b) : b[h].fd = fd /\ b[h].kind = k
    BY <1>4 DEF Silent
  <2>2. PICK j \in 1 .. Len(b) : Says(b[j])
    BY <2>1 DEF EndsOn
  <2>3. Len(a) + j \in i + 1 .. Len(l) /\ l[Len(a) + j] = b[j]
    BY <1>1, <1>4, <2>2 DEF l
  <2> QED
    BY <2>2, <2>3
<1>5. CASE i <= Len(a) /\ Silent(b, fd, k)
  <2>1. i \in 1 .. Len(a) /\ l[i] = a[i]
    BY <1>1, <1>5 DEF l
  <2>2. PICK j \in i + 1 .. Len(a) : Says(a[j])
    BY <1>2, <1>5, <2>1 DEF EndsOn
  <2>3. j \in i + 1 .. Len(l) /\ l[j] = a[j]
    BY <1>1, <2>1, <2>2 DEF l
  <2> QED
    BY <2>2, <2>3
<1> QED
  BY <1>1, <1>3, <1>4, <1>5 DEF l

\* Lists put behind one another.
LEMMA BehindOff ==
    ASSUME NEW a \in Seq(Changes), NEW b \in Seq(Changes), NEW fd, NEW k,
           EndsOff(b, fd, k), Silent(b, fd, k) => EndsOff(a, fd, k)
    PROVE  EndsOff(a \o b, fd, k)
<1> DEFINE Says(x) == x.fd = fd /\ x.kind = k /\ ~x.add
<1>1. /\ Len(a) \in Nat /\ Len(b) \in Nat /\ Len(a \o b) = Len(a) + Len(b)
      /\ \A i \in 1 .. Len(a) : (a \o b)[i] = a[i]
      /\ \A i \in 1 .. Len(b) : (a \o b)[Len(a) + i] = b[i]
  OBVIOUS
<1> DEFINE l == a \o b
<1> HIDE DEF l
<1>2. SUFFICES ASSUME NEW i \in 1 .. Len(l), l[i].fd = fd, l[i].kind = k, l[i].add
               PROVE  \E j \in i + 1 .. Len(l) : Says(l[j])
  BY DEF EndsOff, l
<1>3. CASE i > Len(a)
  <2>1. i - Len(a) \in 1 .. Len(b) /\ l[i] = b[i - Len(a)]
    <3>1. i - Len(a) \in 1 .. Len(b) /\ Len(a) + (i - Len(a)) = i
      BY <1>1, <1>3 DEF l
    <3> QED
      BY <1>1, <3>1 DEF l
  <2>2. PICK j \in (i - Len(a)) + 1 .. Len(b) : Says(b[j])
    BY <1>2, <2>1 DEF EndsOff
  <2>3. Len(a) + j \in i + 1 .. Len(l) /\ l[Len(a) + j] = b[j]
    BY <1>1, <2>1, <2>2 DEF l
  <2> QED
    BY <2>2, <2>3
<1>4. CASE i <= Len(a) /\ ~Silent(b, fd, k)
  <2>1. PICK h \in 1 .. Len(b) : b[h].fd = fd /\ b[h].kind = k
    BY <1>4 DEF Silent
  <2>2. PICK j \in 1 .. Len(b) : Says(b[j])
    BY <2>1 DEF EndsOff
  <2>3. Len(a) + j \in i + 1 .. Len(l) /\ l[Len(a) + j] = b[j]
    BY <1>1, <1>4, <2>2 DEF l
  <2> QED
    BY <2>2, <2>3
<1>5. CASE i <= Len(a) /\ Silent(b, fd, k)
  <2>1. i \in 1 .. Len(a) /\ l[i] = a[i]
    BY <1>1, <1>5 DEF l
  <2>2. PICK j \in i + 1 .. Len(a) : Says(a[j])
    BY <1>2, <1>5, <2>1 DEF EndsOff
  <2>3. j \in i + 1 .. Len(l) /\ l[j] = a[j]
    BY <1>1, <2>1, <2>2 DEF l
  <2> QED
    BY <2>2, <2>3
<1> QED
  BY <1>1, <1>3, <1>4, <1>5 DEF l

LEMMA BehindSilent ==
    ASSUME NEW a \in Seq(Changes), NEW b \in Seq(Changes), NEW fd, NEW k, Silent(a \o b, fd, k)
    PROVE  Silent(a, fd, k) /\ Silent(b, fd, k)
<1>1. /\ Len(a) \in Nat /\ Len(b) \in Nat /\ Len(a \o b) = Len(a) + Len(b)
      /\ \A i \in 1 .. Len(a) : (a \o b)[i] = a[i]
      /\ \A i \in 1 .. Len(b) : (a \o b)[Len(a) + i] = b[i]
  OBVIOUS
<1> DEFINE l == a \o b
<1>2. Silent(l, fd, k)
  OBVIOUS
<1> HIDE DEF l
<1>3. Silent(a, fd, k)
  BY <1>1, <1>2 DEF Silent, l
<1>4. ASSUME NEW i \in 1 .. Len(b) PROVE ~(b[i].fd = fd /\ b[i].kind = k)
  <2>1. Len(a) + i \in 1 .. Len(l) /\ l[Len(a) + i] = b[i]
    BY <1>1 DEF l
  <2> QED
    BY <1>2, <2>1 DEF Silent
<1> QED
  BY <1>3, <1>4 DEF Silent

LEMMA SilentEnds ==
    ASSUME NEW list, NEW fd, NEW k, Silent(list, fd, k)
    PROVE  EndsOn(list, fd, k) /\ EndsOff(list, fd, k)
  BY DEF Silent, EndsOn, EndsOff

LEMMA EvSetIs ==
    ASSUME NEW fd \in Fds, NEW k \in Kinds, NEW add \in BOOLEAN
    PROVE  /\ K!EvSet(fd, k, add).fd = fd /\ K!EvSet(fd, k, add).kind = k
           /\ K!EvSet(fd, k, add).add <=> add
           /\ K!EvSet(fd, k, add) \in Changes
  BY DEF K!EvSet, Changes

\* What updateChanel and removeChanel put behind a list.
LEMMA BothSays ==
    ASSUME NEW fd \in Fds, NEW flags \in SUBSET Kinds
    PROVE  /\ K!Both(fd, flags) \in Seq(Changes)
           /\ \A g, k : g # fd => Silent(K!Both(fd, flags), g, k)
           /\ \A k \in Kinds : /\ ~Silent(K!Both(fd, flags), fd, k)
                               /\ k \in flags => EndsOn(K!Both(fd, flags), fd, k)
                               /\ k \notin flags => EndsOff(K!Both(fd, flags), fd, k)
<1> DEFINE b == K!Both(fd, flags)
           in == "in" \in flags
           out == "out" \in flags
           x == K!EvSet(fd, "in", in)
           y == K!EvSet(fd, "out", out)
<1>1. b = <<x, y>>
  BY DEF K!Both
<1>0. in \in BOOLEAN /\ out \in BOOLEAN /\ (in <=> "in" \in flags) /\ (out <=> "out" \in flags)
  OBVIOUS
<1> HIDE DEF in, out
<1>2. x.fd = fd /\ x.kind = "in" /\ (x.add <=> "in" \in flags) /\ x \in Changes
  BY <1>0, EvSetIs DEF Kinds
<1>3. y.fd = fd /\ y.kind = "out" /\ (y.add <=> "out" \in flags) /\ y \in Changes
  BY <1>0, EvSetIs DEF Kinds
<1> HIDE DEF b, x, y
<1>4. b \in Seq(Changes) /\ Len(b) = 2 /\ b[1] = x /\ b[2] = y
  BY <1>1, <1>2, <1>3
<1>5. ASSUME NEW i \in 1 .. Len(b) PROVE (i = 1 /\ b[i] = x) \/ (i = 2 /\ b[i] = y)
  <2>1. i = 1 \/ i = 2
    BY <1>4
  <2> QED
    BY <1>4, <2>1
<1>6. \A g, k : g # fd => Silent(b, g, k)
  BY <1>2, <1>3, <1>5 DEF Silent
<1>7. ASSUME NEW k \in Kinds
      PROVE  /\ ~Silent(b, fd, k)
             /\ k \in flags => EndsOn(b, fd, k)
             /\ k \notin flags => EndsOff(b, fd, k)
  <2>1. ~Silent(b, fd, k)
    BY <1>2, <1>3, <1>4, 1 \in 1 .. 2, 2 \in 1 .. 2 DEF Silent, Kinds
  <2>2. k \in flags => EndsOn(b, fd, k)
    BY <1>2, <1>3, <1>5 DEF EndsOn
  <2>3. k \notin flags => EndsOff(b, fd, k)
    BY <1>2, <1>3, <1>5 DEF EndsOff
  <2> QED
    BY <2>1, <2>2, <2>3
<1> QED
  BY <1>4, <1>6, <1>7 DEF b

\* What addChanel puts behind a list.
LEMMA WantedSays ==
    ASSUME NEW fd \in Fds, NEW flags \in SUBSET Kinds
    PROVE  /\ K!Wanted(fd, flags) \in Seq(Changes)
           /\ \A g, k : g # fd => Silent(K!Wanted(fd, flags), g, k)
           /\ \A k \in flags : /\ ~Silent(K!Wanted(fd, flags), fd, k)
                               /\ EndsOn(K!Wanted(fd, flags), fd, k)
           /\ \A k \in Kinds \ flags : Silent(K!Wanted(fd, flags), fd, k)
<1> DEFINE b == K!Wanted(fd, flags)
           x == K!EvSet(fd, "in", TRUE)
           y == K!EvSet(fd, "out", TRUE)
           p == IF "in" \in flags THEN <<x>> ELSE <<>>
           q == IF "out" \in flags THEN <<y>> ELSE <<>>
<1>1. b = p \o q
  BY DEF K!Wanted
<1>2. x.fd = fd /\ x.kind = "in" /\ x.add /\ x \in Changes
  BY DEF K!EvSet, Changes, Kinds
<1>3. y.fd = fd /\ y.kind = "out" /\ y.add /\ y \in Changes
  BY DEF K!EvSet, Changes, Kinds
<1> HIDE DEF b, x, y
<1>4. /\ b \in Seq(Changes)
      /\ \A i \in 1 .. Len(b) : (b[i] = x /\ "in" \in flags) \/ (b[i] = y /\ "out" \in flags)
      /\ "in" \in flags => \E i \in 1 .. Len(b) : b[i] = x
      /\ "out" \in flags => \E i \in 1 .. Len(b) : b[i] = y
  <2>1. CASE "in" \in flags /\ "out" \in flags
    <3>1. b = <<x>> \o <<y>>
      BY <1>1, <2>1
    <3>2. Len(b) = 2 /\ b[1] = x /\ b[2] = y /\ b \in Seq(Changes)
      BY <3>1, <1>2, <1>3
    <3>3. \A i \in 1 .. Len(b) : i = 1 \/ i = 2
      BY <3>2
    <3> QED
      BY <2>1, <3>2, <3>3, 1 \in 1 .. 2, 2 \in 1 .. 2
  <2>2. CASE "in" \in flags /\ "out" \notin flags
    <3>1. b = <<x>>
      BY <1>1, <2>2, <1>2
    <3>2. Len(b) = 1 /\ b[1] = x /\ b \in Seq(Changes)
      BY <3>1, <1>2
    <3>3. \A i \in 1 .. Len(b) : i = 1
      BY <3>2
    <3> QED
      BY <2>2, <3>2, <3>3, 1 \in 1 .. 1
  <2>3. CASE "in" \notin flags /\ "out" \in flags
    <3>1. b = <<y>>
      BY <1>1, <2>3, <1>3
    <3>2. Len(b) = 1 /\ b[1] = y /\ b \in Seq(Changes)
      BY <3>1, <1>3
    <3>3. \A i \in 1 .. Len(b) : i = 1
      BY <3>2
    <3> QED
      BY <2>3, <3>2, <3>3, 1 \in 1 .. 1
  <2>4. CASE "in" \notin flags /\ "out" \notin flags
    <3>1. b = <<>>
      BY <1>1, <2>4
    <3> QED
      BY <2>4, <3>1
  <2> QED
    BY <2>1, <2>2, <2>3, <2>4
<1>5. \A g, k : g # fd => Silent(b, g, k)
  BY <1>2, <1>3, <1>4 DEF Silent
<1>6. ASSUME NEW k \in flags PROVE ~Silent(b, fd, k) /\ EndsOn(b, fd, k)
  <2>1. ~Silent(b, fd, k)
    BY <1>2, <1>3, <1>4 DEF Silent, Kinds
  <2>2. EndsOn(b, fd, k)
    BY <1>2, <1>3, <1>4 DEF EndsOn
  <2> QED
    BY <2>1, <2>2
<1>7. \A k \in Kinds \ flags : Silent(b, fd, k)
  BY <1>2, <1>3, <1>4 DEF Silent
<1> QED
  BY <1>4, <1>5, <1>6, <1>7 DEF b

\* updateKevents.
LEMMA HandOverShape ==
    ASSUME NEW D \in SUBSET Fds, \A g \in Fds : channels'[g] # None => g \in D,
           NEW set \in [D -> SUBSET Kinds], NEW list \in Seq(Changes), skipped \subseteq Fds \X Kinds,
           K!UpdateKevents(list, set)
    PROVE  interest' \in [D -> SUBSET Kinds] /\ skipped' \subseteq Fds \X Kinds /\ changes' = <<>>
<1> DEFINE start == [interest |-> set, skipped |-> skipped, stopped |-> FALSE]
           end == K!Applied(list, start, channels')
<1>1. interest' = end.interest /\ skipped' = end.skipped /\ changes' = <<>>
  BY DEF K!UpdateKevents
<1>2. start \in Registries(D)
  BY DEF Registries
<1> HIDE DEF start
<1>3. end \in Registries(D)
  BY <1>2, AppliedShape
<1> QED
  BY <1>1, <1>3 DEF Registries

LEMMA HandOverOn ==
    ASSUME NEW D \in SUBSET Fds, \A g \in Fds : channels'[g] # None => g \in D,
           NEW set \in [D -> SUBSET Kinds], NEW list \in Seq(Changes), skipped \subseteq Fds \X Kinds,
           K!UpdateKevents(list, set),
           NEW fd \in D, channels'[fd] # None, NEW k \in Kinds, EndsOn(list, fd, k),
           Silent(list, fd, k) => k \in set[fd] \/ <<fd, k>> \in skipped
    PROVE  k \in interest'[fd] \/ <<fd, k>> \in skipped'
<1> DEFINE start == [interest |-> set, skipped |-> skipped, stopped |-> FALSE]
           end == K!Applied(list, start, channels')
<1>1. interest' = end.interest /\ skipped' = end.skipped
  BY DEF K!UpdateKevents
<1>2. start \in Registries(D) /\ (Silent(list, fd, k) => IsOn(start, fd, k))
  BY DEF Registries, IsOn
<1> HIDE DEF start
<1>3. IsOn(end, fd, k)
  BY <1>2, AppliedOn
<1> QED
  BY <1>1, <1>3 DEF IsOn

LEMMA HandOverOff ==
    ASSUME NEW D \in SUBSET Fds, \A g \in Fds : channels'[g] # None => g \in D,
           NEW set \in [D -> SUBSET Kinds], NEW list \in Seq(Changes), skipped \subseteq Fds \X Kinds,
           K!UpdateKevents(list, set),
           NEW fd \in D, channels'[fd] # None, NEW k \in Kinds, EndsOff(list, fd, k),
           Silent(list, fd, k) => k \notin set[fd] \/ <<fd, k>> \in skipped
    PROVE  k \notin interest'[fd] \/ <<fd, k>> \in skipped'
<1> DEFINE start == [interest |-> set, skipped |-> skipped, stopped |-> FALSE]
           end == K!Applied(list, start, channels')
<1>1. interest' = end.interest /\ skipped' = end.skipped
  BY DEF K!UpdateKevents
<1>2. start \in Registries(D) /\ (Silent(list, fd, k) => IsOff(start, fd, k))
  BY DEF Registries, IsOff
<1> HIDE DEF start
<1>3. IsOff(end, fd, k)
  BY <1>2, AppliedOff
<1> QED
  BY <1>1, <1>3 DEF IsOff

-----------------------------------------------------------------------------
(* PollerKevent: what the kqueue watches, with what waits for it.           *)

Registered == {fd \in Fds : channels[fd] # None}

\* What the kqueue watches, or what waits for it, is that filter k of fd is on (off).
ComesOn(fd, k) ==
    /\ EndsOn(changes, fd, k)
    /\ Silent(changes, fd, k) => k \in interest[fd] \/ <<fd, k>> \in skipped
ComesOff(fd, k) ==
    /\ EndsOff(changes, fd, k)
    /\ Silent(changes, fd, k) => k \notin interest[fd] \/ <<fd, k>> \in skipped

KeventShape ==
    /\ interest \in [Registered -> SUBSET Kinds]
    /\ IsFiniteSet(Registered) /\ IsFiniteSet(Discarded)
    /\ eventsSize = Cardinality(Registered) - Cardinality(Discarded)
    /\ changes \in Seq(Changes) /\ skipped \subseteq Fds \X Kinds

KeventLoop ==
    /\ capacity \in Nat \ {0}
    /\ batch \subseteq K!Events
    /\ cur \in [chan : Chans \cup {None}, owner : Chans \cup {None}]

FlagsComeOn == \A c \in Added : \A k \in wants[c] : ComesOn(fdOf[c], k)
FlagsComeOff == \A c \in Added : \A k \in Kinds \ wants[c] : ComesOff(fdOf[c], k)

\* Behind a Channel that is gone its filters are turned off.
LeftOff == \A fd \in Fds \ Registered, k \in Kinds : EndsOff(changes, fd, k)

KeventInv == TableInv /\ KeventShape /\ KeventLoop /\ FlagsComeOn /\ FlagsComeOff /\ LeftOff

LEMMA KeventAtFirst == ChanInit /\ K!Init => KeventInv
<1> SUFFICES ASSUME ChanInit, K!Init PROVE KeventInv
  OBVIOUS
<1>1. TableInv
  BY ChanInitOK
<1>2. Registered = {} /\ Added = {} /\ Discarded = {}
  BY DEF ChanInit, Registered, Added, Discarded
<1>3. changes = <<>> /\ skipped = {} /\ interest = [fd \in {} |-> {}] /\ eventsSize = 0
      /\ capacity = DefaultSize /\ batch = {} /\ cur = K!NoCall
  BY DEF K!Init, K!BatchInit
<1>4. KeventShape
  BY <1>2, <1>3, FS_EmptySet DEF KeventShape
<1>5. KeventLoop
  BY <1>3, SizeAssumption DEF KeventLoop, K!NoCall
<1>6. LeftOff
  BY <1>3 DEF LeftOff, EndsOff
<1> QED
  BY <1>1, <1>2, <1>4, <1>5, <1>6 DEF KeventInv, FlagsComeOn, FlagsComeOff

LEMMA KeventEntry ==
    ASSUME KeventInv, NEW c \in Added
    PROVE  /\ fdOf[c] \in Registered /\ fdOf[c] \in Fds /\ wants[c] \in SUBSET Kinds
           /\ c \in Chans /\ c # None
  BY AddedEntry, NoneAssumption DEF KeventInv, Registered, Added, TableInv, ChanTypeOK

LEMMA KeventNewStep ==
    ASSUME KeventInv, TableInv', NEW c \in Chans, K!NewChannel(c), UNCHANGED <<changes, skipped>>
    PROVE  KeventInv'
<1>1. /\ state[c] = "unborn" /\ state' = [state EXCEPT ![c] = "made"]
      /\ UNCHANGED <<wants, channels, changes, skipped, interest, eventsSize, capacity, batch, cur>>
  BY DEF K!NewChannel, K!Make, K!registryVars, K!loopVars
<1>2. PICK fd \in Fds : fdOf' = [fdOf EXCEPT ![c] = fd]
  BY DEF K!NewChannel, K!Make
<1>3. Added' = Added
  BY <1>1 DEF KeventInv, TableInv, ChanTypeOK, Added
<1>4. \A d \in Added : fdOf'[d] = fdOf[d]
  BY <1>1, <1>2 DEF KeventInv, TableInv, ChanTypeOK, Added
<1>5. KeventShape' /\ KeventLoop' /\ LeftOff'
  <2>1. Discarded' = Discarded
    BY <1>1 DEF KeventInv, TableInv, ChanTypeOK, Discarded
  <2> QED
    BY <1>1, <2>1 DEF KeventInv, KeventShape, KeventLoop, LeftOff, Registered
<1>6. FlagsComeOn' /\ FlagsComeOff'
  BY <1>1, <1>3, <1>4 DEF KeventInv, FlagsComeOn, FlagsComeOff, ComesOn, ComesOff
<1> QED
  BY <1>5, <1>6 DEF KeventInv

\* The list is handed over: what was to come has come, or was skipped.
LEMMA HandedOver ==
    ASSUME TableInv', skipped \subseteq Fds \X Kinds, NEW list \in Seq(Changes),
           NEW set \in [Registered' -> SUBSET Kinds], K!UpdateKevents(list, set),
           NEW c \in Added', NEW k \in Kinds,
           k \in wants'[c] =>
               /\ EndsOn(list, fdOf'[c], k)
               /\ Silent(list, fdOf'[c], k) => k \in set[fdOf'[c]] \/ <<fdOf'[c], k>> \in skipped,
           k \notin wants'[c] =>
               /\ EndsOff(list, fdOf'[c], k)
               /\ Silent(list, fdOf'[c], k) => k \notin set[fdOf'[c]] \/ <<fdOf'[c], k>> \in skipped
    PROVE  /\ k \in wants'[c] => ComesOn(fdOf[c], k)'
           /\ k \notin wants'[c] => ComesOff(fdOf[c], k)'
<1> DEFINE fd == fdOf'[c]
           D == Registered'
<1>1. fd \in D /\ channels'[fd] # None
  BY NoneAssumption DEF TableInv, TableOK, ChanTypeOK, OwnFds, Added, Alive, Registered
<1>2. D \in SUBSET Fds /\ \A g \in Fds : channels'[g] # None => g \in D
  BY DEF Registered
<1>3. changes' = <<>>
  BY DEF K!UpdateKevents
<1>4. Silent(<<>>, fd, k) /\ EndsOn(<<>>, fd, k) /\ EndsOff(<<>>, fd, k)
  BY DEF Silent, EndsOn, EndsOff
<1>5. k \in wants'[c] => k \in interest'[fd] \/ <<fd, k>> \in skipped'
  <2> HIDE DEF fd, D
  <2> QED
    BY <1>1, <1>2, HandOverOn DEF fd, D
<1>6. k \notin wants'[c] => k \notin interest'[fd] \/ <<fd, k>> \in skipped'
  <2> HIDE DEF fd, D
  <2> QED
    BY <1>1, <1>2, HandOverOff DEF fd, D
<1> QED
  BY <1>3, <1>4, <1>5, <1>6 DEF ComesOn, ComesOff

LEMMA HandedOverShape ==
    ASSUME TableInv', skipped \subseteq Fds \X Kinds, NEW list \in Seq(Changes),
           NEW set \in [Registered' -> SUBSET Kinds], K!UpdateKevents(list, set)
    PROVE  /\ interest' \in [Registered' -> SUBSET Kinds] /\ skipped' \subseteq Fds \X Kinds
           /\ changes' = <<>> /\ changes' \in Seq(Changes) /\ LeftOff'
<1> DEFINE D == Registered'
<1>1. D \in SUBSET Fds /\ \A g \in Fds : channels'[g] # None => g \in D
  BY DEF Registered
<1> HIDE DEF D
<1>2. interest' \in [D -> SUBSET Kinds] /\ skipped' \subseteq Fds \X Kinds /\ changes' = <<>>
  BY <1>1, HandOverShape DEF D
<1>3. LeftOff'
  BY <1>2 DEF LeftOff, EndsOff
<1> QED
  BY <1>2, <1>3 DEF D

LEMMA KeventAddStep ==
    ASSUME KeventInv, TableInv', NEW c \in Chans, K!AddChannel(c)
    PROVE  KeventInv'
<1> DEFINE fd == fdOf[c]
<1>1. state[c] = "made" /\ fd \in Fds /\ channels[fd] = None /\ c # None
  BY MadeEntry, NoneAssumption DEF K!AddChannel, K!Enter, KeventInv
<1>2. /\ state' = [state EXCEPT ![c] = "added"] /\ channels' = [channels EXCEPT ![fd] = c]
      /\ eventsSize' = eventsSize + 1 /\ UNCHANGED <<fdOf, capacity, batch, cur>>
  BY DEF K!AddChannel, K!Enter, K!loopVars
<1>3. PICK w \in SUBSET Kinds : wants' = [wants EXCEPT ![c] = w]
  BY DEF K!AddChannel, K!Enter, K!Kinds, Kinds
<1> DEFINE new == K!Wanted(fd, w)
           list == changes \o new
           set == K!Set(interest, fd, {})
<1>4. wants'[c] = w /\ fdOf'[c] = fd
  BY <1>2, <1>3 DEF KeventInv, TableInv, ChanTypeOK
<1>5. K!UpdateKevents(list, set)
  BY <1>4 DEF K!AddChannel
<1>6. Registered' = Registered \cup {fd} /\ fd \notin Registered
  BY <1>1, <1>2 DEF Registered, KeventInv, TableInv, ChanTypeOK
<1>7. set \in [Registered' -> SUBSET Kinds] /\ set[fd] = {}
      /\ \A g \in Registered : set[g] = interest[g]
  BY <1>6 DEF K!Set, KeventInv, KeventShape
<1>8. /\ new \in Seq(Changes)
      /\ \A g, k : g # fd => Silent(new, g, k)
      /\ \A k \in w : ~Silent(new, fd, k) /\ EndsOn(new, fd, k)
      /\ \A k \in Kinds \ w : Silent(new, fd, k)
  BY <1>1, WantedSays
<1> HIDE DEF new, set
<1>9. changes \in Seq(Changes) /\ list \in Seq(Changes) /\ skipped \subseteq Fds \X Kinds
  BY <1>8, ConcatProperties DEF KeventInv, KeventShape
<1>10. Added' = Added \cup {c} /\ c \notin Added
  BY <1>1, <1>2 DEF KeventInv, TableInv, ChanTypeOK, Added
<1>11. \A d \in Added : fdOf[d] \in Registered /\ fdOf[d] # fd /\ wants'[d] = wants[d]
  BY <1>3, <1>6, <1>10, KeventEntry DEF KeventInv, TableInv, ChanTypeOK
<1>12. /\ IsFiniteSet(Registered') /\ IsFiniteSet(Discarded')
       /\ eventsSize' = Cardinality(Registered') - Cardinality(Discarded')
  <2>1. /\ IsFiniteSet(Registered) /\ IsFiniteSet(Discarded)
        /\ eventsSize = Cardinality(Registered) - Cardinality(Discarded)
    BY DEF KeventInv, KeventShape
  <2>2. Discarded' = Discarded
    BY <1>1, <1>2 DEF KeventInv, TableInv, ChanTypeOK, Discarded
  <2>3. IsFiniteSet(Registered') /\ Cardinality(Registered') = Cardinality(Registered) + 1
    BY <1>6, <2>1, FS_AddElement
  <2>4. Cardinality(Registered) \in Nat /\ Cardinality(Discarded) \in Nat
    BY <2>1, FS_CardinalityType
  <2> QED
    BY <1>2, <2>1, <2>2, <2>3, <2>4
<1>13. /\ interest' \in [Registered' -> SUBSET Kinds] /\ skipped' \subseteq Fds \X Kinds
       /\ changes' \in Seq(Changes) /\ LeftOff'
  <2> HIDE DEF list
  <2> QED
    BY <1>5, <1>7, <1>9, HandedOverShape
<1>14. ASSUME NEW d \in Added', NEW k \in Kinds
       PROVE  /\ k \in wants'[d] => ComesOn(fdOf[d], k)'
              /\ k \notin wants'[d] => ComesOff(fdOf[d], k)'
  <2> DEFINE On == /\ EndsOn(list, fdOf'[d], k)
                   /\ Silent(list, fdOf'[d], k) => k \in set[fdOf'[d]] \/ <<fdOf'[d], k>> \in skipped
             Off == /\ EndsOff(list, fdOf'[d], k)
                    /\ Silent(list, fdOf'[d], k) => k \notin set[fdOf'[d]] \/ <<fdOf'[d], k>> \in skipped
  <2>1. (k \in wants'[d] => On) /\ (k \notin wants'[d] => Off)
    <3>1. CASE d = c
      <4>1. k \in w => On
        <5> SUFFICES ASSUME k \in w PROVE On
          OBVIOUS
        <5>1. EndsOn(list, fd, k)
          BY <1>8, <1>9, BehindOn
        <5>2. ~Silent(list, fd, k)
          BY <1>8, <1>9, BehindSilent
        <5> QED
          BY <1>4, <3>1, <5>1, <5>2
      <4>2. k \notin w => Off
        <5> SUFFICES ASSUME k \notin w PROVE Off
          OBVIOUS
        <5>1. EndsOff(changes, fd, k)
          BY <1>1, <1>6 DEF KeventInv, LeftOff
        <5>2. EndsOff(new, fd, k)
          BY <1>8, SilentEnds
        <5>3. EndsOff(list, fd, k)
          BY <1>8, <1>9, <5>1, <5>2, BehindOff
        <5> QED
          BY <1>4, <1>7, <3>1, <5>3
      <4> QED
        BY <1>4, <3>1, <4>1, <4>2
    <3>2. CASE d # c
      <4> DEFINE g == fdOf[d]
      <4>1. d \in Added /\ g \in Registered /\ g # fd /\ wants'[d] = wants[d] /\ fdOf'[d] = g
            /\ set[g] = interest[g]
        BY <1>2, <1>7, <1>10, <1>11, <3>2
      <4> HIDE DEF g
      <4>2. Silent(new, g, k) /\ EndsOn(new, g, k) /\ EndsOff(new, g, k)
        BY <1>8, <4>1, SilentEnds
      <4>3. Silent(list, g, k) => Silent(changes, g, k)
        BY <1>8, <1>9, BehindSilent
      <4>4. k \in wants[d] => ComesOn(g, k)
        BY <4>1 DEF KeventInv, FlagsComeOn, g
      <4>5. k \notin wants[d] => ComesOff(g, k)
        BY <4>1 DEF KeventInv, FlagsComeOff, g
      <4>6. EndsOn(changes, g, k) => EndsOn(list, g, k)
        BY <1>8, <1>9, <4>2, BehindOn
      <4>7. EndsOff(changes, g, k) => EndsOff(list, g, k)
        BY <1>8, <1>9, <4>2, BehindOff
      <4> QED
        BY <4>1, <4>3, <4>4, <4>5, <4>6, <4>7 DEF ComesOn, ComesOff
    <3> QED
      BY <3>1, <3>2
  <2> HIDE DEF list
  <2> QED
    BY <1>5, <1>7, <1>9, <2>1, HandedOver
<1>15. KeventLoop'
  BY <1>2 DEF KeventInv, KeventLoop
<1>16. KeventShape' /\ LeftOff'
  BY <1>12, <1>13 DEF KeventShape
<1>17. FlagsComeOn' /\ FlagsComeOff'
  <2>1. wants' \in [Chans -> SUBSET Kinds] /\ Added' \subseteq Chans
    BY DEF TableInv, ChanTypeOK, Added
  <2> QED
    BY <1>14, <2>1 DEF FlagsComeOn, FlagsComeOff
<1> QED
  BY <1>15, <1>16, <1>17 DEF KeventInv

\* What a change of another descriptor's filters leaves of the list's last word.
LEMMA Queued ==
    ASSUME KeventInv, NEW new \in Seq(Changes), changes' = changes \o new, NEW fd, NEW k,
           Silent(new, fd, k)
    PROVE  /\ EndsOn(changes, fd, k) => EndsOn(changes', fd, k)
           /\ EndsOff(changes, fd, k) => EndsOff(changes', fd, k)
           /\ Silent(changes', fd, k) => Silent(changes, fd, k)
<1>1. changes \in Seq(Changes)
  BY DEF KeventInv, KeventShape
<1>2. EndsOn(changes, fd, k) => EndsOn(changes', fd, k)
  BY <1>1, SilentEnds, BehindOn
<1>3. EndsOff(changes, fd, k) => EndsOff(changes', fd, k)
  BY <1>1, SilentEnds, BehindOff
<1>4. Silent(changes', fd, k) => Silent(changes, fd, k)
  BY <1>1, BehindSilent
<1> QED
  BY <1>2, <1>3, <1>4

LEMMA KeventUpdateStep ==
    ASSUME KeventInv, TableInv', NEW c \in Chans, NEW i \in Kinds, NEW on \in BOOLEAN,
           K!UpdateChannel(c, i, on)
    PROVE  KeventInv'
<1> DEFINE fd == fdOf[c]
<1>1. /\ c \in Added /\ UNCHANGED <<state, fdOf, channels, skipped, interest, eventsSize>>
      /\ UNCHANGED <<capacity, batch, cur>>
  BY DEF K!UpdateChannel, K!Change, K!registryVars, K!loopVars, Added
<1>2. PICK w \in SUBSET Kinds : wants' = [wants EXCEPT ![c] = w]
  <2>1. wants[c] \cup {i} \in SUBSET Kinds /\ wants[c] \ {i} \in SUBSET Kinds
    BY DEF KeventInv, TableInv, ChanTypeOK
  <2> QED
    BY <2>1 DEF K!UpdateChannel, K!Change
<1> DEFINE new == K!Both(fd, w)
<1>3. wants'[c] = w /\ \A d \in Added : d # c => wants'[d] = wants[d]
  BY <1>2 DEF KeventInv, TableInv, ChanTypeOK, Added
<1>4. changes' = changes \o new
  BY <1>3 DEF K!UpdateChannel, K!Queue
<1>5. fd \in Fds /\ fd \in Registered
  BY <1>1, KeventEntry
<1>6. /\ new \in Seq(Changes)
      /\ \A g, k : g # fd => Silent(new, g, k)
      /\ \A k \in Kinds : /\ ~Silent(new, fd, k)
                          /\ k \in w => EndsOn(new, fd, k)
                          /\ k \notin w => EndsOff(new, fd, k)
  BY <1>5, BothSays
<1> HIDE DEF new
<1>7. changes \in Seq(Changes) /\ changes' \in Seq(Changes)
  BY <1>4, <1>6, ConcatProperties DEF KeventInv, KeventShape
<1>8. Registered' = Registered /\ Added' = Added
  BY <1>1 DEF Registered, Added
<1>13. Discarded' = Discarded
  BY <1>1 DEF Discarded
<1>9. KeventShape' /\ KeventLoop'
  BY <1>1, <1>7, <1>8, <1>13 DEF KeventInv, KeventShape, KeventLoop
<1>10. ASSUME NEW d \in Added, NEW k \in Kinds
       PROVE  /\ k \in wants'[d] => ComesOn(fdOf[d], k)'
              /\ k \notin wants'[d] => ComesOff(fdOf[d], k)'
  <2>1. CASE d = c
    <3>1. ~Silent(changes', fd, k)
      BY <1>4, <1>6, <1>7, BehindSilent
    <3>2. k \in w => EndsOn(changes', fd, k)
      BY <1>4, <1>6, <1>7, BehindOn
    <3>3. k \notin w => EndsOff(changes', fd, k)
      BY <1>4, <1>6, <1>7, BehindOff
    <3> QED
      BY <1>1, <1>3, <2>1, <3>1, <3>2, <3>3 DEF ComesOn, ComesOff
  <2>2. CASE d # c
    <3> DEFINE g == fdOf[d]
    <3>1. g # fd /\ g' = g /\ wants'[d] = wants[d]
      <4>1. channels[fdOf[d]] = d /\ channels[fd] = c
        BY <1>1, AddedEntry DEF KeventInv
      <4> QED
        BY <1>1, <1>3, <2>2, <4>1
    <3>2. (k \in wants[d] => ComesOn(g, k)) /\ (k \notin wants[d] => ComesOff(g, k))
      BY DEF KeventInv, FlagsComeOn, FlagsComeOff
    <3> HIDE DEF g
    <3>3. ComesOn(g, k) => ComesOn(g, k)'
      <4> SUFFICES ASSUME ComesOn(g, k) PROVE ComesOn(g, k)'
        OBVIOUS
      <4>1. Silent(new, g, k)
        BY <1>6, <3>1
      <4> QED
        BY <1>1, <1>4, <1>6, <3>1, <4>1, Queued DEF ComesOn
    <3>4. ComesOff(g, k) => ComesOff(g, k)'
      <4> SUFFICES ASSUME ComesOff(g, k) PROVE ComesOff(g, k)'
        OBVIOUS
      <4>1. Silent(new, g, k)
        BY <1>6, <3>1
      <4> QED
        BY <1>1, <1>4, <1>6, <3>1, <4>1, Queued DEF ComesOff
    <3> QED
      BY <3>1, <3>2, <3>3, <3>4 DEF g, ComesOn, ComesOff
  <2> QED
    BY <2>1, <2>2
<1>11. FlagsComeOn' /\ FlagsComeOff'
  <2>1. wants' \in [Chans -> SUBSET Kinds] /\ Added' \subseteq Chans
    BY DEF TableInv, ChanTypeOK, Added
  <2>2. ASSUME NEW d \in Added', NEW k \in Kinds
        PROVE  /\ k \in wants'[d] => ComesOn(fdOf[d], k)'
               /\ k \notin wants'[d] => ComesOff(fdOf[d], k)'
    BY <1>8, <1>10
  <2> QED
    BY <2>1, <2>2 DEF FlagsComeOn, FlagsComeOff
<1>12. LeftOff'
  <2> SUFFICES ASSUME NEW g \in Fds \ Registered, NEW k \in Kinds
               PROVE  EndsOff(changes', g, k)
    BY <1>8 DEF LeftOff
  <2>1. g # fd /\ EndsOff(changes, g, k)
    BY <1>5 DEF KeventInv, LeftOff
  <2>2. EndsOff(new, g, k)
    BY <1>6, <2>1, SilentEnds
  <2> QED
    BY <1>4, <1>6, <1>7, <2>1, <2>2, BehindOff
<1> QED
  BY <1>9, <1>11, <1>12 DEF KeventInv

LEMMA KeventDestroyStep ==
    ASSUME KeventInv, TableInv', NEW c \in Chans, K!Destroy(c)
    PROVE  KeventInv'
<1> DEFINE fd == fdOf[c]
           new == K!Both(fd, {})
<1>1. /\ state[c] \in {"made", "added"} /\ UNCHANGED <<fdOf, capacity, batch, cur>>
      /\ state' = [state EXCEPT ![c] = IF @ = "added" THEN "dead" ELSE "discarded"]
      /\ wants' = [wants EXCEPT ![c] = {}]
      /\ channels' = [channels EXCEPT ![fd] = None] /\ eventsSize' = eventsSize - 1
      /\ interest' = [g \in DOMAIN interest \ {fd} |-> interest[g]]
      /\ skipped' = skipped \ ({fd} \X Kinds) /\ changes' = changes \o new
  BY DEF K!Destroy, K!Leave, K!Unregistered, K!Queue, K!loopVars, K!Kinds, Kinds
<1>2. fd \in Fds
  BY <1>1, KeventEntry, MadeEntry DEF KeventInv, Added
<1>3. /\ new \in Seq(Changes)
      /\ \A g, k : g # fd => Silent(new, g, k)
      /\ \A k \in Kinds : EndsOff(new, fd, k) /\ ~Silent(new, fd, k)
  BY <1>2, BothSays
<1> HIDE DEF new
<1>4. changes \in Seq(Changes) /\ changes' \in Seq(Changes)
  BY <1>1, <1>3, ConcatProperties DEF KeventInv, KeventShape
<1>5. Registered' = Registered \ {fd} /\ Added' = Added \ {c}
  BY <1>1, <1>2 DEF KeventInv, TableInv, ChanTypeOK, Registered, Added
<1>6. /\ IsFiniteSet(Registered') /\ IsFiniteSet(Discarded')
      /\ eventsSize' = Cardinality(Registered') - Cardinality(Discarded')
  <2>1. /\ IsFiniteSet(Registered) /\ IsFiniteSet(Discarded)
        /\ eventsSize = Cardinality(Registered) - Cardinality(Discarded)
    BY DEF KeventInv, KeventShape
  <2>2. /\ Cardinality(Registered) \in Nat /\ Cardinality(Discarded) \in Nat
        /\ eventsSize' = eventsSize - 1
    BY <1>1, <2>1, FS_CardinalityType
  <2>3. CASE state[c] = "added"
    <3>1. fd \in Registered
      BY <2>3, KeventEntry DEF Added
    <3>2. Discarded' = Discarded
      BY <1>1, <2>3 DEF KeventInv, TableInv, ChanTypeOK, Discarded
    <3>3. /\ IsFiniteSet(Registered \ {fd})
          /\ Cardinality(Registered \ {fd}) = Cardinality(Registered) - 1
      BY <2>1, <3>1, FS_RemoveElement
    <3> QED
      BY <1>5, <2>1, <2>2, <3>2, <3>3
  <2>4. CASE state[c] = "made"
    <3>1. Registered' = Registered
      BY <1>5, <2>4, MadeEntry DEF KeventInv, Registered
    <3>2. Discarded' = Discarded \cup {c} /\ c \notin Discarded
      BY <1>1, <2>4 DEF KeventInv, TableInv, ChanTypeOK, Discarded
    <3>3. IsFiniteSet(Discarded') /\ Cardinality(Discarded') = Cardinality(Discarded) + 1
      BY <2>1, <3>2, FS_AddElement
    <3> QED
      BY <2>1, <2>2, <3>1, <3>3
  <2> QED
    BY <1>1, <2>3, <2>4
<1>7. interest' \in [Registered' -> SUBSET Kinds] /\ \A g \in Registered' : interest'[g] = interest[g]
  BY <1>1, <1>5 DEF KeventInv, KeventShape
<1>8. KeventShape' /\ KeventLoop'
  BY <1>1, <1>4, <1>6, <1>7 DEF KeventInv, KeventShape, KeventLoop
<1>9. ASSUME NEW d \in Added', NEW k \in Kinds
      PROVE  /\ k \in wants'[d] => ComesOn(fdOf[d], k)'
             /\ k \notin wants'[d] => ComesOff(fdOf[d], k)'
  <2> DEFINE g == fdOf[d]
  <2>1. d \in Added /\ g # fd /\ g' = g /\ wants'[d] = wants[d] /\ g \in Registered'
    <3>1. d \in Added /\ d # c
      BY <1>5
    <3>2. fdOf[d] # fd /\ g \in Registered
      BY <1>1, <3>1, OwnSlot, KeventEntry DEF KeventInv
    <3> QED
      BY <1>1, <1>5, <3>1, <3>2 DEF KeventInv, TableInv, ChanTypeOK
  <2>2. (k \in wants[d] => ComesOn(g, k)) /\ (k \notin wants[d] => ComesOff(g, k))
    BY <2>1 DEF KeventInv, FlagsComeOn, FlagsComeOff
  <2> HIDE DEF g
  <2>3. Silent(new, g, k)
    BY <1>3, <2>1
  <2>4. interest'[g] = interest[g] /\ (<<g, k>> \in skipped => <<g, k>> \in skipped')
    BY <1>1, <1>7, <2>1
  <2>5. ComesOn(g, k) => ComesOn(g, k)'
    BY <1>1, <1>3, <2>1, <2>3, <2>4, Queued DEF ComesOn
  <2>6. ComesOff(g, k) => ComesOff(g, k)'
    BY <1>1, <1>3, <2>1, <2>3, <2>4, Queued DEF ComesOff
  <2> QED
    BY <2>1, <2>2, <2>5, <2>6 DEF g, ComesOn, ComesOff
<1>10. FlagsComeOn' /\ FlagsComeOff'
  <2>1. wants' \in [Chans -> SUBSET Kinds] /\ Added' \subseteq Chans
    BY DEF TableInv, ChanTypeOK, Added
  <2> QED
    BY <1>9, <2>1 DEF FlagsComeOn, FlagsComeOff
<1>11. LeftOff'
  <2> SUFFICES ASSUME NEW g \in Fds \ Registered', NEW k \in Kinds
               PROVE  EndsOff(changes', g, k)
    BY DEF LeftOff
  <2>1. CASE g = fd
    BY <1>1, <1>3, <1>4, <2>1, BehindOff
  <2>2. CASE g # fd
    <3>1. EndsOff(changes, g, k)
      BY <1>5, <2>2 DEF KeventInv, LeftOff
    <3>2. EndsOff(new, g, k)
      BY <1>3, <2>2, SilentEnds
    <3> QED
      BY <1>1, <1>3, <1>4, <3>1, <3>2, BehindOff
  <2> QED
    BY <2>1, <2>2
<1> QED
  BY <1>8, <1>10, <1>11 DEF KeventInv

LEMMA KeventEndStep ==
    ASSUME KeventInv, TableInv', K!EndLoop
    PROVE  KeventInv'
<1>1. /\ K!UpdateKevents(changes, interest) /\ UNCHANGED <<eventsSize, batch, cur>>
      /\ UNCHANGED <<state, fdOf, wants, open, channels>> /\ capacity' = K!Resized
  BY DEF K!EndLoop, K!EndOfBatch, K!chanVars
<1>2. Registered' = Registered /\ Added' = Added
  BY <1>1 DEF Registered, Added
<1>3. changes \in Seq(Changes) /\ skipped \subseteq Fds \X Kinds /\ interest \in [Registered' -> SUBSET Kinds]
  BY <1>2 DEF KeventInv, KeventShape
<1>4. /\ interest' \in [Registered' -> SUBSET Kinds] /\ skipped' \subseteq Fds \X Kinds
      /\ changes' \in Seq(Changes) /\ LeftOff'
  BY <1>1, <1>3, HandedOverShape
<1>5. KeventShape'
  <2>1. Discarded' = Discarded
    BY <1>1 DEF Discarded
  <2> QED
    BY <1>1, <1>2, <1>4, <2>1 DEF KeventInv, KeventShape
<1>6. KeventLoop'
  <2>1. Cardinality(Registered) \in Nat /\ Cardinality(Discarded) \in Nat
    BY FS_CardinalityType DEF KeventInv, KeventShape
  <2>2. eventsSize \in Int
    BY <2>1 DEF KeventInv, KeventShape
  <2> QED
    BY <1>1, <2>2 DEF KeventInv, KeventLoop, K!Resized
<1>7. ASSUME NEW d \in Added', NEW k \in Kinds
      PROVE  /\ k \in wants'[d] => ComesOn(fdOf[d], k)'
             /\ k \notin wants'[d] => ComesOff(fdOf[d], k)'
  <2>1. (k \in wants'[d] => ComesOn(fdOf'[d], k)) /\ (k \notin wants'[d] => ComesOff(fdOf'[d], k))
    BY <1>1, <1>2 DEF KeventInv, FlagsComeOn, FlagsComeOff
  <2> QED
    BY <1>1, <1>3, <2>1, HandedOver DEF ComesOn, ComesOff
<1>8. FlagsComeOn' /\ FlagsComeOff'
  <2>1. wants' \in [Chans -> SUBSET Kinds] /\ Added' \subseteq Chans
    BY DEF TableInv, ChanTypeOK, Added
  <2> QED
    BY <1>7, <2>1 DEF FlagsComeOn, FlagsComeOff
<1> QED
  BY <1>4, <1>5, <1>6, <1>8 DEF KeventInv

LEMMA KeventLoopStep ==
    ASSUME KeventInv, TableInv', UNCHANGED <<changes, skipped>>,
           K!BeginLoop \/ K!Wait \/ K!HandlerReturns \/ \E e \in batch : K!Dispatch(e)
    PROVE  KeventInv'
<1>1. UNCHANGED <<state, fdOf, wants, open, channels, interest, eventsSize, capacity>>
  BY DEF K!BeginLoop, K!Wait, K!Reported, K!HandlerReturns, K!Dispatch, K!chanVars, K!registryVars, K!loopVars
<1>2. KeventShape' /\ FlagsComeOn' /\ FlagsComeOff' /\ LeftOff'
  BY <1>1 DEF KeventInv, KeventShape, FlagsComeOn, FlagsComeOff, LeftOff, ComesOn, ComesOff,
      Registered, Added, Discarded
<1>3. KeventLoop'
  <2>1. CASE K!BeginLoop
    BY <2>1 DEF K!BeginLoop, K!loopVars, KeventInv, KeventLoop
  <2>2. CASE K!Wait
    BY <2>2 DEF K!Wait, K!Reported, K!Reportable, KeventInv, KeventLoop
  <2>3. CASE K!HandlerReturns
    BY <2>3 DEF K!HandlerReturns, K!NoCall, KeventInv, KeventLoop
  <2>4. ASSUME NEW e \in batch, K!Dispatch(e)
        PROVE  KeventLoop'
    BY <2>4 DEF K!Dispatch, K!Events, KeventInv, KeventLoop, TableInv, ChanTypeOK
  <2> QED
    BY <2>1, <2>2, <2>3, <2>4
<1> QED
  BY <1>2, <1>3 DEF KeventInv

LEMMA KeventKept ==
    ASSUME KeventInv, K!Next, TableInv'
    PROVE  KeventInv'
<1>1. ASSUME NEW c \in Chans, K!NewChannel(c), UNCHANGED K!keventVars
      PROVE  KeventInv'
  BY <1>1, KeventNewStep DEF K!keventVars
<1>2. ASSUME K!BeginLoop \/ K!Wait \/ K!HandlerReturns \/ \E e \in batch : K!Dispatch(e),
             UNCHANGED K!keventVars
      PROVE  KeventInv'
  BY <1>2, KeventLoopStep DEF K!keventVars
<1>3. K!Wait => UNCHANGED K!keventVars
  BY DEF K!Wait
<1> QED
  BY <1>1, <1>2, <1>3, KeventAddStep, KeventUpdateStep, KeventDestroyStep, KeventEndStep
  DEF K!Next, Kinds, K!Kinds

LEMMA KeventImplies == KeventInv => K!TypeOK /\ K!KeventOK
<1> SUFFICES ASSUME KeventInv PROVE K!TypeOK /\ K!KeventOK
  OBVIOUS
<1>1. DOMAIN interest = Registered /\ Registered \subseteq Fds
      /\ \A fd \in DOMAIN interest : interest[fd] \subseteq Kinds
  BY DEF KeventInv, KeventShape, Registered
<1>2. eventsSize \in Int
  <2>1. Cardinality(Registered) \in Nat /\ Cardinality(Discarded) \in Nat
    BY FS_CardinalityType DEF KeventInv, KeventShape
  <2> QED
    BY <2>1 DEF KeventInv, KeventShape
<1>3. K!TypeOK
  BY <1>1, <1>2 DEF KeventInv, KeventShape, KeventLoop, K!TypeOK, Changes, K!Kinds, Kinds
<1>4. eventsSize = K!Cardinality(DOMAIN interest) - K!Cardinality(K!Discarded)
  BY <1>1 DEF KeventInv, KeventShape, Cardinality, K!Cardinality, Discarded, K!Discarded
<1>5. ASSUME NEW c \in Added, NEW k \in Kinds
      PROVE  \/ k \in interest[fdOf[c]] <=> k \in wants[c]
             \/ K!Pending(fdOf[c], k)
             \/ <<fdOf[c], k>> \in skipped
  <2>1. ~Silent(changes, fdOf[c], k) => K!Pending(fdOf[c], k)
    BY DEF KeventInv, KeventShape, Silent, K!Pending
  <2>2. (k \in wants[c] => ComesOn(fdOf[c], k)) /\ (k \notin wants[c] => ComesOff(fdOf[c], k))
    BY DEF KeventInv, FlagsComeOn, FlagsComeOff
  <2> QED
    BY <2>1, <2>2 DEF ComesOn, ComesOff
<1> QED
  BY <1>1, <1>3, <1>4, <1>5 DEF K!KeventOK, K!Added, Added, K!Kinds, Kinds, Registered

-----------------------------------------------------------------------------
(* 8. All of them.                                                         *)

PerChooser ==
    /\ chooser \in {"EPOLL", "KEVENT", "POLL", "SELECT"}
    /\ chooser = "EPOLL" => EpollInv
    /\ chooser = "KEVENT" => KeventInv
    /\ chooser = "POLL" => PollInv
    /\ chooser = "SELECT" => SelectInv

AllInv == PerChooser /\ ScanOK

LEMMA AllAtFirst == Init => AllInv
<1> SUFFICES ASSUME Init PROVE AllInv
  OBVIOUS
<1>1. ScanOK
  BY DEF Init, ScanInit, ScanOK, ScanTypeOK, Bits
<1>2. chooser = "EPOLL" => EpollInv
  BY EpollAtFirst DEF Init
<1>3. chooser = "KEVENT" => KeventInv
  BY KeventAtFirst DEF Init
<1>4. chooser = "POLL" => PollInv
  BY PollAtFirst DEF Init
<1>5. chooser = "SELECT" => SelectInv
  BY SelectAtFirst DEF Init
<1>6. chooser \in {"EPOLL", "KEVENT", "POLL", "SELECT"}
  BY DEF Init
<1> QED
  BY <1>1, <1>2, <1>3, <1>4, <1>5, <1>6 DEF AllInv, PerChooser

LEMMA AllUnchanged ==
    ASSUME AllInv, UNCHANGED vars
    PROVE  AllInv'
<1>1. /\ UNCHANGED <<state, fdOf, wants, open, channels, phase, chooser, interest, eventsSize>>
      /\ UNCHANGED <<capacity, batch, cur, changes, skipped, pollfds, watched, maxfd, result, stray>>
      /\ UNCHANGED <<pos, nready, at, revent, ch, owner, added>>
  BY DEF vars, chanVars, scanVars, walkVars, batchVars, keventVars, selectVars
<1>2. TableInv => TableInv'
  BY <1>1 DEF TableInv, ChanTypeOK, TableOK, OwnFds, Alive, Added
<1>3. ScanOK'
  BY <1>1 DEF AllInv, ScanOK, ScanTypeOK
<1>4. EpollInv => EpollInv'
  BY <1>1, <1>2 DEF EpollInv, E!EpollTypeOK, EpollRegistry, E!RegistryOK, Discarded,
                    E!InterestFollowsFlags, EpollCountOK, E!Added
<1>5. KeventInv => KeventInv'
  <2> SUFFICES ASSUME KeventInv PROVE KeventInv'
    OBVIOUS
  <2>1. Added' = Added /\ Registered' = Registered /\ Discarded' = Discarded
    BY <1>1 DEF Added, Registered, Discarded
  <2> QED
    BY <1>1, <1>2, <2>1 DEF KeventInv, KeventShape, KeventLoop, FlagsComeOn, FlagsComeOff, LeftOff, ComesOn, ComesOff
<1>6. PollInv => PollInv'
  BY <1>1, <1>2 DEF PollInv, SlotsOK, P!PollfdsOK, P!Added
<1>7. SelectInv => SelectInv'
  <2>1. Added' = Added /\ S!Added' = S!Added /\ S!Discarded' = S!Discarded /\ S!Fails' = S!Fails
    BY <1>1 DEF Added, S!Added, S!Discarded, S!Fails
  <2> QED
    BY <1>1, <1>2, <2>1 DEF SelectInv, S!TypeOK, S!SetsOK
<1> QED
  BY <1>1, <1>3, <1>4, <1>5, <1>6, <1>7 DEF AllInv, PerChooser

LEMMA AllKept ==
    ASSUME AllInv, CallInv, CallInv', [Next]_vars
    PROVE  AllInv'
<1>1. CASE UNCHANGED vars
  BY <1>1, AllUnchanged
<1> SUFFICES ASSUME Next PROVE AllInv'
  BY <1>1
<1>2. chooser' = chooser /\ chooser \in {"EPOLL", "KEVENT", "POLL", "SELECT"} /\ TableInv'
  BY DEF Next, AllInv, PerChooser, CallInv
<1>3. CASE chooser = "EPOLL"
  <2>1. E!Next /\ UNCHANGED scanVars
    BY <1>3 DEF Next
  <2>2. EpollInv'
    BY <1>2, <1>3, <2>1, EpollKept DEF AllInv, PerChooser
  <2>3. ScanOK'
    BY <2>1 DEF AllInv, ScanOK, ScanTypeOK, scanVars, walkVars
  <2> QED
    BY <1>2, <1>3, <2>2, <2>3 DEF AllInv, PerChooser
<1>4. CASE chooser = "KEVENT"
  <2>1. K!Next /\ UNCHANGED scanVars
    BY <1>4 DEF Next
  <2>2. KeventInv'
    BY <1>2, <1>4, <2>1, KeventKept DEF AllInv, PerChooser
  <2>3. ScanOK'
    BY <2>1 DEF AllInv, ScanOK, ScanTypeOK, scanVars, walkVars
  <2> QED
    BY <1>2, <1>4, <2>2, <2>3 DEF AllInv, PerChooser
<1>5. CASE chooser = "POLL"
  <2>1. P!Next
    BY <1>5 DEF Next
  <2>2. PollInv'
    BY <1>2, <1>5, <2>1, PollKept DEF AllInv, PerChooser
  <2>3. ScanOK'
    BY <1>5, <2>1, PollScan DEF AllInv, CallInv
  <2> QED
    BY <1>2, <1>5, <2>2, <2>3 DEF AllInv, PerChooser
<1>6. CASE chooser = "SELECT"
  <2>1. S!Next
    BY <1>6 DEF Next
  <2>2. SelectInv'
    BY <1>2, <1>6, <2>1, SelectKept DEF AllInv, PerChooser
  <2>3. ScanOK'
    BY <1>6, <2>1, SelectScan DEF AllInv, PerChooser, CallInv
  <2> QED
    BY <1>2, <1>6, <2>2, <2>3 DEF AllInv, PerChooser
<1> QED
  BY <1>2, <1>3, <1>4, <1>5, <1>6

LEMMA PollImplies == SlotsOK => P!TypeOK
<1> SUFFICES ASSUME SlotsOK PROVE P!TypeOK
  OBVIOUS
<1>1. PICK n \in Nat \ {0} : pollfds \in [0 .. n - 1 -> P!Slots]
  BY DEF SlotsOK
<1>2. P!Size = n
  BY <1>1, SizeIs
<1> QED
  BY <1>1, <1>2 DEF P!TypeOK

\* PollerEpoll, PollerPoll and PollerSelect tell the system call exactly what the
\* flags of the added Channels ask for, whatever handlers add, change and destroy in
\* the middle of a batch, and PollerKevent's kqueue differs from the flags only where
\* a change is in its list or kevent(2) skipped one.  With PollerEpoll this is said
\* of a process that lives: one in which every Channel that was destroyed had been
\* added, and before its descriptor was closed, as EPOLL_CTL_DEL fails for any other
\* and ends it.  With PollerSelect, maxfd_ is above every added Channel's descriptor
\* unless one was destroyed that had never been added; with PollerKevent, eventsSize_
\* is too small by as many (PollerEpoll.cpp:59-127, PollerPoll.cpp:8-57,
\* PollerSelect.cpp:8-67, PollerKevent.cpp:38-138).
THEOREM PollersAlwaysOK == Spec => []PollersInv
<1>1. AllInv /\ CallInv => PollersInv
  <2> SUFFICES ASSUME AllInv, CallInv PROVE PollersInv
    OBVIOUS
  <2>1. ChanTypeOK /\ ScanTypeOK /\ chooser \in {"EPOLL", "KEVENT", "POLL", "SELECT"}
    BY DEF AllInv, PerChooser, ScanOK, CallInv, TableInv
  <2>2. chooser = "EPOLL" => E!EpollTypeOK /\ E!EpollOK
    BY EpollImplies DEF AllInv, PerChooser
  <2>3. chooser = "KEVENT" => K!TypeOK /\ K!KeventOK
    BY KeventImplies DEF AllInv, PerChooser
  <2>4. chooser = "POLL" => P!TypeOK /\ P!PollfdsOK
    BY PollImplies DEF AllInv, PerChooser, PollInv
  <2>5. chooser = "SELECT" => S!TypeOK /\ S!SetsOK
    BY DEF AllInv, PerChooser, SelectInv
  <2> QED
    BY <2>1, <2>2, <2>3, <2>4, <2>5 DEF PollersInv, TypeOK
<1>2. AllInv /\ CallInv /\ CallInv' /\ [Next]_vars => AllInv'
  BY AllKept
<1> QED
  BY <1>1, <1>2, AllAtFirst, CallInvariance, PTL DEF Spec

-----------------------------------------------------------------------------
(* 9. Nobody that was reported is left out.                                *)

\* The numbers for which the system call has reported something that counts.
Hot == IF chooser = "POLL" THEN {i \in DOMAIN pollfds : pollfds[i].revents \ {"hup"} # {}}
       ELSE {fd \in Fds : result[fd] # {}}

From(hot, p) == {i \in hot : i >= p}

\* As long as no Channel is added on the way, the walk has not more to come to than
\* nready says, and what it holds in its body was reported for its position.
CountInv ==
    phase \in {"dispatch", "handler"} /\ added = {} =>
        /\ IsFiniteSet(Hot) /\ Hot \subseteq Nat
        /\ Cardinality(From(Hot, pos)) <= nready
        /\ at # "slot" /\ ("in" \in revent \/ "out" \in revent) => pos \in Hot

\* Between the walks PollerSelect has no results (a failed select(2) leaves it so).
Quiet == chooser = "SELECT" /\ phase \in {"user", "wait"} => Hot = {}

LEMMA FromNext ==
    ASSUME NEW hot, IsFiniteSet(hot), hot \subseteq Nat, NEW p \in Nat
    PROVE  /\ Cardinality(From(hot, p)) \in Nat
           /\ Cardinality(From(hot, p + 1)) =
                 IF p \in hot THEN Cardinality(From(hot, p)) - 1 ELSE Cardinality(From(hot, p))
<1>1. From(hot, p) \in SUBSET hot
  BY DEF From
<1>2. IsFiniteSet(From(hot, p))
  BY <1>1, FS_Subset
<1>3. From(hot, p + 1) = From(hot, p) \ {p}
  <2>1. \A i \in hot : i >= p + 1 <=> i >= p /\ i # p
    BY SMT
  <2> QED
    BY <2>1 DEF From
<1>4. p \in From(hot, p) <=> p \in hot
  BY DEF From
<1> QED
  BY <1>2, <1>3, <1>4, FS_RemoveElement, FS_CardinalityType

LEMMA CountReported ==
    ASSUME NEW n \in Nat, P!Reported(n), at = "slot",
           IsFiniteSet(Hot'), Hot' \subseteq Nat, Cardinality(Hot') <= n
    PROVE  CountInv'
<1>1. pos' = 0 /\ nready' = n /\ at' = "slot"
  BY DEF P!Reported
<1>2. From(Hot, pos)' = Hot'
  <2>1. From(Hot, pos)' = {i \in Hot' : i >= 0}
    BY <1>1 DEF From
  <2>2. \A i \in Hot' : i >= 0
    OBVIOUS
  <2> QED
    BY <2>1, <2>2, Zenon
<1> QED
  BY <1>1, <1>2 DEF CountInv

LEMMA CountVisit ==
    ASSUME CountInv, ScanOK, Hot' = Hot, NEW c, NEW bits, P!Visit(c, bits),
           "in" \in bits \/ "out" \in bits => pos \in Hot
    PROVE  CountInv'
<1>1. phase = "dispatch" /\ nready' = nready /\ added' = added
  BY DEF P!Visit, P!Skip, P!Erro, P!Read
<1> SUFFICES ASSUME added = {} PROVE CountInv'
  BY <1>1 DEF CountInv
<1>2. /\ IsFiniteSet(Hot) /\ Hot \subseteq Nat /\ Cardinality(From(Hot, pos)) <= nready
      /\ pos \in Nat /\ nready \in Nat
  BY <1>1 DEF CountInv, ScanOK, ScanTypeOK
<1>3. CASE P!Skip(c) \/ P!Erro(c, bits)
  <2>1. pos' = pos + 1 /\ at' = "slot"
    BY <1>3 DEF P!Skip, P!Erro, P!NextSlot
  <2>2. From(Hot, pos)' = From(Hot, pos + 1)
    BY <2>1 DEF From
  <2>3. Cardinality(From(Hot, pos + 1)) <= nready
    <3>1. /\ Cardinality(From(Hot, pos)) \in Nat
          /\ \/ Cardinality(From(Hot, pos + 1)) = Cardinality(From(Hot, pos)) - 1
             \/ Cardinality(From(Hot, pos + 1)) = Cardinality(From(Hot, pos))
      BY <1>2, FromNext
    <3> QED
      BY <1>2, <3>1
  <2> QED
    BY <1>1, <1>2, <2>1, <2>2, <2>3 DEF CountInv
<1>4. CASE P!Read(c, bits)
  <2>1. pos' = pos /\ revent' = bits
    BY <1>4 DEF P!Read
  <2>2. From(Hot, pos)' = From(Hot, pos)
    BY <2>1 DEF From
  <2> QED
    BY <1>1, <1>2, <2>1, <2>2 DEF CountInv
<1> QED
  BY <1>3, <1>4 DEF P!Visit

LEMMA CountWrit ==
    ASSUME CountInv, ScanOK, Hot' = Hot, P!Writ
    PROVE  CountInv'
<1>1. phase = "dispatch" /\ at = "writ" /\ added' = added /\ pos' = pos + 1 /\ at' = "slot"
  BY DEF P!Writ, P!NextSlot
<1> SUFFICES ASSUME added = {} PROVE CountInv'
  BY <1>1 DEF CountInv
<1>2. /\ IsFiniteSet(Hot) /\ Hot \subseteq Nat /\ Cardinality(From(Hot, pos)) <= nready
      /\ pos \in Nat /\ nready \in Nat
  BY <1>1 DEF CountInv, ScanOK, ScanTypeOK
<1>3. nready' = nready \/ (nready' = nready - 1 /\ pos \in Hot)
  BY <1>1 DEF P!Writ, CountInv
<1>4. From(Hot, pos)' = From(Hot, pos + 1)
  BY <1>1 DEF From
<1>5. Cardinality(From(Hot, pos + 1)) <= nready'
  <2>1. /\ Cardinality(From(Hot, pos)) \in Nat
        /\ Cardinality(From(Hot, pos + 1)) = IF pos \in Hot THEN Cardinality(From(Hot, pos)) - 1
                                            ELSE Cardinality(From(Hot, pos))
    BY <1>2, FromNext
  <2> QED
    BY <1>2, <1>3, <2>1
<1> QED
  BY <1>1, <1>2, <1>4, <1>5 DEF CountInv

\* Steps that leave the walk where it is.
LEMMA CountStill ==
    ASSUME CountInv, phase' \in {"dispatch", "handler"} => phase \in {"dispatch", "handler"} /\ Hot' = Hot,
           UNCHANGED <<pos, nready, at, revent, added>>
    PROVE  CountInv'
<1> SUFFICES ASSUME phase' \in {"dispatch", "handler"} PROVE CountInv'
  BY DEF CountInv
<1>1. From(Hot, pos)' = From(Hot, pos)
  BY DEF From
<1> QED
  BY <1>1 DEF CountInv

LEMMA CountEntered ==
    ASSUME NEW c \in Chans, P!Entered(c)
    PROVE  CountInv'
<1>1. phase' = "handler" => added' # {}
  BY DEF P!Entered, P!Enter
<1>2. phase' \in {"user", "handler"}
  BY DEF P!Entered, P!Enter, P!UserCode
<1> QED
  BY <1>1, <1>2 DEF CountInv

\* The slots for which poll(2) has reported something are as many as it says.
LEMMA PollCount ==
    ASSUME CountInv, ScanOK, TableInv, SlotsOK, WalkOK, P!Next,
           chooser = "POLL", chooser' = "POLL"
    PROVE  CountInv'
<1>1. PICK n \in Nat : pollfds \in [0 .. n - 1 -> P!Slots]
  BY DEF SlotsOK
<1>2. Hot = {i \in DOMAIN pollfds : pollfds[i].revents \ {"hup"} # {}}
  BY DEF Hot
<1>3. Hot' = {i \in DOMAIN pollfds' : pollfds'[i].revents \ {"hup"} # {}}
  BY DEF Hot
<1>4. pollfds' = pollfds => Hot' = Hot
  BY <1>2, <1>3
<1>5. CASE P!Wait
  <2>1. PICK hungUp \in BOOLEAN, says \in [Fds -> SUBSET {"erro", "in", "out"}] :
          /\ pollfds' = [i \in DOMAIN pollfds |->
                            [pollfds[i] EXCEPT !.revents = P!Revents(i, hungUp, says)]]
          /\ P!Reported(P!Cardinality({i \in DOMAIN pollfds : P!Revents(i, hungUp, says) # {}}))
    BY <1>5 DEF P!Wait
  <2> DEFINE T == {i \in DOMAIN pollfds : P!Revents(i, hungUp, says) # {}}
  <2>2. IsFiniteSet(T) /\ T \subseteq Nat
    <3>1. IsFiniteSet(0 .. n - 1) /\ T \in SUBSET (0 .. n - 1)
      BY <1>1, FS_Interval
    <3> HIDE DEF T
    <3>2. IsFiniteSet(T)
      BY <3>1, FS_Subset
    <3>3. T \subseteq Nat
      BY <3>1
    <3> QED
      BY <3>2, <3>3
  <2>3. Hot' \in SUBSET T
    <3>1. DOMAIN pollfds' = DOMAIN pollfds
      BY <2>1
    <3>2. \A i \in DOMAIN pollfds : pollfds'[i].revents = P!Revents(i, hungUp, says)
      BY <1>1, <2>1 DEF P!Slots
    <3> QED
      BY <1>3, <3>1, <3>2
  <2>4. P!Cardinality(T) = Cardinality(T)
    BY DEF Cardinality, P!Cardinality
  <2>5. at = "slot"
    BY <2>1 DEF P!Reported, WalkOK
  <2>6. P!Reported(Cardinality(T))
    BY <2>1, <2>4
  <2> HIDE DEF T
  <2>7. IsFiniteSet(Hot') /\ Hot' \subseteq Nat /\ Cardinality(Hot') <= Cardinality(T)
    BY <2>2, <2>3, FS_Subset
  <2> QED
    BY <2>2, <2>5, <2>6, <2>7, CountReported, FS_CardinalityType
<1>6. CASE P!EndWalk
  BY <1>6 DEF P!EndWalk, P!EndLoop, CountInv
<1>7. CASE P!VisitSlot
  <2> DEFINE c == IF pollfds[pos].fd \in Fds THEN channels[pollfds[pos].fd] ELSE None
  <2>1. P!Visit(c, pollfds[pos].revents) /\ pos < P!Size /\ pollfds' = pollfds
    BY <1>7 DEF P!VisitSlot
  <2>2. P!Size = n
    BY <1>1, SizeIs
  <2>3. pos \in DOMAIN pollfds
    BY <1>1, <2>1, <2>2 DEF ScanOK, ScanTypeOK
  <2>4. "in" \in pollfds[pos].revents \/ "out" \in pollfds[pos].revents => pos \in Hot
    BY <1>2, <2>3
  <2> HIDE DEF c
  <2> QED
    BY <1>4, <2>1, <2>4, CountVisit
<1>8. CASE P!Writ /\ UNCHANGED pollfds
  BY <1>4, <1>8, CountWrit
<1>9. ASSUME NEW c \in Chans, P!AddChannel(c)
      PROVE  CountInv'
  BY <1>9, CountEntered DEF P!AddChannel
<1>10. ASSUME NEW c \in Chans, P!Destroy(c)
       PROVE  CountInv'
  <2>1. UNCHANGED scanVars /\ phase' \in {phase, "ended"}
    BY <1>10 DEF P!Destroy, P!Left, P!Leave, P!scanVars, P!walkVars, scanVars, walkVars
  <2>2. pollfds' = [pollfds EXCEPT ![fdOf[c]].fd = -1] \/ pollfds' = pollfds
    BY <1>10 DEF P!Destroy
  <2>3. Hot' = Hot
    BY <1>1, <1>2, <1>3, <2>2, SMTT(60) DEF P!Slots
  <2> QED
    BY <2>1, <2>3, CountStill DEF scanVars, walkVars
<1>11. ASSUME NEW c \in Chans, NEW k, NEW on, P!UpdateChannel(c, k, on)
       PROVE  CountInv'
  <2>1. pollfds' = [pollfds EXCEPT ![fdOf[c]].events = wants'[c]] /\ UNCHANGED <<phase, scanVars>>
    BY <1>11 DEF P!UpdateChannel, P!Changed, P!Change, P!scanVars, P!walkVars, scanVars, walkVars
  <2>2. Hot' = Hot
    BY <1>1, <1>2, <1>3, <2>1 DEF P!Slots
  <2> QED
    BY <2>1, <2>2, CountStill DEF scanVars, walkVars
<1>12. CASE (P!BeginLoop \/ P!HandlerReturns \/ \E c \in Chans : P!Made(c)) /\ UNCHANGED pollfds
  <2>1. UNCHANGED <<pos, nready, at, revent, added>>
    BY <1>12 DEF P!BeginLoop, P!HandlerReturns, P!Made, P!scanVars, P!walkVars
  <2>2. phase' \in {"dispatch", "handler"} => phase \in {"dispatch", "handler"}
    BY <1>12 DEF P!BeginLoop, P!HandlerReturns, P!Made, P!Make
  <2> QED
    BY <1>4, <1>12, <2>1, <2>2, CountStill
<1> QED
  BY <1>5, <1>6, <1>7, <1>8, <1>9, <1>10, <1>11, <1>12 DEF P!Next

\* A descriptor with bits has at least one of those that are counted.
LEMMA BitsCounted ==
    ASSUME NEW left, NEW bits, NEW T, IsFiniteSet(T),
           T = {b \in Fds \X bits : b[2] \in left[b[1]]},
           \A fd \in Fds : left[fd] \subseteq bits
    PROVE  /\ IsFiniteSet({fd \in Fds : left[fd] # {}})
           /\ Cardinality({fd \in Fds : left[fd] # {}}) <= Cardinality(T)
<1> DEFINE H == {fd \in Fds : left[fd] # {}}
           f == [b \in T |-> b[1]]
<1>1. \A b \in T : f[b] = b[1] /\ b[1] \in H
  OBVIOUS
<1>2. ASSUME NEW fd \in H
      PROVE  \E b \in T : f[b] = fd
  <2>1. PICK k \in left[fd] : TRUE
    OBVIOUS
  <2>2. <<fd, k>> \in T
    BY <2>1
  <2> QED
    BY <2>2
<1>3. f \in [T -> H]
  BY <1>1
<1> HIDE DEF f, H
<1>4. f \in Surjection(T, H)
  BY <1>2, <1>3 DEF Surjection
<1>5. IsFiniteSet(H) /\ Cardinality(H) <= Cardinality(T)
  BY <1>4, FS_Surjection
<1> QED
  BY <1>5 DEF H

LEMMA SelectCount ==
    ASSUME CountInv, Quiet, ScanOK, SelectInv, WalkOK, S!Next,
           chooser = "SELECT", chooser' = "SELECT"
    PROVE  CountInv' /\ Quiet'
<1>0. ChanTypeOK /\ TableInv /\ maxfd \in Int /\ result \in [Fds -> SUBSET S!Sets]
  BY DEF SelectInv, TableInv, S!TypeOK
<1>1. Hot = {fd \in Fds : result[fd] # {}} /\ Hot' = {fd \in Fds : result'[fd] # {}}
  BY DEF Hot
<1>2. result' = result => Hot' = Hot
  BY <1>1
<1>3. CASE S!Wait
  <2>1. PICK left \in [Fds -> SUBSET S!Sets] :
          /\ \A fd \in Fds : left[fd] \subseteq IF fd < maxfd THEN watched[fd] ELSE {}
          /\ result' = left
          /\ S!Reported(S!Cardinality({b \in Fds \X S!Sets : b[2] \in left[b[1]]}))
    BY <1>3 DEF S!Wait, S!Answer
  <2> DEFINE T == {b \in Fds \X S!Sets : b[2] \in left[b[1]]}
  <2>2. IsFiniteSet(T)
    BY <1>0, <2>1, BitsFinite
  <2>3. \A fd \in Fds : left[fd] \subseteq S!Sets
    OBVIOUS
  <2>4. S!Cardinality(T) = Cardinality(T)
    BY DEF Cardinality, S!Cardinality
  <2>5. at = "slot" /\ phase' = "dispatch"
    BY <2>1 DEF S!Reported, WalkOK
  <2>6. P!Reported(Cardinality(T))
    BY <2>1, <2>4, SameWalk
  <2>7. Hot' = {fd \in Fds : left[fd] # {}} /\ Hot' \subseteq Nat
    BY <1>1, <2>1, FdsAssumption
  <2>8. IsFiniteSet(Hot') /\ Cardinality(Hot') <= Cardinality(T)
    BY <2>2, <2>3, <2>7, BitsCounted
  <2> HIDE DEF T
  <2>9. Cardinality(T) \in Nat
    BY <2>2, FS_CardinalityType
  <2>10. CountInv'
    BY <2>5, <2>6, <2>7, <2>8, <2>9, CountReported
  <2> QED
    BY <2>5, <2>10 DEF Quiet
<1>4. CASE S!WaitFails
  <2>1. P!Reported(0) /\ at = "slot" /\ phase = "wait" /\ phase' = "dispatch" /\ result' = result
    BY <1>4, SameWalk DEF S!WaitFails, S!Reported, WalkOK, S!selectVars
  <2>2. Hot' = {}
    BY <1>2, <2>1 DEF Quiet
  <2>3. IsFiniteSet(Hot') /\ Hot' \subseteq Nat /\ Cardinality(Hot') <= 0
    BY <2>2, FS_EmptySet
  <2>4. CountInv'
    BY <2>1, <2>3, CountReported
  <2> QED
    BY <2>1, <2>4 DEF Quiet
<1>5. CASE S!EndWalk
  <2>1. phase' = "user" /\ Hot' = {}
    BY <1>1, <1>5 DEF S!EndWalk, S!EndLoop
  <2> QED
    BY <2>1 DEF CountInv, Quiet
<1>6. CASE S!VisitFd
  <2>1. /\ Hot' = Hot /\ phase = "dispatch" /\ phase' \in {"dispatch", "handler"}
    BY <1>2, <1>6 DEF S!VisitFd, S!selectVars, S!Visit, S!Skip, S!Erro, S!Read
  <2>2. CASE pos \in Fds
    <3>1. P!Visit(channels[pos], result[pos])
      BY <1>6, <2>2, SameWalk DEF S!VisitFd
    <3>2. "in" \in result[pos] \/ "out" \in result[pos] => pos \in Hot
      BY <1>1, <2>2
    <3>3. CountInv'
      BY <2>1, <3>1, <3>2, CountVisit
    <3> QED
      BY <2>1, <3>3 DEF Quiet
  <2>3. CASE pos \notin Fds
    <3>1. P!Visit(None, {})
      BY <1>6, <2>3, SameWalk DEF S!VisitFd
    <3>2. CountInv'
      BY <2>1, <3>1, CountVisit
    <3> QED
      BY <2>1, <3>2 DEF Quiet
  <2> QED
    BY <2>2, <2>3
<1>7. CASE S!Writ /\ UNCHANGED S!selectVars
  <2>1. P!Writ /\ Hot' = Hot /\ phase' \in {"dispatch", "handler"}
    BY <1>2, <1>7, SameWalk DEF S!selectVars, S!Writ
  <2> QED
    BY <2>1, CountWrit DEF Quiet
<1>8. ASSUME NEW c \in Chans, S!AddChannel(c)
      PROVE  CountInv' /\ Quiet'
  <2>1. P!Entered(c) /\ Hot' = Hot /\ phase' = phase
    BY <1>2, <1>8, SameWalk DEF S!AddChannel, S!Entered, S!Enter
  <2> QED
    BY <2>1, CountEntered DEF Quiet
<1>9. CASE \/ S!BeginLoop /\ UNCHANGED S!selectVars
           \/ S!HandlerReturns /\ UNCHANGED S!selectVars
           \/ \E c \in Chans : S!Made(c) /\ UNCHANGED S!selectVars
           \/ \E c \in Chans : S!Destroy(c)
           \/ \E c \in Chans, k \in S!Kinds, on \in BOOLEAN : S!UpdateChannel(c, k, on)
  <2>1. UNCHANGED <<pos, nready, at, revent, added, result>>
    BY <1>9 DEF S!BeginLoop, S!HandlerReturns, S!Made, S!Destroy, S!Left, S!UpdateChannel, S!Changed,
                S!scanVars, S!walkVars, S!selectVars
  <2>2. \/ phase' = phase \/ (phase = "user" /\ phase' = "wait")
        \/ (phase = "handler" /\ phase' = "dispatch")
    BY <1>9 DEF S!BeginLoop, S!HandlerReturns, S!Made, S!Make, S!Destroy, S!Left, S!Leave,
                S!UpdateChannel, S!Changed, S!Change
  <2>3. CountInv'
    BY <1>2, <2>1, <2>2, CountStill
  <2>4. Quiet'
    BY <1>2, <2>1, <2>2 DEF Quiet
  <2> QED
    BY <2>3, <2>4
<1> QED
  BY <1>3, <1>4, <1>5, <1>6, <1>7, <1>8, <1>9 DEF S!Next

ServedInv == chooser \in {"POLL", "SELECT"} => CountInv /\ Quiet

LEMMA ServedAtFirst == Init => ServedInv
<1> SUFFICES ASSUME Init, chooser \in {"POLL", "SELECT"} PROVE CountInv /\ Quiet
  BY DEF ServedInv
<1>1. phase = "user"
  BY DEF Init, ChanInit
<1>2. chooser = "SELECT" => Hot = {}
  BY DEF Init, S!Init, Hot
<1> QED
  BY <1>1, <1>2 DEF CountInv, Quiet

LEMMA ServedKept ==
    ASSUME ServedInv, AllInv, CallInv, [Next]_vars
    PROVE  ServedInv'
<1>1. CASE UNCHANGED vars
  <2>1. UNCHANGED <<phase, chooser, pollfds, result, pos, nready, at, revent, added>>
    BY <1>1 DEF vars, scanVars, walkVars, selectVars
  <2>2. Hot' = Hot
    BY <2>1 DEF Hot
  <2>3. CountInv => CountInv'
    BY <2>1, <2>2, CountStill
  <2>4. Quiet => Quiet'
    BY <2>1, <2>2 DEF Quiet
  <2> QED
    BY <2>1, <2>3, <2>4 DEF ServedInv
<1>2. CASE Next /\ chooser = "POLL"
  <2>1. P!Next /\ chooser' = "POLL"
    BY <1>2 DEF Next
  <2>2. CountInv'
    BY <1>2, <2>1, PollCount DEF ServedInv, AllInv, CallInv
  <2> QED
    BY <2>1, <2>2 DEF ServedInv, Quiet
<1>3. CASE Next /\ chooser = "SELECT"
  <2>1. S!Next /\ chooser' = "SELECT"
    BY <1>3 DEF Next
  <2>2. CountInv' /\ Quiet'
    BY <1>3, <2>1, SelectCount DEF ServedInv, AllInv, PerChooser, CallInv
  <2> QED
    BY <2>2 DEF ServedInv
<1>4. CASE Next /\ chooser \notin {"POLL", "SELECT"}
  BY <1>4 DEF Next, ServedInv
<1> QED
  BY <1>1, <1>2, <1>3, <1>4

\* What is left for the walk when it ends.
LEMMA NothingAhead ==
    ASSUME CountInv, ScanOK, phase = "dispatch", added = {}, nready = 0
    PROVE  \A fd \in Hot : ~(fd >= pos)
<1>1. IsFiniteSet(Hot) /\ Cardinality(From(Hot, pos)) <= 0
  BY DEF CountInv
<1>2. From(Hot, pos) \in SUBSET Hot
  BY DEF From
<1>3. IsFiniteSet(From(Hot, pos))
  BY <1>1, <1>2, FS_Subset
<1>4. From(Hot, pos) = {}
  BY <1>1, <1>3, FS_CardinalityType, FS_EmptySet
<1> QED
  BY <1>4 DEF From

\* When the walk of PollerPoll or PollerSelect ends because nready is down to 0, it
\* has come to every Channel for which something was reported, whatever handlers
\* have changed and destroyed in between, unless one was added on the way, or, with
\* PollerSelect, one was destroyed that had never been added.  PollerEpoll has room
\* for an event of every registered Channel before it waits again, and PollerKevent
\* for all but as many as were destroyed without being added
\* (PollerPoll.cpp:74-110, PollerSelect.cpp:92-117, PollerEpoll.cpp:54,
\* PollerKevent.cpp:114).
THEOREM ReportsAreServed == Spec => ReportedAreServed
<1>1. ASSUME AllInv, CallInv, ServedInv, Next, phase = "dispatch", phase' = "user"
      PROVE  CASE chooser \in {"EPOLL", "KEVENT"} ->
                      capacity' >= Cardinality(DOMAIN interest) - Cardinality(Discarded)
               [] chooser \in {"POLL", "SELECT"} ->
                   added = {} /\ (chooser = "SELECT" => Discarded = {}) =>
                   \A c \in Added : owner[fdOf[c]] = c =>
                      ~IF chooser = "POLL" THEN P!Ahead(fdOf[c]) ELSE S!Ahead(fdOf[c])
  <2>1. CASE chooser = "EPOLL"
    <3>1. E!EndLoop
      BY <1>1, <2>1 DEF Next, E!Next, E!BeginLoop, E!Wait, E!Reported, E!Dispatch, E!HandlerReturns,
            E!NewChannel, E!AddChannel, E!UpdateChannel, E!Destroy, E!Make, E!Enter, E!Change, E!Leave
    <3>2. capacity' = E!Resized
      BY <3>1 DEF E!EndLoop, E!EndOfBatch
    <3>3. /\ eventsSize = Cardinality(DOMAIN interest) /\ IsFiniteSet(DOMAIN interest)
          /\ eventsSize \in Int /\ capacity \in Nat /\ Discarded = {}
      BY <1>1, <2>1 DEF AllInv, PerChooser, EpollInv, EpollRegistry, EpollCountOK, E!EpollTypeOK
    <3>4. eventsSize \in Nat /\ Cardinality(Discarded) = 0
      BY <3>3, FS_CardinalityType, FS_EmptySet
    <3>5. capacity' >= eventsSize
      BY <3>2, <3>3, <3>4 DEF E!Resized
    <3> QED
      BY <2>1, <3>3, <3>4, <3>5
  <2>2. CASE chooser = "KEVENT"
    <3>1. K!EndLoop
      BY <1>1, <2>2 DEF Next, K!Next, K!BeginLoop, K!Wait, K!Reported, K!Dispatch, K!HandlerReturns,
            K!NewChannel, K!AddChannel, K!UpdateChannel, K!Destroy, K!Make, K!Enter, K!Change, K!Leave
    <3>2. capacity' = K!Resized
      BY <3>1 DEF K!EndLoop, K!EndOfBatch
    <3>3. /\ DOMAIN interest = Registered /\ IsFiniteSet(Registered) /\ IsFiniteSet(Discarded)
          /\ eventsSize = Cardinality(Registered) - Cardinality(Discarded) /\ capacity \in Nat
      BY <1>1, <2>2 DEF AllInv, PerChooser, KeventInv, KeventShape, KeventLoop
    <3>4. eventsSize \in Int
      BY <3>3, FS_CardinalityType
    <3>5. capacity' >= eventsSize
      BY <3>2, <3>3, <3>4 DEF K!Resized
    <3> QED
      BY <2>2, <3>3, <3>5
  <2>3. CASE chooser = "POLL"
    <3>1. P!EndWalk
      BY <1>1, <2>3 DEF Next, P!Next, P!BeginLoop, P!Wait, P!Reported, P!VisitSlot, P!Visit, P!Skip,
            P!Erro, P!Read, P!Writ, P!HandlerReturns, P!AddChannel, P!UpdateChannel, P!Destroy,
            P!Made, P!Entered, P!Changed, P!Left, P!Make, P!Enter, P!Change, P!Leave
    <3>2. nready = 0 \/ pos >= P!Size
      BY <3>1 DEF P!EndWalk, P!EndLoop
    <3>3. PICK n \in Nat : pollfds \in [0 .. n - 1 -> P!Slots]
      BY <1>1, <2>3 DEF CallInv, SlotsOK
    <3>4. P!Size = n
      BY <3>3, SizeIs
    <3>5. ASSUME added = {}, NEW fd \in DOMAIN pollfds, fd >= pos, pollfds[fd].revents \ {"hup"} # {}
          PROVE  FALSE
      <4>1. fd \in Hot
        BY <2>3, <3>5 DEF Hot
      <4>2. CASE nready = 0
        BY <1>1, <2>3, <3>5, <4>1, <4>2, NothingAhead DEF ServedInv, AllInv
      <4>3. CASE pos >= n
        BY <1>1, <3>3, <3>5, <4>3 DEF CallInv, WalkOK
      <4> QED
        BY <3>2, <3>4, <4>2, <4>3
    <3> QED
      BY <2>3, <3>5 DEF P!Ahead
  <2>4. CASE chooser = "SELECT"
    <3>1. S!EndWalk
      BY <1>1, <2>4 DEF Next, S!Next, S!BeginLoop, S!Wait, S!Answer, S!WaitFails, S!Reported, S!VisitFd,
            S!Visit, S!Skip, S!Erro, S!Read, S!Writ, S!HandlerReturns, S!AddChannel, S!UpdateChannel,
            S!Destroy, S!Made, S!Entered, S!Changed, S!Left, S!Make, S!Enter, S!Change, S!Leave
    <3>2. nready = 0 \/ pos >= maxfd
      BY <3>1 DEF S!EndWalk, S!EndLoop
    <3>3. ASSUME added = {}, Discarded = {}, NEW c \in Added, fdOf[c] >= pos, result[fdOf[c]] # {}
          PROVE  FALSE
      <4>1. fdOf[c] \in Fds /\ fdOf[c] \in Nat
        BY <1>1, AddedEntry, FdsAssumption DEF CallInv
      <4>2. fdOf[c] < maxfd /\ maxfd \in Int
        BY <1>1, <2>4, <3>3 DEF AllInv, PerChooser, SelectInv, S!SetsOK, S!TypeOK, S!Added, Added,
                                 S!Discarded, Discarded
      <4>3. fdOf[c] \in Hot
        BY <2>4, <3>3, <4>1 DEF Hot
      <4>4. CASE nready = 0
        BY <1>1, <2>4, <3>3, <4>3, <4>4, NothingAhead DEF ServedInv, AllInv
      <4>5. CASE pos >= maxfd
        BY <1>1, <3>3, <4>1, <4>2, <4>5 DEF CallInv, WalkOK
      <4> QED
        BY <3>2, <4>4, <4>5
    <3> QED
      BY <2>4, <3>3 DEF S!Ahead
  <2>5. chooser \in {"EPOLL", "KEVENT", "POLL", "SELECT"}
    BY <1>1 DEF AllInv, PerChooser
  <2> QED
    BY <2>1, <2>2, <2>3, <2>4, <2>5
<1>2. AllInv /\ CallInv /\ CallInv' /\ [Next]_vars => AllInv'
  BY AllKept
<1>3. ServedInv /\ AllInv /\ CallInv /\ [Next]_vars => ServedInv'
  BY ServedKept
<1>4. AllInv /\ CallInv /\ ServedInv /\ [Next]_vars =>
        [phase = "dispatch" /\ phase' = "user" =>
           CASE chooser \in {"EPOLL", "KEVENT"} ->
                    capacity' >= Cardinality(DOMAIN interest) - Cardinality(Discarded)
             [] chooser \in {"POLL", "SELECT"} ->
                 added = {} /\ (chooser = "SELECT" => Discarded = {}) =>
                 \A c \in Added : owner[fdOf[c]] = c =>
                    ~IF chooser = "POLL" THEN P!Ahead(fdOf[c]) ELSE S!Ahead(fdOf[c])]_vars
  BY <1>1
<1> QED
  BY <1>2, <1>3, <1>4, AllAtFirst, ServedAtFirst, CallInvariance, PTL DEF Spec, ReportedAreServed

=============================================================================
