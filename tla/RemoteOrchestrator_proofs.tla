---------------------- MODULE RemoteOrchestrator_proofs ----------------------
(***************************************************************************)
(* The safety of the bridge, for any set of calls.  PendingIsExact is      *)
(* inductive only with the ids: one that is handed out is new because all  *)
(* the others are smaller.  What a call is told is true because a reply    *)
(* is only ever on its way for a request the daemon has taken, and a call  *)
(* keeps the id of its last request for good.                              *)
(***************************************************************************)
EXTENDS RemoteOrchestrator, TLAPS

Pcs == {"idle", "waiting", "asking", "probing", "done"}

Shape ==
    /\ nextId \in Nat \ {0} /\ closed \in BOOLEAN /\ linkUp \in BOOLEAN
    /\ pc \in [Calls -> Pcs] /\ outcome \in [Calls -> Outcomes]
    /\ id \in [Calls -> Nat] /\ answerTo \in [Calls -> Nat]
    /\ toDaemon \subseteq Nat /\ ran \subseteq Nat
    /\ replies \subseteq [id : Nat, kind : ReplyKinds]

\* Every id in use was handed out before.
Handed == \A c \in Calls : id[c] < nextId

\* Nothing is said of a call that is under way.
Unsaid == \A c \in Calls : pc[c] # "done" => answerTo[c] = NoId /\ outcome[c] = "none"

\* The daemon replies to what it has taken.
OnRecord == \A r \in replies : r.id \in ran

Severed == closed => ~linkUp /\ Waiting = {}

Ledger == Shape /\ Handed /\ Unsaid /\ OnRecord /\ Severed /\ PendingIsExact /\ OutcomeIsTrue

LEMMA LedgerInit == RemoteInit => Ledger
  <1> SUFFICES ASSUME RemoteInit PROVE Ledger
    OBVIOUS
  <1>1. Waiting = {}
    BY DEF RemoteInit, Waiting
  <1>2. PendingIsExact
    BY <1>1 DEF RemoteInit, PendingIsExact
  <1>3. Shape
    <2>1. pc \in [Calls -> Pcs] /\ outcome \in [Calls -> Outcomes]
      BY DEF RemoteInit, Pcs, Outcomes
    <2>2. id \in [Calls -> Nat] /\ answerTo \in [Calls -> Nat]
      BY DEF RemoteInit, NoId
    <2>3. nextId \in Nat \ {0}
      BY DEF RemoteInit
    <2>5. closed \in BOOLEAN /\ linkUp \in BOOLEAN
      BY Zenon DEF RemoteInit
    <2>4. toDaemon \subseteq Nat /\ ran \subseteq Nat /\ replies \subseteq [id : Nat, kind : ReplyKinds]
      BY DEF RemoteInit
    <2> QED BY <2>1, <2>2, <2>3, <2>4, <2>5 DEF Shape
  <1>4. Handed /\ Unsaid /\ OnRecord /\ Severed
    BY DEF RemoteInit, Handed, Unsaid, OnRecord, Severed, NoId
  <1>5. OutcomeIsTrue
    BY DEF RemoteInit, OutcomeIsTrue, AnswerIsItsOwn, BusyMeansResponsive, ReplyKinds
  <1> QED BY <1>2, <1>3, <1>4, <1>5 DEF Ledger

\* The calls that wait after a call has left the wait, and what their entries are.
LEMMA OneLeaves ==
  ASSUME Ledger, NEW c \in Waiting, Forget(id[c]), id' = id,
         Waiting' = Waiting \ {c}
  PROVE  PendingIsExact'
  BY DEF Ledger, PendingIsExact, Forget, Waiting

LEMMA LedgerStep == Ledger /\ [RemoteNext]_remoteVars => Ledger'
  <1> SUFFICES ASSUME Ledger, [RemoteNext]_remoteVars PROVE Ledger'
    OBVIOUS
  <1> USE DEF Ledger, NoId
  <1>1. ASSUME NEW c \in Calls, Request(c) PROVE Ledger'
    <2>1. CASE ~LinkKnownGone /\ Await(c, "waiting") /\ UNCHANGED <<outcome, answerTo>>
      <3>1. Waiting' = Waiting \cup {c}
        BY <1>1, <2>1 DEF Request, Await, Waiting, Shape
      <3>2. PendingIsExact'
        BY <1>1, <2>1, <3>1 DEF Request, Await, Waiting, Shape, Handed, PendingIsExact
      <3>3. Shape' /\ Handed' /\ Unsaid' /\ OnRecord' /\ Severed' 
        BY <1>1, <2>1, <3>1 DEF Request, Await, Send, Shape, Handed, Unsaid, OnRecord, Severed, LinkKnownGone, Pcs
      <3>4. OutcomeIsTrue'
        BY <1>1, <2>1 DEF Request, Await, Shape, Unsaid, OutcomeIsTrue, AnswerIsItsOwn, BusyMeansResponsive, ReplyKinds
      <3> QED BY <3>2, <3>3, <3>4
    <2>2. CASE LinkKnownGone /\ Ends(c, "neverSent") /\ nextId' = nextId + 1
               /\ UNCHANGED <<pending, timers, id, answerTo, toDaemon>>
      <3>1. Waiting' = Waiting
        BY <1>1, <2>2 DEF Request, Ends, Waiting, Shape
      <3>2. PendingIsExact'
        BY <1>1, <2>2, <3>1 DEF PendingIsExact
      <3>3. Shape' /\ Handed' /\ Unsaid' /\ OnRecord' /\ Severed' 
        BY <1>1, <2>2, <3>1 DEF Request, Ends, Shape, Handed, Unsaid, OnRecord, Severed, Pcs, Outcomes
      <3>4. OutcomeIsTrue'
        BY <1>1, <2>2 DEF Request, Ends, Shape, Unsaid, OutcomeIsTrue, AnswerIsItsOwn, BusyMeansResponsive, ReplyKinds
      <3> QED BY <3>2, <3>3, <3>4
    <2> QED BY <1>1, <2>1, <2>2 DEF Request
  <1>2. CASE OnMessage
    <2> PICK r \in replies :
          /\ replies' = replies \ {r}
          /\ \/ \E c \in Hit(r.id) :
                   /\ Resolve(c, r.kind) /\ Forget(id[c])
                   /\ answerTo' = [answerTo EXCEPT ![c] = IF pc[c] = "waiting" THEN r.id ELSE @]
             \/ /\ Hit(r.id) = {} \/ r.kind = "corrupt"
                /\ UNCHANGED <<pc, outcome, pending, timers, answerTo>>
          /\ UNCHANGED <<nextId, closed, id, linkUp, toDaemon, ran, owed>>
      BY <1>2 DEF OnMessage
    <2>1. ASSUME NEW c \in Hit(r.id), Resolve(c, r.kind), Forget(id[c]),
                 answerTo' = [answerTo EXCEPT ![c] = IF pc[c] = "waiting" THEN r.id ELSE @]
          PROVE  Ledger'
      <3>1. c \in Waiting /\ c \in Calls /\ id[c] = r.id /\ r.id \in ran /\ r.kind \in ReplyKinds
        BY <2>1 DEF Hit, Waiting, OnRecord, Shape
      <3>2. Waiting' = Waiting \ {c}
        BY <2>1, <3>1 DEF Resolve, Ends, Waiting, Shape
      <3>3. PendingIsExact'
        BY <2>1, <3>1, <3>2, OneLeaves
      <3>4. Shape'
        BY <2>1, <3>1 DEF Resolve, Ends, Shape, Pcs, Outcomes, ReplyKinds
      <3>5. Handed' /\ Unsaid' /\ OnRecord' /\ Severed'
        BY <2>1, <3>1, <3>2 DEF Resolve, Ends, Shape, Handed, Unsaid, OnRecord, Severed
      <3>6. OutcomeIsTrue'
        BY <2>1, <3>1 DEF Resolve, Ends, Shape, Unsaid, OutcomeIsTrue, AnswerIsItsOwn,
                          BusyMeansResponsive, ReplyKinds, Waiting
      <3> QED BY <3>3, <3>4, <3>5, <3>6
    <2>2. CASE UNCHANGED <<pc, outcome, pending, timers, answerTo>>
      BY <2>2 DEF Shape, Handed, Unsaid, OnRecord, Severed, PendingIsExact, Waiting,
                  OutcomeIsTrue, AnswerIsItsOwn, BusyMeansResponsive
    <2> QED BY <2>1, <2>2
  <1>3. ASSUME NEW c \in Calls, RequestDeadline(c) PROVE Ledger'
    <2>1. c \in Waiting /\ Waiting' = Waiting \ {c}
      BY <1>3 DEF RequestDeadline, Waiting, Shape
    <2>2. PendingIsExact'
      BY <1>3, <2>1, OneLeaves DEF RequestDeadline
    <2>3. Shape' /\ Handed' /\ Unsaid' /\ OnRecord' /\ Severed'
      BY <1>3, <2>1 DEF RequestDeadline, Shape, Handed, Unsaid, OnRecord, Severed, Pcs, daemon
    <2>4. OutcomeIsTrue'
      BY <1>3 DEF RequestDeadline, OutcomeIsTrue, AnswerIsItsOwn, BusyMeansResponsive, daemon
    <2> QED BY <2>2, <2>3, <2>4
  <1>4. ASSUME NEW c \in Calls, StartProbe(c) PROVE Ledger'
    <2>1. CASE LinkKnownGone /\ Ends(c, "unresponsive") /\ UNCHANGED <<nextId, pending, timers, id, toDaemon>>
      <3>1. Waiting' = Waiting
        BY <1>4, <2>1 DEF StartProbe, Ends, Waiting, Shape
      <3>2. PendingIsExact'
        BY <2>1, <3>1 DEF PendingIsExact
      <3>3. Shape' /\ Handed' /\ Unsaid' /\ OnRecord' /\ Severed' 
        BY <1>4, <2>1, <3>1 DEF StartProbe, Ends, Shape, Handed, Unsaid, OnRecord, Severed, Pcs, Outcomes
      <3>4. OutcomeIsTrue'
        BY <1>4, <2>1 DEF StartProbe, Ends, Shape, OutcomeIsTrue, AnswerIsItsOwn, BusyMeansResponsive, ReplyKinds
      <3> QED BY <3>2, <3>3, <3>4
    <2>2. CASE ~LinkKnownGone /\ Await(c, "probing") /\ UNCHANGED outcome
      <3>1. Waiting' = Waiting \cup {c}
        BY <1>4, <2>2 DEF StartProbe, Await, Waiting, Shape
      <3>2. PendingIsExact'
        BY <1>4, <2>2, <3>1 DEF StartProbe, Await, Waiting, Shape, Handed, PendingIsExact
      <3>3. Shape' /\ Handed' /\ Unsaid' /\ OnRecord' /\ Severed' 
        BY <1>4, <2>2, <3>1 DEF StartProbe, Await, Send, Shape, Handed, Unsaid, OnRecord, Severed, LinkKnownGone, Pcs
      <3>4. OutcomeIsTrue'
        BY <1>4, <2>2 DEF StartProbe, Await, Shape, Unsaid, OutcomeIsTrue, AnswerIsItsOwn, BusyMeansResponsive, ReplyKinds
      <3> QED BY <3>2, <3>3, <3>4
    <2> QED BY <1>4, <2>1, <2>2 DEF StartProbe
  <1>5. ASSUME NEW c \in Calls, ProbeDeadline(c) PROVE Ledger'
    <2>1. c \in Waiting /\ Waiting' = Waiting \ {c}
      BY <1>5 DEF ProbeDeadline, Ends, Waiting, Shape
    <2>2. PendingIsExact'
      BY <1>5, <2>1, OneLeaves DEF ProbeDeadline
    <2>3. Shape' /\ Handed' /\ Unsaid' /\ OnRecord' /\ Severed'
      BY <1>5, <2>1 DEF ProbeDeadline, Ends, Shape, Handed, Unsaid, OnRecord, Severed, Pcs, Outcomes, daemon
    <2>4. OutcomeIsTrue'
      BY <1>5 DEF ProbeDeadline, Ends, Shape, OutcomeIsTrue, AnswerIsItsOwn, BusyMeansResponsive, ReplyKinds, daemon
    <2> QED BY <2>2, <2>3, <2>4
  <1>6. CASE SeeClose
    <2>1. SettledByClose = Waiting
      BY DEF SettledByClose, Waiting, PendingIsExact
    <2>2. Waiting' = {}
      BY <1>6, <2>1 DEF SeeClose, Waiting
    <2>3. PendingIsExact'
      BY <1>6, <2>1, <2>2 DEF SeeClose, PendingIsExact
    <2>4. Shape' /\ Handed' /\ Unsaid' /\ OnRecord' /\ Severed'
      BY <1>6, <2>1, <2>2 DEF SeeClose, ClosedMeans, Shape, Handed, Unsaid, OnRecord, Severed, Pcs, Outcomes
    <2>5. OutcomeIsTrue'
      BY <1>6 DEF SeeClose, ClosedMeans, Shape, OutcomeIsTrue, AnswerIsItsOwn, BusyMeansResponsive, ReplyKinds
    <2> QED BY <2>3, <2>4, <2>5
  <1>7. CASE TakesRequest \/ Replies \/ LinkBreaks
    <2>1. UNCHANGED bridge /\ ran \subseteq ran' /\ (~linkUp => ~linkUp')
      <3>1. CASE TakesRequest
        BY <3>1 DEF TakesRequest
      <3>2. CASE Replies
        BY <3>2 DEF Replies
      <3>3. CASE LinkBreaks
        BY <3>3 DEF LinkBreaks
      <3> QED BY <1>7, <3>1, <3>2, <3>3
    <2>2. Shape' /\ OnRecord'
      <3>1. CASE TakesRequest
        BY <3>1 DEF TakesRequest, Shape, OnRecord, bridge
      <3>2. CASE Replies
        <4> PICK i \in ran, k \in ReplyKinds : replies' = replies \cup {[id |-> i, kind |-> k]}
                                               /\ UNCHANGED <<bridge, linkUp, toDaemon, ran, owed>>
          BY <3>2 DEF Replies
        <4> QED BY DEF Shape, OnRecord, bridge
      <3>3. CASE LinkBreaks
        BY <3>3 DEF LinkBreaks, Shape, OnRecord, bridge
      <3> QED BY <1>7, <3>1, <3>2, <3>3
    <2>3. Handed' /\ Unsaid' /\ Severed' /\ PendingIsExact' /\ OutcomeIsTrue'
      BY <2>1 DEF bridge, Handed, Unsaid, Severed, PendingIsExact, Waiting, OutcomeIsTrue,
                  AnswerIsItsOwn, BusyMeansResponsive
    <2> QED BY <2>2, <2>3
  <1>8. CASE UNCHANGED remoteVars
    BY <1>8 DEF remoteVars, bridge, daemon, Shape, Handed, Unsaid, OnRecord, Severed, PendingIsExact, Waiting,
                OutcomeIsTrue, AnswerIsItsOwn, BusyMeansResponsive
  <1> QED BY <1>1, <1>2, <1>3, <1>4, <1>5, <1>6, <1>7, <1>8 DEF RemoteNext, BridgeStep

LEMMA LedgerHolds == RemoteSpec => []Ledger
  BY LedgerInit, LedgerStep, PTL DEF RemoteSpec

\* Every wait of the bridge has its own entry and its own deadline, nothing else has either, and a
\* link that is known to be gone has nobody waiting for it, for any number of calls (sendAndAwait
\* and onClose of remote-orchestrator.ts).
THEOREM EveryWaitIsOnFile == RemoteSpec => []WaitsAreAccounted
  <1>1. Ledger => WaitsAreAccounted
    BY DEF Ledger, Severed, WaitsAreAccounted, NothingWaitsOnADeadLink
  <1> QED BY <1>1, LedgerHolds, PTL

\* What a caller is told is true of the daemon: an answer is the one to its own request, and "busy"
\* is said of a daemon that has taken the probe.
THEOREM CallersAreToldTheTruth == RemoteSpec => []OutcomeIsTrue
  <1>1. Ledger => OutcomeIsTrue
    BY DEF Ledger
  <1> QED BY <1>1, LedgerHolds, PTL
=============================================================================
