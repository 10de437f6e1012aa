------------------------- MODULE RemoteOrchestrator -------------------------
(***************************************************************************)
(* A bridge's side of the socket, daemon/remote-orchestrator.ts, over the  *)
(* connection of support/transport/unix-socket.ts: calls correlated by id  *)
(* in one pending map that also holds the liveness probes which follow a   *)
(* missed deadline.  The daemon handles what reaches it in any order, at   *)
(* any time or never; the link may be lost at any moment, with what is on  *)
(* it.  A deadline may pass whenever it is running.                        *)
(***************************************************************************)
EXTENDS Naturals, FiniteSets

CONSTANTS Calls

NoId == 0
Ids == 1..(2 * Cardinality(Calls))     \* a call and its probe take one each
Outcomes == {"none", "answer", "error", "corrupt", "closed", "neverSent", "busy", "unresponsive"}
ReplyKinds == {"answer", "error", "corrupt"}

VARIABLES
    nextId,
    pending,     \* the ids in the pending map
    timers,      \* the ids whose deadline is running
    closed,      \* the close event has been seen
    pc, id,      \* of each call: what it is waiting for, and under which id
    outcome,
    answerTo,    \* the request whose answer a call was given
    linkUp,      \* the socket still carries messages
    toDaemon,    \* ids of the envelopes on the wire
    ran,         \* history: the ids the daemon has taken off it
    owed,        \* those it has not answered yet
    replies      \* [id, kind] on the way back

bridge == <<nextId, pending, timers, closed, pc, id, outcome, answerTo>>
daemon == <<linkUp, toDaemon, ran, owed, replies>>
remoteVars == <<bridge, daemon>>

RemoteInit == /\ nextId = 1 /\ pending = {} /\ timers = {} /\ closed = FALSE
        /\ pc = [c \in Calls |-> "idle"] /\ id = [c \in Calls |-> NoId]
        /\ outcome = [c \in Calls |-> "none"] /\ answerTo = [c \in Calls |-> NoId]
        /\ linkUp = TRUE /\ toDaemon = {} /\ ran = {} /\ owed = {} /\ replies = {}

----------------------------------------------------------------------------
(* sendAndAwait and its ends.                                              *)

\* A send on a link that is gone but not yet known to be is dropped.
Send(i) == toDaemon' = IF linkUp THEN toDaemon \cup {i} ELSE toDaemon

Await(c, at) ==
    /\ nextId' = nextId + 1
    /\ pc' = [pc EXCEPT ![c] = at] /\ id' = [id EXCEPT ![c] = nextId]
    /\ pending' = pending \cup {nextId} /\ timers' = timers \cup {nextId}
    /\ Send(nextId)

Ends(c, what) == pc' = [pc EXCEPT ![c] = "done"] /\ outcome' = [outcome EXCEPT ![c] = what]

\* settle(): the timer is cancelled and the entry is dropped.
Forget(i) == pending' = pending \ {i} /\ timers' = timers \ {i}

\* `closed` is checked when the request is handed over.
LinkKnownGone == closed

Request(c) ==
    /\ pc[c] = "idle"
    /\ \/ /\ ~LinkKnownGone /\ Await(c, "waiting") /\ UNCHANGED <<outcome, answerTo>>
       \/ /\ LinkKnownGone /\ Ends(c, "neverSent")
          /\ nextId' = nextId + 1
          /\ UNCHANGED <<pending, timers, id, answerTo, toDaemon>>
    /\ UNCHANGED <<closed, linkUp, ran, owed, replies>>

\* What a reply, or the lack of one, means for a call or for its probe.
Resolve_DropsCorrupt(c, what) ==
    IF what = "corrupt" THEN UNCHANGED <<pc, outcome>>
    ELSE Ends(c, IF pc[c] = "waiting" THEN what ELSE "busy")
Resolve(c, what) == Ends(c, IF pc[c] = "waiting" THEN what ELSE "busy")

\* The pending entry a reply settles.
Hit_ByArrival(i) == {c \in Calls : pc[c] \in {"waiting", "probing"}}
Hit(i) == {c \in Calls : pc[c] \in {"waiting", "probing"} /\ id[c] = i /\ i \in pending}

\* onMessage; a corrupt reply whose id cannot be read settles nothing.
OnMessage == \E r \in replies :
    /\ replies' = replies \ {r}
    /\ \/ \E c \in Hit(r.id) :
             /\ Resolve(c, r.kind) /\ Forget(id[c])
             /\ answerTo' = [answerTo EXCEPT ![c] = IF pc[c] = "waiting" THEN r.id ELSE @]
       \/ /\ Hit(r.id) = {} \/ r.kind = "corrupt"
          /\ UNCHANGED <<pc, outcome, pending, timers, answerTo>>
    /\ UNCHANGED <<nextId, closed, id, linkUp, toDaemon, ran, owed>>

\* The deadline of a request makes way for the question whether anybody is there.
RequestDeadline(c) ==
    /\ pc[c] = "waiting" /\ id[c] \in timers
    /\ pc' = [pc EXCEPT ![c] = "asking"] /\ Forget(id[c])
    /\ UNCHANGED <<nextId, closed, id, outcome, answerTo, daemon>>

\* wedgeMessage first awaits the machine's sleep record, then probes if the link is still there.
StartProbe(c) ==
    /\ pc[c] = "asking"
    /\ \/ /\ LinkKnownGone /\ Ends(c, "unresponsive")
          /\ UNCHANGED <<nextId, pending, timers, id, toDaemon>>
       \/ /\ ~LinkKnownGone /\ Await(c, "probing") /\ UNCHANGED outcome
    /\ UNCHANGED <<closed, answerTo, linkUp, ran, owed, replies>>

ProbeDeadline(c) ==
    /\ pc[c] = "probing" /\ id[c] \in timers
    /\ Ends(c, "unresponsive") /\ Forget(id[c])
    /\ UNCHANGED <<nextId, closed, id, answerTo, daemon>>

\* onClose settles everything that is pending and clears the map.
SettledByClose_RequestsOnly == {c \in Calls : pc[c] = "waiting" /\ id[c] \in pending}
SettledByClose == {c \in Calls : pc[c] \in {"waiting", "probing"} /\ id[c] \in pending}

\* A probe recognises the locally made reply by its code.
ClosedMeans_ByWholeMessage(c) == IF pc[c] = "waiting" THEN "closed" ELSE "busy"
ClosedMeans(c) == IF pc[c] = "waiting" THEN "closed" ELSE "unresponsive"

SeeClose ==
    /\ ~linkUp /\ ~closed /\ closed' = TRUE
    /\ pc' = [c \in Calls |-> IF c \in SettledByClose THEN "done" ELSE pc[c]]
    /\ outcome' = [c \in Calls |-> IF c \notin SettledByClose THEN outcome[c]
                                   ELSE ClosedMeans(c)]
    /\ timers' = timers \ {id[c] : c \in SettledByClose}
    /\ pending' = {} /\ replies' = {}
    /\ UNCHANGED <<nextId, id, answerTo, linkUp, toDaemon, ran, owed>>

----------------------------------------------------------------------------
(* The other end.                                                          *)

TakesRequest == \E i \in toDaemon :
    /\ toDaemon' = toDaemon \ {i} /\ ran' = ran \cup {i} /\ owed' = owed \cup {i}
    /\ UNCHANGED <<bridge, linkUp, replies>>

Replies == \E i \in ran, k \in ReplyKinds :
    /\ linkUp /\ \A r \in replies : r.id # i
    /\ replies' = replies \cup {[id |-> i, kind |-> k]}
    /\ UNCHANGED <<bridge, linkUp, toDaemon, ran, owed>>

\* The daemon exits or dies, the decoder gives the stream up, or the bridge is disposed of.
LinkBreaks == /\ linkUp /\ linkUp' = FALSE
              /\ \E lost \in {{}, toDaemon} : toDaemon' = toDaemon \ lost
              /\ replies' \in {{}, replies}
              /\ UNCHANGED <<bridge, ran, owed>>

BridgeStep == \/ SeeClose
              \/ \E c \in Calls : RequestDeadline(c) \/ StartProbe(c) \/ ProbeDeadline(c)
RemoteNext == \/ BridgeStep \/ OnMessage \/ TakesRequest \/ Replies \/ LinkBreaks
        \/ \E c \in Calls : Request(c)

RemoteSpec == RemoteInit /\ [][RemoteNext]_remoteVars

\* The bridge's own timers and events, and nothing of the daemon.
RemoteFairSpec == RemoteSpec /\ WF_remoteVars(BridgeStep)

----------------------------------------------------------------------------
Waiting == {c \in Calls : pc[c] \in {"waiting", "probing"}}

RemoteTypeOK == /\ nextId \in 1..(2 * Cardinality(Calls) + 1)
          /\ pending \subseteq Ids /\ timers \subseteq Ids /\ closed \in BOOLEAN
          /\ pc \in [Calls -> {"idle", "waiting", "asking", "probing", "done"}]
          /\ id \in [Calls -> Ids \cup {NoId}] /\ answerTo \in [Calls -> Ids \cup {NoId}]
          /\ outcome \in [Calls -> Outcomes]
          /\ linkUp \in BOOLEAN /\ toDaemon \subseteq Ids /\ ran \subseteq Ids /\ owed \subseteq Ids
          /\ replies \subseteq [id : Ids, kind : ReplyKinds]

\* Whatever waits has its own entry in the pending map and a deadline running, and nothing else
\* has: no entry leaks and no timer outlives its call, in every order of replies, deadlines,
\* probes and the close of the link.
PendingIsExact ==
    /\ pending = {id[c] : c \in Waiting} /\ timers = pending
    /\ \A c, d \in Waiting : id[c] = id[d] => c = d

\* Once the bridge has seen its link close, no call waits for it, not even one made later.
NothingWaitsOnADeadLink == closed => Waiting = {}

\* No call is stranded: what the close of the link settles is everything there is to settle.
WaitsAreAccounted == PendingIsExact /\ NothingWaitsOnADeadLink

\* A call is only ever given the reply to its own request, one the daemon has received; a late
\* reply or a probe's is nobody else's.
AnswerIsItsOwn == \A c \in Calls : outcome[c] \in ReplyKinds => answerTo[c] = id[c] /\ id[c] \in ran

\* "busy (still responsive)" is said only of a daemon that took the probe sent after the missed
\* deadline.
BusyMeansResponsive == \A c \in Calls : outcome[c] = "busy" => id[c] \in ran /\ answerTo[c] = NoId

\* What the caller is told is true of the daemon.
OutcomeIsTrue == AnswerIsItsOwn /\ BusyMeansResponsive

\* Never-hang: every call ends, though the daemon answers nothing.
EveryCallEnds == \A c \in Calls : pc[c] # "idle" ~> pc[c] = "done"
=============================================================================
