----------------------------- MODULE ProcessHost -----------------------------
(***************************************************************************)
(* createProcessHost (daemon/process-host.ts): the daemon's side of a      *)
(* forked engine.  Its keystone is "never hangs": every call is bounded by *)
(* a timer of the daemon's own, which kills the child and, one belt later, *)
(* settles everything although the child may never be reaped.              *)
(*                                                                         *)
(* An action is one turn of the daemon's event loop: a caller's request, a *)
(* frame, the exit event, or a timer.  `pending` and the cancel handles in *)
(* it are the sets pending and armed; a settled call keeps its answer and  *)
(* how often it was settled.                                               *)
(***************************************************************************)
EXTENDS EngineChild

VARIABLES
  phase,        \* createProcessHost: "starting" | "ready" | "failed"
  nextId,       \* the next envelope id
  pending,      \* ids of calls waiting for a reply
  armed,        \* ids whose request deadline is scheduled
  belts,        \* ids whose timer killed the child: KILL_BELT_MS is running
  disposeTimers,\* ids of disposals whose deadline is scheduled
  waiters,      \* ids of disposals not yet resolved
  resolved,     \* ids of disposals whose promise resolved
  dead,
  deadlineTripped,
  answer,       \* [Ids -> what the call was last settled with]
  settles,      \* [Ids -> how many times the call was settled]
  exits         \* how many times deps.onExit ran

hostVars == <<phase, nextId, pending, armed, belts, disposeTimers, waiters,
              resolved, dead, deadlineTripped, answer, settles, exits>>
vars == <<childVars, hostVars>>

Reasons == {"crash", "oom", "timeout"}
Answers == Reasons \cup {"none", "reply"}

HostTypeOK ==
  /\ phase \in {"starting", "ready", "failed"}
  /\ nextId \in 1..(MaxId + 1)
  /\ pending \in SUBSET Ids
  /\ armed \in SUBSET Ids
  /\ belts \in SUBSET Ids
  /\ disposeTimers \in SUBSET Ids
  /\ waiters \in SUBSET Ids
  /\ resolved \in SUBSET Ids
  /\ dead \in BOOLEAN
  /\ deadlineTripped \in BOOLEAN
  /\ answer \in [Ids -> Answers]
  /\ settles \in [Ids -> Nat]
  /\ exits \in Nat

(* Every variable of the host and of the child has its type.               *)
TypeOK == ChildTypeOK /\ HostTypeOK

HostInit ==
  /\ phase = "starting"
  /\ nextId = 1
  /\ pending = {}
  /\ armed = {}
  /\ belts = {}
  /\ disposeTimers = {}
  /\ waiters = {}
  /\ resolved = {}
  /\ dead = FALSE
  /\ deadlineTripped = FALSE
  /\ answer = [id \in Ids |-> "none"]
  /\ settles = [id \in Ids |-> 0]
  /\ exits = 0

Init == ChildInit /\ HostInit

-----------------------------------------------------------------------------
(* Mutations: a bug each of the definitions below could have had.  No      *)
(* action uses them; they show that a property can fail.                   *)
HostAlive_Unchecked == TRUE
Hit_AnyId(frame) == {id \in Ids : frame = [kind |-> "reply", id |-> id]}
CancelTimers_Forgotten(S) == armed' = armed
StartBelt_Forgotten(id) == belts' = belts
FailStartup_NoKill == phase' = "failed" /\ UNCHANGED killed
StartupTimerDue_Never == FALSE

-----------------------------------------------------------------------------
(* The test of every method: `if (dead)`.                                  *)
HostAlive == ~dead

(* The pending call a frame answers, if there is one.                      *)
Hit(frame) == {id \in pending : frame = [kind |-> "reply", id |-> id]}

(* p.cancel() of every id of S.                                            *)
CancelTimers(S) == armed' = armed \ S

(* The second timer of a kill: KILL_BELT_MS, then markDead.                *)
StartBelt(id) == belts' = belts \cup {id}

(* A handshake that failed: createProcessHost kills and returns an error.  *)
FailStartup == phase' = "failed" /\ Kill

StartupTimerDue == phase = "starting"

(* p.settle for every id of S.                                             *)
Settle(S, with) ==
  /\ answer' = [id \in Ids |-> IF id \in S THEN with ELSE answer[id]]
  /\ settles' = [id \in Ids |-> IF id \in S THEN settles[id] + 1 ELSE settles[id]]

(* isOom and the reason markDead picks: a tripped deadline wins over the   *)
(* exit code, and exit codes other than V8's heap abort are a crash.       *)
DeadReason(cause) ==
  IF deadlineTripped THEN "timeout" ELSE IF cause = "oom" THEN "oom" ELSE "crash"

(* markDead: idempotent; settles everything pending, drains the disposals, *)
(* fails a startup that is still waiting, tells the orchestrator.          *)
MarkDead(cause) ==
  IF dead
  THEN UNCHANGED <<dead, pending, armed, waiters, resolved, answer, settles, exits, phase>>
  ELSE /\ dead' = TRUE
       /\ Settle(pending, DeadReason(cause))
       /\ CancelTimers(pending)
       /\ pending' = {}
       /\ resolved' = resolved \cup waiters
       /\ waiters' = {}
       /\ exits' = exits + 1
       /\ phase' = IF phase = "starting" THEN "failed" ELSE phase

-----------------------------------------------------------------------------
(* The startup handshake.                                                  *)

(* onMessage, a frame without an id: `ready` or `fatal` finishes the       *)
(* handshake, once; a failed handshake kills the child.                    *)
OnStartupFrame ==
  /\ toParent # <<>>
  /\ Head(toParent).kind \in {"ready", "fatal"}
  /\ toParent' = Tail(toParent)
  /\ IF phase = "starting"
     THEN IF Head(toParent).kind = "ready"
          THEN phase' = "ready" /\ UNCHANGED killed
          ELSE FailStartup
     ELSE UNCHANGED <<phase, killed>>
  /\ UNCHANGED <<child, stuck, toChild, queue, exitEvent, nextId, pending, armed,
                 belts, disposeTimers, waiters, resolved, dead, deadlineTripped,
                 answer, settles, exits>>

StartupDeadline ==
  /\ StartupTimerDue
  /\ FailStartup
  /\ UNCHANGED <<child, stuck, toChild, queue, toParent, exitEvent, nextId, pending,
                 armed, belts, disposeTimers, waiters, resolved, dead,
                 deadlineTripped, answer, settles, exits>>

-----------------------------------------------------------------------------
(* The methods of the host.                                                *)

(* request, produceSql and status: sendAndAwait with a fresh id.           *)
CallAlive ==
  /\ HostAlive
  /\ pending' = pending \cup {nextId}
  /\ armed' = armed \cup {nextId}
  /\ Send([id |-> nextId, kind |-> "call"])
  /\ UNCHANGED <<answer, settles>>

CallDead ==
  /\ dead
  /\ Settle({nextId}, "crash")
  /\ UNCHANGED <<pending, armed, toChild>>

Call ==
  /\ phase = "ready"
  /\ nextId <= MaxId
  /\ nextId' = nextId + 1
  /\ CallAlive \/ CallDead
  /\ UNCHANGED <<child, stuck, killed, queue, toParent, exitEvent, phase, belts,
                 disposeTimers, waiters, resolved, dead, deadlineTripped, exits>>

(* A disposal of a dead host resolves on the spot and uses no id; the      *)
(* model gives it one, to tell disposals apart.                            *)
DisposeAlive ==
  /\ HostAlive
  /\ waiters' = waiters \cup {nextId}
  /\ disposeTimers' = disposeTimers \cup {nextId}
  /\ Send([id |-> nextId, kind |-> "dispose"])
  /\ UNCHANGED resolved

DisposeDead ==
  /\ dead
  /\ resolved' = resolved \cup {nextId}
  /\ UNCHANGED <<waiters, disposeTimers, toChild>>

Dispose ==
  /\ phase = "ready"
  /\ nextId <= MaxId
  /\ nextId' = nextId + 1
  /\ DisposeAlive \/ DisposeDead
  /\ UNCHANGED <<child, stuck, killed, queue, toParent, exitEvent, phase, pending,
                 armed, belts, dead, deadlineTripped, answer, settles, exits>>

-----------------------------------------------------------------------------
(* What the event loop delivers.                                           *)

(* A reply settles the call it names if that call is still pending; a      *)
(* late, unknown or unreadable one is dropped.                             *)
OnReply ==
  /\ toParent # <<>>
  /\ Head(toParent).kind \in {"reply", "corrupt"}
  /\ toParent' = Tail(toParent)
  /\ LET hit == Hit(Head(toParent))
     IN  /\ pending' = pending \ hit
         /\ CancelTimers(hit)
         /\ Settle(hit, "reply")
  /\ UNCHANGED <<child, stuck, killed, toChild, queue, exitEvent, phase, nextId, belts,
                 disposeTimers, waiters, resolved, dead, deadlineTripped, exits>>

(* 'exit': it can overtake frames that are still in the pipe.  When it     *)
(* fails a startup the continuation kills, to no effect, a child that is   *)
(* gone.                                                                   *)
OnExit ==
  /\ exitEvent # "none"
  /\ exitEvent' = "none"
  /\ MarkDead(exitEvent)
  /\ UNCHANGED <<child, stuck, killed, toChild, queue, toParent, nextId, belts,
                 disposeTimers, deadlineTripped>>

(* A call's deadline: kill, and schedule the belt.  The call stays pending.*)
RequestDeadline(id) ==
  /\ id \in armed
  /\ armed' = armed \ {id}
  /\ deadlineTripped' = TRUE
  /\ Kill
  /\ StartBelt(id)
  /\ UNCHANGED <<child, stuck, toChild, queue, toParent, exitEvent, phase, nextId,
                 pending, disposeTimers, waiters, resolved, dead, answer, settles,
                 exits>>

DisposeDeadline(id) ==
  /\ id \in disposeTimers
  /\ disposeTimers' = disposeTimers \ {id}
  /\ IF dead
     THEN UNCHANGED <<killed, belts>>
     ELSE Kill /\ StartBelt(id)
  /\ UNCHANGED <<child, stuck, toChild, queue, toParent, exitEvent, phase, nextId,
                 pending, armed, waiters, resolved, dead, deadlineTripped, answer,
                 settles, exits>>

Belt(id) ==
  /\ id \in belts
  /\ belts' = belts \ {id}
  /\ MarkDead("crash")
  /\ UNCHANGED <<childVars, nextId, disposeTimers, deadlineTripped>>

Timer == \E id \in Ids : RequestDeadline(id) \/ DisposeDeadline(id) \/ Belt(id)

ChildNext == ChildStep /\ UNCHANGED hostVars

Next ==
  \/ ChildNext
  \/ OnStartupFrame \/ StartupDeadline
  \/ Call \/ Dispose
  \/ OnReply \/ OnExit
  \/ Timer

(* The daemon's timers fire and its loop turns.  Nothing is assumed of the *)
(* child, nor of the kernel that should reap it.                           *)
Fairness ==
  /\ WF_vars(OnStartupFrame)
  /\ WF_vars(StartupDeadline)
  /\ WF_vars(OnReply)
  /\ WF_vars(OnExit)
  /\ \A id \in Ids : /\ WF_vars(RequestDeadline(id))
                     /\ WF_vars(DisposeDeadline(id))
                     /\ WF_vars(Belt(id))

Spec == Init /\ [][Next]_vars
FairSpec == Spec /\ Fairness

-----------------------------------------------------------------------------
Disposals == waiters \cup resolved
Calls == {id \in 1..(nextId - 1) : id \notin Disposals}

(* "settles every pending id exactly once" (process-host.ts:8): a call     *)
(* that was made is waiting and unsettled, or is settled with exactly one  *)
(* answer, whatever order replies, deadlines, the belt and the exit come.  *)
SettledExactlyOnce ==
  \A id \in Calls :
    /\ settles[id] = IF id \in pending THEN 0 ELSE 1
    /\ (answer[id] = "none") <=> (id \in pending)

(* The safety half of never-hang: whatever waits on the child also has a   *)
(* timer of the daemon's own under way, first its deadline, then the belt. *)
WaitIsBounded ==
  /\ \A id \in pending : id \in armed \cup belts
  /\ \A id \in waiters : id \in disposeTimers \cup belts

(* A host that gave up on its child does not leave the process running     *)
(* behind it: it is gone, or a SIGKILL is on its way.                      *)
NoAbandonedChild ==
  dead \/ phase = "failed" => child = "gone" \/ killed

(* The daemon kills an engine for a reason that stands at that moment: a    *)
(* handshake that failed, a call still unanswered at its deadline, or a     *)
(* disposal still unfinished at its own.  Dispose timers have no cancel     *)
(* handle (process-host.ts:278) and belts outlive their calls; none of them *)
(* may take a healthy child away for something that was over long before.   *)
KillIsDue ==
  \/ phase = "starting" /\ phase' = "failed"
  \/ \E id \in pending : id \in armed \ armed'
  \/ \E id \in waiters : id \in disposeTimers \ disposeTimers'

KillsHaveCause == [][~killed /\ killed' => KillIsDue]_vars

(* A promise keeps its first answer: no reply, exit or belt that comes     *)
(* later replaces it.                                                      *)
AnswersAreFinal ==
  [][\A id \in Ids : answer[id] # "none" => answer'[id] = answer[id]]_vars

(* Never-hang, beyond the calls that KeepsPromise speaks of: the startup   *)
(* handshake ends and every disposal resolves, with no assumption on the   *)
(* child at all.                                                           *)
StartupEnds == <>(phase # "starting")
DisposeResolves == \A id \in Ids : (id \in waiters) ~> (id \in resolved)
HandshakesEnd == StartupEnds /\ DisposeResolves

(* What a caller can see of a call.                                        *)
callStatus ==
  [id \in Ids |-> IF id \in pending THEN "waiting"
                  ELSE CASE answer[id] = "none"  -> "unused"
                         [] answer[id] = "reply" -> "answered"
                         [] OTHER                -> "failed"]

Promise == INSTANCE ReplyOrFailure WITH Calls <- Ids, status <- callStatus, open <- ~dead

(* The host implements the contract of host.ts: each of its steps is a     *)
(* step of ReplyOrFailure or one no caller can see, and no call waits for  *)
(* ever, whatever the child does.                                          *)
KeepsPromise == Promise!Spec

=============================================================================
