----------------------------- MODULE DaemonServer -----------------------------
(***************************************************************************)
(* serveDaemon (daemon/daemon-server.ts): the daemon's front door, from    *)
(* the bind to exit(0).  Connections and dispatches hold the idle deadline *)
(* of IdleExit; every dispatch leaves a crash breadcrumb on disk while it  *)
(* runs; the shutdown that the idle timer, a signal and a client all reach *)
(* clears the breadcrumbs, closes the listener, removes the pidfile and    *)
(* disposes the engines, without waiting for the dispatches.               *)
(*                                                                         *)
(* An action is one turn of the event loop.  A crash (SIGKILL, OOM) can    *)
(* come between any two.                                                   *)
(***************************************************************************)
EXTENDS IdleExit, FiniteSets

CONSTANTS
  Conns,   \* client connections, each used once
  Reqs,    \* request envelopes, each sent at most once
  None

ASSUME DaemonAssumption == IsFiniteSet(Conns) /\ IsFiniteSet(Reqs) /\ None \notin Conns

VARIABLES
  phase,   \* "serving" | "closing" | "disposing" | "exited" | "crashed"
  conn,    \* [Conns -> "new" | "open" | "destroyed" | "closed"]
  chunk,   \* the connection whose socket read is being taken apart, or None
  running, \* dispatches in flight
  done,    \* requests that were dispatched or refused
  live,    \* dispatches in the set of breadcrumb handles
  crumbs,  \* dispatches with a breadcrumb file on disk
  pidfile  \* this daemon's pidfile exists

serverVars == <<phase, conn, chunk, running, done, live, crumbs, pidfile>>
vars == <<idleVars, serverVars>>

Up == phase \in {"serving", "closing", "disposing"}

(* Nothing else runs while the messages of one socket read are handled.    *)
Turn == Up /\ chunk = None

(* Every variable of the server has its type, and so has the idle deadline.*)
TypeOK ==
  /\ IdleTypeOK
  /\ phase \in {"serving", "closing", "disposing", "exited", "crashed"}
  /\ conn \in [Conns -> {"new", "open", "destroyed", "closed"}]
  /\ chunk \in Conns \cup {None}
  /\ running \in SUBSET Reqs
  /\ done \in SUBSET Reqs
  /\ live \in SUBSET Reqs
  /\ crumbs \in SUBSET Reqs
  /\ pidfile \in BOOLEAN

(* The daemon has bound its socket and written its pidfile (the write is   *)
(* best-effort), and armed the deadline.                                   *)
Init ==
  /\ holds = 0 /\ armed = TRUE /\ fired = FALSE
  /\ phase = "serving"
  /\ conn = [c \in Conns |-> "new"]
  /\ chunk = None
  /\ running = {} /\ done = {} /\ live = {} /\ crumbs = {}
  /\ pidfile \in BOOLEAN

-----------------------------------------------------------------------------
(* Mutations.                                                              *)
Refuses_Nothing == FALSE
ClearCrumb_Skipped(r) == UNCHANGED crumbs
HoldDispatch_Missing == UNCHANGED idleVars
ReleaseDispatch_Missing == UNCHANGED idleVars
AfterClose_KeepsPidfile == UNCHANGED pidfile
CloseEventsSeen_Never == FALSE

-----------------------------------------------------------------------------
(* `if (shuttingDown)` of dispatch.                                        *)
Refuses == phase # "serving"

(* The breadcrumbs left on disk when shutdown has cleared every live one.  *)
Cleared == crumbs \ live

(* shutdown, up to its first await: it stops the deadline, clears the      *)
(* breadcrumbs, destroys the connections and stops listening; a second     *)
(* call does nothing.  The idle deadline is the caller's to write.         *)
Shutdown ==
  IF phase = "serving"
  THEN /\ phase' = "closing"
       /\ crumbs' = Cleared
       /\ live' = {}
       /\ conn' = [c \in Conns |-> IF conn[c] = "open" THEN "destroyed" ELSE conn[c]]
  ELSE UNCHANGED <<phase, crumbs, live, conn>>

(* onConnection: an open connection is a hold.                             *)
Connect(c) ==
  /\ Turn
  /\ phase = "serving"
  /\ conn[c] = "new"
  /\ conn' = [conn EXCEPT ![c] = "open"]
  /\ Enter
  /\ UNCHANGED <<phase, chunk, running, done, live, crumbs, pidfile>>

(* onClose, delivered once whoever closed: the hold is released, whatever  *)
(* the connection's dispatches are still doing.                            *)
Close(c) ==
  /\ Turn
  /\ conn[c] \in {"open", "destroyed"}
  /\ conn' = [conn EXCEPT ![c] = "closed"]
  /\ Leave
  /\ UNCHANGED <<phase, chunk, running, done, live, crumbs, pidfile>>

-----------------------------------------------------------------------------
(* A message.  A read of an open connection can carry several: the rest of *)
(* it is handled at once, also when the first one was a shutdown.          *)
Receive(c, r) ==
  /\ Up
  /\ \/ chunk = None /\ conn[c] = "open"
     \/ chunk = c
  /\ r \notin done
  /\ done' = done \cup {r}
  /\ chunk' \in IF done' = Reqs THEN {None} ELSE {c, None}

(* The hold `handle` takes around a dispatch that outlives its turn.       *)
HoldDispatch == Enter
ReleaseDispatch == Leave

(* request and status: the breadcrumb is stamped (or could not be) and the *)
(* orchestrator is called.                                                 *)
StartDispatch(c, r) ==
  /\ Receive(c, r)
  /\ ~Refuses
  /\ running' = running \cup {r}
  /\ \/ live' = live \cup {r} /\ crumbs' = crumbs \cup {r}
     \/ UNCHANGED <<live, crumbs>>
  /\ HoldDispatch
  /\ UNCHANGED <<phase, conn, pidfile>>

(* A refusal after teardown began, a bad envelope, or daemon-info: one     *)
(* reply, in the same turn.                                                *)
ReplyAtOnce(c, r) ==
  /\ Receive(c, r)
  /\ EnterAndLeave
  /\ UNCHANGED <<phase, conn, running, live, crumbs, pidfile>>

(* A client's shutdown message.                                            *)
ShutdownMessage(c, r) ==
  /\ Receive(c, r)
  /\ ~Refuses
  /\ Shutdown
  /\ EnterAndLeave
  /\ UNCHANGED <<running, pidfile>>

(* inflight.clear() of one dispatch.                                       *)
ClearCrumb(r) == crumbs' = crumbs \ {r}

(* The orchestrator answered or threw: the breadcrumb goes, the reply is   *)
(* sent (or dropped, on a closed connection), the hold is released.        *)
FinishDispatch(r) ==
  /\ Turn
  /\ r \in running
  /\ running' = running \ {r}
  /\ live' = live \ {r}
  /\ ClearCrumb(r)
  /\ ReleaseDispatch
  /\ UNCHANGED <<phase, conn, chunk, done, pidfile>>

-----------------------------------------------------------------------------
(* The deadline's callback.                                                *)
IdleTimer ==
  /\ Turn
  /\ armed
  /\ armed' = FALSE
  /\ IF TimerFires
     THEN fired' = TRUE /\ Shutdown
     ELSE UNCHANGED <<fired, phase, crumbs, live, conn>>
  /\ UNCHANGED <<holds, chunk, running, done, pidfile>>

(* SIGTERM or SIGINT.                                                      *)
Signal ==
  /\ Turn
  /\ phase = "serving"
  /\ Shutdown
  /\ Stop
  /\ UNCHANGED <<chunk, running, done, pidfile>>

(* server.close() resolves once every connection has closed; the socket is *)
(* unlinked and, in the same turn, the pidfile removed.                    *)
CloseEventsSeen == \A c \in Conns : conn[c] # "destroyed"

AfterClose == pidfile' = FALSE

ListenerClosed ==
  /\ Turn
  /\ phase = "closing"
  /\ CloseEventsSeen
  /\ phase' = "disposing"
  /\ AfterClose
  /\ UNCHANGED <<idleVars, conn, chunk, running, done, live, crumbs>>

(* The engines are disposed: exit(0).  The disposal of an engine in a      *)
(* process of its own is bounded (process-host.ts:278), that of an engine  *)
(* in the daemon's own process, the default, is not (in-process-host.ts:17, *)
(* engine.ts:139): this step may never come.                               *)
Exit ==
  /\ Turn
  /\ phase = "disposing"
  /\ phase' = "exited"
  /\ running' = {}
  /\ UNCHANGED <<idleVars, conn, chunk, done, live, crumbs, pidfile>>

(* SIGKILL, OOM: the files stay.                                           *)
Crash ==
  /\ Up
  /\ phase' = "crashed"
  /\ UNCHANGED <<idleVars, conn, chunk, running, done, live, crumbs, pidfile>>

Next ==
  \/ \E c \in Conns : Connect(c) \/ Close(c)
  \/ \E c \in Conns, r \in Reqs :
        StartDispatch(c, r) \/ ReplyAtOnce(c, r) \/ ShutdownMessage(c, r)
  \/ \E r \in Reqs : FinishDispatch(r)
  \/ IdleTimer \/ Signal \/ ListenerClosed \/ Exit \/ Crash

Spec == Init /\ [][Next]_vars

(* The loop turns: timers fire and close events are delivered.  No dispatch *)
(* has to finish, no client to leave, and no disposal to end.              *)
Fairness ==
  /\ WF_vars(IdleTimer) /\ WF_vars(ListenerClosed)
  /\ \A c \in Conns : WF_vars(Close(c) /\ conn[c] = "destroyed")
  /\ WF_vars(chunk # None /\ \E c \in Conns, r \in Reqs : ReplyAtOnce(c, r))

FairSpec == Spec /\ Fairness

-----------------------------------------------------------------------------
(* A hold is an open connection or a dispatch, and each is released once:  *)
(* a stranded count keeps the daemon for ever (idle-exit.ts:20), a missing *)
(* one lets it exit under a client.                                        *)
Holding == {c \in Conns : conn[c] \in {"open", "destroyed"}}

HoldsAreBalanced ==
  phase # "exited" => holds = Cardinality(Holding) + Cardinality(running)

(* "an idle-exit cannot happen with a request in flight" (daemon-server.ts *)
(* :237), nor with a client connected.                                     *)
IdleExitOnlyWhenIdle ==
  [][fired' # fired => running = {} /\ Holding = {}]_vars

(* "a clean exit leaves no breadcrumb" (daemon-server.ts:89), from the     *)
(* moment teardown begins, although dispatches still run.                  *)
CleanExitLeavesNoCrumb == phase \in {"closing", "disposing", "exited"} => crumbs = {}

(* A breadcrumb on disk is that of a dispatch in flight: after a crash it  *)
(* names a call that really died.                                          *)
CrumbMeansInFlight == crumbs \subseteq running

(* "a lingering pidfile unambiguously marks a daemon that did NOT exit     *)
(* cleanly" (daemon-server.ts:128).                                        *)
LingeringPidfileMeansUnclean == phase = "exited" => ~pidfile

(* What the next process may read into the files it finds.                 *)
FilesTellTheTruth ==
  CleanExitLeavesNoCrumb /\ CrumbMeansInFlight /\ LingeringPidfileMeansUnclean

(* A daemon nobody uses any more goes away: once the last client has left  *)
(* and the last dispatch has settled it begins its teardown.  A dispatch   *)
(* that never settles keeps it (tasks/t-824810).                           *)
IdleDaemonExits ==
  (<>[](Holding = {} /\ running = {})) => <>(phase # "serving")

(* What the isolation of the engines decides: whether their disposals end.  *)
DisposalsEnd == WF_vars(Exit)

(* A teardown that began gets past its listener, whatever its dispatches,  *)
(* clients and engines do: from then on no client finds the daemon and its *)
(* files are gone.  It ends in an exit if the engines' disposals end.      *)
ShutdownCompletes ==
  /\ (phase = "closing") ~> (phase \notin {"serving", "closing"})
  /\ DisposalsEnd => ((phase = "closing") ~> (phase \in {"exited", "crashed"}))

(* The deadline of IdleExit is down while somebody holds.                  *)
DeadlineOnlyWhenFree == armed => holds = 0

=============================================================================
