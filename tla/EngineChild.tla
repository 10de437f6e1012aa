----------------------------- MODULE EngineChild -----------------------------
(***************************************************************************)
(* The forked engine child and the IPC channel that joins it to the        *)
(* daemon: serveEngineChild / handle / shutdown of                         *)
(* daemon/engine-child.ts and the handle that daemon/fork-engine.ts wraps  *)
(* around child_process.fork.                                              *)
(*                                                                         *)
(* The child is one JavaScript thread: a synchronous program build blocks  *)
(* every handler of it ("loop"), and a thread blocked in the kernel        *)
(* ("dstate") does not even take a SIGKILL.  Nothing obliges a stuck child *)
(* to come back, and nothing obliges a healthy one to be quick.            *)
(*                                                                         *)
(* The parent's steps are in ProcessHost, which extends this module.       *)
(***************************************************************************)
EXTENDS Naturals, Sequences

CONSTANT MaxId       \* bound on the envelope ids one host hands out

ASSUME MaxIdAssumption == MaxId \in Nat \ {0}

Ids == 1..MaxId

VARIABLES
  child,     \* "building" | "serving" | "disposing" | "gone"
  stuck,     \* "no" | "loop" | "dstate"
  killed,    \* a SIGKILL has been sent and not yet taken
  toChild,   \* envelopes sent and not yet received: <<[id, kind]>>
  queue,     \* ids the engine has accepted and not yet answered (FIFO)
  toParent,  \* frames on their way to the daemon
  exitEvent  \* "none" | why the process ended, until the daemon's handler runs

childVars == <<child, stuck, killed, toChild, queue, toParent, exitEvent>>

Envelopes == [id : Ids, kind : {"call", "dispose"}]
Frames    == [kind : {"ready", "fatal", "corrupt"}] \cup [kind : {"reply"}, id : Ids]
ExitCauses == {"crash", "oom", "exit"}

ChildTypeOK ==
  /\ child \in {"building", "serving", "disposing", "gone"}
  /\ stuck \in {"no", "loop", "dstate"}
  /\ killed \in BOOLEAN
  /\ toChild \in Seq(Envelopes)
  /\ queue \in Seq(Ids)
  /\ toParent \in Seq(Frames)
  /\ exitEvent \in ExitCauses \cup {"none"}

ChildInit ==
  /\ child = "building"
  /\ stuck = "no"
  /\ killed = FALSE
  /\ toChild = <<>>
  /\ queue = <<>>
  /\ toParent = <<>>
  /\ exitEvent = "none"

Running == child # "gone" /\ stuck = "no"

(* The process is gone: what it had not received is lost, what it had sent *)
(* is still in the daemon's pipe, and 'exit' waits for the daemon's loop.  *)
Terminate(cause) ==
  /\ child' = "gone"
  /\ stuck' = "no"
  /\ killed' = FALSE
  /\ toChild' = <<>>
  /\ queue' = <<>>
  /\ exitEvent' = cause

(* What the two methods of the child handle do to the child.  A send on a  *)
(* closed channel and a kill of a dead process are swallowed.              *)
Send(envelope) ==
  toChild' = IF child = "gone" THEN toChild ELSE Append(toChild, envelope)

Kill == killed' = (child # "gone")

-----------------------------------------------------------------------------
(* The engine was built; the handlers are installed and `ready` is sent.   *)
ChildReady ==
  /\ Running
  /\ child = "building"
  /\ child' = "serving"
  /\ toParent' = Append(toParent, [kind |-> "ready"])
  /\ UNCHANGED <<stuck, killed, toChild, queue, exitEvent>>

(* The config or the engine could not be built: `fatal`, then exit(1).     *)
ChildFatal ==
  /\ Running
  /\ child = "building"
  /\ toParent' = Append(toParent, [kind |-> "fatal"])
  /\ Terminate("exit")

(* A request enters the engine's queue.                                    *)
ChildTakeCall ==
  /\ Running
  /\ child \in {"serving", "disposing"}
  /\ toChild # <<>>
  /\ Head(toChild).kind = "call"
  /\ toChild' = Tail(toChild)
  /\ queue' = Append(queue, Head(toChild).id)
  /\ UNCHANGED <<child, stuck, killed, toParent, exitEvent>>

(* A dispose is answered at once and starts the teardown; `shuttingDown`   *)
(* makes a second one only an answer.                                      *)
ChildTakeDispose ==
  /\ Running
  /\ child \in {"serving", "disposing"}
  /\ toChild # <<>>
  /\ Head(toChild).kind = "dispose"
  /\ toChild' = Tail(toChild)
  /\ child' = "disposing"
  /\ toParent' = Append(toParent, [kind |-> "reply", id |-> Head(toChild).id])
  /\ UNCHANGED <<stuck, killed, queue, exitEvent>>

(* The engine finishes the oldest request, with results or with an error:  *)
(* either is a reply.  The frame can reach the daemon unreadable.          *)
ChildReply ==
  /\ Running
  /\ queue # <<>>
  /\ queue' = Tail(queue)
  /\ \E frame \in {[kind |-> "reply", id |-> Head(queue)], [kind |-> "corrupt"]} :
        toParent' = Append(toParent, frame)
  /\ UNCHANGED <<child, stuck, killed, toChild, exitEvent>>

(* The teardown ends (the engine disposed, or the bail timer) in exit(0),  *)
(* whatever the engine's queue still holds.                                *)
ChildExit ==
  /\ Running
  /\ child = "disposing"
  /\ Terminate("exit")
  /\ UNCHANGED toParent

-----------------------------------------------------------------------------
(* The environment of the child's thread.                                  *)
ChildCrash ==
  /\ child # "gone"
  /\ \E cause \in {"crash", "oom"} : Terminate(cause)
  /\ UNCHANGED toParent

ChildGetsStuck ==
  /\ Running
  /\ stuck' \in {"loop", "dstate"}
  /\ UNCHANGED <<child, killed, toChild, queue, toParent, exitEvent>>

ChildComesBack ==
  /\ stuck # "no"
  /\ stuck' = "no"
  /\ UNCHANGED <<child, killed, toChild, queue, toParent, exitEvent>>

(* The kernel takes the SIGKILL, unless the thread is uninterruptible.     *)
ChildReaped ==
  /\ killed
  /\ stuck # "dstate"
  /\ Terminate("crash")
  /\ UNCHANGED toParent

ChildStep ==
  \/ ChildReady \/ ChildFatal
  \/ ChildTakeCall \/ ChildTakeDispose \/ ChildReply \/ ChildExit
  \/ ChildCrash \/ ChildGetsStuck \/ ChildComesBack \/ ChildReaped

=============================================================================
