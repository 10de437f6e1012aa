------------------------------ MODULE Watchdog ------------------------------
(***************************************************************************)
(* The never-hang backstops of one process, support/watchdog: the beacon   *)
(* of the main thread (beacon.ts), the worker thread that reads it         *)
(* (worker.ts) through shared memory (beacon-sab.ts), one load or store at *)
(* a time, and the orphan poll of the main loop (orphan-poll.ts), as       *)
(* install.ts arms them.                                                   *)
(*                                                                         *)
(* A start time is the op that began then: ops begin one after another,    *)
(* the clock does not go back and the machine does not sleep.  Ages stop   *)
(* counting at Threshold.  SEQ and the length of the text, which no        *)
(* decision uses, are left out.                                            *)
(***************************************************************************)
EXTENDS Naturals, Sequences

CONSTANTS MaxOps,        \* bound: the ops a process runs
          Threshold,     \* how old the oldest op may become
          ORPHAN_GRACE_TICKS

ASSUME WatchdogAssumption ==
    MaxOps \in Nat /\ Threshold \in Nat \ {0} /\ ORPHAN_GRACE_TICKS \in Nat \ {0}

Ops == 1..MaxOps         \* in the order in which they begin
None == 0

VARIABLES
    aware,       \* orphanAware: whether the parent's end matters
    parent,      \* the pid of the spawning parent: "alive", "gone", "reused", or gone at "boot"
    alive, stopping, blocked,          \* the process; its shutdown has begun; its loop is blocked
    begun, live, age,                \* the ops: how many began, the live set, each one's age
    stores, crumb,                   \* the stores that a publish has left, and of which op
    busy, startMs, text,             \* the slot
    at, snap, then, orphanTicks,     \* the worker: its step, what it has read, the ages at its `now`
    record,                          \* the stall record
    polling,                         \* the orphan poll is armed
    leaving,                         \* history: the op whose end is being published
    settled                          \* history: the ops whose end was published before the tick

main == <<stopping, blocked, begun, live, stores, crumb, busy, startMs, text, leaving>>
worker == <<at, snap, then, orphanTicks, record, settled>>
watchVars == <<aware, parent, alive, main, worker, age, polling>>

NoRecord == [reason |-> "none", op |-> None, startMs |-> None]
NoSnap == [busy |-> FALSE, startMs |-> None, text |-> None]

WatchInit ==
    /\ aware \in BOOLEAN /\ parent \in {"alive", "boot"}
    /\ alive = TRUE /\ stopping = FALSE /\ blocked = FALSE
    /\ begun = 0 /\ live = {} /\ age = [o \in Ops |-> 0] /\ stores = <<>> /\ crumb = None
    /\ busy = FALSE /\ startMs = None /\ text = None
    /\ at = "asleep" /\ snap = NoSnap /\ then = age /\ orphanTicks = 0
    /\ record = NoRecord /\ polling = aware /\ leaving = {} /\ settled = {}

----------------------------------------------------------------------------
(* The main thread.                                                        *)

Free == alive /\ ~blocked /\ stores = <<>>

\* writeBusy and writeIdle, store by store.
writeBusy_FlagFirst == <<"busy", "text", "startMs">>
writeBusy == <<"text", "startMs", "busy">>
writeIdle == <<"idle">>

\* publish: the oldest live op is the one that may be stuck.
Candidate(o, on) == o \in on /\ \A p \in on : o <= p
Publish(on) == \/ on = {} /\ stores' = writeIdle /\ UNCHANGED crumb
               \/ stores' = writeBusy /\ \E o \in on : Candidate(o, on) /\ crumb' = o

BeginOp ==
    /\ Free /\ begun < MaxOps
    /\ begun' = begun + 1 /\ live' = live \cup {begun + 1} /\ Publish(live')
    /\ leaving' = {}
    /\ UNCHANGED <<aware, parent, alive, stopping, blocked, age, busy, startMs, text, worker, polling>>

Finish == \E o \in live :
         /\ Free /\ live' = live \ {o} /\ Publish(live') /\ leaving' = {o}
         /\ UNCHANGED <<aware, parent, alive, stopping, blocked, begun, age, busy, startMs, text, worker, polling>>

Store == /\ alive /\ stores # <<>>
         /\ stores' = Tail(stores) /\ leaving' = IF Len(stores) = 1 THEN {} ELSE leaving
         /\ busy' = (stores[1] = "busy" \/ (busy /\ stores[1] # "idle"))
         /\ startMs' = IF stores[1] = "startMs" THEN crumb ELSE startMs
         /\ text' = IF stores[1] = "text" THEN crumb ELSE text
         /\ UNCHANGED <<aware, parent, alive, stopping, blocked, begun, live, age, crumb, worker, polling>>

\* The loop runs into synchronous code that does not end, of an op or of none.
GetsStuck == /\ Free /\ blocked' = TRUE
             /\ UNCHANGED <<aware, parent, alive, stopping, begun, live, age, stores, crumb, busy, startMs, text, leaving,
                            worker, polling>>

\* End of stdin or of the IPC channel, a dispose request, a signal.
AskedToStop == /\ Free /\ ~stopping /\ stopping' = TRUE
               /\ UNCHANGED <<aware, parent, alive, blocked, begun, live, age, stores, crumb, busy, startMs, text, leaving,
                              worker, polling>>

\* kill(pid, 0); a pid that was reused answers.
isOrphaned == parent \in {"gone", "boot"}

OrphanPoll == /\ Free /\ polling /\ isOrphaned
              /\ polling' = FALSE /\ stopping' = TRUE
              /\ UNCHANGED <<aware, parent, alive, blocked, begun, live, age, stores, crumb, busy, startMs, text,
                              leaving, worker>>

Exit == /\ Free /\ stopping /\ alive' = FALSE
        /\ UNCHANGED <<aware, parent, main, worker, age, polling>>

----------------------------------------------------------------------------
(* The worker.                                                             *)

Goes(to) == alive /\ at' = to /\ UNCHANGED <<aware, parent, alive, main, age, polling>>

Tick == /\ at = "asleep" /\ Goes("busy")
        /\ then' = age
        /\ settled' = 1..begun \ (live \cup leaving)
        /\ UNCHANGED <<snap, orphanTicks, record>>

\* readBeacon, load by load.
LoadBusy == /\ at = "busy" /\ Goes("startMs") /\ snap' = [snap EXCEPT !.busy = busy]
            /\ UNCHANGED <<then, orphanTicks, record, settled>>
LoadStart == /\ at = "startMs" /\ Goes("text") /\ snap' = [snap EXCEPT !.startMs = startMs]
             /\ UNCHANGED <<then, orphanTicks, record, settled>>
LoadText == /\ at = "text" /\ Goes("decide") /\ snap' = [snap EXCEPT !.text = text]
            /\ UNCHANGED <<then, orphanTicks, record, settled>>

isWedged == snap.busy /\ snap.startMs # None /\ then[snap.startMs] = Threshold

Orphaned_Never == FALSE
Orphaned == aware /\ isOrphaned

\* What the tick has read goes with it.
Sleeps == /\ Goes("asleep") /\ UNCHANGED record
          /\ snap' = NoSnap /\ then' = [o \in Ops |-> 0] /\ settled' = {}

Reaps(reason, op) ==
    /\ Goes("kill") /\ record' = [reason |-> reason, op |-> op, startMs |-> snap.startMs]
    /\ UNCHANGED <<snap, then, settled>>

Decide == /\ at = "decide"
          /\ \/ isWedged /\ Reaps("wedge", snap.text) /\ UNCHANGED orphanTicks
             \/ /\ ~isWedged /\ Orphaned
                /\ orphanTicks' = orphanTicks + 1
                /\ IF orphanTicks' >= ORPHAN_GRACE_TICKS
                   THEN Reaps("orphan", IF snap.busy THEN snap.text ELSE None)
                   ELSE Sleeps
             \/ ~isWedged /\ ~Orphaned /\ orphanTicks' = 0 /\ Sleeps

KillProcess == /\ at = "kill" /\ alive /\ alive' = FALSE
        /\ UNCHANGED <<aware, parent, main, worker, age, polling>>

----------------------------------------------------------------------------
(* Time and the parent.                                                    *)

Elapse == /\ alive
          /\ age' = [o \in Ops |-> IF o <= begun /\ age[o] < Threshold THEN age[o] + 1 ELSE age[o]]
          /\ age' # age
          /\ UNCHANGED <<aware, parent, alive, main, worker, polling>>

ParentChanges == /\ alive /\ \/ parent = "alive" /\ parent' = "gone"
                             \/ parent = "gone" /\ parent' = "reused"
                 /\ UNCHANGED <<aware, alive, main, worker, age, polling>>

WorkerStep == Tick \/ LoadBusy \/ LoadStart \/ LoadText \/ Decide \/ KillProcess
WatchNext ==
    \/ BeginOp \/ Finish \/ Store \/ GetsStuck \/ AskedToStop \/ OrphanPoll \/ Exit
    \/ WorkerStep \/ Elapse \/ ParentChanges

WatchSpec == WatchInit /\ [][WatchNext]_watchVars

\* The worker's interval and the clock run by themselves; a main loop that is not blocked serves
\* its timers.  Nobody owes the end of an op.
WatchFairSpec == WatchSpec /\ WF_watchVars(WorkerStep) /\ WF_watchVars(Elapse)
                 /\ WF_watchVars(Store) /\ WF_watchVars(OrphanPoll) /\ WF_watchVars(Exit)

----------------------------------------------------------------------------
WatchTypeOK ==
    /\ aware \in BOOLEAN /\ parent \in {"alive", "gone", "reused", "boot"}
    /\ alive \in BOOLEAN /\ stopping \in BOOLEAN /\ blocked \in BOOLEAN /\ polling \in BOOLEAN
    /\ begun \in 0..MaxOps /\ live \subseteq 1..begun /\ settled \subseteq 1..begun
    /\ age \in [Ops -> 0..Threshold] /\ then \in [Ops -> 0..Threshold]
    /\ busy \in BOOLEAN /\ startMs \in Ops \cup {None} /\ text \in Ops \cup {None}
    /\ at \in {"asleep", "busy", "startMs", "text", "decide", "kill"}
    /\ orphanTicks \in 0..ORPHAN_GRACE_TICKS

\* A process is killed as wedged only for an op that had lasted the threshold when the worker
\* looked at the clock and whose end, if it came, was not published by then; as an orphan only when
\* its parent is, or was, gone.  The torn reads of a slot that is being rewritten do not matter.
ReapedForCause ==
    /\ record.reason = "wedge" => /\ then[record.startMs] = Threshold
                                  /\ record.startMs \notin settled
    /\ record.reason = "orphan" => (aware /\ parent # "alive")

\* Never-hang: a process that is blocked inside an op ends, and so does one whose parent is gone
\* for good, blocked or not, whatever its shutdown does.
NoZombies == /\ (blocked /\ live # {}) ~> ~alive
             /\ (aware /\ isOrphaned) ~> (~alive \/ parent = "reused")
=============================================================================
