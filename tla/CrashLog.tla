------------------------------- MODULE CrashLog -----------------------------
(***************************************************************************)
(* The usage log of several serving processes that share one directory:    *)
(* support/usage-log/inflight.ts and create.ts, the span around one call   *)
(* of mcp/call-telemetry.ts, and the teardown of mcp/server.ts.            *)
(*                                                                         *)
(* A call drops a breadcrumb before it runs and removes it after its       *)
(* record; a process that starts promotes the breadcrumbs of dead owners,  *)
(* taking each by a rename.  Processes die between any two file system     *)
(* calls.  A process stands for its pid, which a stranger may be given     *)
(* after its death, but no later serving process.  Calls are numbered in   *)
(* the order of their stamps; unreadable files are left out.               *)
(***************************************************************************)
EXTENDS Naturals

CONSTANTS Processes, Nobody,
          MaxCalls,        \* bound: how many calls are made
          PromoteCap       \* PROMOTE_CAP: promotions of one start

Calls == 1..MaxCalls
Plain == "plain"           \* the name of a breadcrumb nobody has claimed
NoFile == "none"

ASSUME CrashLogAssumption == /\ {Nobody, Plain, NoFile} \cap Processes = {}
                             /\ MaxCalls \in Nat /\ PromoteCap \in Nat \ {0}

Names == {Plain, NoFile} \cup Processes     \* a claim is named for its claimer
\* "left": its owner has finished with the call, but the breadcrumb is still there.
Phases == {"unused", "running", "recorded", "cleared", "left"}
Kinds == {"ok", "crash", "abandoned"}

VARIABLES
    state,     \* of each process
    todo,      \* the rest of a start's directory listing: calls with their names
    cur,       \* the name it is dealing with, and what it will report
    left,      \* promotions left to a start
    file,      \* the breadcrumb of each call, by its current name
    owner, phase, aged,   \* of each call; aged: older than ABANDONED_AGE_MS
    log,       \* the records of success.jsonl and fail.jsonl
    broken,    \* the processes whose sink has stopped writing
    reused,    \* the pids of dead processes that a stranger has
    stamped,   \* history: the calls whose breadcrumb was published
    dropped    \* history: the calls whose promotion met a broken sink

procs == <<state, todo, cur, left, broken, reused>>
calls == <<file, owner, phase, aged, log, stamped, dropped>>
vars == <<procs, calls>>

NoCur == [step |-> "none", call |-> 0, name |-> NoFile, kind |-> "ok"]

Init == /\ state = [p \in Processes |-> "unborn"]
        /\ todo = [p \in Processes |-> {}] /\ cur = [p \in Processes |-> NoCur]
        /\ left = [p \in Processes |-> PromoteCap]
        /\ file = [k \in Calls |-> NoFile] /\ owner = [k \in Calls |-> Nobody]
        /\ phase = [k \in Calls |-> "unused"] /\ aged = [k \in Calls |-> FALSE]
        /\ log = {} /\ broken = {} /\ reused = {} /\ stamped = {} /\ dropped = {}

Runs(p) == state[p] \in {"starting", "serving", "closing"}
\* kill(pid, 0), which a recycled pid answers as well
IsAlive(p) == Runs(p) \/ p \in reused

Entry(k, kind, by) == [call |-> k, kind |-> kind, by |-> by]
\* A sink that met an error, or was disposed of, drops what it is given.
Write(p, entry) == log' = IF p \in broken THEN log ELSE log \cup {entry}

----------------------------------------------------------------------------
(* promoteOrphanInflight, at the start of a process.                       *)

Start(p) ==
    /\ state[p] = "unborn" /\ state' = [state EXCEPT ![p] = "starting"]
    /\ todo' = [todo EXCEPT ![p] = {<<k, file[k]>> : k \in {j \in Calls : file[j] # NoFile}}]
    /\ UNCHANGED <<cur, left, broken, reused, calls>>

Scanning(p) == state[p] = "starting" /\ cur[p].step = "none"
Oldest(p, n) == \A o \in todo[p] : n[1] <= o[1]
Proceed(p, to) == cur' = [cur EXCEPT ![p] = to]

\* claim(): a claimed file only from a dead claimer, an owner that answers only when it is old.
ClaimerAllows(p, name) == name = Plain \/ name = p \/ ~IsAlive(name)
OwnerAllows(k) == ~IsAlive(owner[k]) \/ aged[k]
Verdict(k) == IF IsAlive(owner[k]) THEN "abandoned" ELSE "crash"

Examine(p) ==
    /\ Scanning(p) /\ left[p] > 0
    /\ \E n \in todo[p] :
         LET k == n[1]  name == n[2] IN
         /\ Oldest(p, n)
         /\ todo' = [todo EXCEPT ![p] = @ \ {n}]
         /\ IF ClaimerAllows(p, name) /\ file[k] = name /\ OwnerAllows(k)
            THEN Proceed(p, [step |-> "rename", call |-> k, name |-> name, kind |-> Verdict(k)])
            ELSE UNCHANGED cur
    /\ UNCHANGED <<state, left, broken, reused, calls>>

\* The rename fails when the file has gone or changed its name.
Taken_Unchecked(p) == TRUE
Taken(p) == file[cur[p].call] = cur[p].name
Rename_RemovesFirst(p) ==
    /\ cur[p].step = "rename" /\ Runs(p)
    /\ IF Taken(p) THEN /\ file' = [file EXCEPT ![cur[p].call] = NoFile]
                        /\ Proceed(p, [cur[p] EXCEPT !.step = "record"])
       ELSE Proceed(p, NoCur) /\ UNCHANGED file
    /\ UNCHANGED <<state, todo, left, broken, reused, owner, phase, aged, log, stamped, dropped>>
Rename(p) ==
    /\ cur[p].step = "rename" /\ Runs(p)
    /\ IF Taken(p) THEN /\ file' = [file EXCEPT ![cur[p].call] = p]
                        /\ Proceed(p, [cur[p] EXCEPT !.step = "record"])
       ELSE Proceed(p, NoCur) /\ UNCHANGED file
    /\ UNCHANGED <<state, todo, left, broken, reused, owner, phase, aged, log, stamped, dropped>>

\* A reclaimed breadcrumb's record says whom it was taken from.
Promote(p) ==
    /\ cur[p].step = "record" /\ Runs(p)
    /\ Write(p, Entry(cur[p].call, cur[p].kind, cur[p].name))
    /\ dropped' = IF p \in broken THEN dropped \cup {cur[p].call} ELSE dropped
    /\ Proceed(p, [cur[p] EXCEPT !.step = "unlink"])
    /\ left' = [left EXCEPT ![p] = @ - 1]
    /\ UNCHANGED <<state, todo, broken, reused, file, owner, phase, aged, stamped>>

\* An unlink that fails leaves the claim for a later start.
Unlink(p) ==
    /\ cur[p].step = "unlink" /\ Runs(p)
    /\ \/ file' = [file EXCEPT ![cur[p].call] = IF @ = p THEN NoFile ELSE @]
       \/ UNCHANGED file
    /\ Proceed(p, NoCur)
    /\ UNCHANGED <<state, todo, left, broken, reused, owner, phase, aged, log, stamped, dropped>>

PassOver(p) == todo[p] = {} \/ left[p] = 0
Serve(p) == /\ Scanning(p) /\ PassOver(p)
            /\ state' = [state EXCEPT ![p] = "serving"] /\ todo' = [todo EXCEPT ![p] = {}]
            /\ left' = [left EXCEPT ![p] = 0]
            /\ UNCHANGED <<cur, broken, reused, calls>>

----------------------------------------------------------------------------
(* withCallTelemetry: breadcrumb, run, record, clear.                      *)

Moves(k, to) == phase' = [phase EXCEPT ![k] = to]

\* A publish that fails leaves a call without a breadcrumb.
Begin(p) ==
    /\ state[p] = "serving"
    /\ \E k \in Calls :
         /\ phase[k] = "unused" /\ \A j \in 1..(k - 1) : phase[j] # "unused"
         /\ Moves(k, "running") /\ owner' = [owner EXCEPT ![k] = p]
         /\ \/ file' = [file EXCEPT ![k] = Plain] /\ stamped' = stamped \cup {k}
            \/ UNCHANGED <<file, stamped>>
    /\ UNCHANGED <<procs, aged, log, dropped>>

Of(p, k, at) == owner[k] = p /\ Runs(p) /\ phase[k] = at

Record(p, k) == /\ Of(p, k, "running") /\ Moves(k, "recorded")
                /\ Write(p, Entry(k, "ok", p))
                /\ UNCHANGED <<procs, file, owner, aged, stamped, dropped>>

\* clear(), which knows the unclaimed name only and swallows its errors. A call that threw, and one
\* of the daemon's own dispatch, clears without a record.
Clear(p, k) == /\ Of(p, k, "running") \/ Of(p, k, "recorded")
               /\ \/ /\ file[k] \in {Plain, NoFile} /\ Moves(k, "cleared")
                     /\ file' = [file EXCEPT ![k] = NoFile]
                  \/ /\ file[k] # NoFile /\ Moves(k, "left")      \* claimed, or a disk error
                     /\ UNCHANGED file
               /\ UNCHANGED <<procs, owner, aged, log, stamped, dropped>>

\* shutdown(): the sinks are disposed of first, calls in flight go on until exit(0).
Close(p) == /\ state[p] = "serving" /\ state' = [state EXCEPT ![p] = "closing"]
            /\ broken' = broken \cup {p}
            /\ UNCHANGED <<todo, cur, left, reused, calls>>

----------------------------------------------------------------------------
(* The world.                                                              *)

\* A crash, a kill or the end of a teardown.
Dies(p) == /\ Runs(p) /\ state' = [state EXCEPT ![p] = "dead"]
           /\ todo' = [todo EXCEPT ![p] = {}] /\ cur' = [cur EXCEPT ![p] = NoCur]
           /\ left' = [left EXCEPT ![p] = 0] /\ broken' = broken \ {p}
           /\ UNCHANGED <<reused, calls>>

PidIsReused(p) == /\ state[p] = "dead" /\ p \notin reused /\ reused' = reused \cup {p}
                  /\ UNCHANGED <<state, todo, cur, left, broken, calls>>

DiskFills(p) == /\ Runs(p) /\ p \notin broken /\ broken' = broken \cup {p}
                /\ UNCHANGED <<state, todo, cur, left, reused, calls>>

Ages(k) == /\ file[k] # NoFile /\ ~aged[k] /\ aged' = [aged EXCEPT ![k] = TRUE]
           /\ UNCHANGED <<procs, file, owner, phase, log, stamped, dropped>>

Next == \/ \E p \in Processes : \/ Start(p) \/ Examine(p) \/ Rename(p) \/ Promote(p) \/ Unlink(p)
                                \/ Serve(p)
                                \/ Begin(p) \/ Close(p) \/ Dies(p) \/ PidIsReused(p) \/ DiskFills(p)
                                \/ \E k \in Calls : Record(p, k) \/ Clear(p, k)
        \/ \E k \in Calls : Ages(k)

Spec == Init /\ [][Next]_vars

----------------------------------------------------------------------------
TypeOK ==
    /\ state \in [Processes -> {"unborn", "starting", "serving", "closing", "dead"}]
    /\ todo \in [Processes -> SUBSET (Calls \X Names)]
    /\ cur \in [Processes -> [step : {"none", "rename", "record", "unlink"}, call : Calls \cup {0},
                              name : Names, kind : Kinds]]
    /\ left \in [Processes -> 0..PromoteCap]
    /\ file \in [Calls -> Names] /\ owner \in [Calls -> Processes \cup {Nobody}]
    /\ phase \in [Calls -> Phases] /\ aged \in [Calls -> BOOLEAN]
    /\ log \subseteq [call : Calls, kind : Kinds, by : Names]
    /\ broken \subseteq Processes /\ reused \subseteq Processes
    /\ stamped \subseteq Calls /\ dropped \subseteq Calls

\* A call is reported as a crash only if its owner died before it had removed the call's breadcrumb,
\* whatever starts race with whatever calls and whoever took the breadcrumb over: the call had not
\* finished, or it had, and its owner died before the unlink or could not unlink.
CrashIsProven == \A r \in log : r.kind = "crash" => /\ state[owner[r.call]] = "dead"
                                                    /\ phase[r.call] # "cleared"

\* Racing starts count a fatal once: of the records of one call that are not marked as taken from
\* another promoter, at most one is a promotion.
CountedOnce == \A r, s \in log : /\ r.call = s.call /\ r.kind # "ok" /\ s.kind # "ok"
                                 /\ r.by = Plain /\ s.by = Plain
                                 => r = s

\* No crash without a breadcrumb that outlived its owner, and no such crash counted twice.
FatalsAreTrue == CrashIsProven /\ CountedOnce

\* A call that died in flight is on record or still has its breadcrumb, in some name, for a later
\* start to find: unless the promoter's log could not be written.
NoFatalLost ==
    \A k \in stamped \ dropped :
        state[owner[k]] = "dead" /\ phase[k] = "running"
        => file[k] # NoFile \/ \E r \in log : r.call = k /\ r.kind # "ok"

\* A death between the record and the clear, says call-telemetry.ts, "reports the call once", and no
\* fatal, says inflight.ts, is fabricated: a call recorded as answered is not reported as a crash.
ReportedOnce == \A r, s \in log : r.call = s.call /\ r.kind = "ok" => s.kind # "crash"
=============================================================================
