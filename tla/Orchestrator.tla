---------------------------- MODULE Orchestrator ----------------------------
(***************************************************************************)
(* The orchestrator's registry of workspace engines: requests that find,   *)
(* replace or spawn an engine, the engine-count governor, the idle and     *)
(* path-existence sweep, engines that die, and the daemon's own disposal.  *)
(* All of it runs on one event loop; what interleaves are the stretches    *)
(* between awaits, so a `stage` stands for the await a request hangs in.   *)
(*                                                                         *)
(* A request may span repositories: its groups are dispatched one after    *)
(* the other, each with its own engine.  A host is one engine from its     *)
(* spawn to its exit; hosts are numbered in the order of their spawns, at  *)
(* most one per group of a request.                                        *)
(***************************************************************************)
EXTENDS Naturals, Sequences, FiniteSets, SequencesExt

CONSTANTS
    Repos, Clients,
    MaxEngines,       \* the governor's budget
    MaxRequests,      \* bounds TLC: groups of requests, and with them hosts
    MaxEdits,         \* bounds TLC: edits of a repository's configuration
    Settings,         \* the settings a run looks at
    None

\* A setting: the repositories that are asked about, those of them that change
\* on disk, the clients whose operations need no TypeScript project, and whether
\* two requests may ask about one repository at a time.
ASSUME OrchestratorAssumption ==
    /\ MaxEngines \in Nat \ {0} /\ MaxRequests \in Nat /\ MaxEdits \in Nat
    /\ None \notin Nat /\ IsFiniteSet(Repos)
    /\ Settings \subseteq [asks : SUBSET Repos, volatile : SUBSET Repos,
                           independent : SUBSET Clients, shared : BOOLEAN]

Hosts == 1 .. MaxRequests
Loops == {"sweep", "dispose"}

VARIABLES
    engines,     \* the registry: the host of each repository, or None
    host,        \* each host's life and what it was spawned from
    recency,     \* hosts in the order of their last use, oldest first
    idle,        \* hosts whose last use is longer ago than the idle TTL
    task,        \* each client's request: its stage and what it remembers
    loop,        \* the sweep and the disposal, and the slots each has left
    disposed,
    exists, inspectable, config,   \* the repositories on disk
    asked,
    setting

registry == <<engines, host, recency, idle>>
disk     == <<exists, inspectable, config>>
vars     == <<registry, task, loop, disposed, disk, asked, setting>>

Independent == setting.independent
NoTask == [stage |-> "idle", repo |-> None, rest |-> <<>>, sql |-> FALSE, asOf |-> 0,
           host |-> None, waitFor |-> None, then |-> "idle"]
Resting == [stage |-> "idle", left |-> {}, waitFor |-> None]

Unborn == [life |-> "unborn", repo |-> None, fp |-> 0, verified |-> FALSE]

Alive(h) == host[h].life \in {"live", "disposing"}
Registered == {engines[r] : r \in Repos} \ {None}
IsNextHost(h) == host[h].life = "unborn" /\ \A g \in Hosts : g < h => host[g].life # "unborn"

-----------------------------------------------------------------------------
(* Mutations: plausible slips in the definitions that follow. They are     *)
(* used only to show that each property can fail.                          *)

EvictIfCurrent_Never(h) == engines
EvictIfCurrent_WhicheverIsThere(h) ==
    [r \in Repos |-> IF r = host[h].repo THEN None ELSE engines[r]]
ConfigChanged_Never(r) == FALSE
OverBudget_ByTwo(S) == Cardinality(S) > MaxEngines + 1
AfterSweep_NotRescheduled == [Resting EXCEPT !.stage = "off"]
Reusable_WithoutGate(c, h) == TRUE
Disposing_NeverStarted(hosts, h) == hosts

-----------------------------------------------------------------------------
(* The registry's operations.                                              *)

\* A dead host leaves the registry only if it is still the one registered.
EvictIfCurrent(h) ==
    [r \in Repos |-> IF engines[r] = h THEN None ELSE engines[r]]

\* A configuration that cannot be read counts as unchanged; it is left out.
ConfigChanged(r) == host[engines[r]].fp # config[r]

OverBudget(S) == Cardinality(S) > MaxEngines

\* The gate's quick answer for a warm slot.
Reusable(c, h) == host[h].verified \/ c \in Independent

\* A use stamps the slot: it becomes the most recent, and no longer idle.
Unlisted(h) == SelectSeq(recency, LAMBDA g : g # h)
Used(h) == Append(Unlisted(h), h)

\* The slot is dropped at once; its host starts to dispose.
Dropped(reg, r) == [reg EXCEPT ![r] = None]
Disposing(hosts, h) == [hosts EXCEPT ![h].life = "disposing"]

Evict(r) ==
    /\ engines' = Dropped(engines, r)
    /\ IF engines[r] = None
       THEN UNCHANGED <<host, recency>>
       ELSE host' = Disposing(host, engines[r]) /\ recency' = Unlisted(engines[r])
    /\ UNCHANGED idle

\* A group enters getOrSpawn; asOf is the configuration of that moment.
Group(repos, sql) == [NoTask EXCEPT !.stage = "enter", !.repo = Head(repos), !.rest = Tail(repos),
                                    !.sql = sql, !.asOf = config[Head(repos)]]

\* A group is over: the request goes on to the next one, or is answered.  A join
\* of several repositories ends at the first that has no engine.
NextGroup(c) == IF task[c].rest = <<>> THEN NoTask ELSE Group(task[c].rest, task[c].sql)
Finish(c)  == task' = [task EXCEPT ![c] = NextGroup(c)]
Refused(c) == task' = [task EXCEPT ![c] = IF task[c].sql THEN NoTask ELSE NextGroup(c)]
Send(c, h)  == task' = [task EXCEPT ![c].stage = "sent", ![c].host = h]

\* The request waits for an evicted host before it goes on.
Await(c, h, next) == task' = [task EXCEPT ![c].stage = "awaiting", ![c].waitFor = h,
                                          ![c].then = next]
Awaited(c, next) == /\ task[c].stage = "awaiting" /\ task[c].then = next
                    /\ host[task[c].waitFor].life = "gone"

\* The configuration is read and judged, and a host spawned from it.
Spawn(c) ==
    LET r == task[c].repo IN
    /\ IF ~inspectable[r] /\ c \notin Independent
       THEN Refused(c) /\ UNCHANGED host
       ELSE \E h \in Hosts :
            /\ IsNextHost(h)
            /\ host' = [host EXCEPT ![h] = [life |-> "starting", repo |-> r,
                              fp |-> config[r], verified |-> inspectable[r]]]
            /\ task' = [task EXCEPT ![c].stage = "building", ![c].host = h,
                                    ![c].waitFor = None, ![c].then = "idle"]
    /\ UNCHANGED <<engines, recency, idle>>

UsedBefore(used, g, h) == \E i, j \in DOMAIN used : i < j /\ used[i] = g /\ used[j] = h

\* Over the budget, the least recently used engine goes and the request waits
\* for it; within the budget the request is sent to the host it spawned.
Govern(c, reg, hosts, used) ==
    LET registered == {reg[r] : r \in Repos} \ {None}
    IN  IF OverBudget(registered)
        THEN \E lru \in registered :
             /\ \A h \in registered \ {lru} : UsedBefore(used, lru, h)
             /\ engines' = Dropped(reg, hosts[lru].repo)
             /\ host' = Disposing(hosts, lru)
             /\ recency' = SelectSeq(used, LAMBDA g : g # lru)
             /\ Await(c, lru, "govern")
        ELSE /\ engines' = reg /\ host' = hosts /\ recency' = used
             /\ task' = [task EXCEPT ![c].stage = "sent", ![c].waitFor = None,
                                     ![c].then = "idle"]

-----------------------------------------------------------------------------
Init ==
    /\ engines = [r \in Repos |-> None]
    /\ host = [h \in Hosts |-> Unborn]
    /\ recency = <<>> /\ idle = {}
    /\ task = [c \in Clients |-> NoTask]
    /\ loop = [k \in Loops |-> Resting] /\ disposed = FALSE
    /\ exists = [r \in Repos |-> TRUE]
    /\ config = [r \in Repos |-> 0]
    /\ asked = 0
    /\ setting \in Settings
    /\ inspectable \in [Repos -> BOOLEAN]
    /\ \A r \in Repos : inspectable[r] \/ (Independent # {} /\ r \in setting.asks)

-----------------------------------------------------------------------------
(* A request: routed to a repository, then getOrSpawn, then the host.      *)

\* Without sharing, no two requests ask about one repository at a time.
Free(r) == setting.shared \/ \A d \in Clients : r # task[d].repo /\ r \notin ToSet(task[d].rest)

Routes == {<<r>> : r \in setting.asks} \cup {<<r, q>> : r \in setting.asks, q \in setting.asks}

Ask(c) == \E repos \in Routes, sql \in BOOLEAN :
    /\ task[c].stage = "idle" /\ asked + Len(repos) <= MaxRequests /\ ~disposed
    /\ IsInjective(repos) /\ (Len(repos) = 1 => ~sql) /\ \A r \in ToSet(repos) : Free(r)
    /\ asked' = asked + Len(repos)
    /\ task' = [task EXCEPT ![c] = Group(repos, sql)]
    /\ UNCHANGED <<registry, loop, disposed, disk, setting>>

\* The workspace root is gone: drop its engine and refuse.
EnterVanished(c) ==
    LET r == task[c].repo IN
    /\ task[c].stage = "enter" /\ ~exists[r]
    /\ Evict(r)
    /\ IF engines[r] = None THEN Refused(c) ELSE Await(c, engines[r], "refuse")
    /\ UNCHANGED <<loop, disposed, disk, asked, setting>>

\* A warm engine of the same configuration is used again, unless it was
\* spawned for a root that was not a TypeScript project.
EnterWarm(c) ==
    LET r == task[c].repo  h == engines[r] IN
    /\ task[c].stage = "enter" /\ exists[r]
    /\ h # None /\ ~ConfigChanged(r)
    /\ IF Reusable(c, h)
       THEN recency' = Used(h) /\ idle' = idle \ {h} /\ Send(c, h)
       ELSE /\ task' = [task EXCEPT ![c].stage = "gating", ![c].host = h]
            /\ UNCHANGED <<recency, idle>>
    /\ UNCHANGED <<engines, host, loop, disposed, disk, asked, setting>>

\* The refusal is taken again: still refused, or the engine is replaced.
Gate(c) ==
    LET r == task[c].repo IN
    /\ task[c].stage = "gating"
    /\ IF ~inspectable[r] THEN Refused(c) /\ UNCHANGED registry
       ELSE IF engines[r] = None THEN Spawn(c)
       ELSE Evict(r) /\ Await(c, engines[r], "spawn")
    /\ UNCHANGED <<loop, disposed, disk, asked, setting>>

EnterDrifted(c) ==
    LET r == task[c].repo IN
    /\ task[c].stage = "enter" /\ exists[r]
    /\ engines[r] # None /\ ConfigChanged(r)
    /\ Evict(r)
    /\ Await(c, engines[r], "spawn")
    /\ UNCHANGED <<loop, disposed, disk, asked, setting>>

Cold(c) == \/ Awaited(c, "spawn")
           \/ /\ task[c].stage = "enter" /\ exists[task[c].repo]
              /\ engines[task[c].repo] = None

EnterCold(c) == Cold(c) /\ Spawn(c) /\ UNCHANGED <<loop, disposed, disk, asked, setting>>

\* A configuration that does not load is reported to the request, and so is
\* the vanished root once its engine is gone.
Refuse(c) ==
    /\ \/ Awaited(c, "refuse")
       \/ Cold(c) /\ config[task[c].repo] > 0
    /\ Refused(c)
    /\ UNCHANGED <<registry, loop, disposed, disk, asked, setting>>

BuildFails(c) ==
    /\ task[c].stage = "building"
    /\ host' = [host EXCEPT ![task[c].host].life = "gone"]
    /\ Refused(c)
    /\ UNCHANGED <<engines, recency, idle, loop, disposed, disk, asked, setting>>

\* The host is up and takes the slot, whatever the slot holds by now.
Built(c) ==
    LET h == task[c].host IN
    /\ task[c].stage = "building"
    /\ Govern(c, [engines EXCEPT ![task[c].repo] = h], [host EXCEPT ![h].life = "live"],
              Used(h))
    /\ UNCHANGED <<idle, loop, disposed, disk, asked, setting>>

KeepGoverning(c) ==
    /\ Awaited(c, "govern")
    /\ Govern(c, engines, host, recency)
    /\ UNCHANGED <<idle, loop, disposed, disk, asked, setting>>

\* A host answers; one that is gone has already failed the call.
Answer(c) ==
    /\ task[c].stage = "sent"
    /\ Finish(c)
    /\ UNCHANGED <<registry, loop, disposed, disk, asked, setting>>

-----------------------------------------------------------------------------
(* Hosts: a disposal completes, an engine dies.                            *)

HostGone(h) ==
    /\ Alive(h)
    /\ host' = [host EXCEPT ![h].life = "gone"]
    /\ engines' = EvictIfCurrent(h)
    /\ recency' = Unlisted(h)
    /\ UNCHANGED <<idle, task, loop, disposed, disk, asked, setting>>

HostDisposed(h) == host[h].life = "disposing" /\ HostGone(h)
HostCrashes(h)  == host[h].life = "live" /\ HostGone(h)

-----------------------------------------------------------------------------
(* The sweep, and the disposal of the orchestrator.                        *)

Slots == {<<r, engines[r]>> : r \in {q \in Repos : engines[q] # None}}

\* When the sweep has run, the next one is scheduled.
AfterSweep == Resting

StartSweep ==
    /\ loop["sweep"].stage = "idle" /\ ~disposed /\ Registered # {}
    /\ loop' = [loop EXCEPT !["sweep"] = [Resting EXCEPT !.stage = "on", !.left = Slots]]
    /\ UNCHANGED <<registry, task, disposed, disk, asked, setting>>

\* A sweep that is under way goes on.
Dispose ==
    /\ ~disposed
    /\ disposed' = TRUE
    /\ loop' = [loop EXCEPT !["dispose"] = [Resting EXCEPT !.stage = "on", !.left = Slots]]
    /\ UNCHANGED <<registry, task, disk, asked, setting>>

\* The slots of the snapshot are visited in the map's order, here any order. The
\* snapshot's slot decides; whatever the repository's slot holds by now
\* is what gets evicted.
Condemned(k, r, h) == k = "dispose" \/ ~exists[r] \/ h \in idle

Visit(k) ==
    /\ loop[k].stage = "on" /\ loop[k].waitFor = None
    /\ \E slot \in loop[k].left :
         LET r == slot[1]  h == slot[2]
             ahead == [loop[k] EXCEPT !.left = @ \ {slot}]
         IN  IF Condemned(k, r, h)
             THEN Evict(r) /\ loop' = [loop EXCEPT ![k] = [ahead EXCEPT !.waitFor = engines[r]]]
             ELSE UNCHANGED registry /\ loop' = [loop EXCEPT ![k] = ahead]
    /\ UNCHANGED <<task, disposed, disk, asked, setting>>

VisitOver(k) ==
    /\ loop[k].waitFor # None /\ host[loop[k].waitFor].life = "gone"
    /\ loop' = [loop EXCEPT ![k].waitFor = None]
    /\ UNCHANGED <<registry, task, disposed, disk, asked, setting>>

LoopEnds(k) ==
    /\ loop[k].stage = "on" /\ loop[k].waitFor = None /\ loop[k].left = {}
    /\ loop' = [loop EXCEPT ![k] = IF k = "sweep" THEN AfterSweep
                                   ELSE [Resting EXCEPT !.stage = "off"]]
    /\ UNCHANGED <<registry, task, disposed, disk, asked, setting>>

\* The disposal over, the daemon exits, and what is left exits with it: the
\* engine children see their parent disconnect.
DaemonExits ==
    /\ loop["dispose"].stage = "off"
    /\ \E h \in Hosts : host[h].life \notin {"unborn", "gone"}
    /\ host' = [h \in Hosts |-> IF host[h].life = "unborn" THEN Unborn
                               ELSE [host[h] EXCEPT !.life = "gone"]]
    /\ engines' = [r \in Repos |-> None] /\ recency' = <<>> /\ idle' = {}
    /\ task' = [c \in Clients |-> NoTask]
    /\ UNCHANGED <<loop, disposed, disk, asked, setting>>

-----------------------------------------------------------------------------
(* Time and the disk.                                                      *)

TtlPasses(h) ==
    /\ h \in Registered \ idle
    /\ idle' = idle \cup {h}
    /\ UNCHANGED <<engines, host, recency, task, loop, disposed, disk, asked, setting>>

EditConfig(r) ==
    /\ r \in setting.volatile /\ config[r] < MaxEdits
    /\ config' = [config EXCEPT ![r] = @ + 1]
    /\ UNCHANGED <<registry, task, loop, disposed, exists, inspectable, asked, setting>>

RootVanishes(r) ==
    /\ r \in setting.volatile /\ exists[r]
    /\ exists' = [exists EXCEPT ![r] = FALSE]
    /\ UNCHANGED <<registry, task, loop, disposed, inspectable, config, asked, setting>>

BecomesInspectable(r) ==
    /\ ~inspectable[r]
    /\ inspectable' = [inspectable EXCEPT ![r] = TRUE]
    /\ UNCHANGED <<registry, task, loop, disposed, exists, config, asked, setting>>

-----------------------------------------------------------------------------
Request(c) == \/ EnterVanished(c) \/ EnterWarm(c) \/ Gate(c)
              \/ EnterDrifted(c) \/ EnterCold(c)
              \/ Refuse(c) \/ BuildFails(c) \/ Built(c) \/ KeepGoverning(c)
              \/ Answer(c)

Sweeping(k) == Visit(k) \/ VisitOver(k) \/ LoopEnds(k)

Next == \/ \E c \in Clients : Ask(c) \/ Request(c)
        \/ \E h \in Hosts : HostDisposed(h) \/ HostCrashes(h) \/ TtlPasses(h)
        \/ \E k \in Loops : Sweeping(k)
        \/ StartSweep
        \/ Dispose
        \/ DaemonExits
        \/ \E r \in Repos : EditConfig(r) \/ RootVanishes(r) \/ BecomesInspectable(r)

Spec == Init /\ [][Next]_vars

\* The orchestrator's own timers fire and its loops go on, and time passes. No
\* host has to answer or to end its disposal.
FairSpec == /\ Spec
            /\ \A h \in Hosts : WF_vars(TtlPasses(h))
            /\ \A k \in Loops : WF_vars(Sweeping(k))
            /\ WF_vars(StartSweep) /\ WF_vars(DaemonExits)

-----------------------------------------------------------------------------
(* Properties.                                                             *)

Stages == {"idle", "enter", "gating", "awaiting", "building", "sent"}

TypeOK ==
    /\ \A r \in Repos : engines[r] # None => engines[r] \in Hosts /\ host[engines[r]].repo = r
    /\ \A h \in Hosts : host[h].life \in {"unborn", "starting", "live", "disposing", "gone"}
    /\ idle \subseteq Hosts
    /\ Len(recency) = Cardinality(ToSet(recency))
    /\ \A c \in Clients : /\ task[c].stage \in Stages
                          /\ (task[c].stage = "idle") = (task[c] = NoTask)
    /\ \A k \in Loops : /\ loop[k].stage \in {"idle", "on", "off"}
                        /\ loop[k].left # {} => loop[k].stage = "on"

\* A registered engine is a live one: a host that is being disposed of or has
\* died is never found by the next request, whichever order its exit, the
\* sweep, the governor and a respawn come in.
RegisteredIsLive == \A h \in Registered : host[h].life = "live"

\* No engine is lost, as long as no two requests ask about one repository at a
\* time: a live one is in the registry, where the idle TTL, the path check and
\* the governor find it.
NoOrphanEngine ==
    ~setting.shared => \A h \in Hosts : host[h].life = "live" => h \in Registered

\* A request is never served by an engine built from a configuration older
\* than the one on disk when the request came in.
ServedByCurrentConfig ==
    \A c \in Clients : task[c].stage = "sent" =>
        /\ host[task[c].host].repo = task[c].repo
        /\ host[task[c].host].fp >= task[c].asOf

\* More engines than the budget are registered only while a request that
\* spawned one is still evicting.
WithinBudget ==
    Cardinality(Registered) > MaxEngines =>
        \E c \in Clients : task[c].then = "govern"

\* An operation that needs a TypeScript project is never sent to an engine
\* spawned for a root that was not one.
GateHolds ==
    \A c \in Clients \ Independent :
        task[c].stage = "sent" => host[task[c].host].verified

\* What a request or a loop waits for comes to its end: engines start or fail,
\* answer, and go when they are disposed of, and git lists the files for the
\* gate. An engine in a process of its own is bounded in all of it, as
\* ProcessHost shows. One in the daemon's process, the default, is not
\* (in-process-host.ts:14), and the listing has no deadline
\* (ts-project-check.ts:17). Hence this is a premise of what follows, not a
\* fairness of the specification.
AwaitsEnd == /\ \A c \in Clients : WF_vars(Request(c))
             /\ \A h \in Hosts : WF_vars(HostDisposed(h))

\* The orchestrator makes nobody wait in vain: if what they wait for ends, so do
\* all requests, the ones that span repositories too, though the governor may
\* evict the engine of one group while another is served.
RequestsEnd ==
    AwaitsEnd => \A c \in Clients : task[c].stage # "idle" ~> task[c].stage = "idle"

\* When no more requests come, every engine is eventually given back, as the
\* idle TTL promises; EnginesAreReleased claims as much of concurrent requests
\* for one repository, UnsharedAreReleased of all others.
EnginesAreReleased == AwaitsEnd => <>[](\A h \in Hosts : ~Alive(h))
UnsharedAreReleased == ~setting.shared => EnginesAreReleased
=============================================================================
