# codemaster in TLA+

Models of the daemon side of codemaster, the TLC runs that check them, and the
theorems TLAPS proves about them. Every definition is translated from the
TypeScript source; `PROJECT.json` maps each one to the lines it stands for.

1. [The system](#1-the-system)
2. [Modules and how they correspond to the code](#2-modules-and-how-they-correspond-to-the-code)
3. [Runs](#3-runs)
4. [Where the code and its documents disagree](#4-where-the-code-and-its-documents-disagree)
5. [Proofs](#5-proofs)
6. [What is not modelled](#6-what-is-not-modelled)
7. [Plan](#7-plan)

To check: `tlc -config X.cfg M` for the pairs of section 3, `tlapm M.tla` for the
`_proofs` modules.

## 1. The system

    agent -> mcp facade -> bridge -> unix socket (NDJSON) -> daemon server -> orchestrator
          -> one engine per workspace (in process, or a forked child behind IPC)
          -> plugins (ts, scss, i18n, schema, react, react-query), composed by ops

One daemon serves every agent of a user. It is a single JavaScript event loop:
what interleaves are the stretches between awaits, timers, socket events, child
processes, and the world outside (editors, git, signals, the kernel).

| component | source | state | operations | talks to |
|---|---|---|---|---|
| process host | `daemon/process-host.ts` | pending calls with their cancel handles, dispose waiters, `dead`, `deadlineTripped` | `request`, `produceSql`, `status`, `dispose`, `onMessage`, `onExit`, deadlines, belts | engine child (IPC, SIGKILL), orchestrator (`onExit`) |
| engine child | `daemon/engine-child.ts`, `fork-engine.ts` | the engine, its queue, `shuttingDown` | handshake, `handle`, `shutdown` | process host |
| daemon server | `daemon/daemon-server.ts`, `common/async/idle-exit.ts` | connections, live breadcrumbs, `shuttingDown`, hold count, idle deadline, pidfile | connect, dispatch, reply, shutdown, signals | clients, orchestrator, disk |
| freshness guard | `daemon/freshness.ts`, `support/git/*` | the baseline (git or walk), the last walk's time and failure | `check` | git, file system, engine |
| workspace engine | `daemon/engine.ts` | FIFO queue, plugins' views | batches, watcher reindexes | guard, plugins |
| file fingerprints | `common/fingerprint/compare.ts` | size, mtime, record time, hash | compare, escalate | guard |
| orchestrator | `daemon/orchestrator.ts`, `multi-root.ts`, `ts-project-check.ts` | slots by repository, their last use, the sweep timer | `request` over one or several roots, getOrSpawn, evict, governor, sweep, dispose | process hosts, disk |
| bridge | `daemon/remote-orchestrator.ts` | pending calls and liveness probes by id, their timers, `closed` | request, probe, settle, close | daemon server |
| discovery, recovery | `daemon/connect-or-spawn.ts`, `spawn-daemon.ts`, `force-recover.ts`, `manage*.ts` | the socket and the pidfile, both shared by path | connect, re-probe, clear, spawn, poll; stop, restart, force-kill | daemon, kernel |
| usage log, breadcrumbs | `support/usage-log`, `mcp/call-telemetry.ts` | a file for each call in flight, the log of calls | begin, record, clear, claim and promote orphans | daemon, facade |
| transactions | `ops/transaction*.ts`, `refactor-*.ts`, `post-apply-verify.ts` | a chain of steps as one plan, the entry fence, the rollback baseline | plan, gate, fence, compare, commit, verify, roll back | ts plugin, git, disk |
| watchdog | `support/watchdog` | a beacon in shared memory, a worker thread, the orphan poll | begin and end an op, tick, kill | daemon, child, kernel |
| plugins, ops, rendering, cli | `plugins`, `ops`, `format`, `cli` | caches over the TypeScript service | analyses and refactorings | engine |

A bridge has no reconnect and never sends a call twice: a lost link fails what
waits and every later call, and the agent starts a new bridge.

What is hard, and what has to hold:

- **process host**: a reply, a deadline, the kill belt, the exit event and a
  disposal can each settle a call, in any order; the child may be stuck in a
  loop, or in the kernel where not even SIGKILL reaches it. Every call must be
  settled exactly once, its answer must not change, and nothing may hang.
- **daemon server**: the idle deadline, a signal and a client's shutdown message
  race with dispatches that are never drained; a crash may come between any two
  steps. An idle exit must spare calls, the breadcrumbs and the pidfile left on
  disk must mean what the next process reads into them, a teardown must end.
- **freshness guard and engine**: HEAD, status, stats, diff and the plugins'
  reads happen at different moments while the tree moves. An answer must be the
  one a freshly started daemon would give, or say that it may not be.
- **file fingerprints**: two writes within one tick of the file system's clock.
- **orchestrator**: between the lookup of a slot and its registration lie several
  awaits, in which other requests, the sweep, the governor, a crash or the
  disposal act. No engine may be lost or be found dead; no request may be served
  from an old configuration.
- **bridge**: a deadline races with the late answer, its probe's reply and the
  close of the link. Each call must end once, with what really happened.
- **discovery and recovery**: clients that find a dead socket each clear it and
  spawn; forced recovery kills by a pid from a file. Nobody may remove the socket
  of a daemon that answers, kill a stranger, or report a stop that did not happen.
- **usage log**: processes promote each other's breadcrumbs and die while doing
  so. A fatal must be recorded, once, and only if it happened.
- **transactions**: between planning and the last write lie a typecheck of seconds
  and one disk operation per file; each may fail, and an editor saves meanwhile.
  The report must be true of the disk, and a foreign write must survive.
- **watchdog**: two threads share memory without a lock, and one of them may kill
  the process. A kill must be founded, and a wedged or orphaned process must die.

`PROJECT.json` lists all hazards at their lines, with the properties aimed at them.

## 2. Modules and how they correspond to the code

    EngineChild <-- ProcessHost --refines--> ReplyOrFailure     MCHost, ProcessHost_proofs
    Watchdog        (main thread, worker, kernel)               MCHost, CrashLog_proofs
    IdleExit    <-- DaemonServer                                MCDaemon, DaemonServer_proofs
    RemoteOrchestrator  (bridge and link)                       MCDaemon, RemoteOrchestrator_proofs
    Freshness       (guard + engine + two plugins)              MCFreshness, Freshness_proofs
    FileStamp       (one file of the guard, in detail)          MCFreshness, Freshness_proofs
    Orchestrator    (hosts of either isolation)                 MCOrchestrator, Orchestrator_proofs
    Convergence     (clients, daemons, socket, pidfile)         MCConvergence, Convergence_proofs
    CrashLog        (serving processes, one directory)          MCCrashLog, CrashLog_proofs
    TxnCompose  <-- RefactorApply                               RefactorApply_proofs

An action is one turn of the event loop, one stretch between two awaits, or one
operation on memory or files that another thread or process shares. Modules hold
mutated operators (`Operator_What`), which no action uses, each one a slip the
definition that follows it could have had. Substituting one must break a
property; it shows that the property can fail. The MC modules name the settings
TLC looks at. Three of them check two modules in one run, side by side: their
variable `part`, chosen at first and kept, says which one moves while the other
stands still, so that the run is the union of two and no step of one module can
disturb the other.

**EngineChild, ProcessHost.** The IPC pipe is two sequences; `exitEvent` may be
delivered while frames are still in the pipe, as node allows. `stuck` is "loop"
(handlers do not run) or "dstate" (SIGKILL waits too); nothing obliges the child
to come back. `armed` and `belts` are the timers that `sendAndAwait` and `dispose`
start; `MarkDead` is `markDead` with everything it drains. Reply bodies and the
wording of failures are left out; `answer` keeps the reason only (`crash`, `oom`,
`timeout`, or `reply`). `settles` counts, since the code's promises would swallow
a second settlement in silence. Dispose timers have no cancel handle and belts
outlive the call they were started for, here as there. All of this is the host of
an engine in a process of its own; the default host, in the daemon's process
(`in-process-host.ts`), passes calls on to the engine and has no state.

**ReplyOrFailure** is the contract of `host.ts`: a call is answered, or fails when
the host gives up on all at once; a call on a host that gave up fails at once; and
none waits for ever. `ProcessHost!KeepsPromise` is the refinement, its liveness
part included.

**IdleExit, DaemonServer.** `IdleExit` has the four methods of the deadline;
`DaemonServer` calls them where the code does: an open connection and a running
dispatch each hold. `chunk` is the connection whose socket read is being taken
apart: several messages of one read are handled in one turn, so a shutdown message
can be followed by a request with nothing in between. `crumbs` are files and
survive a crash, `live` are the handles in memory. `Exit` is the end of the
orchestrator's disposal; nothing says that it comes.

**Freshness.** `stage` follows one job of the engine's FIFO queue: capture (HEAD
and status are read in either order, the world moving between), compare,
reindex, serve. `CheckFirst`, `CheckSame`, `CheckDrift`, `CheckBackToGit`,
`CheckDebounced` and `CheckWalk` are the branches of `check`. Two plugins stand for
the two ways of following files: "ts" marks files and reads them at its next use,
"scss" reads them at once (i18n and schema follow the same pattern). `RunOp` asks a
plugin; `ApplyOp` is an operation that writes: it reindexes "ts", and no other plugin,
in the middle of its batch (`post-apply-verify.ts:149`, 155). A file's
content is a number, 0 for an absent file; contents stand for (size, mtime, hash)
records, which is justified by FileStamp. A behaviour keeps the environment `env`
it starts in: its files, contents, commits, and `may`, the disturbances beyond writing
fresh contents and committing them; the history variable `met` says which of them have
happened. The module's header lists them.

**FileStamp** opens the box Freshness closes: how two stats and a hash decide that
a file changed, when the file's time lags behind the clock by up to `Resolution`
and records younger than `Window` (2000 ms, `DEFAULT_MTIME_RESOLUTION_MS`) are not
trusted. All writes keep the size, the case in which the time must decide.

**Orchestrator.** A request is a `stage`, named for the await it hangs in: `enter`
(before the slot lookup), `gating`, `awaiting` an evicted host, `building`, `sent`.
One that spans repositories has a `rest`: its groups are dispatched one after the
other (`groupedDispatch`), and a join (`sql`) ends at the first group that is
refused. `recency` orders the slots by last use; `idle` are those older than the
TTL. The sweep and the disposal are loops over a snapshot of the slots, visited in
any order. A host starts or fails, answers, and goes once disposed, or never does any
of these. The configuration is a version number; one that cannot be
read (which the code counts as unchanged) is left out. `setting.shared` says
whether two requests may ask about one repository at a time.

**RemoteOrchestrator.** `pending` and `timers` are the one map of the code, kept
apart so that they can disagree; a call whose deadline passed is `probing` under a
new id. The daemon takes requests off the link in any order, answers any number of
times, late, corruptly or never, and the link may break with messages on it, before
the bridge notices (`closed`).

**Convergence.** Bridges, `start`, `stop` and `restart` as program counters over
what they share: the socket path, the pidfile, and the processes. A daemon is its
pid; both files are removed by path, whoever they belong to, as in the code. A
daemon may be stuck, crash, or be killed, and the pid of a dead one may be given to
a stranger. A connect can fail at a daemon that listens (`MayFail`: its backlog is
full, or descriptors have run out), and the code takes that for an absent daemon. A
daemon is idle when no client is linked and no request is `busy`, whose client may have
left. The history variables `reprobed`, `unseen`, `checked`, `served` and `crossed`
carry what the properties relate.

**CrashLog.** A breadcrumb is a file with a name: plain, or that of its claimer. A
rename, an append and an unlink are steps of their own, and a process dies between
any two. `Examine`, `Rename`, `Promote`, `Unlink` are the loop over a directory
listing taken at the start; `owner`, `aged` and `reused` decide what a promoter may
claim. `phase` says how far a call is: recorded, cleared, or, when the unlink failed or
a promoter had taken the file, `left`. A call that throws, and one of the daemon's own
dispatch, clears without a record.

**TxnCompose, RefactorApply.** TxnCompose folds steps into file states keyed by
origin, exactly as `transaction-compose.ts` does, next to `tree`, the workspace had
each step been carried out by itself, and `dropped`, the files it has lost.
RefactorApply carries the plan out: dirty
gate, entry capture, typecheck, collisions, fence, comparison, commit operation by
operation, verification, rollback. Every disk operation may fail; another program
writes between any two steps. Bytes are named for who wrote them.

**Watchdog.** The beacon is three words, stored one by one by the main thread
(`stores`) and loaded one by one by the worker (`at`); the text word stands for the
description of the op. An age counts ticks up to `Threshold`. `parent` may die, be
dead before the watchdog starts ("boot"), or have its pid reused.

## 3. Runs

| run | module, cfg | checks | bounds and why they are enough |
|---|---|---|---|
| `host` | MCHost, ProcessHost | single settlement, bounded waits, no abandoned child, kills with a cause, the refinement, handshakes end; founded kills of the watchdog, no zombies | `MaxId` 3: two calls and a disposal, or three calls, so that a deadline, a reply and an exit can each hit a different one. 2 ops, a threshold of 2 ticks, 2 ticks of grace: one op ends and another begins between the worker's loads (3 ops gave 2.4 million states of the watchdog without difference). 319,383 states |
| `daemon` | MCDaemon, DaemonServer | holds, breadcrumbs and pidfile, idle exit, end of teardown; the bridge's accounts, true outcomes, every call ends | 2 connections, 3 requests: a client that leaves while another calls, and a shutdown message with a request before and behind it in one read. 2 calls of a bridge with their probes: a late reply to one while the other probes. 158,737 states |
| `fresh` | MCFreshness, Freshness | cold equals warm, honest anchors, sticky "unverified", one view per batch; no change missed | four environments. Three of 1 file and 2 commits with changes between all steps: failing diffs, deletions and writing operations; no git and failing walks; git lost and found, where failing walks meet it and the guard gives in. One of 2 files, 2 contents, 3 commits that come back, the tree still during a batch. One watcher job waits. FileStamp: resolution and window of 3 ticks, 7 ticks, 4 writes, that is writes before, between and after the steps of two checks. 4,082,142 states |
| `orch` | MCOrchestrator, Orchestrator | registered is live, no orphan, budget, configuration, gate, requests end, engines given back | 2 clients, budget 1, 2 groups of requests in four settings: two steady repositories (a request over both evicts its own first engine), a changing one, a shared one, and one shared with an operation that needs no project. 137,170 states |
| `converge` | MCConvergence, Convergence | strangers, re-probes, stops, restarts, orphans, conclusions | 2 clients in five mixes of roles, 2 daemons: each race of the code is between two clients and the daemon one of them starts; with or without an incumbent. 484,993 states |
| `crashlog` | MCCrashLog, CrashLog | true fatals, none lost | 3 processes (an owner, and two that promote at once; they are symmetric), 2 calls with a promotion cap of 1, so that the cap leaves one behind. 3,559,664 states |
| `refactor` | RefactorApply | the report, the fence, foreign writes | 2 tracked files, one with uncommitted edits, 2 free paths, one ignored by git, chains of 3 (so that a created file can be moved and its place be taken again), one foreign write. 6,353,855 states |
| `orch_orphan` | MCOrchestrator, Orchestrator_orphan | `EnginesAreReleased`, violated | section 4 |
| `converge_heal` | MCConvergence, Convergence_heal | `DisplacedExitSparesSuccessor`, violated | section 4 |
| `fresh_stale` | MCFreshness, Freshness_stale | `WarmIsCold`, violated | section 4 |
| `crash_twice` | MCCrashLog, CrashLog_twice | `ReportedOnce`, violated | section 4 |
| `refactor_lost` | RefactorApply, RefactorApply_lost | `ReportIsTrue`, violated | section 4 |

What some properties mean:

- `WaitIsBounded` is the safety half of never-hang: whatever waits on the child also
  has a timer of the daemon's own. The liveness in `KeepsPromise` is the other half.
- `NoAbandonedChild`: a host that gave up leaves a child that is gone or has a
  SIGKILL on its way. `KillsHaveCause`: the daemon sends one only for a handshake that
  failed, a call unanswered at its deadline, or a disposal unfinished at its own,
  whatever timers are left over from earlier ones.
- `ColdEqualsWarm`: the tree not moving during the batch, an answer that does not
  call itself unverified, outside the walk's debounce second, shows the tree as it
  is (`WarmIsCold`). `AnchorIsHonest`: one that names a commit shows that commit's
  contents. `UnverifiedIsSticky`: a doubt lasts until a check dispels it. The three
  hold while no disturbances have met that the guard cannot handle (`Handled`, a
  condition on what has happened so far, not on the environment); section 4 lists these,
  and `fresh_stale` shows the code without the exemption.
- `OneViewPerBatch`: once a batch has asked a plugin, its view moves only where the
  batch itself wrote, and only that of "ts".
- `RegisteredIsLive`: the next request never finds an engine that is dead or being
  disposed of, also when two requests build at once. `NoOrphanEngine`: a live engine
  is in the registry, where the TTL, the path check and the governor find it; it
  needs requests for one repository to come one at a time, see `orch_orphan`.
- `ReprobeGuards`: a client removes the socket of a listening daemon only after two
  failed connects in a row, the second of which failed at this daemon or before it had
  bound, the race the code admits to. `StopMeansStopped`, `RestartRenews`: what a verb
  reports is true, unless some daemon lost its socket or its pidfile to another process
  or could not write its pidfile (`crossed`), and unless a restart could not connect to
  the daemon that was serving and took it for absent.
- `OrphansExit`: a daemon nobody can reach or is linked to ends once its last request
  has settled; one that never settles keeps it (`tasks/t-824810`).
- `FatalsAreTrue`: a recorded crash has a dead owner that had not removed the call's
  breadcrumb, and is recorded once; records marked as reclaimed from a dead promoter
  are exempt, as the code says. That the call had not been answered either is
  `ReportedOnce`, which fails. `NoFatalLost`: a call that died in flight is on record or
  still has a file.
- `ReportIsTrueButForLost`: what the op reports is what is on disk: an applied chain
  leaves what its steps would have left one by one; any other end leaves the old bytes,
  or a named path it could not restore. The exception is in its name: a file that the
  chain has dropped without a word, on which `ReportIsTrue` fails. `SparesOthers`: what
  another program wrote before the op's last look at a path is never overwritten or
  removed.
- `ReapedForCause`: the worker kills only an op over the threshold that had not
  ended when it looked, or an orphan. `NoZombies`: a blocked process with an op, or
  with a dead parent, ends.

**Deadlock.** `CHECK_DEADLOCK FALSE` stands where the program really stops: the
daemon exits, a host is dead and its calls used up, every client has its verdict,
an op has reported, a process has died, the clock or the requests of the bounded
instance end. In MCFreshness it is FileStamp's clock that ends; the engine itself never
blocks.

**Fairness and premises.** Only what the code schedules itself is fair.
ProcessHost: the daemon's event loop delivers frames, exits and timers
(`setTimeout` of `sendAndAwait`, `dispose` and the startup handshake). Nothing is
assumed of the child or the kernel: a child that stays in the kernel for ever is a
fair behaviour, and the promise holds in it.
DaemonServer: the idle timer, close events of destroyed sockets, the end of
`server.close()`, and the rest of a read that has begun. No dispatch has to finish, no
client to leave and no disposal to end.
Orchestrator: its sweep timer fires, its loops go on, the idle TTL passes, `exit(0)`
follows a finished disposal. No host has to start, answer or go, and no crash, edit,
request or disposal is fair.
What the process host bounds, the default host does not: engines in the daemon's own
process have neither a deadline for requests nor one for their disposal
(`in-process-host.ts:14-17`, `engine.ts:139`), and the gate's listing has none either
(`ts-project-check.ts:17`). So that what is waited for ends is a premise of the
properties that need it, stated in them: `AwaitsEnd` of `RequestsEnd` and
`UnsharedAreReleased`, `DisposalsEnd` of the second half of `ShutdownCompletes`. They
say that the orchestrator and the daemon add no hang of their own. Under process
isolation ProcessHost establishes the premises for engines; in process nothing does,
and one disposal that hangs stops the sweep (`orchestrator.ts:352`) and the exit.
RemoteOrchestrator: the bridge's own loop (`BridgeStep`: timers and the close
event); the daemon need not answer. Convergence: some client or daemon that can
move does (`Progress`: every wait of a client has a deadline); a stuck daemon stays
stuck, a request need not settle, and neither property waits for a disposal (`Exit`). Watchdog: the worker thread, the clock, and the main thread's own steps
while it is not blocked.
Freshness, FileStamp, CrashLog and RefactorApply have no liveness: each is a finite
sequence of steps, and a process may die at any of them.

## 4. Where the code and its documents disagree

Runs that TLC must refute, each against a sentence of the repository:

| run | what happens |
|---|---|
| `orch_orphan` | `getOrSpawn` has no single flight: two cold requests build two engines, and the second `engines.set` drops the first without disposing of it; nothing evicts it until the daemon exits. `ARCHITECTURE.md:1450` promises idle eviction. |
| `converge_heal` | A daemon that lost its socket to a successor exits when idle and unlinks the path, now the successor's, and its pidfile. `connect-or-spawn.ts:8` says the race heals itself. |
| `fresh_stale` | A drift's `git diff` fails and the baseline stays at the old commit, while the plugins read the new commit's files; the old commit is checked out again, the next check finds its fingerprint equal (`freshness.ts:155`), and no failure is reported: the answer is verified, names the old commit and shows the new one. `freshness.ts:186` says that `unverified` stays until a diff succeeds, `ARCHITECTURE.md:241` that the check is the correctness guarantee. |
| `crash_twice` | A process dies between its record of an answered call and the unlink, and the next start reports the call again, as a crash. `call-telemetry.ts:8` says that such a death reports the call once, `inflight.ts:20` that no fatal is fabricated. An unlink that fails (`inflight.ts:99-106`) has the same effect. |
| `refactor_lost` | extract to m, move m to n, extract to m again. `applyStep` refuses to create over an entry that is `tombstoned` (`transaction-compose.ts:60`), which a created file never is, so `byOrigin.set` replaces the state of the file at n and the collapsed plan does not write it. The comment above (lines 51-53) says that the op refuses "rather than silently DROP the earlier move". |

Disagreements met while modelling that have no run of their own:

- *Unborn branches.* A file created and committed after an unborn capture and before
  the next check is untracked in neither capture, and `gitDiffNames` is not asked:
  the clean answer names the first commit over a view without the file.
  `diff-changed.ts:19` says the dirty-path union covers this transition.
- *Transient contents.* A watcher job reindexes without touching the guard's
  baseline. Contents it read, reverted before the next check with the second event
  late or lost, leave an equal fingerprint, and the transient view is served as
  fresh. `ARCHITECTURE.md:241` calls the check the correctness guarantee.
- *Eviction does not drain.* The governor disposes of an engine with a request in
  flight, which fails as a crash (`orchestrator.ts:321`); `ARCHITECTURE.md:2270`
  says it drains.
- *The rollback baseline.* It is read from disk when the plan is collapsed
  (`transaction-compose.ts:141`), not when it was made, as
  `post-apply-verify.ts:5` says. A foreign write in between is caught by the dirty
  gate alone, so `SparesOthers` exempts it when `dirtyOk`.
- *Rollback removes targets it has not created.* `refactor-commit.ts:28` and 69
  remove every destination of the plan, the move that failed on an existing file
  included; `ReportIsTrueButForLost` and `SparesOthers` hold because the collision check and
  the fence come first, except for a write after them.
- *Torn stall records.* `beacon-sab.ts:42` says that a reader never sees a torn
  record. The worker can report the start of one op with the text of the next; a
  healthy process can be killed whose old op returned after the worker's last load.
  `ReapedForCause` states what does hold.
- `idle-exit.ts:26` says `stop()` keeps the deadline from racing the exit, but the
  next `leave()` with no holds arms it again; `shutdown()` is idempotent, so nothing
  follows from it.

The guard fails also in other ways than the one `fresh_stale` shows. `Handled` is the
condition under which it does not; it speaks of what has happened so far (`met`), and its
complement is this list, in which TLC finds a counterexample for each line, with two
files, contents 0..2 and two commits (`vanish`: one file, contents 0..3). W is
`WarmIsCold`; A and D are `AnchorIsHonest` and `UnverifiedIsSticky` without `Handled`.
These are not weaknesses of the model: each follows from the code.

| what met | fails | what happens |
|---|---|---|
| `revert`, `diffFails` | W A D | the run `fresh_stale` (`freshness.ts:182`, 155) |
| `gitLost`, `walkFails` | W A D | the git baseline is kept although the walk that lists what to reindex ended early (`freshness.ts:145`); the next check compares equal |
| `gitLost`, `delete` | W A | the reindex after a change of mode names only files the walk found (`freshness.ts:145`, 232); a deleted file stays |
| `walkFails`, `delete` | W | a file that a partial walk missed, deleted before the next walk, is in neither list (`freshness.ts:244`) |
| `vanish` | W | a dirty path missing at its stat is not recorded and then never compared (`freshness.ts:104`, 164) |
| `headFails` | W A | the failure reads as an unborn branch, and the committed delta is lost (`fingerprint.ts:32`) |
| `unborn` | W A | see above (`diff-changed.ts:17`) |
| `revert`, `midBatch` | W A | a plugin warms from a tree newer than the captured fingerprint, and a checkout back makes the next one equal (`freshness.ts:155`) |
| `revert`, `watcher` | W A | a watcher job reads contents that are gone by the next batch, which compares equal |
| `revert`, `apply` | W A | the same, with the reindex of an operation that wrote (`post-apply-verify.ts:155`) |
| `revert`, `gitLost` | W A | a file a checkout removed is not among those the reindex after a change of mode names |
| `revert`, `noGit` | W | a plugin first read during a debounced check (`freshness.ts:208`) holds contents that are gone again at the next walk |

What the other properties concede, each for what the code does:

- Convergence: the listener's close callback unlinks the path a second time and can
  remove a successor's socket (`crossed`); a pidfile may not name the wedged daemon,
  and then recovery reports `target changed` or `already gone`; forced recovery may
  signal a healthy daemon that was just started (`force-recover.ts:12`,
  `manage.ts:211`); a stranger can be signalled when the pid changes hands between the
  last read of the hint and the signal, and through the hint of a daemon that was
  killed, never through the old hint of one that exited.
- CrashLog: the claim of a dead promoter whose pid was reused never ages out
  (`inflight.ts:244`); a promotion into a sink that cannot write is dropped; the
  facade disposes of its sink before its calls end.
- DaemonServer, Orchestrator: nothing bounds a dispatch, and in the daemon's own process
  nothing bounds a disposal; see the premises in section 3.
- RefactorApply: a dependency that changes between the engine's freshness check and
  the entry capture is not seen, nor is one that is changed and put back; a process
  that dies while it commits leaves part of the plan on disk.

## 5. Proofs

Each module proves an inductive invariant of `Spec` by `Init => Inv`,
`Inv /\ [Next]_vars => Inv'`, one step per action, and takes the properties from it.

**ProcessHost_proofs**, for every `MaxId \in Nat \ {0}`. `SettledExactlyOnce` alone
is not inductive: a reply for an id that is pending must find it unsettled, which
needs to know that calls and disposals use disjoint ids below `nextId`; and
`NoAbandonedChild` needs that a belt runs only for a child that is gone or about to be
killed, and `KillsHaveCause` that no deadline is left of a call that is over, while a
dispose timer may be, of a host that is dead. `Ledger` adds these (`Accounts`, `KillIsOut`,
`NoStaleKill`, `DeadHoldsNothing`). Proved: `TypeCorrect`,
`EachCallSettledOnce`, `EveryWaitIsBounded`, `ChildIsNeverAbandoned`,
`EveryKillHasACause`, `AnswersNeverChange`, and `HostKeepsPromise`, the safety
part of the refinement: initial states map to initial states and each step to a step
of ReplyOrFailure or a stutter.

**DaemonServer_proofs**, for all finite sets of connections and requests. The hold
count needs cardinalities of sets that gain and lose one member (lemmas `OneMore`,
`OneLess`) and `running \subseteq done`, without which a request could be
dispatched twice and held once. `crumbs = live` makes the shutdown's clearing
complete. Proved: `HoldCountIsExact`, `FilesAreTrue`, `DoorTypes`, and the action
property `IdleExitSparesCalls`.

**Freshness_proofs**, for any files, contents, commits, environments and number of
batches. The heart of the invariant (`Told`) is `BaseIsTold`: a file that is as the
baseline says has been read by every warm plugin since it is so. An edit keeps it because
contents that come back to what the baseline says must have been there before: while
`Moving` nothing known comes back (`Onward`, `Known`), while `Reverting` the plugins hold
exactly the baseline whenever the engine is idle (`InStep`). A check then only has to name
every file on which the new baseline differs from the old (`GoodBase`), and, over a still
tree, end in a baseline equal to it (`GoodVerdict`); that is shown for each of the six
ways a check concludes. What has happened only grows, so `Handled => Told` is inductive
from Init on, with no hypothesis about the environment (`ToldWhileHandled`); the
disturbances that end it are those of section 4, each with its counterexample. Proved from
it: `ColdWhileHandled`, `AnchorsWhileHandled`, `DoubtWhileHandled`. `OneView` needs no
`Handled`: it needs that a plugin which the batch has asked has nothing due but what the
batch wrote, and that no reindex job runs while a batch does.

**FileStamp** (in Freshness_proofs), for every clock, every number of writes and every
window no smaller than the resolution (`StampAssumption`; with a smaller window TLC
finds a missed change). The invariant says what a record is worth: a file that differs
from what the plugin read is betrayed by its time, or the record is too young to be
trusted; the record under way carries the same promise until it replaces the last.
Proved: `NoMissedChange`.

**Orchestrator_proofs**, for any finite set of repositories and any clients, budget,
requests and settings. Two facts carry it (`Orderly`): `Sound`, that what is
registered is live and of its repository, and `Placed`, that the host a request has
spawned or found fits the request from then on, registered or not; `Apart`, that no
two requests build one host, keeps a failing build from taking another's. A request
records the configuration it came in under, and versions only grow, so a host that
fits keeps fitting. Proved: `TheRegistryIsLive`, `ServedAsConfigured`,
`TheGateHolds`, and, with cardinalities of the registry, `TheBudgetHolds`. For
requests that never share a repository also `NoEngineIsLost` (`Tidy`): since what
they want is disjoint (`Exclusive`), the slot that a new engine takes is still as
empty as its request left or found it (`Vacant`), so it covers nobody's.

**RemoteOrchestrator_proofs**, for any finite set of calls. The pending map is exactly
the ids of the calls that wait (which needs ids below `nextId` to be unique among
calls and probes), and each reply on the wire is for an id the daemon took. Proved:
`EveryWaitIsOnFile`, `CallersAreToldTheTruth`.

**RefactorApply_proofs**, for all files, chains of any length and any number of writes
of the other program. Three arguments meet in `Inv`:

- *The chain is the tree* (`Chain`). File states are told apart by their origins and by
  their current paths (`Keyed`), `currentToOrigin` leads from every listed path to its
  state though it keeps stale entries (`Mapped`), and each path of the tree is what the
  states say of it (`Mirrored`). Folding an entry keeps this (`FoldKeepsChain`,
  `CreateKeepsChain`), and each kind of step is one entry or two for different files.
- *What was written shows* (`Watchful`, `Guarded`, `Baseline`). Until it writes, the op
  has changed nothing, and a foreign write differs from what it replaced. So a capture
  equal to the entry, a free destination and a baseline equal to the disk each say of
  the paths they look at that nobody wrote them in a stretch of program counters
  (`Collided`, `Cleared`), which together are `LastLook` (`Safe`). The same checks make
  the removed and the restored paths disjoint.
- *The disk follows from what is left to do* (`Progress`, `Undoing`), operation by
  operation, in whatever order.

Proved: `TheReportIsTrueButForLost`, `TheChainIsTheTreeButForLost`, `OthersAreSpared`,
`TheFenceHolds`, `ApplyTypes`. `Mirrored` says nothing of the paths of files the chain has
lost, and cannot: `refactor_lost` refutes it there.
`Inv` was checked by TLC as an invariant of the run before it was proved.

**Watchdog** (in CrashLog_proofs), for any number of ops and any threshold. Whenever the flag is
set, the start in the slot is that of an op that has not ended or whose end is being
published (`SlotIsCurrent`); after a tick, the slot is only given ops that had not
ended before it (`ReadingIsCurrent`). Proved: `KillsAreFounded`.

**CrashLog_proofs**, for any processes, calls and promotion cap. A breadcrumb leaves
its plain name once and for all, so one promoter at most is ever between taking it
and recording it (`Takes`); whoever is called crashed is dead, and what a dead
process was doing no longer changes (`Founded`); a promoter unlinks only what is on
record or could not be written (`Unlinks`). `Kept` strengthens `NoFatalLost` to
owners that are still alive. Proved: `CrashesHaveBreadcrumbs` (a crash stands for a dead
owner and a breadcrumb it had not removed; that the call had not been answered is false,
`crash_twice`) and `NoCrashIsForgotten`.

**Convergence_proofs**, for any processes, roles and reuses of pids. What a client knows
of a daemon is about stages that are never left (`Forward`): that a hinted daemon has
served, that the daemon it asked no longer listens. So a client that does not move keeps
its part of the invariant (`ClientStands`), and a daemon's step only has to be shown to
be forward. `OneDaemon` says that as long as no live file was removed (`crossed`), who
listens is at the socket and who serves is in the pidfile; with it, a daemon that left
its stage left the socket too. Since a connect may fail at a listening daemon, what a
client knows of the one it may unlink is only that its second attempt missed it or came
before it (`unseen`). `Hints` says that only a killed daemon leaves a pidfile
behind, which is why re-reading it before a signal is enough. Proved:
`NoStrangerIsSignalled`, `ReprobesGuard`, `StoppedIsStopped`, `RestartsRenew`,
`ConvergenceTypes`.

**Only model-checked**: all liveness (the second half of `KeepsPromise`,
`HandshakesEnd`, `IdleDaemonExits`, `ShutdownCompletes`, `RequestsEnd`,
`UnsharedAreReleased`, `EveryCallEnds`, `OrphansExit`, `ClientsConclude`,
`NoZombies`), which is out of the prover's reach; so are the violated properties, which
nothing could prove.

## 6. What is not modelled

- The TypeScript analyses, caches and refactorings of the ts plugin, and the ops
  composed of them: computations over the language service, some 35,000 of the
  repository's 54,000 lines. Only the plugins' `warm` and `reindex` are modelled,
  and of the mutating ops how their plans reach the disk. What a refactoring writes
  is a free choice. Folder moves, the css co-extract, formatting and the verdict of
  the typecheck stay abstract too.
- Rendering, flag parsing, tool schemas, logging: text.
- The parsers of scss, i18n catalogues and schemas; react and react-query, which
  keep no state.
- The isolation decision, heap ceilings and status probes of the orchestrator; the
  tables of cross-root sql; sql batches and disposal of the engine.
- A plugin whose reindex throws (`engine.ts:182`): no plugin's reindex throws for
  what a file contains.
- The `error` event of a running child process beyond what ProcessHost makes of it.
- Of the watchdog: the fatal handlers' fault window, the file of the stall record,
  and the sleep record of the machine: the clock of the model does not jump. A
  blocked loop without an op and with a living parent is not reaped, by design.
- The boot of an orphan under a subreaper, whose parent's pid is greater than 1
  (`install.ts:55`): it counts as having a living parent. The watchdog's model begins
  once `installWatchdog` has returned and its worker runs. Of a torn record only the
  reason and the start are constrained; the text that goes with them (`record.op`) may be
  that of another op.
- DaemonServer: an unlink of a breadcrumb or of the pidfile that fails. (CrashLog has the
  breadcrumb's.)
- FileStamp: contents that come back within a tick, with equal size and time, which no
  stat can tell.
- Freshness: a plugin other than "ts" is not told of what a batch itself writes until the
  next check, and the note of a batch carries the commit of its entry (`engine.ts:198`),
  so the files in `wrote` are exempt from what a batch's later answers claim. Typecheck
  and rollback of a writing operation are in RefactorApply.
- Framing on the socket; the contents of requests and replies; the rotation of the
  usage log.

## 7. Plan

Done, in this order: ProcessHost with EngineChild and its contract; DaemonServer;
Freshness; Orchestrator; FileStamp; Convergence; RemoteOrchestrator; CrashLog;
TxnCompose with RefactorApply; Watchdog; requests over several roots in
Orchestrator; the proofs of section 5.

What would be worth adding, most important first:

1. The composition of RemoteOrchestrator with DaemonServer: a shutdown between the
   receipt of a call and its reply; and that Orchestrator's hosts are those that
   ReplyOrFailure promises, as a refinement.
2. Pure algorithms against reference definitions: conflicts between text edits, the
   LRU map, the order of plugins.
