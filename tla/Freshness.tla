----------------------------- MODULE Freshness -----------------------------
(***************************************************************************)
(* One workspace engine and its read-time freshness guard: the working     *)
(* tree and the repository change at any moment, the file watcher may      *)
(* report a change late or not at all, and every batch of operations first *)
(* compares a fingerprint of the repository with the one of the previous   *)
(* check and reindexes what drifted.                                       *)
(*                                                                         *)
(* Two plugins stand for the two ways a plugin follows the files: "ts"     *)
(* marks the changed files and reads them at its next operation, "scss"    *)
(* (and i18n, schema, built on the same pattern) reads them at once.       *)
(*                                                                         *)
(* A behaviour keeps the environment `env` it starts in: the files and the *)
(* contents it writes, the number of its commits, and `env.may`, the kinds *)
(* of disturbance that may happen beyond writing fresh contents between    *)
(* the batches and committing them. `met` says which ones have happened:   *)
(*   "midBatch"    the tree changed while the engine worked                *)
(*   "watcher"     the watcher reported changes                            *)
(*   "apply"       an operation wrote files itself                         *)
(*   "revert"      contents or commits of the past came back               *)
(*   "delete"      a file disappeared while the engine was idle, or an     *)
(*                 operation removed it                                    *)
(*   "vanish"      a file disappeared while the engine worked              *)
(*   "diffFails"   `git diff` failed                                       *)
(*   "headFails"   `git rev-parse` failed while `git status` succeeded     *)
(*   "unborn"      the repository had no commit at first                   *)
(*   "noGit"       the workspace was not in a git repository at first      *)
(*   "gitLost"     git stopped or started answering                        *)
(*   "walkFails"   the walk of a tree without git ended early              *)
(***************************************************************************)
EXTENDS Naturals, Sequences, FiniteSets, SequencesExt

CONSTANTS Files, Contents, Environments, None

PartialTrees == UNION {[S -> Nat] : S \in SUBSET Files}
Marks == {"clean", "??", "D", "M"}
GitBase  == [mode : {"git"}, head : Nat, status : [Files -> Marks], fps : PartialTrees]
WalkBase == [mode : {"walk"}, found : PartialTrees]

ASSUME FreshnessAssumption ==
    /\ None \notin GitBase \cup WalkBase
    /\ IsFiniteSet(Files) /\ Contents \subseteq Nat /\ 0 \in Contents
    /\ \A e \in Environments :
          e.files \subseteq Files /\ e.contents \subseteq Contents /\ e.commits \in Nat

Plugins == {"ts", "scss"}
Order   == <<"ts", "scss">>
Absent  == 0                       \* the content of a file that is not there
NoHead  == 0                       \* HEAD of a repository without a commit
QueueBound == 1                    \* watcher jobs that may wait (bounds TLC)

Tree  == [Files -> Contents]
Cold  == [f \in Files |-> Absent]  \* an unread view; `warm` tells them apart

VARIABLES
    \* the world outside
    work, head, commits, gitUp, seen, env,
    \* the guard
    base, walkFresh, walkFailed,
    \* the engine: its queue, the step of the job it runs, the plugins
    queue, stage, cap, drift, todo, warm, view, due,
    \* the batch: the plugins it has asked and the files it has written
    asked, wrote,
    \* history: what has happened, what the last answer said and what was
    \* true of it
    met, still, unresolved, answer

world  == <<work, head, commits, gitUp, seen, env>>
guard  == <<base, walkFresh, walkFailed>>
views  == <<warm, view, due>>
job    == <<queue, stage, cap, drift, todo>>
batch  == <<asked, wrote>>
vars   == <<world, guard, job, views, batch, met, still, unresolved, answer>>

-----------------------------------------------------------------------------
(* What git and the walk report.                                           *)

HeadTree(h) == IF h = NoHead THEN [f \in Files |-> Absent] ELSE commits[h]

\* The porcelain line of a file: nothing, untracked, deleted or modified.
Mark(was, is) == IF is = was THEN "clean"
                 ELSE IF was = Absent THEN "??"
                 ELSE IF is = Absent THEN "D"
                 ELSE "M"

Status == [f \in Files |-> Mark(HeadTree(head)[f], work[f])]

DirtyOf(status) == {f \in Files : status[f] # "clean"}

\* `git diff --name-only`, which is not asked about a repository without HEAD.
DiffNames(from, to) ==
    IF from = NoHead \/ to = NoHead THEN {}
    ELSE {f \in Files : commits[from][f] # commits[to][f]}

Present == {f \in Files : work[f] # Absent}

\* The part of the tree a set of files names, with its contents.
ContentsOf(S) == [f \in S |-> work[f]]

-----------------------------------------------------------------------------
(* Mutations: plausible slips in the definitions that follow. They are     *)
(* used only to show that each property can fail.                          *)

BaselineAfter_Advances(old, new, resolved) == new
ReDirty_Ignored(old, new) == {}
DriftPaths_NewOnly(old, new) == DirtyOf(new.status)
Deliver_AtOnce(S) ==
    /\ view' = [view EXCEPT !["scss"] =
                  [f \in Files |-> IF warm["scss"] /\ f \in S THEN work[f]
                                   ELSE view["scss"][f]]]
    /\ UNCHANGED <<queue, warm, due>>
ModeSwitch_Unproven(files) == {}
CleanAtCommit_EvenDirty(c) == c.head
Retold_Forgotten(files, f) == files

-----------------------------------------------------------------------------
(* The guard's own decisions.                                              *)

\* A clean tree at a commit may be named by the answer.
CleanAtCommit(c) == IF DirtyOf(c.status) = {} THEN c.head ELSE NoHead

\* An already dirty file that changed again leaves the porcelain as it was:
\* the contents recorded with the two captures are compared instead.
ReDirty(old, new) ==
    {f \in DOMAIN old.fps \cap DOMAIN new.fps : old.fps[f] # new.fps[f]}

DriftPaths(old, new) == DirtyOf(old.status) \cup DirtyOf(new.status)

\* A drift whose committed part is unknown keeps the old baseline.
BaselineAfter(old, new, resolved) == IF resolved THEN new ELSE old

\* After a change of mode every file the walk finds is reindexed.
ModeSwitch(files) == files

\* What "ts" has yet to read after an operation wrote a file.
Retold(files, f) == files \cup {f}

\* A debounced answer repeats the failure of the walk it relies on.
DebouncedFailure == walkFailed

Verdict(how, changed, anchor, failed) ==
    [how |-> how, changed |-> changed, anchor |-> anchor, failed |-> failed]

NoVerdict == Verdict("none", {}, NoHead, FALSE)

\* Walks: complete, or any part of the tree when it fails.
Walks == {[found |-> ContentsOf(Present), failed |-> FALSE]}
            \cup {[found |-> ContentsOf(S), failed |-> TRUE] : S \in SUBSET Present}

\* What differs between two walks: gone, new, or changed.
WalkDrift(old, new) ==
    {f \in DOMAIN old \cup DOMAIN new :
        f \in DOMAIN old \cap DOMAIN new => old[f] # new[f]}

-----------------------------------------------------------------------------
(* Init: a daemon that has just started over a repository.                 *)

Init ==
    /\ env \in Environments
    /\ work \in {t \in [Files -> {0, 1}] : \A f \in Files \ env.files : t[f] = Absent}
    /\ head = IF "unborn" \in env.may THEN NoHead ELSE 1
    /\ commits = IF head = NoHead THEN <<>> ELSE <<work>>
    /\ gitUp = ("noGit" \notin env.may)
    /\ seen = [f \in Files |-> {work[f]}]
    /\ base = None /\ walkFresh = FALSE /\ walkFailed = FALSE
    /\ queue = <<>> /\ stage = "idle" /\ cap = None /\ drift = NoVerdict /\ todo = <<>>
    /\ warm = [p \in Plugins |-> FALSE]
    /\ view = [p \in Plugins |-> Cold]
    /\ due  = [p \in Plugins |-> {}]
    /\ asked = {} /\ wrote = {} /\ met = env.may \cap {"noGit", "unborn"}
    /\ still = FALSE /\ unresolved = FALSE /\ answer = None

-----------------------------------------------------------------------------
(* The world: editors, git, and the watcher, at any moment.                *)

\* Something of these kinds happens, if the environment is one where it may.
Disturbs(kinds) == kinds \subseteq env.may /\ met' = met \cup kinds

Calm == UNCHANGED met

When(condition, kind) == IF condition THEN {kind} ELSE {}

MidBatch == When(stage # "idle", "midBatch")

ComesBack(f, v) == When(v \in seen[f], "revert")

Touched == /\ still' = FALSE
           /\ UNCHANGED <<gitUp, env, guard, job, views, batch, unresolved, answer>>

\* Someone writes, creates or removes a file.
Edit(f, v) ==
    /\ v # work[f]
    /\ Disturbs(MidBatch \cup ComesBack(f, v)
                \cup When(v = Absent, IF stage = "idle" THEN "delete" ELSE "vanish"))
    /\ work' = [work EXCEPT ![f] = v]
    /\ seen' = [seen EXCEPT ![f] = @ \cup {v}]
    /\ Touched
    /\ UNCHANGED <<head, commits>>

\* Someone commits the whole tree.
Commit ==
    /\ Disturbs(MidBatch)
    /\ "noGit" \notin env.may /\ Len(commits) < env.commits
    /\ DirtyOf(Status) # {}
    /\ commits' = Append(commits, work)
    /\ head' = Len(commits) + 1
    /\ Touched
    /\ UNCHANGED <<work, seen>>

\* Someone checks another commit out over a clean tree.
Checkout(c) ==
    /\ Disturbs(MidBatch \cup {"revert"})
    /\ c # head /\ DirtyOf(Status) = {}
    /\ head' = c /\ work' = commits[c]
    /\ Touched
    /\ UNCHANGED <<commits, seen>>

GitComesAndGoes ==
    /\ Disturbs({"gitLost"})
    /\ gitUp' = ~gitUp
    /\ UNCHANGED <<work, head, commits, seen, env, guard, job, views, batch,
                   still, unresolved, answer>>

\* The watcher hands a change to the engine's queue, behind what waits there.
Deliver(S) == /\ queue' = Append(queue, S)
              /\ UNCHANGED views

\* The watcher reports some files: late, twice, without a change, or never.
OnChanged(S) ==
    /\ Disturbs({"watcher"})
    /\ S # {} /\ Len(queue) < QueueBound
    /\ Deliver(S)
    /\ UNCHANGED <<world, guard, stage, cap, drift,
                   todo, batch, still, unresolved, answer>>

\* More than the debounce interval passes since the last walk.
WalkTtlExpires ==
    /\ walkFresh
    /\ walkFresh' = FALSE
    /\ Calm
    /\ UNCHANGED <<world, base, walkFailed, job, views, batch, still, unresolved, answer>>

-----------------------------------------------------------------------------
(* A watcher job: reindex what it names.                                   *)

StartReindexJob ==
    /\ stage = "idle" /\ queue # <<>>
    /\ queue' = Tail(queue)
    /\ stage' = "watched" /\ todo' = Order
    /\ drift' = [NoVerdict EXCEPT !.changed = Head(queue)]
    /\ Calm
    /\ UNCHANGED <<world, guard, cap, views, batch, still, unresolved, answer>>

-----------------------------------------------------------------------------
(* A batch: capture, compare, reindex, serve.                              *)

StartBatch ==
    /\ stage = "idle"
    /\ stage' = "capture"
    /\ cap' = [head |-> None, status |-> None]
    /\ still' = TRUE
    /\ Calm
    /\ UNCHANGED <<world, guard, queue, drift, todo, views, batch, unresolved, answer>>

\* `git rev-parse` and `git status` run side by side; a failed rev-parse
\* reads as a repository without a commit.
ReadHead(h) ==
    /\ stage = "capture" /\ gitUp /\ cap.head = None
    /\ Disturbs(When(h # head, "headFails"))
    /\ cap' = [cap EXCEPT !.head = h]
    /\ UNCHANGED <<world, guard, queue, stage, drift, todo, views, batch, still,
                   unresolved, answer>>

ReadStatus ==
    /\ stage = "capture" /\ gitUp /\ cap.status = None
    /\ cap' = [cap EXCEPT !.status = Status]
    /\ Calm
    /\ UNCHANGED <<world, guard, queue, stage, drift, todo, views, batch, still,
                   unresolved, answer>>

\* The verdict is in: the plugins reindex if something changed.
Conclude(v) ==
    /\ drift' = v
    /\ stage' = IF v.changed = {} THEN "serve" ELSE "reindex"
    /\ todo' = IF v.changed = {} THEN <<>> ELSE Order
    /\ cap' = None
    /\ UNCHANGED <<world, queue, views, batch, still, answer>>

Captured == stage = "capture" /\ cap.head # None /\ cap.status # None

\* The capture with the contents of the dirty files that are still there.
Capture == [mode |-> "git", head |-> cap.head, status |-> cap.status,
            fps |-> ContentsOf(DirtyOf(cap.status) \cap Present)]

SameFingerprint(old, new) == old.head = new.head /\ old.status = new.status

CheckFirst ==
    /\ Captured /\ base = None
    /\ base' = Capture
    /\ Conclude(Verdict("git", {}, CleanAtCommit(Capture), FALSE))
    /\ Calm
    /\ UNCHANGED <<walkFresh, walkFailed, unresolved>>

CheckSame ==
    /\ Captured /\ base # None /\ base.mode = "git"
    /\ SameFingerprint(base, Capture)
    /\ base' = Capture
    /\ Conclude(Verdict("git", ReDirty(base, Capture), CleanAtCommit(Capture), FALSE))
    /\ Calm
    /\ UNCHANGED <<walkFresh, walkFailed, unresolved>>

CheckDrift(resolved) ==
    /\ Captured /\ base # None /\ base.mode = "git"
    /\ ~SameFingerprint(base, Capture)
    /\ ~resolved => NoHead \notin {base.head, cap.head} /\ base.head # cap.head
    /\ Disturbs(When(~resolved, "diffFails"))
    /\ base' = BaselineAfter(base, Capture, resolved)
    /\ LET committed == IF resolved THEN DiffNames(base.head, cap.head) ELSE {} IN
       Conclude(Verdict("git", DriftPaths(base, Capture) \cup committed,
                        CleanAtCommit(Capture), ~resolved))
    /\ unresolved' = ~resolved
    /\ UNCHANGED <<walkFresh, walkFailed>>

\* Git answers again after walks: the two baselines cannot be compared.
CheckBackToGit(w) ==
    /\ Captured /\ base # None /\ base.mode = "walk"
    /\ Disturbs(When(w.failed, "walkFails"))
    /\ base' = Capture
    /\ Conclude(Verdict("git", ModeSwitch(DOMAIN w.found), CleanAtCommit(Capture), w.failed))
    /\ unresolved' = w.failed
    /\ UNCHANGED <<walkFresh, walkFailed>>

\* Git does not answer: the last walk is recent enough.
CheckDebounced ==
    /\ stage = "capture" /\ ~gitUp
    /\ base # None /\ base.mode = "walk" /\ walkFresh
    /\ Conclude(Verdict("debounced", {}, NoHead, DebouncedFailure))
    /\ Calm
    /\ UNCHANGED <<guard, unresolved>>

\* What a walk finds to be different from the baseline, if there is one.
SinceBase(found) == IF base = None THEN {}
                    ELSE IF base.mode = "git" THEN ModeSwitch(DOMAIN found)
                    ELSE WalkDrift(base.found, found)

\* Git does not answer: walk the tree.
CheckWalk(w) ==
    /\ stage = "capture" /\ ~gitUp
    /\ ~(base # None /\ base.mode = "walk" /\ walkFresh)
    /\ Disturbs(When(w.failed, "walkFails"))
    /\ base' = [mode |-> "walk", found |-> w.found]
    /\ walkFresh' = TRUE /\ walkFailed' = w.failed
    /\ unresolved' = w.failed
    /\ Conclude(Verdict("walk", SinceBase(w.found), NoHead, w.failed))

-----------------------------------------------------------------------------
(* The plugins.                                                            *)

\* A plugin nothing has asked yet has nothing to reindex.
Marked(p, S) == IF warm[p] THEN due[p] \cup S ELSE due[p]

Reparsed(p, S) ==
    [f \in Files |-> IF warm[p] /\ f \in S THEN work[f] ELSE view[p][f]]

ReindexPlugin ==
    /\ stage \in {"reindex", "watched"} /\ todo # <<>>
    /\ LET p == Head(todo) IN
       IF p = "ts"
       THEN due' = [due EXCEPT ![p] = Marked(p, drift.changed)] /\ UNCHANGED view
       ELSE view' = [view EXCEPT ![p] = Reparsed(p, drift.changed)] /\ UNCHANGED due
    /\ todo' = Tail(todo)
    /\ stage' = IF Tail(todo) # <<>> THEN stage
                ELSE IF stage = "reindex" THEN "serve" ELSE "idle"
    /\ Calm
    /\ UNCHANGED <<world, guard, queue, cap, drift, warm, batch, still, unresolved, answer>>

\* What the plugin's operations see: a cold plugin reads the tree, "ts" reads
\* the files marked since it last looked.
Seen(p) ==
    IF warm[p] THEN [f \in Files |-> IF f \in due[p] THEN work[f] ELSE view[p][f]]
    ELSE work

\* A plugin shows the tree, but for what the batch itself has written: only
\* "ts" is told of that before the next batch.
ShowsTree(p) == \A f \in Files : Seen(p)[f] # work[f] => p # "ts" /\ f \in wrote

ShowsCommit(p, c) == \A f \in Files \ wrote : Seen(p)[f] = commits[c][f]

\* One operation of the batch asks one plugin; the note of the batch goes with
\* the answer, and names no commit when the check failed.
RunOp(p) ==
    /\ stage = "serve"
    /\ view' = [view EXCEPT ![p] = Seen(p)]
    /\ warm' = [warm EXCEPT ![p] = TRUE]
    /\ due' = [due EXCEPT ![p] = {}]
    /\ asked' = asked \cup {p}
    /\ answer' = [how |-> drift.how, unverified |-> drift.failed,
                  indexedAt |-> IF drift.failed THEN NoHead ELSE drift.anchor,
                  still |-> still, asCold |-> ShowsTree(p),
                  asCommit |-> drift.anchor # NoHead => ShowsCommit(p, drift.anchor)]
    /\ Calm
    /\ UNCHANGED <<world, guard, job, wrote, still, unresolved>>

\* An operation that has planned an edit over "ts" writes it, and tells "ts",
\* and no other plugin, what it has touched.
ApplyOp(f, v) ==
    /\ stage = "serve" /\ "ts" \in asked
    /\ v # work[f]
    /\ Disturbs({"apply"} \cup ComesBack(f, v) \cup When(v = Absent, "delete"))
    /\ work' = [work EXCEPT ![f] = v]
    /\ seen' = [seen EXCEPT ![f] = @ \cup {v}]
    /\ due' = [due EXCEPT !["ts"] = Retold(@, f)]
    /\ wrote' = wrote \cup {f}
    /\ answer' = None
    /\ UNCHANGED <<head, commits, gitUp, env, guard, job, warm, view, asked, still, unresolved>>

FinishBatch ==
    /\ stage = "serve"
    /\ stage' = "idle" /\ drift' = NoVerdict /\ answer' = None /\ still' = FALSE
    /\ asked' = {} /\ wrote' = {}
    /\ Calm
    /\ UNCHANGED <<world, guard, queue, cap, todo, views, unresolved>>

-----------------------------------------------------------------------------
World == \/ \E f \in env.files, v \in env.contents : Edit(f, v)
         \/ Commit
         \/ \E c \in 1 .. Len(commits) : Checkout(c)
         \/ GitComesAndGoes
         \/ \E S \in SUBSET env.files : OnChanged(S)
         \/ WalkTtlExpires

Check == \/ \E h \in {head, NoHead} : ReadHead(h)
         \/ ReadStatus
         \/ CheckFirst
         \/ CheckSame
         \/ \E resolved \in BOOLEAN : CheckDrift(resolved)
         \/ \E w \in Walks : CheckBackToGit(w)
         \/ CheckDebounced
         \/ \E w \in Walks : CheckWalk(w)

Engine == \/ StartReindexJob
          \/ StartBatch
          \/ Check
          \/ ReindexPlugin
          \/ \E p \in Plugins : RunOp(p)
          \/ \E f \in env.files, v \in env.contents : ApplyOp(f, v)
          \/ FinishBatch

Next == World \/ Engine

Spec == Init /\ [][Next]_vars

-----------------------------------------------------------------------------
(* Properties.                                                             *)

Paths == SUBSET Files

\* Types, and the shape of the engine's job: a reindex has work left, a
\* capture exists exactly while one is taken, a cold plugin has nothing due.
TypeOK ==
    /\ work \in Tree /\ head \in 0 .. Len(commits) /\ gitUp \in BOOLEAN
    /\ \A i \in DOMAIN commits : commits[i] \in Tree
    /\ base # None => base.mode \in {"git", "walk"}
    /\ walkFailed => base # None
    /\ stage \in {"idle", "capture", "reindex", "serve", "watched"}
    /\ (stage = "capture") = (cap # None)
    /\ (stage \in {"reindex", "watched"}) = (todo # <<>>)
    /\ drift.changed \in Paths
    /\ \A p \in Plugins : view[p] \in Tree /\ (due[p] # {} => warm[p])

(* What the guard can handle, of what has happened so far.                 *)

\* The tree moved at any moment, and no contents and no commit came back.
Moving ==
    /\ {"revert", "vanish", "headFails", "unborn"} \cap met = {}
    /\ "delete" \in met => {"gitLost", "walkFails"} \cap met = {}
    /\ ~({"gitLost", "walkFails"} \subseteq met)

\* The past came back, and the tree was still while the engine worked.
Reverting == met \subseteq {"revert", "delete"}

Handled == Moving \/ Reverting

\* "Cold equals warm", as the code has it: while the tree does not move during
\* the batch, an answer that does not declare itself unverified is the one a
\* daemon started this instant would give. An answer inside the walk's
\* debounce window is exempt, as the architecture says, and so is, for the
\* plugins other than "ts", a file the batch itself has written.
WarmIsCold ==
    answer # None /\ answer.still /\ ~answer.unverified /\ answer.how # "debounced"
        => answer.asCold

\* What holds of it: as long as no two kinds of disturbance have met that the
\* guard cannot tell from a quiet tree. Edits, commits, lost and late watcher
\* events and failing diffs do not break it, nor do the writes of operations;
\* the past coming back does, once it met any of these.
ColdEqualsWarm == Handled => WarmIsCold

\* An answer that names a commit shows that commit's contents, the tree having
\* been still, but for what the batch itself wrote: under the same exemption
\* the anchor is never stamped over a view of something else.
AnchorIsHonest ==
    Handled /\ answer # None /\ answer.still /\ answer.indexedAt # NoHead
        => answer.asCommit

\* Once a check could not establish what changed, every answer says so until a
\* later check does establish it, under the same exemption.
UnverifiedIsSticky == Handled /\ answer # None /\ unresolved => answer.unverified

\* All the operations of a batch see one view of a plugin: once the batch has
\* asked it, its view moves only in files that the batch itself wrote, and
\* only if it is "ts", whatever the watcher, git and editors do meanwhile.
OneViewPerBatch ==
    [][\A p \in asked, f \in Files :
          view'[p][f] # view[p][f] => p = "ts" /\ f \in wrote]_vars
=============================================================================
