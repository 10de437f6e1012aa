-------------------------- MODULE Freshness_proofs --------------------------
(***************************************************************************)
(* Proofs about Freshness and FileStamp.                                   *)
(*                                                                         *)
(* Freshness, for any files, contents, commits and number of batches, and  *)
(* in every environment: along a behaviour, for as long as what has        *)
(* happened is Handled. The heart of the invariant is                      *)
(* BaseIsTold: a file that is as the baseline says has been read by every  *)
(* warm plugin since it is so. It survives an edit because contents that   *)
(* come back to what the baseline says must have come from somewhere:      *)
(* while Moving, nothing known comes back, and while Reverting the         *)
(* plugins hold exactly the baseline (InStep). A check then only has to    *)
(* name every file on which the new baseline differs from the old one      *)
(* (GoodBase) and to end, over a still tree, in a baseline equal to it     *)
(* (GoodVerdict); that is proved for each of the six ways to conclude.     *)
(*                                                                         *)
(* FileStamp, for every clock, every window no smaller than the resolution *)
(* of the file system, and any number of writes. The invariant says what a *)
(* record is worth at every step of a check: a file that differs from what *)
(* the plugin read is told apart from its record either by its time or by  *)
(* the record being too young to trust (Betrayed). A write keeps it        *)
(* because a write stamps the file less than Resolution behind the clock,  *)
(* and the clock is never behind the one the record was taken by.          *)
(***************************************************************************)
EXTENDS Freshness, FileStamp, TLAPS

-----------------------------------------------------------------------------
(* The invariant.                                                          *)

Trees == [Files -> Nat]
Jobs == {"reindex", "watched"}
Verdicts == [how : {"none", "git", "walk", "debounced"}, changed : SUBSET Files,
             anchor : 0 .. Len(commits), failed : BOOLEAN]
Captures == [head : {None} \cup 1 .. Len(commits), status : {None} \cup [Files -> Marks]]

IsBaseline(b) ==
    \/ b.mode = "walk" /\ DOMAIN b.found \subseteq Files
    \/ /\ b.mode = "git" /\ b.head \in 1 .. Len(commits) /\ b.status \in [Files -> Marks]
       /\ \A f \in Files : b.status[f] \in {"M", "??"} => f \in DOMAIN b.fps

\* The verdict of the batch is being acted on.
InUse == stage \in {"reindex", "serve"}

Shape ==
    /\ env \in Environments /\ Handled /\ ("noGit" \in env.may => "noGit" \in met)
    /\ work \in Trees /\ commits \in Seq(Trees) /\ head \in 1 .. Len(commits)
    /\ gitUp \in BOOLEAN /\ seen \in [Files -> SUBSET Nat]
    /\ warm \in [Plugins -> BOOLEAN] /\ view \in [Plugins -> Trees]
    /\ due \in [Plugins -> SUBSET Files]
    /\ queue \in Seq(SUBSET Files) /\ drift \in Verdicts
    /\ still \in BOOLEAN /\ unresolved \in BOOLEAN /\ walkFailed \in BOOLEAN
    /\ base = None => ~unresolved /\ \A p \in Plugins : ~warm[p]
    /\ base # None => IsBaseline(base)
    /\ InUse => base # None
    /\ stage \in {"idle", "capture", "serve"} \cup Jobs
    /\ stage = "capture" => cap \in Captures
    /\ IF stage \in Jobs THEN todo \in {Order, <<"scss">>} ELSE todo = <<>>
    /\ answer # None => stage = "serve"
    /\ wrote \in SUBSET Files /\ (wrote # {} => stage = "serve")

\* What a baseline says of one file.
Content(b, f) ==
    IF b.mode = "walk" THEN IF f \in DOMAIN b.found THEN b.found[f] ELSE Absent
    ELSE IF b.status[f] = "clean" THEN commits[b.head][f]
    ELSE IF b.status[f] = "D" THEN Absent
    ELSE b.fps[f]

\* Everything the engine knows of a file was once in the file.
Known ==
    /\ \A f \in Files : work[f] \in seen[f]
    /\ \A f \in Files : \A i \in 1 .. Len(commits) : commits[i][f] \in seen[f]
    /\ \A p \in Plugins : warm[p] => \A f \in Files : view[p][f] \in seen[f]
    /\ base # None => \A f \in Files :
          \/ Content(base, f) \in seen[f]
          \/ Content(base, f) = Absent /\ "walkFails" \in met

\* The plugin has still to be told of the drift.
Unlooked(p) == stage = "reindex" /\ (p = "ts" => todo = Order)

\* A file whose content the plugin holds, and has no reason to read again.
Held(p, f) == warm[p] /\ f \notin due[p] /\ ~(Unlooked(p) /\ f \in drift.changed)

\* A file that is as the baseline says has been read since it is.
BaseIsTold ==
    base # None => \A p \in Plugins : \A f \in Files :
        Held(p, f) /\ work[f] = Content(base, f) => view[p][f] = work[f]

MayUseGit == "noGit" \notin env.may \/ "gitLost" \in met
MayWalk == "noGit" \in env.may \/ "gitLost" \in met

Modes ==
    /\ "gitLost" \notin met => gitUp = ("noGit" \notin env.may)
    /\ base # None => (IF base.mode = "walk" THEN MayWalk ELSE MayUseGit)
    /\ stage = "capture" /\ (cap.head # None \/ cap.status # None) => MayUseGit

\* What has been captured, while the tree has not moved, and in any case.
CaptureIsTrue ==
    stage = "capture" =>
        /\ still \/ Reverting =>
              /\ cap.head # None => cap.head = head
              /\ cap.status # None => cap.status = Status
        /\ cap.status # None => \A f \in Files :
              /\ cap.status[f] \in {"M", "??"} => work[f] # Absent
              /\ cap.status[f] = "D" => Absent \in seen[f]

\* A verdict that claims to be complete is.
VerdictIsTrue ==
    InUse /\ still /\ ~drift.failed =>
        /\ drift.how # "debounced" =>
              \A p \in Plugins : \A f \in Files :
                 Held(p, f) => view[p][f] = work[f] \/ (p # "ts" /\ f \in wrote)
        /\ drift.anchor # NoHead =>
              /\ drift.how = "git"
              /\ \A f \in Files \ wrote : work[f] = commits[drift.anchor][f]

DoubtIsTold ==
    /\ InUse /\ unresolved => drift.failed
    /\ unresolved /\ base.mode = "walk" => walkFailed
    /\ unresolved /\ base.mode # "walk" =>
          base.head < head /\ (stage = "capture" /\ cap.head # None => base.head < cap.head)

\* Nothing comes back.
Onward ==
    Moving =>
        /\ head = Len(commits)
        /\ "delete" \notin met =>
              \A f \in Files : work[f] = Absent => seen[f] = {Absent}
        /\ base # None /\ base.mode # "walk" /\ stage = "capture" /\ cap.head # None
              => base.head <= cap.head

\* Everything comes back, but not while the engine works.
InStep ==
    Reverting =>
        /\ stage # "watched" /\ queue = <<>> /\ ~unresolved
        /\ base # None => \A p \in Plugins : \A f \in Files :
              Held(p, f) => view[p][f] = Content(base, f)
        /\ InUse => \A f \in Files : Content(base, f) = work[f]

AnswerIsTrue ==
    answer # None =>
        /\ answer.still /\ ~answer.unverified /\ answer.how # "debounced" => answer.asCold
        /\ answer.still /\ answer.indexedAt # NoHead => answer.asCommit
        /\ unresolved => answer.unverified

Told == /\ Shape /\ Known /\ BaseIsTold /\ Modes /\ CaptureIsTrue
        /\ VerdictIsTrue /\ DoubtIsTold /\ Onward /\ InStep /\ AnswerIsTrue

-----------------------------------------------------------------------------
LEMMA OrderFacts ==
  /\ Order # <<>> /\ <<"scss">> # <<>> /\ Order # <<"scss">>
  /\ Head(Order) = "ts" /\ Tail(Order) = <<"scss">>
  /\ Head(<<"scss">>) = "scss" /\ Tail(<<"scss">>) = <<>>
  <1>1. Len(Order) = 2 /\ Len(<<"scss">>) = 1 /\ Len(<< >>) = 0
    BY DEF Order
  <1>2. Tail(Order) = <<"scss">> /\ Tail(<<"scss">>) = <<>>
    BY DEF Order
  <1> QED BY <1>1, <1>2 DEF Order

LEMMA MarksDiffer ==
  ASSUME NEW m \in Marks
  PROVE  m \in {"M", "??"} <=> m # "clean" /\ m # "D"
  BY DEF Marks

LEMMA MarkFacts ==
  ASSUME NEW was, NEW is
  PROVE  /\ Mark(was, is) \in Marks
         /\ Mark(was, is) = "clean" <=> is = was
         /\ Mark(was, is) = "D" => is = Absent
         /\ Mark(was, is) \in {"M", "??"} => is # Absent
  BY DEF Mark, Marks

LEMMA StatusFacts ==
  ASSUME Shape
  PROVE  /\ Status \in [Files -> Marks]
         /\ \A f \in Files :
              /\ Status[f] = "clean" <=> work[f] = commits[head][f]
              /\ Status[f] = "D" => work[f] = Absent
              /\ Status[f] \in {"M", "??"} => work[f] # Absent
  <1>1. HeadTree(head) = commits[head]
    BY DEF HeadTree, NoHead, Shape
  <1>2. \A f \in Files : Status[f] = Mark(commits[head][f], work[f])
    BY <1>1 DEF Status
  <1>3. Status \in [Files -> Marks]
    BY MarkFacts DEF Status
  <1> QED BY <1>2, <1>3, MarkFacts

LEMMA WalkFacts ==
  ASSUME Shape, NEW w \in Walks
  PROVE  /\ w.failed \in BOOLEAN
         /\ DOMAIN w.found \subseteq Present
         /\ \A f \in DOMAIN w.found : w.found[f] = work[f]
         /\ ~w.failed => DOMAIN w.found = Present
         /\ w.found \in PartialTrees
  <1>1. \/ w.found = ContentsOf(Present) /\ w.failed = FALSE
        \/ w.failed = TRUE /\ \E S \in SUBSET Present : w.found = ContentsOf(S)
    BY DEF Walks
  <1>2. PICK S \in SUBSET Present : w.found = ContentsOf(S)
    BY <1>1
  <1>3. w.found \in [S -> Nat] /\ S \in SUBSET Files
    BY <1>2 DEF ContentsOf, Present, Shape, Trees
  <1>4. w.found \in PartialTrees
    BY <1>3 DEF PartialTrees
  <1>5. DOMAIN w.found = S /\ \A f \in S : w.found[f] = work[f]
    BY <1>2 DEF ContentsOf
  <1>6. ~w.failed => DOMAIN w.found = Present
    BY <1>1 DEF ContentsOf
  <1> QED BY <1>1, <1>4, <1>5, <1>6

\* The steps that take a batch from its capture to its verdict.
Concludes ==
    \/ CheckFirst \/ CheckSame \/ CheckDebounced
    \/ \E resolved \in BOOLEAN : CheckDrift(resolved)
    \/ \E w \in Walks : CheckBackToGit(w) \/ CheckWalk(w)

\* The steps of the world that change the tree or the history.
Moves == \/ \E f \in env.files, v \in env.contents : Edit(f, v)
         \/ Commit
         \/ \E c \in 1 .. Len(commits) : Checkout(c)

\* What a step adds to what has happened, if the guard can still handle it.
Grows == /\ met \subseteq met' /\ env' = env
         /\ Handled' /\ Handled /\ (Moving' => Moving) /\ (Reverting' => Reverting)

\* Some operation writes a file.
Applies == \E f \in env.files, v \in env.contents : ApplyOp(f, v)

LEMMA Steps ==
  ASSUME Next
  PROVE  \/ Moves \/ Concludes
         \/ GitComesAndGoes \/ WalkTtlExpires \/ \E S \in SUBSET env.files : OnChanged(S)
         \/ StartReindexJob \/ StartBatch \/ ReadStatus
         \/ \E h \in {head, NoHead} : ReadHead(h)
         \/ ReindexPlugin \/ FinishBatch \/ Applies \/ \E p \in Plugins : RunOp(p)
  BY DEF Next, World, Engine, Check, Moves, Concludes, Applies

LEMMA StepsOnlyAdd ==
  ASSUME [Next]_vars, Handled'
  PROVE  Grows
  <1>1. met \subseteq met' /\ env' = env
    <2>1. CASE Moves
      BY <2>1 DEF Moves, Edit, Commit, Checkout, Touched, Disturbs
    <2>2. CASE Concludes
      BY <2>2 DEF Concludes, CheckFirst, CheckSame, CheckDrift, CheckBackToGit,
         CheckDebounced, CheckWalk, Conclude, Disturbs, Calm, world
    <2>3. CASE GitComesAndGoes \/ WalkTtlExpires \/ \E S \in SUBSET env.files : OnChanged(S)
      BY <2>3 DEF GitComesAndGoes, WalkTtlExpires, OnChanged, Disturbs, Calm, world
    <2>4. CASE StartReindexJob \/ StartBatch \/ ReadStatus \/ \E h \in {head, NoHead} : ReadHead(h)
      BY <2>4 DEF StartReindexJob, StartBatch, ReadStatus, ReadHead, Disturbs, Calm, world
    <2>5. CASE ReindexPlugin \/ FinishBatch \/ Applies \/ \E p \in Plugins : RunOp(p)
      BY <2>5 DEF ReindexPlugin, FinishBatch, Applies, ApplyOp, RunOp, Disturbs, Calm, world
    <2>6. CASE UNCHANGED vars
      BY <2>6 DEF vars, world
    <2> QED BY <2>1, <2>2, <2>3, <2>4, <2>5, <2>6, Steps
  <1>2. (Moving' => Moving) /\ (Reverting' => Reverting)
    BY <1>1 DEF Moving, Reverting
  <1> QED BY <1>1, <1>2 DEF Grows, Handled

LEMMA MovesKeepShape ==
  ASSUME Shape, Grows, Moves
  PROVE  Shape'
  <1>. USE FreshnessAssumption
  <1>1. /\ work' \in Trees /\ commits' \in Seq(Trees) /\ head' \in 1 .. Len(commits')
        /\ seen' \in [Files -> SUBSET Nat]
    <2>1. CASE \E f \in env.files, v \in env.contents : Edit(f, v)
      <3>1. PICK f \in env.files, v \in env.contents : Edit(f, v)
        BY <2>1
      <3>2. f \in Files /\ v \in Nat
        BY DEF Shape
      <3> QED BY <3>1, <3>2 DEF Shape, Edit, Trees
    <2>2. CASE Commit
      BY <2>2 DEF Shape, Commit
    <2>3. CASE \E c \in 1 .. Len(commits) : Checkout(c)
      BY <2>3 DEF Shape, Checkout
    <2> QED BY <2>1, <2>2, <2>3 DEF Moves
  <1>2. /\ UNCHANGED <<gitUp, env, guard, job, views, batch, unresolved, answer>>
        /\ still' = FALSE /\ Len(commits') >= Len(commits)
    <2>1. Touched
      BY DEF Moves, Edit, Commit, Checkout
    <2>2. commits' = commits \/ commits' = Append(commits, work)
      BY DEF Moves, Edit, Commit, Checkout
    <2> QED BY <2>1, <2>2 DEF Touched, Shape
  <1>3. base' # None => IsBaseline(base)'
    BY <1>1, <1>2 DEF Shape, guard, IsBaseline
  <1>4. drift' \in Verdicts' /\ (stage' = "capture" => cap' \in Captures')
    BY <1>1, <1>2 DEF Shape, job, Verdicts, Captures
  <1> QED
    BY <1>1, <1>2, <1>3, <1>4 DEF Shape, InUse, guard, job, views, batch, Grows

\* The steps that leave the tree, the history, the baseline and the views alone.
Quiets ==
    \/ GitComesAndGoes \/ WalkTtlExpires \/ \E S \in SUBSET env.files : OnChanged(S)
    \/ StartReindexJob \/ StartBatch \/ ReadStatus \/ FinishBatch
    \/ \E h \in {head, NoHead} : ReadHead(h)

LEMMA VerdictTypes ==
  ASSUME Shape, NEW how \in {"none", "git", "walk", "debounced"},
         NEW changed \in SUBSET Files, NEW anchor \in {NoHead} \cup 1 .. Len(commits),
         NEW failed \in BOOLEAN
  PROVE  Verdict(how, changed, anchor, failed) \in Verdicts
  <1>1. anchor \in 0 .. Len(commits)
    BY DEF NoHead, Shape
  <1> QED BY <1>1 DEF Verdict, Verdicts

LEMMA NoVerdictTypes ==
  ASSUME Shape, NEW S \in SUBSET Files
  PROVE  NoVerdict \in Verdicts /\ [NoVerdict EXCEPT !.changed = S] \in Verdicts
  <1>1. NoVerdict \in Verdicts
    BY VerdictTypes DEF NoVerdict
  <1> QED BY <1>1 DEF Verdicts

LEMMA QuietsKeepShape ==
  ASSUME Shape, Grows, Quiets
  PROVE  Shape'
  <1>. USE FreshnessAssumption
       DEF Shape, InUse, IsBaseline, Jobs, guard, world, views, job, batch, Grows
  <1>1. CASE GitComesAndGoes
    BY <1>1 DEF GitComesAndGoes, Verdicts, Captures
  <1>2. CASE WalkTtlExpires
    BY <1>2 DEF WalkTtlExpires, Verdicts, Captures
  <1>3. CASE \E S \in SUBSET env.files : OnChanged(S)
    BY <1>3 DEF OnChanged, Deliver, Verdicts, Captures
  <1>4. CASE StartReindexJob
    <2>1. Head(queue) \in SUBSET Files /\ Tail(queue) \in Seq(SUBSET Files)
      BY <1>4 DEF StartReindexJob
    <2>2. drift' \in Verdicts'
      BY <1>4, <2>1, NoVerdictTypes DEF StartReindexJob, Verdicts
    <2> QED BY <1>4, <2>1, <2>2, OrderFacts DEF StartReindexJob
  <1>5. CASE StartBatch
    BY <1>5 DEF StartBatch, Verdicts, Captures
  <1>6. CASE ReadStatus
    BY <1>6, StatusFacts DEF ReadStatus, Verdicts, Captures
  <1>7. CASE FinishBatch
    <2>1. drift' \in Verdicts'
      BY <1>7, NoVerdictTypes DEF FinishBatch, Verdicts
    <2> QED BY <1>7, <2>1 DEF FinishBatch
  <1>8. CASE \E h \in {head, NoHead} : ReadHead(h)
    <2>1. PICK h \in {head, NoHead} : ReadHead(h)
      BY <1>8
    <2>2. h = head
      BY <2>1 DEF ReadHead, Disturbs, When, Handled, Moving, Reverting
    <2>3. cap' \in Captures'
      BY <2>1, <2>2 DEF ReadHead, Captures
    <2> QED BY <2>1, <2>3 DEF ReadHead, Verdicts
  <1> QED BY <1>1, <1>2, <1>3, <1>4, <1>5, <1>6, <1>7, <1>8 DEF Quiets

LEMMA CaptureFacts ==
  ASSUME Shape, Known, CaptureIsTrue, Captured
  PROVE  /\ Capture # None /\ IsBaseline(Capture) /\ Capture.mode = "git"
         /\ Capture.head = cap.head /\ cap.head \in 1 .. Len(commits)
         /\ Capture.status = cap.status
         /\ \A f \in Files : Content(Capture, f) \in seen[f]
         /\ still \/ Reverting => \A f \in Files : Content(Capture, f) = work[f]
         /\ CleanAtCommit(Capture) \in {NoHead} \cup 1 .. Len(commits)
         /\ still /\ CleanAtCommit(Capture) # NoHead
               => work = commits[CleanAtCommit(Capture)]
  <1>. DEFINE D == DirtyOf(cap.status) \cap Present
  <1>1. cap.head \in 1 .. Len(commits) /\ cap.status \in [Files -> Marks]
    BY DEF Captured, Shape, Captures
  <1>2. /\ Capture.mode = "git" /\ Capture.head = cap.head /\ Capture.status = cap.status
        /\ DOMAIN Capture.fps = D /\ \A f \in D : Capture.fps[f] = work[f]
    BY DEF Capture, ContentsOf
  <1>3. \A f \in Files : cap.status[f] \in {"M", "??"} => f \in D
    BY DEF CaptureIsTrue, Captured, DirtyOf, Present
  <1>4. Capture # None
    <2>1. Capture.fps \in [D -> Nat]
      BY DEF Capture, ContentsOf, Shape, Trees, Present
    <2>2. D \in SUBSET Files
      BY DEF Present
    <2>3. Capture.fps \in PartialTrees
      BY <2>1, <2>2 DEF PartialTrees
    <2>4. Capture \in GitBase
      BY <1>1, <2>3 DEF Capture, GitBase
    <2> QED BY <2>4, FreshnessAssumption
  <1>5. \A f \in Files :
          \/ cap.status[f] = "clean" /\ Content(Capture, f) = commits[cap.head][f]
          \/ cap.status[f] = "D" /\ Content(Capture, f) = Absent
          \/ cap.status[f] \in {"M", "??"} /\ Content(Capture, f) = work[f]
    BY <1>1, <1>2, <1>3 DEF Content, Marks
  <1>6. \A f \in Files : Content(Capture, f) \in seen[f]
    <2>1. TAKE f \in Files
    <2>2. CASE cap.status[f] = "clean"
      BY <1>1, <1>5, <2>2, MarksDiffer DEF Known, Marks
    <2>3. CASE cap.status[f] = "D"
      BY <1>5, <2>3 DEF CaptureIsTrue, Captured
    <2>4. CASE cap.status[f] \in {"M", "??"}
      BY <1>5, <2>4 DEF Known
    <2> QED BY <1>1, <2>2, <2>3, <2>4 DEF Marks
  <1>7. ASSUME still \/ Reverting, NEW f \in Files
        PROVE  Content(Capture, f) = work[f]
    <2>1. cap.head = head /\ cap.status[f] = Status[f]
      BY <1>7 DEF CaptureIsTrue, Captured
    <2> QED BY <1>5, <2>1, StatusFacts
  <1>8. CleanAtCommit(Capture) # NoHead
           => /\ CleanAtCommit(Capture) = cap.head
              /\ \A f \in Files : cap.status[f] = "clean"
    BY <1>2 DEF CleanAtCommit, DirtyOf
  <1>9. ASSUME still, CleanAtCommit(Capture) # NoHead
        PROVE  work = commits[CleanAtCommit(Capture)]
    <2>1. \A f \in Files : work[f] = commits[cap.head][f]
      BY <1>5, <1>7, <1>8, <1>9
    <2>2. commits[cap.head] \in Trees /\ work \in Trees
      BY <1>1 DEF Shape
    <2> QED BY <1>8, <1>9, <2>1, <2>2 DEF Trees
  <1>10. IsBaseline(Capture)
    BY <1>1, <1>2, <1>3 DEF IsBaseline
  <1> QED BY <1>1, <1>2, <1>4, <1>6, <1>7, <1>8, <1>9, <1>10

LEMMA WalkBaseFacts ==
  ASSUME Shape, Known, NEW w \in Walks,
         NEW b, b = [mode |-> "walk", found |-> w.found]
  PROVE  /\ b # None /\ IsBaseline(b) /\ b.mode = "walk" /\ b.found = w.found
         /\ \A f \in Files :
              Content(b, f) \in seen[f] \/ (Content(b, f) = Absent /\ w.failed)
         /\ ~w.failed => \A f \in Files : Content(b, f) = work[f]
  <1>1. b \in WalkBase /\ b.mode = "walk" /\ b.found = w.found
    BY WalkFacts DEF WalkBase
  <1>2. \A f \in Files : Content(b, f) = IF f \in DOMAIN w.found THEN work[f] ELSE Absent
    BY <1>1, WalkFacts DEF Content
  <1>3. ~w.failed => \A f \in Files : Content(b, f) = work[f]
    BY <1>2, WalkFacts DEF Present
  <1> QED BY <1>1, <1>2, <1>3, WalkFacts, FreshnessAssumption DEF IsBaseline, Known, Present

\* What a verdict and the baseline it leaves are worth.
GoodBase ==
    /\ base' # None /\ IsBaseline(base')
    /\ IF base'.mode = "walk" THEN MayWalk ELSE MayUseGit
    /\ \A f \in Files :
          \/ Content(base', f) \in seen[f]
          \/ Content(base', f) = Absent /\ "walkFails" \in met'
    /\ base # None => \A f \in Files \ drift'.changed :
          \/ Content(base', f) = Content(base, f)
          \/ ~Reverting' /\ work[f] = Absent /\ seen[f] = {Absent}

GoodVerdict ==
    /\ drift' \in Verdicts
    /\ (still \/ Reverting') /\ ~drift'.failed /\ drift'.how # "debounced"
          => \A f \in Files : Content(base', f) = work[f]
    /\ drift'.anchor # NoHead
          => drift'.how = "git" /\ (still => work = commits[drift'.anchor])
    /\ Reverting' => ~drift'.failed /\ drift'.how # "debounced"

GoodDoubt ==
    /\ walkFailed' \in BOOLEAN /\ unresolved' \in BOOLEAN
    /\ unresolved' =>
          /\ drift'.failed /\ ~Reverting'
          /\ IF base'.mode = "walk" THEN walkFailed' ELSE base'.head < head

Good == GoodBase /\ GoodVerdict /\ GoodDoubt

LEMMA FirstIsGood ==
  ASSUME Told, Grows, CheckFirst
  PROVE  Good
  <1>1. Shape /\ Known /\ CaptureIsTrue /\ Captured /\ Modes
    BY DEF Told, CheckFirst
  <1>2. /\ base = None /\ base' = Capture /\ walkFailed' = walkFailed
        /\ unresolved' = unresolved /\ ~unresolved /\ walkFailed \in BOOLEAN
        /\ drift' = Verdict("git", {}, CleanAtCommit(Capture), FALSE)
    BY <1>1 DEF CheckFirst, Conclude, Shape
  <1>3. drift' \in Verdicts
    BY <1>1, <1>2, CaptureFacts, VerdictTypes
  <1>4. MayUseGit
    BY <1>1 DEF Modes, Captured
  <1>5. GoodBase
    BY <1>1, <1>2, <1>4, CaptureFacts DEF GoodBase, Grows
  <1>6. GoodVerdict
    BY <1>1, <1>2, <1>3, CaptureFacts DEF GoodVerdict, Grows, Verdict
  <1>7. GoodDoubt
    <2>1. unresolved' = FALSE /\ walkFailed' \in BOOLEAN
      BY <1>1, <1>2 DEF Shape
    <2> QED BY <2>1 DEF GoodDoubt
  <1> QED BY <1>5, <1>6, <1>7 DEF Good

LEMMA SameIsGood ==
  ASSUME Told, Grows, CheckSame
  PROVE  Good
  <1>1. Shape /\ Known /\ CaptureIsTrue /\ Captured /\ Modes /\ DoubtIsTold
    BY DEF Told, CheckSame
  <1>2. /\ base # None /\ base.mode = "git" /\ IsBaseline(base)
        /\ base.head = cap.head /\ base.status = cap.status
        /\ base' = Capture /\ walkFailed' = walkFailed /\ unresolved' = unresolved
        /\ drift' = Verdict("git", ReDirty(base, Capture), CleanAtCommit(Capture), FALSE)
    BY <1>1, CaptureFacts DEF CheckSame, Conclude, Shape, SameFingerprint
  <1>3. ReDirty(base, Capture) \subseteq Files
    BY DEF ReDirty, Capture, ContentsOf, Present
  <1>4. drift' \in Verdicts
    BY <1>1, <1>2, <1>3, CaptureFacts, VerdictTypes
  <1>5. \A f \in Files \ ReDirty(base, Capture) : Content(Capture, f) = Content(base, f)
    <2>1. TAKE f \in Files \ ReDirty(base, Capture)
    <2>2. /\ Capture.mode = "git" /\ Capture.head = base.head /\ Capture.status = base.status
          /\ IsBaseline(Capture) /\ base.status \in [Files -> Marks]
      BY <1>1, <1>2, CaptureFacts DEF IsBaseline
    <2>3. base.status[f] \in {"M", "??"} => base.fps[f] = Capture.fps[f]
      BY <1>2, <2>2 DEF IsBaseline, ReDirty
    <2> QED BY <1>2, <2>2, <2>3, MarksDiffer DEF Content
  <1>6. MayUseGit
    BY <1>1 DEF Modes, Captured
  <1>7. GoodBase
    BY <1>1, <1>2, <1>5, <1>6, CaptureFacts DEF GoodBase, Grows, Verdict
  <1>8. GoodVerdict
    BY <1>1, <1>2, <1>4, CaptureFacts DEF GoodVerdict, Grows, Verdict
  <1>9. GoodDoubt
    <2>1. ~unresolved
      BY <1>1, <1>2, CaptureFacts DEF DoubtIsTold, Captured, Shape
    <2>2. unresolved' = FALSE /\ walkFailed' \in BOOLEAN
      BY <1>1, <1>2, <2>1 DEF Shape
    <2> QED BY <2>2 DEF GoodDoubt
  <1> QED BY <1>7, <1>8, <1>9 DEF Good

LEMMA DriftIsGood ==
  ASSUME Told, Grows, NEW resolved \in BOOLEAN, CheckDrift(resolved)
  PROVE  Good
  <1>. DEFINE committed == IF resolved THEN DiffNames(base.head, cap.head) ELSE {}
              changed == DriftPaths(base, Capture) \cup committed
  <1>1. Shape /\ Known /\ CaptureIsTrue /\ Captured /\ Modes /\ Onward
    BY DEF Told, CheckDrift
  <1>2. /\ base # None /\ base.mode = "git" /\ IsBaseline(base)
        /\ base' = (IF resolved THEN Capture ELSE base)
        /\ walkFailed' = walkFailed /\ unresolved' = ~resolved
        /\ drift' = Verdict("git", changed, CleanAtCommit(Capture), ~resolved)
    BY <1>1 DEF CheckDrift, Conclude, Shape, BaselineAfter
  <1>3. changed \subseteq Files
    BY DEF DriftPaths, DirtyOf, DiffNames
  <1>4. drift' \in Verdicts
    BY <1>1, <1>2, <1>3, CaptureFacts, VerdictTypes
  <1>5. ASSUME resolved, NEW f \in Files \ changed
        PROVE  Content(Capture, f) = Content(base, f)
    <2>1. base.status[f] = "clean" /\ Capture.status[f] = "clean"
      BY DEF DriftPaths, DirtyOf
    <2>2. base.head \in 1 .. Len(commits) /\ cap.head \in 1 .. Len(commits)
      BY <1>1, <1>2, CaptureFacts DEF IsBaseline
    <2>3. commits[base.head][f] = commits[cap.head][f]
      BY <1>5, <2>2 DEF DiffNames, NoHead
    <2> QED BY <1>1, <1>2, <2>1, <2>3, CaptureFacts DEF Content
  <1>6. MayUseGit
    BY <1>1 DEF Modes, Captured
  <1>7. GoodBase
    <2>1. CASE resolved
      BY <1>1, <1>2, <1>5, <1>6, <2>1, CaptureFacts DEF GoodBase, Grows, Verdict
    <2>2. CASE ~resolved
      BY <1>1, <1>2, <1>6, <2>2 DEF GoodBase, Known, Grows
    <2> QED BY <2>1, <2>2
  <1>8. ASSUME ~resolved
        PROVE  ~Reverting' /\ base.head < head
    <2>1. ~Reverting' /\ Moving
      BY <1>8 DEF CheckDrift, Disturbs, When, Reverting, Grows, Handled
    <2>2. base.head # cap.head /\ base.head <= cap.head /\ head = Len(commits)
      BY <1>1, <1>2, <1>8, <2>1 DEF CheckDrift, Onward, Captured
    <2> QED BY <1>1, <1>2, <2>1, <2>2, CaptureFacts DEF IsBaseline, Shape
  <1>9. GoodVerdict
    <2>1. drift'.failed = ~resolved /\ drift'.how = "git"
          /\ drift'.anchor = CleanAtCommit(Capture)
      BY <1>2 DEF Verdict
    <2> QED BY <1>1, <1>2, <1>4, <1>8, <2>1, CaptureFacts DEF GoodVerdict, Grows
  <1>10. GoodDoubt
    BY <1>1, <1>2, <1>8 DEF GoodDoubt, Verdict, Shape
  <1> QED BY <1>7, <1>9, <1>10 DEF Good

LEMMA BackToGitIsGood ==
  ASSUME Told, Grows, NEW w \in Walks, CheckBackToGit(w)
  PROVE  Good
  <1>1. Shape /\ Known /\ CaptureIsTrue /\ Captured /\ Modes /\ Onward
    BY DEF Told, CheckBackToGit
  <1>2. /\ base # None /\ base.mode = "walk" /\ base' = Capture
        /\ walkFailed' = walkFailed /\ unresolved' = w.failed
        /\ drift' = Verdict("git", DOMAIN w.found, CleanAtCommit(Capture), w.failed)
    BY DEF CheckBackToGit, Conclude, ModeSwitch
  <1>3. DOMAIN w.found \subseteq Files /\ w.failed \in BOOLEAN
    BY <1>1, WalkFacts DEF Present
  <1>4. drift' \in Verdicts
    BY <1>1, <1>2, <1>3, CaptureFacts, VerdictTypes
  <1>5. MayUseGit /\ "gitLost" \in met'
    BY <1>1, <1>2 DEF Modes, Captured, MayWalk, MayUseGit, Grows
  <1>6. /\ Moving /\ ~Reverting'
        /\ "delete" \notin met' /\ "walkFails" \notin met'
    BY <1>5 DEF Grows, Handled, Moving, Reverting
  <1>7. w.failed = FALSE
    BY <1>3, <1>6 DEF CheckBackToGit, Disturbs, When
  <1>8. \A f \in Files \ DOMAIN w.found : work[f] = Absent /\ seen[f] = {Absent}
    BY <1>1, <1>6, <1>7, WalkFacts DEF Present, Onward, Grows
  <1>9. GoodBase
    BY <1>1, <1>2, <1>5, <1>6, <1>8, CaptureFacts DEF GoodBase, Grows, Verdict
  <1>10. GoodVerdict
    BY <1>1, <1>2, <1>4, <1>6, CaptureFacts DEF GoodVerdict, Grows, Verdict
  <1>11. GoodDoubt
    BY <1>1, <1>2, <1>7 DEF GoodDoubt, Shape
  <1> QED BY <1>9, <1>10, <1>11 DEF Good

LEMMA DebouncedIsGood ==
  ASSUME Told, Grows, CheckDebounced
  PROVE  Good
  <1>1. Shape /\ Known /\ Modes /\ DoubtIsTold /\ InStep
    BY DEF Told
  <1>2. /\ base # None /\ base.mode = "walk" /\ base' = base /\ ~gitUp
        /\ walkFailed' = walkFailed /\ unresolved' = unresolved
        /\ drift' = Verdict("debounced", {}, NoHead, walkFailed)
    BY DEF CheckDebounced, Conclude, DebouncedFailure, guard
  <1>3. drift' \in Verdicts
    BY <1>1, <1>2, VerdictTypes DEF Shape
  <1>4. ~Reverting' /\ MayWalk
    BY <1>1, <1>2 DEF Modes, MayWalk, Reverting, Shape, Grows
  <1>5. GoodBase
    BY <1>1, <1>2, <1>4 DEF GoodBase, Known, Shape, Grows
  <1>6. GoodVerdict
    BY <1>2, <1>3, <1>4 DEF GoodVerdict, Verdict
  <1>7. unresolved => walkFailed
    BY <1>1, <1>2 DEF DoubtIsTold
  <1>8. GoodDoubt
    BY <1>1, <1>2, <1>4, <1>7 DEF GoodDoubt, Verdict, Shape
  <1> QED BY <1>5, <1>6, <1>8 DEF Good

LEMMA WalkIsGood ==
  ASSUME Told, Grows, NEW w \in Walks, CheckWalk(w)
  PROVE  Good
  <1>. DEFINE b == [mode |-> "walk", found |-> w.found]
  <1>1. Shape /\ Known /\ Modes /\ Onward
    BY DEF Told
  <1>2. /\ base' = b /\ ~gitUp /\ walkFailed' = w.failed /\ unresolved' = w.failed
        /\ drift' = Verdict("walk", SinceBase(w.found), NoHead, w.failed)
    BY DEF CheckWalk, Conclude
  <1>3. w.failed \in BOOLEAN /\ DOMAIN w.found \subseteq Files
    BY <1>1, WalkFacts DEF Present
  <1>4. MayWalk /\ ~Reverting'
    BY <1>1, <1>2 DEF Modes, MayWalk, Reverting, Shape, Grows
  <1>5. w.failed => "walkFails" \in met'
    BY DEF CheckWalk, Disturbs, When
  <1>6. /\ b # None /\ IsBaseline(b) /\ b.mode = "walk" /\ b.found = w.found
        /\ \A f \in Files :
              Content(b, f) \in seen[f] \/ (Content(b, f) = Absent /\ w.failed)
        /\ ~w.failed => \A f \in Files : Content(b, f) = work[f]
    BY <1>1, WalkBaseFacts
  <1>7. base # None => \A f \in Files \ SinceBase(w.found) :
           Content(b, f) = Content(base, f) \/ (work[f] = Absent /\ seen[f] = {Absent})
    <2>1. CASE base # None /\ base.mode = "git"
      <3>1. "gitLost" \in met'
        BY <1>1, <1>2, <2>1 DEF Modes, MayUseGit, Grows
      <3>2. /\ Moving /\ "delete" \notin met /\ "walkFails" \notin met'
        BY <1>4, <3>1 DEF Grows, Handled, Moving
      <3>3. \A f \in Files \ DOMAIN w.found : work[f] = Absent /\ seen[f] = {Absent}
        BY <1>1, <1>5, <3>2, WalkFacts DEF Present, Onward
      <3> QED BY <2>1, <3>3 DEF SinceBase, ModeSwitch
    <2>2. CASE base # None /\ base.mode = "walk"
      BY <1>6, <2>2 DEF SinceBase, WalkDrift, Content
    <2> QED BY <1>1, <2>1, <2>2 DEF Shape, IsBaseline
  <1>8. SinceBase(w.found) \subseteq Files
    BY <1>1, <1>3 DEF SinceBase, ModeSwitch, WalkDrift, Shape, IsBaseline
  <1>9. drift' \in Verdicts
    BY <1>1, <1>2, <1>3, <1>8, VerdictTypes
  <1>10. GoodBase
    BY <1>1, <1>2, <1>4, <1>5, <1>6, <1>7 DEF GoodBase, Verdict
  <1>11. GoodVerdict
    BY <1>2, <1>4, <1>6, <1>9 DEF GoodVerdict, Verdict
  <1>12. GoodDoubt
    BY <1>2, <1>3, <1>4, <1>6 DEF GoodDoubt, Verdict
  <1> QED BY <1>10, <1>11, <1>12 DEF Good

LEMMA ConcludesAreGood ==
  ASSUME Told, Grows, Concludes
  PROVE  Good
  BY FirstIsGood, SameIsGood, DriftIsGood, BackToGitIsGood, DebouncedIsGood, WalkIsGood
     DEF Concludes

LEMMA ConcludesKeepTold ==
  ASSUME Told, Grows, Concludes
  PROVE  Told'
  <1>1. Good
    BY ConcludesAreGood
  <1>2. /\ stage = "capture" /\ UNCHANGED <<world, queue, views, batch, still, answer>>
        /\ IF drift'.changed = {} THEN stage' = "serve" /\ todo' = <<>>
           ELSE stage' = "reindex" /\ todo' = Order
    BY DEF Concludes, CheckFirst, CheckSame, CheckDrift, CheckBackToGit, CheckDebounced,
           CheckWalk, Conclude, Captured, Verdict
  <1>3. UNCHANGED <<work, head, commits, gitUp, seen, env, warm, view, due>>
    BY <1>2 DEF world, views
  <1>31. wrote' = wrote /\ wrote = {}
    BY <1>2 DEF batch, Told, Shape
  <1>4. answer = None
    BY <1>2 DEF Told, Shape
  <1>5. Shape'
    BY <1>1, <1>2, <1>3, <1>31, <1>4 DEF Told, Shape, Good, GoodBase, GoodVerdict, GoodDoubt,
       InUse, Jobs, IsBaseline, Verdicts, Grows
  <1>6. \A p \in Plugins, f \in Files : Held(p, f)' => Held(p, f) /\ f \notin drift'.changed
    BY <1>2, <1>3 DEF Held, Unlooked
  <1>7. Known'
    BY <1>1, <1>3 DEF Told, Known, Good, GoodBase, Content
  <1>8. BaseIsTold'
    <2>1. SUFFICES ASSUME NEW p \in Plugins, NEW f \in Files, Held(p, f)',
                          work[f] = Content(base', f)
                   PROVE  view[p][f] = work[f]
      BY <1>3 DEF BaseIsTold, Content
    <2>2. Held(p, f) /\ f \notin drift'.changed /\ base # None
      BY <1>6, <2>1 DEF Told, Shape, Held
    <2>3. CASE Content(base', f) = Content(base, f)
      BY <2>1, <2>2, <2>3 DEF Told, BaseIsTold
    <2>4. CASE work[f] = Absent /\ seen[f] = {Absent}
      BY <2>2, <2>4 DEF Told, Known, Held
    <2> QED BY <1>1, <2>2, <2>3, <2>4 DEF Good, GoodBase
  <1>9. Modes'
    BY <1>1, <1>2, <1>3 DEF Told, Modes, Good, GoodBase, MayWalk, MayUseGit, Grows
  <1>10. CaptureIsTrue'
    BY <1>2 DEF CaptureIsTrue
  <1>11. VerdictIsTrue'
    BY <1>1, <1>2, <1>3, <1>8 DEF VerdictIsTrue, BaseIsTold, Good, GoodBase, GoodVerdict, Content
  <1>12. DoubtIsTold'
    BY <1>1, <1>2, <1>3 DEF DoubtIsTold, Good, GoodDoubt
  <1>13. Onward'
    BY <1>2, <1>3 DEF Told, Onward, Grows
  <1>14. InStep'
    <2>1. SUFFICES ASSUME Reverting'
                   PROVE  /\ stage' # "watched" /\ queue' = <<>> /\ ~unresolved'
                          /\ \A p \in Plugins : \A f \in Files :
                                Held(p, f)' => view[p][f] = Content(base', f)
                          /\ \A f \in Files : Content(base', f) = work[f]
      BY <1>3 DEF InStep, Content
    <2>2. queue = <<>> /\ ~unresolved' /\ stage' # "watched"
      BY <1>1, <1>2, <2>1 DEF Told, InStep, Good, GoodDoubt, Grows
    <2>3. \A f \in Files : Content(base', f) = work[f]
      BY <1>1, <2>1 DEF Good, GoodVerdict
    <2>4. ASSUME NEW p \in Plugins, NEW f \in Files, Held(p, f)'
          PROVE  view[p][f] = Content(base', f)
      <3>1. Held(p, f) /\ f \notin drift'.changed /\ base # None
        BY <1>6, <2>4 DEF Told, Shape, Held
      <3> QED BY <1>1, <2>1, <3>1 DEF Told, InStep, Good, GoodBase, Grows
    <2> QED BY <1>2, <2>2, <2>3, <2>4
  <1>15. AnswerIsTrue'
    BY <1>2, <1>4 DEF AnswerIsTrue
  <1> QED BY <1>5, <1>7, <1>8, <1>9, <1>10, <1>11, <1>12, <1>13, <1>14, <1>15 DEF Told

LEMMA MovesKeepTold ==
  ASSUME Told, Grows, Moves
  PROVE  Told'
  <1>. USE FreshnessAssumption
  <1>1. Shape /\ Shape'
    BY MovesKeepShape DEF Told
  <1>2. /\ UNCHANGED <<gitUp, env, base, walkFailed, queue, stage, cap, drift, todo>>
        /\ UNCHANGED <<warm, view, due, wrote, unresolved, answer>>
        /\ still' = FALSE /\ (stage # "idle" => Moving' /\ ~Reverting')
    BY DEF Moves, Edit, Commit, Checkout, Touched, MidBatch, When, Disturbs, guard, job, views,
           batch, Grows, Handled, Reverting
  <1>3. \A p \in Plugins, f \in Files : Held(p, f)' <=> Held(p, f)
    BY <1>2 DEF Held, Unlooked
  <1>4. base # None => \A f \in Files : Content(base, f)' = Content(base, f)
    <2>1. commits' = commits \/ commits' = Append(commits, work)
      BY DEF Moves, Edit, Commit, Checkout
    <2>2. \A i \in 1 .. Len(commits) : commits'[i] = commits[i]
      <3>1. commits \in Seq(Trees) /\ work \in Trees
        BY <1>1 DEF Shape
      <3>2. \A i \in 1 .. Len(commits) : Append(commits, work)[i] = commits[i]
        BY <3>1
      <3> QED BY <2>1, <3>2
    <2> QED BY <1>1, <1>2, <2>2 DEF Content, Shape, IsBaseline
  <1>5. \A f \in Files :
          /\ seen[f] \subseteq seen'[f] /\ work'[f] \in seen'[f]
          /\ \A i \in 1 .. Len(commits') : commits'[i][f] \in seen[f]
          /\ \/ work'[f] = work[f]
             \/ work'[f] \notin seen[f] /\ (work'[f] = Absent => "delete" \in met')
             \/ Reverting'
          /\ stage # "idle" => (work'[f] = Absent => work[f] = Absent)
          /\ Moving' /\ "delete" \notin met' =>
                 (work'[f] = Absent => work[f] = Absent /\ seen'[f] = seen[f])
    <2>1. CASE \E f \in env.files, v \in env.contents : Edit(f, v)
      <3>1. PICK g \in env.files, v \in env.contents : Edit(g, v)
        BY <2>1
      <3>2. g \in Files /\ v \in Nat
        BY <1>1 DEF Shape
      <3>3. /\ v \in seen[g] => Reverting'
            /\ v = Absent => "delete" \in met' /\ stage = "idle"
        BY <3>1 DEF Edit, Disturbs, ComesBack, When, Grows, Handled, Moving, Reverting
      <3>4. TAKE f \in Files
      <3>5. CASE f = g
        BY <1>1, <3>1, <3>2, <3>3, <3>5 DEF Told, Shape, Known, Edit, Trees
      <3>6. CASE f # g
        BY <1>1, <3>1, <3>2, <3>6 DEF Told, Shape, Known, Edit, Trees
      <3> QED BY <3>5, <3>6
    <2>2. CASE Commit
      BY <1>1, <2>2 DEF Told, Shape, Known, Commit
    <2>3. CASE \E c \in 1 .. Len(commits) : Checkout(c)
      <3>1. Reverting' /\ ~Moving' /\ stage = "idle"
        BY <1>2, <2>3 DEF Grows, Handled, Moving, Checkout, Disturbs
      <3> QED BY <1>1, <2>3, <3>1 DEF Told, Shape, Known, Checkout
    <2> QED BY <2>1, <2>2, <2>3 DEF Moves
  <1>6. Known'
    BY <1>1, <1>2, <1>4, <1>5 DEF Told, Known, Grows
  <1>7. BaseIsTold'
    <2>1. SUFFICES ASSUME base # None, NEW p \in Plugins, NEW f \in Files, Held(p, f),
                          work'[f] = Content(base, f)
                   PROVE  view[p][f] = work'[f]
      BY <1>2, <1>3, <1>4 DEF BaseIsTold
    <2>2. CASE work'[f] = work[f]
      BY <2>1, <2>2 DEF Told, BaseIsTold
    <2>3. work'[f] \in seen[f] \/ (work'[f] = Absent /\ "walkFails" \in met')
      BY <2>1 DEF Told, Known, Grows
    <2>4. CASE Reverting'
      BY <2>1, <2>4 DEF Told, InStep, Grows
    <2>5. ~Reverting' => ~({"delete", "walkFails"} \subseteq met')
      BY DEF Grows, Handled, Moving
    <2> QED BY <1>5, <2>2, <2>3, <2>4, <2>5
  <1>8. Modes'
    BY <1>2 DEF Told, Modes, MayWalk, MayUseGit, Grows
  <1>9. CaptureIsTrue'
    BY <1>1, <1>2, <1>5 DEF Told, CaptureIsTrue, Grows
  <1>10. VerdictIsTrue'
    BY <1>2 DEF VerdictIsTrue
  <1>11. (\E c \in 1 .. Len(commits) : Checkout(c)) => Reverting' /\ ~Moving'
    BY DEF Checkout, Disturbs, Grows, Handled, Moving
  <1>12. head' >= head \/ Reverting'
    <2>1. CASE \E f \in env.files, v \in env.contents : Edit(f, v)
      BY <1>1, <2>1 DEF Edit, Shape
    <2>2. CASE Commit
      BY <1>1, <2>2 DEF Commit, Shape
    <2> QED BY <1>11, <2>1, <2>2 DEF Moves
  <1>13. DoubtIsTold'
    BY <1>1, <1>2, <1>12 DEF Told, DoubtIsTold, InStep, InUse, Shape, IsBaseline, Grows
  <1>14. Moving' => (head = Len(commits) => head' = Len(commits'))
    <2>1. CASE \E f \in env.files, v \in env.contents : Edit(f, v)
      BY <2>1 DEF Edit
    <2>2. CASE Commit
      BY <1>1, <2>2 DEF Commit, Shape
    <2> QED BY <1>11, <2>1, <2>2 DEF Moves
  <1>15. Onward'
    BY <1>2, <1>5, <1>14 DEF Told, Onward, Grows
  <1>16. InStep'
    BY <1>2, <1>3, <1>4 DEF Told, InStep, InUse, Grows
  <1>17. AnswerIsTrue'
    BY <1>2 DEF Told, AnswerIsTrue
  <1> QED BY <1>1, <1>6, <1>7, <1>8, <1>9, <1>10, <1>13, <1>15, <1>16, <1>17 DEF Told

LEMMA QuietsKeepTold ==
  ASSUME Told, Grows, Quiets
  PROVE  Told'
  <1>1. Shape /\ Shape'
    BY QuietsKeepShape DEF Told
  <1>2. /\ UNCHANGED <<work, head, commits, seen, env, base, walkFailed>>
        /\ UNCHANGED <<warm, view, due, unresolved>>
        /\ stage' = stage => wrote' = wrote
    BY DEF Quiets, GitComesAndGoes, WalkTtlExpires, OnChanged, Deliver, StartReindexJob,
           StartBatch, ReadStatus, FinishBatch, ReadHead, world, guard, views, batch
  <1>3. /\ stage' = stage => UNCHANGED <<drift, todo, still, answer>>
        /\ stage' # stage =>
              /\ ~InUse' /\ stage' \in {"idle", "capture", "watched"} /\ stage # "reindex"
              /\ answer' = None
              /\ stage' = "capture" => cap' = [head |-> None, status |-> None]
              /\ stage' = "watched" => queue # <<>>
    BY <1>1 DEF Quiets, GitComesAndGoes, WalkTtlExpires, OnChanged, Deliver, StartReindexJob,
           StartBatch, ReadStatus, FinishBatch, ReadHead, world, guard, views, job, InUse, Shape
  <1>4. \A p \in Plugins, f \in Files : Held(p, f)' = Held(p, f)
    BY <1>2, <1>3 DEF Held, Unlooked, InUse
  <1>5. base # None => \A f \in Files : Content(base, f)' = Content(base, f)
    BY <1>2 DEF Content
  <1>6. gitUp' = gitUp \/ "gitLost" \in met'
    BY DEF Quiets, GitComesAndGoes, WalkTtlExpires, OnChanged, Deliver, StartReindexJob,
           StartBatch, ReadStatus, FinishBatch, ReadHead, world, Disturbs
  <1>7. stage = "capture" /\ stage' = "capture" =>
          /\ cap'.head # None => (cap.head # None /\ cap'.head = cap.head) \/ (gitUp /\ cap'.head = head)
          /\ cap'.status # None => (cap.status # None /\ cap'.status = cap.status) \/ (gitUp /\ cap'.status = Status)
    <2>1. CASE ReadStatus
      BY <1>1, <2>1 DEF ReadStatus, Shape, Captures
    <2>2. CASE \E h \in {head, NoHead} : ReadHead(h)
      BY <1>1, <2>2 DEF ReadHead, Disturbs, When, Shape, Captures, Grows, Handled, Moving,
           Reverting
    <2>3. CASE ~ReadStatus /\ ~(\E h \in {head, NoHead} : ReadHead(h))
      BY <2>3 DEF Quiets, GitComesAndGoes, WalkTtlExpires, OnChanged, Deliver, StartReindexJob,
           StartBatch, FinishBatch, job
    <2> QED BY <2>1, <2>2, <2>3
  <1>8. Reverting' /\ queue = <<>> => queue' = <<>>
    BY DEF Quiets, GitComesAndGoes, WalkTtlExpires, OnChanged, Deliver, StartReindexJob,
           StartBatch, ReadStatus, FinishBatch, ReadHead, job, Disturbs, Reverting
  <1>9. Known'
    BY <1>2, <1>5 DEF Told, Known, Grows
  <1>10. BaseIsTold'
    BY <1>2, <1>4, <1>5 DEF Told, BaseIsTold
  <1>11. Modes'
    <2>1. gitUp => MayUseGit
      BY DEF Told, Modes, MayUseGit
    <2>2. stage' = "capture" /\ (cap'.head # None \/ cap'.status # None) => MayUseGit
      BY <1>3, <1>7, <2>1 DEF Told, Modes
    <2> QED BY <1>2, <1>6, <2>2 DEF Told, Modes, MayWalk, MayUseGit, Grows
  <1>12. CaptureIsTrue'
    <2>1. SUFFICES ASSUME stage' = "capture" PROVE CaptureIsTrue'
      BY DEF CaptureIsTrue
    <2>2. CASE stage # "capture"
      BY <1>3, <2>1, <2>2 DEF CaptureIsTrue
    <2>3. CASE stage = "capture"
      <3>1. UNCHANGED <<still, Status>>
        BY <1>2, <1>3, <2>1, <2>3 DEF Status, HeadTree
      <3>2. still \/ Reverting =>
               /\ cap'.head # None => cap'.head = head
               /\ cap'.status # None => cap'.status = Status
        BY <1>7, <2>1, <2>3 DEF Told, CaptureIsTrue
      <3>3. cap'.status # None => \A f \in Files :
               /\ cap'.status[f] \in {"M", "??"} => work[f] # Absent
               /\ cap'.status[f] = "D" => Absent \in seen[f]
        BY <1>1, <1>7, <2>1, <2>3, StatusFacts DEF Told, CaptureIsTrue, Known
      <3> QED BY <1>2, <3>1, <3>2, <3>3 DEF CaptureIsTrue, Grows
    <2> QED BY <2>2, <2>3
  <1>13. VerdictIsTrue'
    BY <1>2, <1>3, <1>4 DEF Told, VerdictIsTrue, InUse
  <1>14. DoubtIsTold'
    BY <1>2, <1>3, <1>7 DEF Told, DoubtIsTold, InUse
  <1>15. Onward'
    BY <1>1, <1>2, <1>3, <1>7 DEF Told, Onward, Shape, IsBaseline, Grows
  <1>16. InStep'
    <2>1. SUFFICES ASSUME Reverting'
                   PROVE  /\ stage' # "watched" /\ queue' = <<>> /\ ~unresolved
                          /\ base # None => \A p \in Plugins : \A f \in Files :
                                Held(p, f) => view[p][f] = Content(base, f)
                          /\ InUse' => \A f \in Files : Content(base, f) = work[f]
      BY <1>1, <1>2, <1>4, <1>5 DEF InStep, Shape
    <2>2. stage # "watched" /\ queue = <<>> /\ ~unresolved
      BY <2>1 DEF Told, InStep, Grows
    <2>3. InUse' => InUse
      BY <1>3 DEF InUse
    <2> QED BY <1>3, <1>8, <2>1, <2>2, <2>3 DEF Told, InStep, Grows
  <1>17. AnswerIsTrue'
    BY <1>2, <1>3 DEF Told, AnswerIsTrue
  <1> QED BY <1>1, <1>9, <1>10, <1>11, <1>12, <1>13, <1>14, <1>15, <1>16, <1>17 DEF Told

\* What the plugins' steps share: the world, the guard and the verdict stay,
\* and a plugin that holds a file has either held it as it was or just read it.
ReadsOnly ==
    /\ UNCHANGED <<work, head, commits, gitUp, seen, env, base, walkFailed, queue>>
    /\ UNCHANGED <<cap, drift, wrote, still, unresolved>>
    /\ stage \in Jobs \cup {"serve"} /\ stage' # "capture"
    /\ InUse' => InUse
    /\ stage' = "watched" => stage = "watched"
    /\ \A p \in Plugins, f \in Files :
          Held(p, f)' => (Held(p, f) /\ view'[p][f] = view[p][f]) \/ view'[p][f] = work[f]
    /\ \A p \in Plugins, f \in Files :
          warm'[p] => (warm[p] /\ view'[p][f] = view[p][f]) \/ view'[p][f] = work[f]

LEMMA ReadsKeepTold ==
  ASSUME Told, Grows, Shape', ReadsOnly, AnswerIsTrue'
  PROVE  Told'
  <1>1. \A f \in Files : Content(base, f)' = Content(base, f)
    BY DEF ReadsOnly, Content
  <1>2. Known'
    BY <1>1 DEF Told, Known, ReadsOnly, Grows
  <1>3. BaseIsTold'
    BY <1>1 DEF Told, BaseIsTold, ReadsOnly
  <1>4. Modes'
    BY DEF Told, Modes, ReadsOnly, MayWalk, MayUseGit, Grows
  <1>5. CaptureIsTrue'
    BY DEF ReadsOnly, CaptureIsTrue
  <1>6. VerdictIsTrue'
    BY DEF Told, VerdictIsTrue, ReadsOnly
  <1>7. DoubtIsTold'
    BY DEF Told, DoubtIsTold, ReadsOnly
  <1>8. Onward'
    BY DEF Told, Onward, ReadsOnly, Grows
  <1>9. InStep'
    <2>1. SUFFICES ASSUME Reverting'
                   PROVE  /\ stage' # "watched" /\ queue' = <<>> /\ ~unresolved
                          /\ base # None => \A p \in Plugins : \A f \in Files :
                                Held(p, f)' => view'[p][f] = Content(base, f)
                          /\ InUse' => \A f \in Files : Content(base, f) = work[f]
      BY <1>1 DEF InStep, ReadsOnly
    <2>2. /\ InUse /\ stage # "watched" /\ queue = <<>> /\ ~unresolved
          /\ \A f \in Files : Content(base, f) = work[f]
      BY <2>1 DEF Told, InStep, ReadsOnly, InUse, Jobs, Grows
    <2> QED BY <2>1, <2>2 DEF Told, InStep, ReadsOnly, Grows
  <1> QED BY <1>2, <1>3, <1>4, <1>5, <1>6, <1>7, <1>8, <1>9 DEF Told

LEMMA ReindexKeepsTold ==
  ASSUME Told, Grows, ReindexPlugin
  PROVE  Told'
  <1>1. Shape /\ stage \in Jobs /\ answer = None
    BY DEF Told, Shape, ReindexPlugin, Jobs
  <1>2. /\ UNCHANGED <<work, head, commits, gitUp, seen, env, base, walkFailed, queue>>
        /\ UNCHANGED <<cap, drift, warm, wrote, still, unresolved, answer>>
    BY DEF ReindexPlugin, world, guard, batch
  <1>3. CASE todo = Order
    <2>1. /\ todo' = <<"scss">> /\ stage' = stage /\ view' = view
          /\ due' = [due EXCEPT !["ts"] = Marked("ts", drift.changed)]
      BY <1>3, OrderFacts DEF ReindexPlugin
    <2>2. Marked("ts", drift.changed) \in SUBSET Files
      BY <1>1 DEF Marked, Shape, Verdicts, Plugins
    <2>3. Shape'
      <3>1. /\ Verdicts' = Verdicts /\ Captures' = Captures
            /\ base # None => IsBaseline(base)'
        BY <1>1, <1>2 DEF Shape, Verdicts, Captures, IsBaseline
      <3>2. /\ drift' \in Verdicts' /\ env' \in Environments /\ Handled'
            /\ "noGit" \in env'.may => "noGit" \in met'
        BY <1>1, <1>2, <3>1 DEF Shape, Grows
      <3>3. /\ warm' \in [Plugins -> BOOLEAN] /\ view' \in [Plugins -> Trees]
            /\ due' \in [Plugins -> SUBSET Files]
        BY <1>1, <1>2, <2>1, <2>2 DEF Shape
      <3>4. /\ stage' # "capture" /\ answer' = None /\ wrote' = {}
            /\ stage' \in {"idle", "serve"} \cup Jobs
            /\ InUse' => base' # None
            /\ IF stage' \in Jobs THEN todo' \in {Order, <<"scss">>} ELSE todo' = <<>>
        BY <1>1, <1>2, <2>1 DEF Shape, InUse, Jobs
      <3> QED BY <1>1, <1>2, <3>1, <3>2, <3>3, <3>4 DEF Shape
    <2>4. \A p \in Plugins, f \in Files : Held(p, f)' => Held(p, f)
      <3>1. \A f \in Files : Held("ts", f)' => Held("ts", f)
        BY <1>1, <1>2, <2>1 DEF Held, Unlooked, Marked, Plugins, Shape
      <3>2. \A f \in Files : Held("scss", f)' => Held("scss", f)
        BY <1>1, <1>2, <2>1 DEF Held, Unlooked, Plugins, Shape
      <3> QED BY <3>1, <3>2 DEF Plugins
    <2>5. ReadsOnly
      BY <1>1, <1>2, <2>1, <2>4 DEF ReadsOnly, InUse, Jobs
    <2>6. AnswerIsTrue'
      BY <1>1, <1>2 DEF AnswerIsTrue
    <2> QED BY <2>3, <2>5, <2>6, ReadsKeepTold
  <1>4. CASE todo = <<"scss">>
    <2>1. /\ todo' = <<>> /\ due' = due
          /\ stage' = IF stage = "reindex" THEN "serve" ELSE "idle"
          /\ view' = [view EXCEPT !["scss"] = Reparsed("scss", drift.changed)]
      BY <1>4, OrderFacts DEF ReindexPlugin
    <2>2. Reparsed("scss", drift.changed) \in Trees
      BY <1>1 DEF Reparsed, Shape, Trees, Plugins
    <2>3. Shape'
      <3>1. /\ Verdicts' = Verdicts /\ Captures' = Captures
            /\ base # None => IsBaseline(base)'
        BY <1>1, <1>2 DEF Shape, Verdicts, Captures, IsBaseline
      <3>2. /\ drift' \in Verdicts' /\ env' \in Environments /\ Handled'
            /\ "noGit" \in env'.may => "noGit" \in met'
        BY <1>1, <1>2, <3>1 DEF Shape, Grows
      <3>3. /\ warm' \in [Plugins -> BOOLEAN] /\ view' \in [Plugins -> Trees]
            /\ due' \in [Plugins -> SUBSET Files]
        BY <1>1, <1>2, <2>1, <2>2 DEF Shape
      <3>4. /\ stage' # "capture" /\ answer' = None /\ wrote' = {}
            /\ stage' \in {"idle", "serve"} \cup Jobs
            /\ InUse' => base' # None
            /\ IF stage' \in Jobs THEN todo' \in {Order, <<"scss">>} ELSE todo' = <<>>
        BY <1>1, <1>2, <2>1 DEF Shape, InUse, Jobs
      <3> QED BY <1>1, <1>2, <3>1, <3>2, <3>3, <3>4 DEF Shape
    <2>4. \A f \in Files :
            /\ view'["scss"][f] = (IF warm["scss"] /\ f \in drift.changed THEN work[f]
                                   ELSE view["scss"][f])
            /\ view'["ts"] = view["ts"]
      BY <1>1, <2>1 DEF Shape, Reparsed, Plugins
    <2>5. \A p \in Plugins, f \in Files :
            Held(p, f)' => (Held(p, f) /\ view'[p][f] = view[p][f]) \/ view'[p][f] = work[f]
      <3>1. \A f \in Files : Held("ts", f)' => Held("ts", f)
        BY <1>2, <1>4, <2>1, OrderFacts DEF Held, Unlooked
      <3>2. \A f \in Files : Held("scss", f)' => warm["scss"] /\ f \notin due["scss"]
        BY <1>2, <2>1 DEF Held
      <3> QED BY <2>4, <3>1, <3>2 DEF Held, Plugins
    <2>6. \A p \in Plugins, f \in Files :
            warm'[p] => (warm[p] /\ view'[p][f] = view[p][f]) \/ view'[p][f] = work[f]
      BY <1>2, <2>4 DEF Plugins
    <2>7. ReadsOnly
      BY <1>1, <1>2, <2>1, <2>5, <2>6 DEF ReadsOnly, InUse, Jobs
    <2>8. AnswerIsTrue'
      BY <1>1, <1>2 DEF AnswerIsTrue
    <2> QED BY <2>3, <2>7, <2>8, ReadsKeepTold
  <1> QED BY <1>1, <1>3, <1>4 DEF Shape

LEMMA RunOpKeepsTold ==
  ASSUME Told, Grows, NEW p \in Plugins, RunOp(p)
  PROVE  Told'
  <1>1. Shape /\ stage = "serve" /\ InUse /\ ~Unlooked(p)
    BY DEF Told, RunOp, InUse, Unlooked
  <1>2. /\ UNCHANGED <<work, head, commits, gitUp, seen, env, base, walkFailed, queue>>
        /\ UNCHANGED <<stage, cap, drift, todo, wrote, still, unresolved>>
        /\ view' = [view EXCEPT ![p] = Seen(p)] /\ warm' = [warm EXCEPT ![p] = TRUE]
        /\ due' = [due EXCEPT ![p] = {}]
    BY DEF RunOp, world, guard, job
  <1>3. /\ Seen(p) \in Trees
        /\ \A f \in Files : (Held(p, f) /\ Seen(p)[f] = view[p][f]) \/ Seen(p)[f] = work[f]
    BY <1>1 DEF Seen, Shape, Trees, Held
  <1>4. Shape'
    BY <1>1, <1>2, <1>3 DEF Shape, InUse, IsBaseline, Verdicts, Jobs, Grows
  <1>5. ReadsOnly
    <2>1. \A q \in Plugins \ {p} :
            view'[q] = view[q] /\ warm'[q] = warm[q] /\ due'[q] = due[q]
      BY <1>1, <1>2 DEF Shape
    <2>2. view'[p] = Seen(p)
      BY <1>1, <1>2 DEF Shape
    <2>3. \A q \in Plugins \ {p}, f \in Files : Held(q, f)' => Held(q, f)
      BY <1>2, <2>1 DEF Held, Unlooked
    <2> QED BY <1>1, <1>2, <1>3, <2>1, <2>2, <2>3 DEF ReadsOnly, Held
  <1>6. /\ answer'.how = drift.how /\ answer'.unverified = drift.failed
        /\ answer'.indexedAt = (IF drift.failed THEN NoHead ELSE drift.anchor)
        /\ answer'.still = still /\ answer'.asCold = ShowsTree(p)
        /\ answer'.asCommit = (drift.anchor # NoHead => ShowsCommit(p, drift.anchor))
    BY DEF RunOp
  <1>61. still /\ ~drift.failed /\ drift.how # "debounced"
           => \A f \in Files : Seen(p)[f] = work[f] \/ (p # "ts" /\ f \in wrote)
    BY <1>1, <1>3 DEF Told, VerdictIsTrue
  <1>7. still /\ ~drift.failed /\ drift.how # "debounced" => ShowsTree(p)
    BY <1>61 DEF ShowsTree
  <1>8. still /\ ~drift.failed /\ drift.anchor # NoHead => ShowsCommit(p, drift.anchor)
    <2>1. still /\ ~drift.failed /\ drift.anchor # NoHead =>
            drift.how = "git" /\ \A f \in Files \ wrote : work[f] = commits[drift.anchor][f]
      BY <1>1 DEF Told, VerdictIsTrue
    <2> QED BY <1>61, <2>1 DEF ShowsCommit
  <1>9. unresolved => drift.failed
    BY <1>1 DEF Told, DoubtIsTold
  <1>10. AnswerIsTrue'
    BY <1>2, <1>6, <1>7, <1>8, <1>9 DEF AnswerIsTrue
  <1> QED BY <1>4, <1>5, <1>10, ReadsKeepTold

\* An operation's own write is an edit that "ts" is told of at once.
LEMMA AppliesKeepTold ==
  ASSUME Told, Grows, Applies
  PROVE  Told'
  <1>. USE FreshnessAssumption
  <1>1. PICK f \in env.files, v \in env.contents : ApplyOp(f, v)
    BY DEF Applies
  <1>2. Shape /\ f \in Files /\ v \in Nat
    BY DEF Told, Shape
  <1>3. /\ UNCHANGED <<head, commits, gitUp, env, base, walkFailed, queue, stage, cap>>
        /\ UNCHANGED <<drift, todo, warm, view, still, unresolved>>
        /\ stage = "serve" /\ answer' = None /\ wrote' = wrote \cup {f}
        /\ work' = [work EXCEPT ![f] = v] /\ seen' = [seen EXCEPT ![f] = @ \cup {v}]
        /\ due' = [due EXCEPT !["ts"] = @ \cup {f}]
    BY <1>1 DEF ApplyOp, Retold, guard, job
  <1>4. /\ ~Reverting' /\ Moving /\ v \notin seen[f] /\ (v = Absent => "delete" \in met')
        /\ ~({"delete", "walkFails"} \subseteq met')
    BY <1>1 DEF ApplyOp, Disturbs, ComesBack, When, Grows, Handled, Moving, Reverting
  <1>5. /\ work' \in Trees /\ seen' \in [Files -> SUBSET Nat]
        /\ due' \in [Plugins -> SUBSET Files]
    BY <1>2, <1>3 DEF Shape, Trees, Plugins
  <1>6. Shape'
    BY <1>2, <1>3, <1>5 DEF Shape, InUse, IsBaseline, Jobs, Verdicts, Grows
  <1>7. \A g \in Files : /\ work'[g] = (IF g = f THEN v ELSE work[g])
                        /\ seen'[g] = (IF g = f THEN seen[g] \cup {v} ELSE seen[g])
    BY <1>2, <1>3 DEF Shape, Trees
  <1>8. base # None => \A g \in Files : Content(base, g)' = Content(base, g)
    BY <1>3 DEF Content
  <1>9. \A p \in Plugins, g \in Files :
          Held(p, g)' => Held(p, g) /\ (g = f => p # "ts")
    <2>1. due'["ts"] = due["ts"] \cup {f} /\ due'["scss"] = due["scss"]
      BY <1>2, <1>3 DEF Shape, Plugins
    <2> QED BY <1>3, <2>1 DEF Held, Unlooked, Plugins
  <1>10. Known'
    <2>1. \A g \in Files : seen[g] \subseteq seen'[g] /\ work'[g] \in seen'[g]
      BY <1>7 DEF Told, Known
    <2>2. base # None => \A g \in Files :
            \/ Content(base, g)' \in seen'[g]
            \/ Content(base, g)' = Absent /\ "walkFails" \in met'
      BY <1>8, <2>1 DEF Told, Known, Grows
    <2>3. \A g \in Files : \A i \in 1 .. Len(commits') : commits'[i][g] \in seen'[g]
      BY <1>3, <2>1 DEF Told, Known
    <2>4. \A p \in Plugins : warm'[p] => \A g \in Files : view'[p][g] \in seen'[g]
      BY <1>3, <2>1 DEF Told, Known
    <2>5. base' = base
      BY <1>3
    <2> QED BY <2>1, <2>2, <2>3, <2>4, <2>5 DEF Known
  <1>11. BaseIsTold'
    <2>1. SUFFICES ASSUME base # None, NEW p \in Plugins, NEW g \in Files, Held(p, g)',
                          work'[g] = Content(base, g)
                   PROVE  view[p][g] = work'[g]
      BY <1>3, <1>8 DEF BaseIsTold
    <2>2. CASE g = f
      <3>1. Content(base, f) \in seen[f] \/ (Content(base, f) = Absent /\ "walkFails" \in met')
        BY <1>2, <2>1 DEF Told, Known, Grows
      <3> QED BY <1>4, <1>7, <2>1, <2>2, <3>1
    <2>3. CASE g # f
      BY <1>7, <1>9, <2>1, <2>3 DEF Told, BaseIsTold
    <2> QED BY <2>2, <2>3
  <1>12. Modes' /\ CaptureIsTrue'
    BY <1>3 DEF Told, Modes, CaptureIsTrue, MayWalk, MayUseGit, Grows
  <1>13. VerdictIsTrue'
    BY <1>2, <1>3, <1>7, <1>9 DEF Told, VerdictIsTrue, InUse
  <1>14. DoubtIsTold'
    BY <1>3 DEF Told, DoubtIsTold, InUse
  <1>15. Onward'
    BY <1>2, <1>3, <1>4, <1>7 DEF Told, Onward, Grows
  <1>16. InStep'
    BY <1>4 DEF InStep
  <1>17. AnswerIsTrue'
    BY <1>3 DEF AnswerIsTrue
  <1> QED BY <1>6, <1>10, <1>11, <1>12, <1>13, <1>14, <1>15, <1>16, <1>17 DEF Told

LEMMA InitIsTold ==
  ASSUME Init, Handled
  PROVE  Told
  <1>. USE FreshnessAssumption
  <1>0. "unborn" \notin env.may /\ met = env.may \cap {"noGit", "unborn"}
    BY DEF Init, Handled, Moving, Reverting
  <1>1. /\ work \in Trees /\ head = 1 /\ commits = <<work>>
        /\ seen = [f \in Files |-> {work[f]}] /\ seen \in [Files -> SUBSET Nat]
    BY <1>0 DEF Init, Trees, NoHead
  <1>2. /\ env \in Environments /\ gitUp = ("noGit" \notin env.may) /\ base = None
        /\ walkFailed = FALSE /\ queue = <<>> /\ stage = "idle" /\ drift = NoVerdict
        /\ todo = <<>> /\ warm = [p \in Plugins |-> FALSE]
        /\ view = [p \in Plugins |-> Cold] /\ due = [p \in Plugins |-> {}]
        /\ wrote = {} /\ still = FALSE /\ unresolved = FALSE /\ answer = None
    BY DEF Init
  <1>3. /\ commits \in Seq(Trees) /\ Len(commits) = 1 /\ commits[1] = work
        /\ Cold \in Trees /\ queue \in Seq(SUBSET Files)
    BY <1>1, <1>2 DEF Cold, Trees, Absent
  <1>4. drift \in Verdicts
    BY <1>2, <1>3 DEF NoVerdict, Verdict, NoHead, Verdicts
  <1>5. Shape
    <2>1. warm \in [Plugins -> BOOLEAN] /\ \A p \in Plugins : ~warm[p]
      BY <1>2
    <2>2. view \in [Plugins -> Trees] /\ due \in [Plugins -> SUBSET Files]
      BY <1>2, <1>3
    <2>3. Handled /\ ("noGit" \in env.may => "noGit" \in met)
      BY <1>0
    <2>4. ~InUse /\ stage \notin Jobs /\ stage \in {"idle", "capture", "serve"} \cup Jobs
      BY <1>2 DEF InUse, Jobs
    <2>5. /\ work \in Trees /\ commits \in Seq(Trees) /\ head \in 1 .. Len(commits)
          /\ gitUp \in BOOLEAN /\ seen \in [Files -> SUBSET Nat]
      BY <1>1, <1>2, <1>3
    <2>6. /\ base = None /\ ~unresolved /\ stage = "idle" /\ todo = <<>> /\ answer = None
          /\ still \in BOOLEAN /\ unresolved \in BOOLEAN /\ walkFailed \in BOOLEAN
          /\ queue \in Seq(SUBSET Files) /\ env \in Environments /\ wrote = {}
      BY <1>2, <1>3
    <2> QED BY <1>4, <2>1, <2>2, <2>3, <2>4, <2>5, <2>6 DEF Shape
  <1>6. Known /\ BaseIsTold /\ Modes /\ CaptureIsTrue
    BY <1>1, <1>2, <1>3 DEF Known, BaseIsTold, Modes, CaptureIsTrue
  <1>7. VerdictIsTrue /\ DoubtIsTold /\ Onward /\ InStep /\ AnswerIsTrue
    BY <1>1, <1>2, <1>3 DEF VerdictIsTrue, DoubtIsTold, Onward, InStep, AnswerIsTrue, InUse
  <1> QED BY <1>5, <1>6, <1>7 DEF Told

LEMMA NextKeepsTold ==
  ASSUME Told, Handled', [Next]_vars
  PROVE  Told'
  <1>0. Grows
    BY StepsOnlyAdd
  <1>1. CASE UNCHANGED vars
    <2>. USE <1>0, <1>1 DEF vars, world, guard, job, views, batch, Grows
    <2>1. Shape'
      BY DEF Told, Shape, InUse, Jobs, Verdicts, Captures, IsBaseline
    <2>2. Known' /\ BaseIsTold' /\ Modes'
      BY DEF Told, Known, BaseIsTold, Modes, Content, Held, Unlooked, MayWalk, MayUseGit
    <2>3. CaptureIsTrue'
      BY DEF Told, CaptureIsTrue, Status, HeadTree
    <2>4. VerdictIsTrue' /\ DoubtIsTold'
      BY DEF Told, VerdictIsTrue, DoubtIsTold, Held, Unlooked, InUse
    <2>5. Onward' /\ InStep' /\ AnswerIsTrue'
      BY DEF Told, Onward, InStep, AnswerIsTrue, Content, Held, Unlooked, InUse
    <2> QED BY <2>1, <2>2, <2>3, <2>4, <2>5 DEF Told
  <1>2. CASE Next
    BY <1>0, <1>2, Steps, MovesKeepTold, ConcludesKeepTold, QuietsKeepTold, ReindexKeepsTold,
       RunOpKeepsTold, AppliesKeepTold DEF Quiets
  <1> QED BY <1>1, <1>2

\* Until disturbances meet that the guard cannot handle, every step leaves it
\* with a true account of what it and the plugins know, in any environment.
THEOREM ToldWhileHandled == Spec => [](Handled => Told)
  <1>1. Init => (Handled => Told)
    BY InitIsTold
  <1>2. (Handled => Told) /\ [Next]_vars => (Handled => Told)'
    <2>1. SUFFICES ASSUME Handled => Told, [Next]_vars, Handled'
                   PROVE  Told'
      OBVIOUS
    <2>2. Handled
      BY <2>1, StepsOnlyAdd DEF Grows
    <2> QED BY <2>1, <2>2, NextKeepsTold
  <1> QED BY <1>1, <1>2, PTL DEF Spec

\* A warm answer over a still tree is a cold daemon's, in every environment and
\* until disturbances have met that the guard cannot handle.
THEOREM ColdWhileHandled == Spec => []ColdEqualsWarm
  <1>1. (Handled => Told) => ColdEqualsWarm
    BY DEF Told, AnswerIsTrue, ColdEqualsWarm, WarmIsCold
  <1> QED BY <1>1, ToldWhileHandled, PTL

\* An answer that names a commit shows it, under the same exemption.
THEOREM AnchorsWhileHandled == Spec => []AnchorIsHonest
  <1>1. (Handled => Told) => AnchorIsHonest
    BY DEF Told, AnswerIsTrue, AnchorIsHonest
  <1> QED BY <1>1, ToldWhileHandled, PTL

\* A doubt stays until it is dispelled, under the same exemption.
THEOREM DoubtWhileHandled == Spec => []UnverifiedIsSticky
  <1>1. (Handled => Told) => UnverifiedIsSticky
    BY DEF Told, AnswerIsTrue, UnverifiedIsSticky
  <1> QED BY <1>1, ToldWhileHandled, PTL
-----------------------------------------------------------------------------
(* One view per batch, whatever happens.                                   *)

\* A plugin the batch has asked has nothing to read but what the batch wrote.
AskedIsRead ==
    /\ asked \subseteq Plugins /\ (asked # {} => stage = "serve")
    /\ \A p \in asked : warm[p] /\ \A f \in due[p] : p = "ts" /\ f \in wrote

Sized == /\ env \in Environments /\ work \in Trees /\ commits \in Seq(Trees)
         /\ view \in [Plugins -> Trees] /\ warm \in [Plugins -> BOOLEAN]
         /\ due = [p \in Plugins |-> due[p]]
         /\ AskedIsRead

LEMMA InitIsSized == Init => Sized
  <1>. SUFFICES ASSUME Init PROVE Sized
    OBVIOUS
  <1>1. env \in Environments /\ work \in Trees /\ (commits = <<>> \/ commits = <<work>>)
    BY FreshnessAssumption DEF Init, Trees
  <1>2. view = [p \in Plugins |-> Cold] /\ Cold \in Trees
    BY DEF Init, Cold, Trees, Absent
  <1>3. commits \in Seq(Trees)
    <2>1. CASE commits = <<work>>
      <3>1. Append(<< >>, work) \in Seq(Trees)
        BY <1>1
      <3> QED BY <2>1, <3>1
    <2>2. CASE commits = <<>>
      BY <2>2
    <2> QED BY <1>1, <2>1, <2>2
  <1>4. view \in [Plugins -> Trees] /\ warm \in [Plugins -> BOOLEAN]
    BY <1>2 DEF Init
  <1>5. due = [p \in Plugins |-> due[p]] /\ AskedIsRead
    BY DEF Init, AskedIsRead
  <1> QED BY <1>1, <1>3, <1>4, <1>5 DEF Sized

LEMMA NextKeepsSized ==
  ASSUME Sized, [Next]_vars
  PROVE  Sized'
  <1>. USE FreshnessAssumption
  <1>1. CASE Moves
    <2>1. UNCHANGED <<env, view, warm, due, stage, asked, wrote>>
      BY <1>1 DEF Moves, Edit, Commit, Checkout, Touched, views, job, batch
    <2>2. work' \in Trees /\ commits' \in Seq(Trees)
      <3>1. CASE \E f \in env.files, v \in env.contents : Edit(f, v)
        <4>1. PICK f \in env.files, v \in env.contents : Edit(f, v)
          BY <3>1
        <4>2. v \in Nat
          BY DEF Sized
        <4> QED BY <4>1, <4>2 DEF Sized, Edit, Trees
      <3>2. CASE Commit
        BY <3>2 DEF Sized, Commit
      <3>3. CASE \E c \in 1 .. Len(commits) : Checkout(c)
        BY <3>3 DEF Sized, Checkout
      <3> QED BY <1>1, <3>1, <3>2, <3>3 DEF Moves
    <2> QED BY <2>1, <2>2 DEF Sized, AskedIsRead
  <1>2. CASE ReindexPlugin
    <2>1. \A p \in Plugins : Reparsed(p, drift.changed) \in Trees
      BY DEF Sized, Reparsed, Trees
    <2>2. UNCHANGED <<env, work, commits, warm, asked>> /\ asked = {}
      BY <1>2 DEF ReindexPlugin, world, batch, Sized, AskedIsRead
    <2>3. view' \in [Plugins -> Trees] /\ due' = [p \in Plugins |-> due'[p]]
      BY <1>2, <2>1 DEF Sized, ReindexPlugin, Plugins
    <2> QED BY <2>2, <2>3 DEF Sized, AskedIsRead
  <1>3. CASE \E p \in Plugins : RunOp(p)
    <2>1. PICK p \in Plugins : RunOp(p)
      BY <1>3
    <2>2. Seen(p) \in Trees
      BY DEF Sized, Seen, Trees
    <2>3. /\ UNCHANGED <<env, work, commits, wrote, stage>> /\ stage = "serve"
          /\ view' = [view EXCEPT ![p] = Seen(p)] /\ warm' = [warm EXCEPT ![p] = TRUE]
          /\ due' = [due EXCEPT ![p] = {}] /\ asked' = asked \cup {p}
      BY <2>1 DEF RunOp, world, job
    <2> QED BY <2>2, <2>3 DEF Sized, AskedIsRead
  <1>4. CASE Applies
    <2>1. PICK f \in env.files, v \in env.contents : ApplyOp(f, v)
      BY <1>4 DEF Applies
    <2>2. /\ UNCHANGED <<env, commits, warm, view, asked, stage>> /\ stage = "serve"
          /\ due' = [due EXCEPT !["ts"] = @ \cup {f}] /\ wrote' = wrote \cup {f}
          /\ work' = [work EXCEPT ![f] = v] /\ v \in Nat /\ f \in Files
      BY <2>1 DEF ApplyOp, Retold, job, Sized
    <2> QED BY <2>2 DEF Sized, AskedIsRead, Trees
  <1>5. CASE Concludes \/ Quiets \/ UNCHANGED vars
    <2>1. /\ UNCHANGED <<env, work, commits, warm, view, due>>
          /\ \/ UNCHANGED <<asked, wrote>> /\ (stage # "serve" \/ stage' = stage)
             \/ asked' = {}
      BY <1>5 DEF Concludes, CheckFirst, CheckSame, CheckDrift, CheckBackToGit, CheckDebounced,
         CheckWalk, Conclude, Captured, Quiets, GitComesAndGoes, WalkTtlExpires, OnChanged,
         Deliver, StartReindexJob, StartBatch, ReadStatus, FinishBatch, ReadHead, vars, world,
         views, batch, job
    <2> QED BY <2>1 DEF Sized, AskedIsRead
  <1> QED BY <1>1, <1>2, <1>3, <1>4, <1>5, Steps DEF Quiets

\* Once a batch has asked a plugin, the plugin's view moves only in what the
\* batch itself wrote, in any environment.
THEOREM OneView == Spec => OneViewPerBatch
  <1>1. Init => Sized
    BY InitIsSized
  <1>2. Sized /\ [Next]_vars => Sized'
    BY NextKeepsSized
  <1>3. ASSUME Sized, Next, NEW p \in asked, NEW f \in Files, view'[p][f] # view[p][f]
        PROVE  p = "ts" /\ f \in wrote
    <2>1. p \in Plugins /\ stage = "serve" /\ warm[p]
      BY <1>3 DEF Sized, AskedIsRead
    <2>2. view' # view
      BY <1>3
    <2>3. ~(Moves \/ Quiets \/ Concludes \/ ReindexPlugin \/ Applies)
      BY <2>1, <2>2 DEF Moves, Edit, Commit, Checkout, Touched, Quiets, GitComesAndGoes,
         WalkTtlExpires, OnChanged, Deliver, StartReindexJob, StartBatch, ReadStatus, FinishBatch,
         ReadHead, views, Concludes, CheckFirst, CheckSame, CheckDrift, CheckBackToGit,
         CheckDebounced, CheckWalk, Captured, ReindexPlugin, Applies, ApplyOp
    <2>4. PICK q \in Plugins : RunOp(q)
      BY <1>3, <2>3, Steps DEF Quiets
    <2>5. view' = [view EXCEPT ![q] = Seen(q)]
      BY <2>4 DEF RunOp
    <2>8. view \in [Plugins -> Trees]
      BY <1>3 DEF Sized
    <2>6. q = p /\ Seen(p)[f] # view[p][f]
      BY <1>3, <2>1, <2>5, <2>8
    <2>7. f \in due[p]
      BY <2>1, <2>6 DEF Seen
    <2> QED BY <1>3, <2>7 DEF Sized, AskedIsRead
  <1>4. Sized /\ [Next]_vars
          => [\A p \in asked, f \in Files :
                view'[p][f] # view[p][f] => p = "ts" /\ f \in wrote]_vars
    BY <1>3
  <1> QED BY <1>1, <1>2, <1>4, PTL DEF Spec, OneViewPerBatch

-----------------------------------------------------------------------------
(* FileStamp.                                                              *)

\* A record of time m, taken at r, would not pass for the file's state now.
Betrayed(m, r) == mtime # m \/ r - m < Window

RecordOfPast(s) == s.mtime <= mtime /\ s.recordedAt <= now

\* The record of the last check, against what the plugin has read.
LastRecord ==
    /\ RecordOfPast(stamp)
    /\ step # "read" => stamp.hash <= held
    /\ step = "read" => stamp.hash <= content
    /\ step # "read" /\ content # held => Betrayed(stamp.mtime, stamp.recordedAt)

\* The record being taken, against the contents at that moment.
NextRecord ==
    step = "decide" =>
        /\ RecordOfPast(next)
        /\ held <= statted /\ statted <= content
        /\ statted # held => next.mtime # stamp.mtime \/ Racy(stamp)
        /\ content # statted => Betrayed(next.mtime, next.recordedAt)
        /\ quiet => content = statted

\* A quiet check that ended with "unchanged" was right.
QuietCheck == step = "idle" /\ quiet => held = content

RecordsHold == StampTypeOK /\ LastRecord /\ NextRecord /\ QuietCheck

-----------------------------------------------------------------------------
\* The write leaves a trace: whatever time it gives the file, no record taken
\* before it can be equal to the file's and also old enough to be trusted.
LEMMA WriteBetrays ==
    ASSUME NEW m \in Int, NEW s \in Stamps, StampTypeOK, RecordOfPast(s), Write(m)
    PROVE  Betrayed(s.mtime, s.recordedAt)' /\ RecordOfPast(s)'
BY StampAssumption DEF Write, StampTypeOK, RecordOfPast, Betrayed, Stamps

LEMMA StampInitHolds == StampInit => RecordsHold
<1> SUFFICES ASSUME StampInit PROVE RecordsHold
    OBVIOUS
<1>1. now \in Int /\ mtime \in Int /\ mtime <= now
      BY StampAssumption DEF StampInit
<1>2. stamp \in Stamps /\ stamp.mtime = mtime /\ stamp.recordedAt = now /\ stamp.hash = -1
      BY <1>1 DEF StampInit, Stamps, NoHash
<1>3. step = "read" /\ content = 0 /\ held = 0 /\ statted = 0
      BY DEF StampInit
<1>4. next \in Stamps /\ taken \in Int /\ taken <= now
      BY <1>1, <1>2 DEF StampInit
<1>0. quiet \in BOOLEAN /\ ~quiet
      BY DEF StampInit
<1>5. StampTypeOK
      BY <1>0, <1>1, <1>2, <1>3, <1>4 DEF StampTypeOK
<1>6. LastRecord /\ NextRecord /\ QuietCheck
      BY <1>0, <1>1, <1>2, <1>3 DEF LastRecord, NextRecord, QuietCheck, RecordOfPast
<1> QED BY <1>5, <1>6 DEF RecordsHold

LEMMA StampNextHolds == RecordsHold /\ [StampNext]_stampVars => RecordsHold'
<1> SUFFICES ASSUME RecordsHold, [StampNext]_stampVars PROVE RecordsHold'
    OBVIOUS
<1> USE DEF RecordsHold
<1>1. CASE Tick
      BY <1>1, StampAssumption
         DEF Tick, StampTypeOK, Stamps, LastRecord, NextRecord, QuietCheck,
             RecordOfPast, Betrayed, Racy
<1>2. ASSUME NEW m \in mtime .. now, Write(m) PROVE RecordsHold'
  <2>1. m \in Int
        BY <1>2 DEF StampTypeOK
  <2>2. StampTypeOK'
    <3>1. now' \in Int /\ mtime' \in Int /\ mtime' <= now'
          BY <1>2, <2>1 DEF Write, StampTypeOK
    <3>2. content' \in Nat /\ held' \in Nat /\ statted' \in Nat /\ held' <= content'
          BY <1>2 DEF Write, StampTypeOK
    <3> QED BY <1>2, <3>1, <3>2 DEF Write, StampTypeOK
  <2>3. LastRecord'
    <3>1. stamp \in Stamps /\ RecordOfPast(stamp)
          BY DEF StampTypeOK, LastRecord
    <3>2. Betrayed(stamp.mtime, stamp.recordedAt)' /\ RecordOfPast(stamp)'
          <4>1. /\ stamp'.mtime = stamp.mtime
                /\ stamp'.recordedAt = stamp.recordedAt
                BY <1>2 DEF Write
          <4> QED BY <1>2, <2>1, <3>1, <4>1, WriteBetrays DEF Betrayed, RecordOfPast
    <3> QED BY <1>2, <3>1, <3>2 DEF Write, LastRecord, StampTypeOK, Stamps
  <2>4. NextRecord'
    <3> SUFFICES ASSUME step = "decide" PROVE NextRecord'
        BY <1>2 DEF Write, NextRecord
    <3>1. next \in Stamps /\ RecordOfPast(next)
          BY DEF StampTypeOK, NextRecord
    <3>2. Betrayed(next.mtime, next.recordedAt)' /\ RecordOfPast(next)'
          <4>1. next'.mtime = next.mtime /\ next'.recordedAt = next.recordedAt
                BY <1>2 DEF Write
          <4> QED BY <1>2, <2>1, <3>1, <4>1, WriteBetrays DEF Betrayed, RecordOfPast
    <3> QED BY <1>2, <3>2 DEF Write, NextRecord, StampTypeOK, Stamps, Racy
  <2>5. QuietCheck'
        BY <1>2 DEF Write, QuietCheck
  <2> QED BY <2>2, <2>3, <2>4, <2>5
<1>3. CASE Begin
      BY <1>3 DEF Begin, StampTypeOK, Stamps, LastRecord, NextRecord, QuietCheck,
                  RecordOfPast, Betrayed
<1>4. CASE Stat
  <2>1. /\ next'.mtime = mtime /\ next'.recordedAt = taken /\ next'.hash = -1
        /\ next' \in Stamps
        BY <1>4 DEF Stat, StampTypeOK, Stamps, NoHash
  <2>2. StampTypeOK'
        BY <1>4, <2>1 DEF Stat, StampTypeOK
  <2>3. LastRecord' /\ QuietCheck'
        BY <1>4 DEF Stat, LastRecord, QuietCheck, RecordOfPast, Betrayed
  <2>4. NextRecord'
    <3>1. statted' # held' => next'.mtime # stamp'.mtime \/ Racy(stamp)'
          BY <1>4, <2>1 DEF Stat, LastRecord, Betrayed, Racy
    <3> QED BY <1>4, <2>1, <3>1 DEF Stat, NextRecord, StampTypeOK, RecordOfPast
  <2> QED BY <2>2, <2>3, <2>4
<1>5. CASE Decide
  <2> DEFINE h == NextHash
  <2>1. h \in Int
        BY DEF NextHash, NoHash, StampTypeOK, Stamps
  <2>2. /\ stamp'.mtime = next.mtime /\ stamp'.recordedAt = next.recordedAt
        /\ stamp'.hash = h /\ stamp' \in Stamps
        BY <1>5, <2>1 DEF Decide, StampTypeOK, Stamps
  <2>3. StampTypeOK' /\ NextRecord'
        BY <1>5, <2>2 DEF Decide, StampTypeOK, NextRecord
  <2>4. RecordOfPast(stamp)'
        BY <1>5, <2>2 DEF Decide, NextRecord, RecordOfPast
  <2> HIDE DEF h
  <2>5. CASE Tie
    <3>1. h = content /\ (Changed <=> stamp.hash # content)
          BY <2>5 DEF h, NextHash, Changed, HashDiffers
    <3>2. CASE Changed
          BY <1>5, <2>2, <2>3, <2>4, <3>1, <3>2
             DEF Decide, LastRecord, QuietCheck, StampTypeOK
    <3>3. CASE ~Changed
      <4>1. held = content
            BY <1>5, <3>1, <3>3 DEF Decide, LastRecord, StampTypeOK, Stamps
      <4> QED BY <1>5, <2>2, <2>3, <2>4, <3>1, <3>3, <4>1
                 DEF Decide, LastRecord, QuietCheck, StampTypeOK
    <3> QED BY <3>2, <3>3
  <2>6. CASE Same
    <3>1. ~Changed /\ h = stamp.hash
          BY <2>6 DEF h, NextHash, Changed, Same, Tie
    <3>2. statted = held
          BY <1>5, <2>6 DEF Decide, NextRecord, Same
    <3> QED BY <1>5, <2>2, <2>3, <2>4, <3>1, <3>2
               DEF Decide, LastRecord, NextRecord, QuietCheck, Betrayed
  <2>7. CASE ~Tie /\ ~Same
    <3>1. Changed /\ h = -1
          BY <2>7 DEF h, NextHash, Changed, NoHash
    <3> QED BY <1>5, <2>2, <2>3, <2>4, <3>1
               DEF Decide, LastRecord, QuietCheck, StampTypeOK
  <2> QED BY <2>5, <2>6, <2>7
<1>6. CASE Read
      BY <1>6 DEF Read, StampTypeOK, Stamps, LastRecord, NextRecord, QuietCheck,
                  RecordOfPast
<1>7. CASE UNCHANGED stampVars
      BY <1>7 DEF stampVars, StampTypeOK, Stamps, LastRecord, NextRecord, QuietCheck,
                  RecordOfPast, Betrayed, Racy
<1> QED BY <1>1, <1>2, <1>3, <1>4, <1>5, <1>6, <1>7 DEF StampNext

\* Every reachable state satisfies the invariant on records.
THEOREM RecordInvariant == StampSpec => []RecordsHold
BY StampInitHolds, StampNextHolds, PTL DEF StampSpec

\* fileContentChanged misses no change that was in place before its check
\* began, whatever the clock, the writers and the window, provided the window
\* is no smaller than the resolution of the file times.
THEOREM NoMissedChange == StampSpec => []NoChangeIsMissed
<1>1. RecordsHold => NoChangeIsMissed
      BY DEF RecordsHold, QuietCheck, NoChangeIsMissed
<1> QED BY <1>1, RecordInvariant, PTL

=============================================================================
