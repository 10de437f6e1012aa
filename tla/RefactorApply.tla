---------------------------- MODULE RefactorApply --------------------------
(***************************************************************************)
(* Carrying a plan out on disk: ops/refactor-plan-apply.ts, and with no    *)
(* move and no new file ops/refactor-apply.ts; ops/refactor-commit.ts,     *)
(* ops/post-apply-verify.ts, support/text-edits/write.ts, support/git/     *)
(* mutate.ts and worktree-snapshot.ts.  Another program writes to the      *)
(* workspace between any two steps of the op.                              *)
(*                                                                         *)
(* Bounds: it writes at most MaxOther paths, each once, so it never puts   *)
(* back what it replaced.  Every path but the ignored ones is relevant to  *)
(* the typecheck.  A capture of the worktree is one step, though git reads *)
(* it file by file; HEAD does not move; a dry run is a refusal.            *)
(***************************************************************************)
EXTENDS TxnCompose

CONSTANTS Ignored,    \* the spots git ignores
          Unsaved,    \* the tracked files that hold uncommitted edits at first
          MaxOther    \* bound: the paths the other program writes

ASSUME RefactorApplyAssumption == Ignored \subseteq Spots /\ Unsaved \subseteq Files /\ MaxOther \in Nat

VARIABLES
    pc, outcome,
    dirtyOk, expired,
    before,      \* originalDisk: the rollback baseline, of the changed origins
    entry,       \* the fence captured at entry
    todo,        \* the disk operations that are left
    staged,      \* the moves in git's index
    failed,      \* the paths a rollback could not restore
    noted,       \* the rollback says that the index was not reset
    era          \* history: the pc at which the other program wrote a path

flags == <<dirtyOk, expired>>
vars == <<disk, chain, pc, outcome, flags, before, entry, todo, staged, failed, noted, era>>

AtFirst(p) == IF p \in Unsaved THEN Bytes("user", p) ELSE IF p \in Files THEN AtHead(p) ELSE NoFile

Init == /\ disk = [p \in Paths |-> AtFirst(p)]
        /\ byOrigin = {} /\ currentToOrigin = {} /\ steps = 0 /\ tree = disk /\ dropped = {}
        /\ pc = "plan" /\ outcome = "none" /\ dirtyOk \in BOOLEAN /\ expired = FALSE
        /\ before = [p \in Paths |-> NoFile] /\ entry = {} /\ todo = {} /\ staged = {}
        /\ failed = {} /\ noted = FALSE /\ era = [p \in Paths |-> "never"]

\* The sets that applyRefactorPlan computes from the plan.
Sources == {s.origin : s \in moves}
Dests == {s.current : s \in moves}
Fresh == {s.current : s \in newFiles}
Written == {s.current : s \in Diffed}
Restores == {s.origin : s \in moves \cup contentWrites}
Removes == Fresh \cup Dests
Touched == Written \cup Restores
Rewrites == {s.current : s \in contentWrites}
Planned(p) == (CHOOSE s \in Diffed : s.current = p).after

Goto(to) == pc' = to /\ UNCHANGED outcome
End(how) == pc' = "done" /\ outcome' = how

----------------------------------------------------------------------------
(* transaction.run                                                         *)

Step == /\ pc = "plan" /\ ~expired /\ PlanStep
        /\ UNCHANGED <<pc, outcome, flags, before, entry, todo, staged, failed, noted, era>>

\* A step that cannot be planned, or a spent deadline, ends the chain; so does one without edits.
StepFails == /\ pc = "plan" /\ steps < MaxSteps
             /\ End(IF expired THEN "timeout" ELSE "failed")
             /\ UNCHANGED <<disk, chain, flags, before, entry, todo, staged, failed, noted, era>>

Build == /\ pc = "plan" /\ steps > 0
         /\ IF isEmpty \/ Unreadable THEN End("failed") /\ UNCHANGED before
            ELSE /\ Goto("entry")
                 /\ before' = [p \in Paths |-> IF p \in Restores THEN disk[p] ELSE NoFile]
         /\ UNCHANGED <<disk, chain, flags, entry, todo, staged, failed, noted, era>>

----------------------------------------------------------------------------
(* Before the write.                                                       *)

Still == UNCHANGED <<disk, chain, flags, before, todo, staged, failed, noted, era>>

\* git status: what differs from HEAD and is not ignored
Dirty == {p \in Paths \ Ignored : disk[p] # (IF p \in Files THEN AtHead(p) ELSE NoFile)}
captureWorktree == {<<p, disk[p]>> : p \in Dirty}
worktreeDrift == captureWorktree # entry

\* A git failure at entry is reported once the checks before the fence are passed.
Capture == /\ pc = "entry" /\ Goto("gate") /\ entry' = captureWorktree /\ Still

\* The typecheck over the overlay; a capture, an error of the edit, a dry run.
Gate == /\ pc = "gate" /\ UNCHANGED entry /\ Still
        /\ \/ Goto("collide")
           \/ End("refused")
           \/ expired /\ End("timeout")

Collide == /\ pc = "collide" /\ UNCHANGED entry /\ Still
           /\ IF \E p \in Removes : disk[p] # NoFile THEN End("refused") ELSE Goto("fence")

Drifted_TouchedOnly == {t \in captureWorktree : t[1] \in Touched} # {t \in entry : t[1] \in Touched}
Drifted == worktreeDrift
Fence == /\ pc = "fence" /\ UNCHANGED entry /\ Still
         /\ \/ End("failed")
            \/ IF Drifted \/ (Touched \cap Dirty # {} /\ ~dirtyOk) THEN End("refused") ELSE Goto("compare")

MovedUnderUs_InPlaceOnly == \E p \in Restores \cap Written : disk[p] # before[p]
MovedUnderUs == \E p \in Restores : disk[p] # before[p]

Move(s) == [op |-> "move", at |-> s.current, from |-> s.origin]
Write(s) == [op |-> "write", at |-> s.current, from |-> s.current]

Compare == /\ pc = "compare" /\ UNCHANGED <<disk, chain, flags, before, entry, staged, failed, noted, era>>
           /\ \/ MovedUnderUs /\ End("refused") /\ UNCHANGED todo
              \/ ~MovedUnderUs /\ expired /\ End("timeout") /\ UNCHANGED todo
              \/ /\ ~MovedUnderUs /\ ~expired /\ Goto("commit")
                 /\ todo' = {Move(s) : s \in moves} \cup {Write(s) : s \in newFiles \cup contentWrites}

----------------------------------------------------------------------------
(* commitMove, one disk operation at a time, and revertMove or revertAll.  *)

Undo(op, p) == [op |-> op, at |-> p, from |-> p]
Restored_Rewritten == {s.origin : s \in contentWrites}
Restored == Restores
Rollback == /\ todo' = {Undo("unstage", "index")} \cup {Undo("remove", p) : p \in Removes}
                         \cup {Undo("restore", p) : p \in Restored}
            /\ Goto("rollback")

\* The order of the operations of a commit and of a rollback; within a kind, one that never changes.
Rank(t) == CASE t.op \in {"move", "unstage"} -> 1 [] t.op \in {"write", "remove"} -> 2 [] OTHER -> 3
Task == CHOOSE t \in todo : \A u \in todo : Rank(t) <= Rank(u)
IsNext(t) == t \in todo /\ t = Task
Done(t) == todo' = todo \ {t}

\* git mv refuses a missing source and an existing target; it may fail after it renamed.
MoveFile == \E t \in todo :
    /\ pc = "commit" /\ IsNext(t) /\ t.op = "move"
    /\ disk[t.from] # NoFile /\ disk[t.at] = NoFile
    /\ disk' = [disk EXCEPT ![t.at] = disk[t.from], ![t.from] = NoFile]
    /\ \/ Done(t) /\ Goto(pc) /\ staged' = staged \cup {t.at}
       \/ Rollback /\ UNCHANGED staged
    /\ UNCHANGED <<chain, flags, before, entry, failed, noted, era>>

WriteFile == \E t \in todo :
    /\ pc = "commit" /\ IsNext(t) /\ t.op = "write"
    /\ disk' = [disk EXCEPT ![t.at] = Planned(t.at)]
    /\ Done(t) /\ Goto(pc)
    /\ UNCHANGED <<chain, flags, before, entry, staged, failed, noted, era>>

CommitFails == /\ pc = "commit" /\ todo # {} /\ Rollback
               /\ UNCHANGED <<disk, chain, flags, before, entry, staged, failed, noted, era>>

Unstage == \E t \in todo :
    /\ pc = "rollback" /\ IsNext(t) /\ t.op = "unstage"
    /\ Done(t) /\ Goto(pc)
    /\ \/ staged' = {} /\ UNCHANGED noted
       \/ noted' = TRUE /\ UNCHANGED staged
    /\ UNCHANGED <<disk, chain, flags, before, entry, failed, era>>

\* A removal or a restore may fail; the others go on.
UndoFile == \E t \in todo :
    /\ pc = "rollback" /\ IsNext(t) /\ t.op \in {"remove", "restore"}
    /\ Done(t) /\ Goto(pc)
    /\ \/ /\ disk' = [disk EXCEPT ![t.at] = IF t.op = "remove" THEN NoFile ELSE before[t.at]]
          /\ UNCHANGED failed
       \/ failed' = failed \cup {t.at} /\ UNCHANGED disk
    /\ UNCHANGED <<chain, flags, before, entry, staged, noted, era>>

RolledBack == /\ pc = "rollback" /\ todo = {}
              /\ End(IF failed = {} THEN "rolled back" ELSE "rollback incomplete")
              /\ UNCHANGED entry /\ Still

----------------------------------------------------------------------------
(* verifyAfterWrite                                                        *)

readbackMismatch == \/ \E p \in Written : disk[p] # Planned(p)
                    \/ \E p \in Sources \ Written : disk[p] # NoFile

Readback == /\ pc = "commit" /\ todo = {} /\ UNCHANGED entry /\ Still
            /\ IF readbackMismatch THEN End("incomplete") ELSE Goto("recheck")

\* The reindex may fail, the deadline pass, and the recheck throw, find an error, or pass.
Recheck == /\ pc = "recheck" /\ UNCHANGED <<disk, chain, flags, before, entry, staged, failed, noted, era>>
           /\ \/ End("incomplete") /\ UNCHANGED todo
              \/ ~expired /\ End("applied") /\ UNCHANGED todo
              \/ ~expired /\ Rollback

----------------------------------------------------------------------------
(* The world.                                                              *)

\* The deadline is read here only.
Expire == /\ pc \in {"plan", "gate", "compare", "recheck"} /\ ~expired /\ expired' = TRUE
          /\ UNCHANGED <<disk, chain, pc, outcome, dirtyOk, before, entry, todo, staged, failed, noted, era>>

OtherWrites == \E p \in Paths :
    /\ pc # "done" /\ era[p] = "never" /\ Cardinality({q \in Paths : era[q] # "never"}) < MaxOther
    /\ \E b \in {NoFile, Bytes("other", p)} : disk[p] # b /\ disk' = [disk EXCEPT ![p] = b]
    /\ era' = [era EXCEPT ![p] = pc]
    /\ UNCHANGED <<chain, pc, outcome, flags, before, entry, todo, staged, failed, noted>>

OpStep == \/ Step \/ StepFails \/ Build \/ Capture \/ Gate \/ Collide \/ Fence \/ Compare
          \/ MoveFile \/ WriteFile \/ CommitFails \/ Unstage \/ UndoFile \/ RolledBack
          \/ Readback \/ Recheck
Next == OpStep \/ Expire \/ OtherWrites

Spec == Init /\ [][Next]_vars

----------------------------------------------------------------------------
TypeOK ==
    /\ disk \in [Paths -> [by : {"none", "head", "user", "step", "other"}, of : Paths \cup 0..MaxSteps]]
    /\ pc \in {"plan", "entry", "gate", "collide", "fence", "compare", "commit", "recheck", "rollback", "done"}
    /\ staged \subseteq Paths /\ failed \subseteq Paths /\ steps \in 0..MaxSteps

\* A path that the other program wrote, or that may hold what it wrote to the source of a move.
Meddled(p) == \/ era[p] # "never"
              \/ \E s \in byOrigin : s.current = p /\ era[s.origin] # "never"

\* What a finished op says of a path: an applied chain, that the path holds what its steps carried
\* out one by one would have left there; a refused, failed or rolled back one, that it holds what it
\* held at first; an incomplete rollback names the paths it did not restore.
Told(p) == IF outcome \in {"applied", "incomplete"} THEN disk[p] = tree[p]
           ELSE /\ disk[p] = AtFirst(p) \/ (outcome = "rollback incomplete" /\ p \in failed)
                /\ staged = {} \/ noted

\* The report is the disk, as the comment of applyStep has it, by which a chain that cannot be one
\* plan is refused "rather than silently DROP the earlier move".
ReportIsTrue == pc = "done" => \A p \in Paths : Meddled(p) \/ Told(p)

\* The report is the disk but for one kind of path of an applied chain: where a step had moved a
\* file that an earlier step created, when a later step creates another at the first one's old path.
\* The chain has lost that file (transaction-compose.ts:59-73), and says nothing of it.
Lost(p) == outcome \in {"applied", "incomplete"} /\ p \in dropped
ReportIsTrueButForLost == pc = "done" => \A p \in Paths : Meddled(p) \/ Told(p) \/ Lost(p)

\* A change of a file the typecheck depends on, made after the entry capture and before the fence,
\* keeps the op from writing: the write never lands on a tree that the gate cannot have seen.
Committing == pc \in {"commit", "recheck", "rollback"}
FenceHolds == Committing => \A p \in Paths \ Ignored : era[p] \notin {"gate", "collide", "fence"}

\* What the other program wrote before the op's last look at a path is never overwritten, moved or
\* removed, by the commit or by its rollback.  The last look at a file that the plan changes is the
\* comparison, at a destination that git ignores the collision check; a write during the planning
\* of a chain is noticed by the dirty gate alone.
LastLook(p) ==
    IF p \in Removes THEN {"plan", "entry", "gate", "collide"} \cup (IF p \in Ignored THEN {} ELSE {"fence"})
    ELSE {"entry", "gate", "collide", "fence", "compare"} \cup (IF dirtyOk THEN {} ELSE {"plan"})
SparesOthers == [][era' = era => \A p \in Paths : disk'[p] # disk[p] => era[p] \notin LastLook(p)]_vars
=============================================================================
