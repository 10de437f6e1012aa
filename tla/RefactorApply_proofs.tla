------------------------ MODULE RefactorApply_proofs -----------------------
(***************************************************************************)
(* Why the report of an applied chain is true, why the fence holds and why *)
(* nothing another program wrote is lost, for any workspace, any chain and *)
(* any number of writes of the other program.                              *)
(*                                                                         *)
(* Three arguments meet.  The states of a chain stand for the tree that    *)
(* its steps would have left (Chain): they are told apart by their origins *)
(* and by their current paths, and the map of current paths agrees.  Until *)
(* it writes, the op has changed nothing, so what the other program wrote  *)
(* shows, and each check before the write rules some of it out (Watchful,  *)
(* Guarded, Baseline, Collided, Cleared); what is left is Safe.  Then the  *)
(* disk is known from the operations that are left (Progress, Undoing),    *)
(* because the paths the plan removes and those it restores are disjoint.  *)
(***************************************************************************)
EXTENDS RefactorApply, TLAPS

Watched == {"gate", "collide", "fence"}
Relevant == Paths \ Ignored

----------------------------------------------------------------------------
(* The fence: between the entry capture and the fence, a path looks as it  *)
(* did in the capture exactly if nobody has written it since, because the  *)
(* op itself writes nothing and the other program never puts back what it  *)
(* replaced.                                                               *)

\* What a capture says of one path.
Of(capture, p) == {t \in capture : t[1] = p}

LooksAsCaptured(p) == Of(captureWorktree, p) = Of(entry, p)

Guarded ==
    /\ disk = [p \in Paths |-> disk[p]] /\ era = [p \in Paths |-> era[p]]
    /\ pc \in Watched => \A p \in Relevant : LooksAsCaptured(p) <=> era[p] \notin Watched
    /\ pc \notin Watched \cup {"done"} => \A p \in Relevant : era[p] \notin Watched

\* A write shows in the next capture, and only in what it says of that path.
LEMMA WriteShows ==
  ASSUME NEW p \in Relevant, NEW q \in Paths, NEW b, disk = [r \in Paths |-> disk[r]],
         disk' = [disk EXCEPT ![q] = b], disk[q] # b
  PROVE  Of(captureWorktree', p) = Of(captureWorktree, p) <=> p # q
  <1> DEFINE Clean(r) == IF r \in Files THEN AtHead(r) ELSE NoFile
  <1>1. Of(captureWorktree, p) = IF disk[p] # Clean(p) THEN {<<p, disk[p]>>} ELSE {}
    BY DEF Of, captureWorktree, Dirty, Relevant
  <1>2. Of(captureWorktree', p) = IF disk'[p] # Clean(p) THEN {<<p, disk'[p]>>} ELSE {}
    BY DEF Of, captureWorktree, Dirty, Relevant
  <1>3. disk'[p] = IF p = q THEN b ELSE disk[p]
    BY DEF Relevant
  <1> DEFINE c == Clean(p)  v == disk[p]  w == disk'[p]
  <1> HIDE DEF Clean, c, v, w
  <1>4. Of(captureWorktree, p) = (IF v # c THEN {<<p, v>>} ELSE {})
        /\ Of(captureWorktree', p) = (IF w # c THEN {<<p, w>>} ELSE {})
    BY <1>1, <1>2 DEF c, v, w
  <1>5. v = w <=> p # q
    BY <1>3 DEF v, w
  <1>6. {<<p, v>>} = {<<p, w>>} => v = w
    <2>1. <<p, v>> = <<p, w>> => v = w
      OBVIOUS
    <2>2. {<<p, v>>} = {<<p, w>>} => <<p, v>> = <<p, w>>
      BY Zenon
    <2> QED BY <2>1, <2>2
  <1>7. {<<p, v>>} # {} /\ {<<p, w>>} # {}
    OBVIOUS
  <1> QED BY <1>4, <1>5, <1>6, <1>7

LEMMA GuardedInit == Init => Guarded
  <1> SUFFICES ASSUME Init PROVE Guarded
    OBVIOUS
  <1>1. disk = [p \in Paths |-> AtFirst(p)] /\ era = [p \in Paths |-> "never"] /\ pc = "plan"
    BY DEF Init
  <1>2. disk = [p \in Paths |-> disk[p]]
    BY <1>1
  <1> QED BY <1>1, <1>2 DEF Guarded, Watched, Relevant

LEMMA GuardedStep == Guarded /\ [Next]_vars => Guarded'
  <1> SUFFICES ASSUME Guarded, [Next]_vars PROVE Guarded'
    OBVIOUS
  <1> USE DEF Watched
  <1>1. CASE Capture
    <2>1. pc = "entry" /\ pc' = "gate" /\ entry' = captureWorktree /\ disk' = disk /\ era' = era
      BY <1>1 DEF Capture, Goto, Still
    <2>2. captureWorktree' = captureWorktree
      BY <2>1 DEF captureWorktree, Dirty
    <2> QED BY <2>1, <2>2 DEF Guarded, LooksAsCaptured
  <1>2. CASE Gate \/ Collide
    <2>1. disk' = disk /\ era' = era /\ entry' = entry /\ pc \in Watched /\ pc' \in Watched \cup {"done"}
      BY <1>2 DEF Gate, Collide, Goto, End, Still
    <2>2. captureWorktree' = captureWorktree
      BY <2>1 DEF captureWorktree, Dirty
    <2> QED BY <2>1, <2>2 DEF Guarded, LooksAsCaptured
  <1>3. CASE Fence
    <2>1. disk' = disk /\ era' = era /\ pc = "fence" /\ pc' \in {"compare", "done"}
      BY <1>3 DEF Fence, Goto, End, Still
    <2>2. pc' = "compare" => captureWorktree = entry
      BY <1>3 DEF Fence, Goto, End, Drifted, worktreeDrift
    <2> QED BY <2>1, <2>2 DEF Guarded, LooksAsCaptured
  <1>4. CASE OtherWrites
    <2>1. PICK q \in Paths : /\ pc # "done" /\ era[q] = "never" /\ era' = [era EXCEPT ![q] = pc]
                             /\ \E b : disk[q] # b /\ disk' = [disk EXCEPT ![q] = b]
      BY <1>4 DEF OtherWrites
    <2>2. pc' = pc /\ entry' = entry
      BY <1>4 DEF OtherWrites
    <2>3. disk' = [p \in Paths |-> disk'[p]] /\ era' = [p \in Paths |-> era'[p]]
      BY <2>1 DEF Guarded
    <2>4. \A p \in Paths : era'[p] = IF p = q THEN pc ELSE era[p]
      BY <2>1 DEF Guarded
    <2>5. ASSUME pc \in Watched, NEW p \in Relevant
          PROVE  LooksAsCaptured(p)' <=> era'[p] \notin Watched
      <3>1. Of(captureWorktree', p) = Of(captureWorktree, p) <=> p # q
        BY <2>1, WriteShows DEF Guarded
      <3>2. LooksAsCaptured(p) <=> era[p] \notin Watched
        BY <2>5 DEF Guarded
      <3> QED BY <2>1, <2>2, <2>4, <2>5, <3>1, <3>2 DEF LooksAsCaptured, Relevant
    <2> QED BY <2>2, <2>3, <2>4, <2>5 DEF Guarded, Relevant
  <1>5. CASE Step \/ StepFails \/ Build \/ Expire
    <2>1. disk' = disk /\ era' = era /\ entry' = entry
      BY <1>5 DEF Step, StepFails, Build, Expire, PlanStep, Edits, Moves, Extracts, Compose
    <2>2. pc' = pc \/ (pc \notin Watched /\ pc' \in {"entry", "done"})
      BY <1>5 DEF Step, StepFails, Build, Expire, Goto, End
    <2>3. captureWorktree' = captureWorktree
      BY <2>1 DEF captureWorktree, Dirty
    <2>4. pc' # "done" => pc # "done"
      BY <1>5 DEF Step, StepFails, Build, Expire, Goto, End
    <2> QED BY <2>1, <2>2, <2>3, <2>4 DEF Guarded, LooksAsCaptured
  <1>6. CASE Compare \/ MoveFile \/ WriteFile \/ CommitFails \/ Unstage \/ UndoFile \/ RolledBack \/ Readback \/ Recheck
    <2>1. era' = era
      BY <1>6 DEF Compare, MoveFile, WriteFile, CommitFails, Unstage, UndoFile, RolledBack, Readback, Recheck, Still
    <2>2. pc \notin Watched \cup {"done"} /\ pc' \notin Watched
      BY <1>6 DEF Compare, MoveFile, WriteFile, CommitFails, Unstage, UndoFile, RolledBack, Readback, Recheck,
                  Rollback, Goto, End
    <2>3. disk' = [p \in Paths |-> disk'[p]]
      BY <1>6 DEF Compare, MoveFile, WriteFile, CommitFails, Unstage, UndoFile, RolledBack, Readback, Recheck,
                  Still, Guarded
    <2> QED BY <2>1, <2>2, <2>3 DEF Guarded
  <1>7. CASE UNCHANGED vars
    <2>1. disk' = disk /\ era' = era /\ entry' = entry /\ pc' = pc
      BY <1>7 DEF vars
    <2>2. captureWorktree' = captureWorktree
      BY <2>1 DEF captureWorktree, Dirty
    <2> QED BY <2>1, <2>2 DEF Guarded, LooksAsCaptured
  <1> QED BY <1>1, <1>2, <1>3, <1>4, <1>5, <1>6, <1>7 DEF Next, OpStep

\* No write of the op lands on a workspace whose relevant files changed between the entry capture
\* and the fence (preWriteCheck of post-apply-verify.ts), whatever the plan, for any workspace.
THEOREM TheFenceHolds == Spec => []FenceHolds
  <1>1. Guarded => FenceHolds
    BY DEF Guarded, FenceHolds, Committing, Watched, Relevant
  <1> QED BY <1>1, GuardedInit, GuardedStep, PTL DEF Spec

----------------------------------------------------------------------------
(* The chain: one diff entry after the other, each folded into the state   *)
(* of its file.                                                            *)

\* What the overlay of the next step lists.
Listed(by) == {s.current : s \in by} \cup (Files \ {s.origin : s \in by})

\* A state for an origin, and for a current path.
Keyed(by) == \A s, r \in by : s.origin = r.origin \/ s.current = r.current => s = r
\* A file that git tracks is not a new one, and one that no step edited holds its first bytes.
States(by) ==
    \A s \in by : /\ s.origin \in Paths /\ s.current \in Paths /\ s.after # NoFile
                  /\ s.isNew \in BOOLEAN /\ s.edited \in BOOLEAN
                  /\ s.isNew <=> s.origin \notin Files
                  /\ ~s.isNew /\ ~s.edited /\ era[s.origin] = "never" => s.after = AtFirst(s.origin)
                  /\ s.current \in Files => \E r \in by : r.origin = s.current
\* A listed path is mapped to the origin of its file; an entry of a path that is not is stale.
Mapped(by, at) ==
    /\ at \subseteq Paths \X Paths
    /\ \A s \in by : <<s.current, s.origin>> \in at
    /\ \A pr \in at : pr[1] \in Listed(by) => \E s \in by : s.current = pr[1] /\ s.origin = pr[2]
\* The tree, a path at a time.
Mirrored(by, t, dr) ==
    /\ \A s \in by : t[s.current] = s.after
    /\ \A p \in Listed(by) : (\A s \in by : s.current # p) => t[p] = AtFirst(p)
    /\ \A p \in Paths \ Listed(by) : p \in dr \/ t[p] = NoFile

ChainOK(by, at, t, dr) == Keyed(by) /\ States(by) /\ Mapped(by, at) /\ Mirrored(by, t, dr)

\* originOf: the map leads from a listed path to its state.
LEMMA OriginFound ==
  ASSUME NEW by, NEW at, NEW t, NEW dr, ChainOK(by, at, t, dr), NEW p \in Listed(by)
  PROVE  /\ \A s \in by : s.current = p => OriginOf(at, p) = s.origin
         /\ (\A s \in by : s.current # p) => /\ OriginOf(at, p) = p /\ p \in Files
                                             /\ \A s \in by : s.origin # p
  <1>. USE DEF ChainOK, Keyed, Mapped, OriginOf, Listed
  <1>1. ASSUME NEW s \in by, s.current = p
        PROVE  OriginOf(at, p) = s.origin
    <2>1. \A pr \in at : pr[1] = p => pr[2] = s.origin
      BY <1>1
    <2>2. \E pr \in at : pr[1] = p
      <3>1. <<s.current, s.origin>> \in at
        OBVIOUS
      <3> QED BY <1>1, <3>1
    <2> DEFINE pr0 == CHOOSE pr \in at : pr[1] = p
    <2>3. pr0 \in at /\ pr0[1] = p
      BY <2>2
    <2> QED BY <2>1, <2>2, <2>3
  <1>2. ASSUME \A s \in by : s.current # p
        PROVE  /\ OriginOf(at, p) = p /\ p \in Files /\ \A s \in by : s.origin # p
    BY <1>2
  <1> QED BY <1>1, <1>2

\* What folding an entry does to the states and to the map, when o is the origin of its file.
Folds(by, at, d, o, nby, nat) ==
    /\ o \in Paths
    /\ \A s \in by : s.current = d.from <=> s.origin = o
    /\ (\A s \in by : s.origin # o) => o = d.from /\ o \in Files
    /\ \E new \in nby :
         /\ nby = {s \in by : s.origin # o} \cup {new}
         /\ new.origin = o /\ new.current = d.to /\ new.after = d.after
         /\ new.edited \in BOOLEAN /\ new.isNew \in BOOLEAN
         /\ new.edited <=> d.after # d.before \/ \E s \in by : s.origin = o /\ s.edited
         /\ new.isNew <=> \E s \in by : s.origin = o /\ s.isNew
    /\ nat \subseteq at \cup {<<d.to, o>>} /\ <<d.to, o>> \in nat
    /\ \A pr \in at : pr[1] \notin {d.from, d.to} => pr \in nat
    /\ \A pr \in nat : /\ pr[1] = d.to => pr[2] = o
                       /\ pr[1] = d.from => d.to = d.from

LEMMA Folding ==
  ASSUME NEW by, NEW at, NEW t, NEW dr, ChainOK(by, at, t, dr), NEW d, d.from \in Listed(by),
         d.to = d.from \/ d.to \in Paths \ Listed(by)
  PROVE  Folds(by, at, d, OriginOf(at, d.from), Changed([by |-> by, at |-> at], d).by,
               Changed([by |-> by, at |-> at], d).at)
  <1>. DEFINE st == [by |-> by, at |-> at]
              next == Changed(st, d)
              o == OriginOf(at, d.from)
              new == [origin |-> o, current |-> d.to, after |-> d.after,
                     edited |-> d.after # d.before \/ \E s \in Prev(st, d) : s.edited,
                     isNew |-> \E s \in Prev(st, d) : s.isNew]
  <1>1. Prev(st, d) = {s \in by : s.origin = o}
    BY DEF Prev
  <1>2. o \in Paths
    BY OriginFound DEF ChainOK, States, Listed, Paths
  <1>3. \A s \in by : s.current = d.from <=> s.origin = o
    BY OriginFound DEF ChainOK, Keyed
  <1>4. (\A s \in by : s.origin # o) => o = d.from /\ o \in Files
    BY <1>3, OriginFound
  <1>5. next.by = {s \in by : s.origin # o} \cup {new}
    BY <1>1 DEF Changed, Fold
  <1>6. next.at = IF d.from # d.to THEN {pr \in at : pr[1] \notin {d.from, d.to}} \cup {<<d.to, o>>}
                  ELSE IF \E pr \in at : pr[1] = d.to THEN at ELSE at \cup {<<d.to, o>>}
    BY DEF Changed, Fold
  <1>7. d.from = d.to /\ (\E pr \in at : pr[1] = d.to) => /\ <<d.to, o>> \in at
                                                          /\ \A pr \in at : pr[1] = d.to => pr[2] = o
    BY <1>3 DEF ChainOK, Mapped, Keyed
  <1>8. /\ next.at \subseteq at \cup {<<d.to, o>>} /\ <<d.to, o>> \in next.at
        /\ \A pr \in at : pr[1] \notin {d.from, d.to} => pr \in next.at
        /\ \A pr \in next.at : /\ pr[1] = d.to => pr[2] = o
                               /\ pr[1] = d.from => d.to = d.from
    BY <1>6, <1>7
  <1>9. /\ new.edited <=> d.after # d.before \/ \E s \in by : s.origin = o /\ s.edited
        /\ new.isNew <=> \E s \in by : s.origin = o /\ s.isNew
    BY <1>1
  <1>10. /\ new.origin = o /\ new.current = d.to /\ new.after = d.after
         /\ new.edited \in BOOLEAN /\ new.isNew \in BOOLEAN
    OBVIOUS
  <1>11. new \in next.by
    BY <1>5
  <1>. HIDE DEF o, new, next
  <1>12. Folds(by, at, d, o, next.by, next.at)
    BY <1>2, <1>3, <1>4, <1>5, <1>8, <1>9, <1>10, <1>11 DEF Folds
  <1> QED BY <1>12 DEF next, o

\* A planned entry: it says what its file holds, and does not take a listed file's place.
Plans(d, by) ==
    /\ d.from \in Listed(by) /\ (d.to = d.from \/ d.to \in Paths \ Listed(by)) /\ d.after # NoFile
    /\ \A s \in by : s.current = d.from => d.before = s.after
    /\ (\A s \in by : s.current # d.from) /\ era[d.from] = "never" => d.before = AtFirst(d.from)

LEMMA FoldKeepsChain ==
  ASSUME NEW by, NEW at, NEW t, NEW dr, ChainOK(by, at, t, dr), t = [p \in Paths |-> t[p]],
         NEW d, Plans(d, by)
  PROVE  LET next == Changed([by |-> by, at |-> at], d) IN
         /\ ChainOK(next.by, next.at, Carried(t, d), dr)
         /\ Listed(next.by) = (Listed(by) \ {d.from}) \cup {d.to}
         /\ \A p \in Paths \ {d.from, d.to} :
               {s \in next.by : s.current = p} = {s \in by : s.current = p}
         /\ \A s \in next.by :
               \/ s.origin = d.from /\ s.current = d.to
               \/ \E r \in by : /\ r.origin = s.origin /\ (r.isNew <=> s.isNew)
                               /\ s.current = IF r.current = d.from THEN d.to ELSE r.current
  <1>. DEFINE next == Changed([by |-> by, at |-> at], d)
              o == OriginOf(at, d.from)
              nby == next.by
              nat == next.at
  <1>0. Folds(by, at, d, o, nby, nat)
    BY Folding DEF Plans
  <1>. HIDE DEF nby, nat, o
  <1>1. PICK new \in nby :
              /\ nby = {s \in by : s.origin # o} \cup {new}
              /\ new.origin = o /\ new.current = d.to /\ new.after = d.after
              /\ new.edited \in BOOLEAN /\ new.isNew \in BOOLEAN
              /\ new.edited <=> d.after # d.before \/ \E s \in by : s.origin = o /\ s.edited
              /\ new.isNew <=> \E s \in by : s.origin = o /\ s.isNew
    BY <1>0 DEF Folds
  <1>2. /\ o \in Paths
        /\ \A s \in by : s.current = d.from <=> s.origin = o
        /\ (\A s \in by : s.origin # o) => o = d.from /\ o \in Files
    BY <1>0 DEF Folds
  <1>3. /\ nat \subseteq at \cup {<<d.to, o>>} /\ <<d.to, o>> \in nat
        /\ \A pr \in at : pr[1] \notin {d.from, d.to} => pr \in nat
        /\ \A pr \in nat : /\ pr[1] = d.to => pr[2] = o
                           /\ pr[1] = d.from => d.to = d.from
    BY <1>0 DEF Folds
  <1>4. Keyed(by) /\ States(by) /\ Mapped(by, at) /\ Mirrored(by, t, dr)
    BY DEF ChainOK
  <1>5. d.from \in Paths /\ d.to \in Paths /\ d.after # NoFile
    BY <1>4 DEF Plans, Listed, States, Paths
  <1>6. Keyed(nby)
    BY <1>1, <1>2, <1>4 DEF Keyed, Plans, Listed
  <1>7. Listed(nby) = (Listed(by) \ {d.from}) \cup {d.to}
    <2>1. {s.current : s \in nby} = ({s.current : s \in by} \ {d.from}) \cup {d.to}
      BY <1>1, <1>2
    <2>2. {s.origin : s \in nby} = {s.origin : s \in by} \cup {o}
      BY <1>1
    <2>3. d.from \in Files \ {s.origin : s \in by} => o = d.from
      BY <1>2, <1>4 DEF States
    <2>4. o \in Files \ {s.origin : s \in by} => o = d.from
      BY <1>2
    <2>5. d.from \in {s.current : s \in by} => d.from \notin Files \ {s.origin : s \in by}
      BY <1>4 DEF States
    <2> QED BY <2>1, <2>2, <2>3, <2>4, <2>5 DEF Listed, Plans
  <1>8. \A p \in Paths \ {d.from, d.to} : {s \in nby : s.current = p} = {s \in by : s.current = p}
    BY <1>1, <1>2
  <1>9. States(nby)
    <2>1. \A s \in by : s.origin # o => s \in nby
      BY <1>1
    <2>2. \A p \in Files : (\E r \in by : r.origin = p) => \E r \in nby : r.origin = p
      BY <1>1
    <2>3. new.isNew <=> o \notin Files
      BY <1>1, <1>2, <1>4 DEF States
    <2>4. d.to \in Files => \E r \in nby : r.origin = d.to
      BY <1>1, <1>2, <1>4, <2>2 DEF Plans, Listed, States
    <2>5. ~new.isNew /\ ~new.edited /\ era[o] = "never" => d.after = AtFirst(o)
      BY <1>1, <1>2, <1>4 DEF Plans, States
    <2> QED BY <1>1, <1>2, <1>4, <1>5, <2>2, <2>3, <2>4, <2>5 DEF States
  <1>10. Mapped(nby, nat)
    <2>1. nat \subseteq Paths \X Paths
      BY <1>2, <1>3, <1>4, <1>5 DEF Mapped
    <2>2. \A s \in nby : <<s.current, s.origin>> \in nat
      BY <1>1, <1>2, <1>3, <1>4 DEF Mapped, Plans, Listed
    <2>3. ASSUME NEW pr \in nat, pr[1] \in Listed(nby)
          PROVE  \E s \in nby : s.current = pr[1] /\ s.origin = pr[2]
      BY <1>1, <1>2, <1>3, <1>4, <1>7, <2>3 DEF Mapped
    <2> QED BY <2>1, <2>2, <2>3 DEF Mapped
  <1>11. Mirrored(nby, Carried(t, d), dr)
    <2>1. \A p \in Paths : Carried(t, d)[p] = IF p = d.to THEN d.after
                                             ELSE IF p = d.from THEN NoFile ELSE t[p]
      BY <1>5 DEF Carried
    <2>2. \A s \in nby : s.current \in Paths
      BY <1>9 DEF States
    <2>3. \A s \in nby : Carried(t, d)[s.current] = s.after
      BY <1>1, <1>2, <1>4, <1>5, <2>1, <2>2 DEF Mirrored, Plans, Listed
    <2>4. ASSUME NEW p \in Listed(nby), \A s \in nby : s.current # p
          PROVE  Carried(t, d)[p] = AtFirst(p)
      <3>1. p # d.to /\ p \in Listed(by) /\ p # d.from /\ p \in Paths
        BY <1>1, <1>7, <2>4 DEF Listed, Paths
      <3>2. \A s \in by : s.current # p
        BY <1>8, <2>4, <3>1
      <3> QED BY <1>4, <2>1, <3>1, <3>2 DEF Mirrored
    <2>5. ASSUME NEW p \in Paths \ Listed(nby)
          PROVE  p \in dr \/ Carried(t, d)[p] = NoFile
      BY <1>4, <1>7, <2>1 DEF Mirrored
    <2> QED BY <2>3, <2>4, <2>5 DEF Mirrored
  <1>12. ASSUME NEW s \in nby
         PROVE  \/ s.origin = d.from /\ s.current = d.to
                \/ \E r \in by : /\ r.origin = s.origin /\ (r.isNew <=> s.isNew)
                                /\ s.current = IF r.current = d.from THEN d.to ELSE r.current
    <2>1. CASE s \in by /\ s.origin # o
      BY <1>2, <2>1
    <2>2. CASE s = new /\ \E r \in by : r.origin = o
      <3>1. PICK r \in by : r.origin = o
        BY <2>2
      <3>2. r.current = d.from /\ r.isNew \in BOOLEAN /\ \A q \in by : q.origin = o => q = r
        BY <1>2, <1>4, <3>1 DEF Keyed, States
      <3> QED BY <1>1, <2>2, <3>1, <3>2
    <2>3. CASE s = new /\ \A r \in by : r.origin # o
      BY <1>1, <1>2, <2>3
    <2> QED BY <1>1, <2>1, <2>2, <2>3
  <1> QED BY <1>6, <1>7, <1>8, <1>9, <1>10, <1>11, <1>12 DEF ChainOK, nby, nat

\* A created file: it takes the place of a file that was created there and moved away.
LEMMA CreateKeepsChain ==
  ASSUME NEW by, NEW at, NEW t, NEW dr, ChainOK(by, at, t, dr), t = [p \in Paths |-> t[p]],
         NEW d, d.from = d.to, d.to \in Paths \ Listed(by), d.after # NoFile,
         \A s \in by : s.origin = d.to => ~tombstoned(s),
         NEW more, dr \subseteq more, \A s \in by : s.origin = d.to => s.current \in more
  PROVE  ChainOK(Created([by |-> by, at |-> at], d).by, Created([by |-> by, at |-> at], d).at,
                 Carried(t, d), more)
  <1>. DEFINE next == Created([by |-> by, at |-> at], d)
              new == [origin |-> d.to, current |-> d.to, after |-> d.after, edited |-> FALSE, isNew |-> TRUE]
              nby == next.by
              nat == next.at
  <1>1. /\ nby = {s \in by : s.origin # d.to} \cup {new}
        /\ nat = {pr \in at : pr[1] # d.to} \cup {<<d.to, d.to>>}
    BY DEF Created
  <1>2. /\ new.origin = d.to /\ new.current = d.to /\ new.after = d.after /\ new.isNew = TRUE
        /\ new.edited = FALSE
    OBVIOUS
  <1>3. Keyed(by) /\ States(by) /\ Mapped(by, at) /\ Mirrored(by, t, dr)
    BY DEF ChainOK
  <1>4. d.to \notin Files
    <2>1. SUFFICES ASSUME d.to \in Files
                   PROVE  FALSE
      OBVIOUS
    <2>2. PICK s \in by : s.origin = d.to
      BY <2>1 DEF Listed
    <2>3. ~s.isNew /\ s.current # d.to
      BY <1>3, <2>1, <2>2 DEF States, Listed
    <2> QED BY <2>2, <2>3 DEF tombstoned
  <1>5. \A s \in by : s.current # d.to
    BY DEF Listed
  <1>. HIDE DEF nby, nat, next, new
  <1>6. Keyed(nby)
    BY <1>1, <1>2, <1>3, <1>5 DEF Keyed
  <1>7. /\ Listed(nby) \subseteq Listed(by) \cup {d.to} /\ d.to \in Listed(nby)
        /\ \A s \in by : s.origin = d.to => s.current \notin Listed(nby)
        /\ \A p \in Listed(by) : p \in Listed(nby) \/ \E s \in by : s.origin = d.to /\ s.current = p
    <2>1. {s.current : s \in nby} = {s.current : s \in {r \in by : r.origin # d.to}} \cup {d.to}
      BY <1>1, <1>2
    <2>2. {s.origin : s \in nby} = {s.origin : s \in by} \cup {d.to}
      BY <1>1, <1>2
    <2>3. Listed(nby) = {s.current : s \in {r \in by : r.origin # d.to}} \cup {d.to}
                        \cup (Files \ {s.origin : s \in by})
      BY <1>4, <2>1, <2>2 DEF Listed
    <2>4. \A s \in by : s.current \notin Files \ {r.origin : r \in by}
      BY <1>3 DEF States
    <2> QED BY <1>3, <1>5, <2>3, <2>4 DEF Listed, Keyed
  <1>8. States(nby)
    <2>1. \A p \in Files : (\E r \in by : r.origin = p) => \E r \in nby : r.origin = p
      BY <1>1, <1>4
    <2> QED BY <1>1, <1>2, <1>3, <1>4, <2>1 DEF States
  <1>9. Mapped(nby, nat)
    <2>1. nat \subseteq Paths \X Paths
      BY <1>1, <1>3 DEF Mapped
    <2>2. \A s \in nby : <<s.current, s.origin>> \in nat
      BY <1>1, <1>2, <1>3, <1>5 DEF Mapped
    <2>3. ASSUME NEW pr \in nat, pr[1] \in Listed(nby)
          PROVE  \E s \in nby : s.current = pr[1] /\ s.origin = pr[2]
      <3>1. CASE pr[1] = d.to
        BY <1>1, <1>2, <3>1
      <3>2. CASE pr[1] # d.to
        <4>1. PICK s \in by : s.current = pr[1] /\ s.origin = pr[2]
          BY <1>1, <1>3, <1>7, <2>3, <3>2 DEF Mapped
        <4> QED BY <1>1, <1>7, <2>3, <4>1
      <3> QED BY <3>1, <3>2
    <2> QED BY <2>1, <2>2, <2>3 DEF Mapped
  <1>10. Mirrored(nby, Carried(t, d), more)
    <2>1. \A p \in Paths : Carried(t, d)[p] = IF p = d.to THEN d.after ELSE t[p]
      BY DEF Carried
    <2>2. \A s \in nby : s.current \in Paths
      BY <1>8 DEF States
    <2>3. \A s \in nby : Carried(t, d)[s.current] = s.after
      BY <1>1, <1>2, <1>3, <1>5, <2>1, <2>2 DEF Mirrored
    <2>4. ASSUME NEW p \in Listed(nby), \A s \in nby : s.current # p
          PROVE  Carried(t, d)[p] = AtFirst(p)
      <3>1. p # d.to /\ p \in Listed(by) /\ p \in Paths
        BY <1>1, <1>2, <1>7, <2>4 DEF Listed, Paths
      <3>2. \A s \in by : s.current # p
        BY <1>1, <1>7, <2>4
      <3> QED BY <1>3, <2>1, <3>1, <3>2 DEF Mirrored
    <2>5. ASSUME NEW p \in Paths \ Listed(nby)
          PROVE  p \in more \/ Carried(t, d)[p] = NoFile
      BY <1>3, <1>7, <2>1 DEF Mirrored
    <2> QED BY <2>3, <2>4, <2>5 DEF Mirrored
  <1> QED BY <1>6, <1>8, <1>9, <1>10 DEF ChainOK, nby, nat, next

\* What is dropped may be more, and need not name what is current.
LEMMA DroppedGrows ==
  ASSUME NEW by, NEW at, NEW t, NEW dr, ChainOK(by, at, t, dr),
         NEW more, dr \subseteq more \cup {s.current : s \in by}
  PROVE  ChainOK(by, at, t, more)
  BY DEF ChainOK, Mirrored, Listed

ChainOf == [by |-> byOrigin, at |-> currentToOrigin]
ChainNow == /\ ChainOK(byOrigin, currentToOrigin, tree, dropped)
            /\ tree = [p \in Paths |-> tree[p]]
            /\ \A p \in Paths : era[p] = "never" => disk[p] = AtFirst(p)

LEMMA EntryPlans ==
  ASSUME ChainNow, NEW p \in Readable, NEW to, to = p \/ to \in Paths \ Listing,
         NEW after, after # NoFile
  PROVE  /\ Plans(Entry(p, to, after), byOrigin)
         /\ Entry(p, to, after).from = p /\ Entry(p, to, after).to = to
         /\ Entry(p, to, after).after = after
  <1>1. Listing = Listed(byOrigin) /\ p \in Listing /\ p \in Paths /\ Keyed(byOrigin)
    BY DEF Readable, Listing, Listed, Paths, ChainNow, ChainOK, States
  <1>2. \A s \in byOrigin : s.current = p => Content(p) = s.after
    BY <1>1 DEF Content, Keyed
  <1>3. (\A s \in byOrigin : s.current # p) => Content(p) = disk[p]
    BY DEF Content
  <1> QED BY <1>1, <1>2, <1>3 DEF Entry, Plans, ChainNow

LEMMA ComposeOne ==
  ASSUME NEW d, Compose(<<d>>, {})
  PROVE  /\ byOrigin' = Changed(ChainOf, d).by /\ currentToOrigin' = Changed(ChainOf, d).at
         /\ tree' = Carried(tree, d) /\ dropped' = dropped \ {s.current : s \in byOrigin'}
  <1>1. Len(<<d>>) = 1 /\ <<d>>[1] = d
    OBVIOUS
  <1>2. Folded(ChainOf, d, {}) = Changed(ChainOf, d)
    BY DEF Folded
  <1>3. Replaced({}) = {}
    BY DEF Replaced
  <1> QED BY <1>1, <1>2, <1>3 DEF Compose, ApplyStep, InTurn, ChainOf

LEMMA ComposeTwo ==
  ASSUME NEW d, NEW e, NEW news, Compose(<<d, e>>, news)
  PROVE  LET one == Folded(ChainOf, d, news)
             two == Folded(one, e, news) IN
         /\ byOrigin' = two.by /\ currentToOrigin' = two.at
         /\ tree' = Carried(Carried(tree, d), e)
         /\ dropped' = (dropped \cup Replaced(news)) \ {s.current : s \in byOrigin'}
  <1>1. Len(<<d, e>>) = 2 /\ <<d, e>>[1] = d /\ <<d, e>>[2] = e
    OBVIOUS
  <1> QED BY <1>1 DEF Compose, ApplyStep, InTurn, ChainOf

\* One entry, or two for different files.
LEMMA OneEntryKeepsChain ==
  ASSUME ChainNow, NEW d, Plans(d, byOrigin), Compose(<<d>>, {})
  PROVE  ChainOK(byOrigin', currentToOrigin', tree', dropped')
  <1>1. ChainOK(byOrigin', currentToOrigin', tree', dropped)
    BY ComposeOne, FoldKeepsChain DEF ChainNow, ChainOf
  <1> QED BY <1>1, ComposeOne, DroppedGrows

LEMMA TwoEntriesKeepChain ==
  ASSUME ChainNow, NEW d, Plans(d, byOrigin), NEW r \in Readable, r \notin {d.from, d.to},
         Compose(<<d, Entry(r, r, StepBytes)>>, {})
  PROVE  ChainOK(byOrigin', currentToOrigin', tree', dropped')
  <1>. DEFINE e == Entry(r, r, StepBytes)
              one == Changed(ChainOf, d)
              two == Changed(one, e)
  <1>1. StepBytes # NoFile
    BY DEF StepBytes, NoFile, Bytes
  <1>2. Plans(e, byOrigin) /\ e.from = r /\ e.to = r
    BY <1>1, EntryPlans
  <1>3. /\ ChainOK(one.by, one.at, Carried(tree, d), dropped)
        /\ Listed(one.by) = (Listed(byOrigin) \ {d.from}) \cup {d.to}
        /\ {s \in one.by : s.current = r} = {s \in byOrigin : s.current = r}
    <2>1. r \in Paths \ {d.from, d.to}
      BY DEF Readable, Listing, Paths, ChainNow, ChainOK, States
    <2> QED BY <2>1, FoldKeepsChain DEF ChainNow, ChainOf
  <1>4. Plans(e, one.by)
    BY <1>2, <1>3 DEF Plans
  <1>5. Carried(tree, d) = [p \in Paths |-> Carried(tree, d)[p]]
    BY DEF ChainNow, Carried
  <1>6. one = [by |-> one.by, at |-> one.at]
    BY DEF Changed, Fold
  <1>7. ChainOK(two.by, two.at, Carried(Carried(tree, d), e), dropped)
    <2>. HIDE DEF e, one
    <2> QED BY <1>3, <1>4, <1>5, <1>6, FoldKeepsChain
  <1>8. /\ byOrigin' = two.by /\ currentToOrigin' = two.at /\ tree' = Carried(Carried(tree, d), e)
        /\ dropped' = dropped \ {s.current : s \in byOrigin'}
    BY ComposeTwo DEF Folded, Replaced
  <1> QED BY <1>7, <1>8, DroppedGrows

LEMMA FoldNow ==
  ASSUME ChainNow, NEW d, Plans(d, byOrigin)
  PROVE  /\ ChainOK(Changed(ChainOf, d).by, Changed(ChainOf, d).at, Carried(tree, d), dropped)
         /\ Listed(Changed(ChainOf, d).by) = (Listed(byOrigin) \ {d.from}) \cup {d.to}
         /\ \A s \in Changed(ChainOf, d).by :
                \/ s.origin = d.from /\ s.current = d.to
                \/ \E r \in byOrigin : /\ r.origin = s.origin /\ (r.isNew <=> s.isNew)
                                       /\ s.current = IF r.current = d.from THEN d.to ELSE r.current
  BY FoldKeepsChain DEF ChainNow, ChainOf

LEMMA ExtractKeepsChain ==
  ASSUME ChainNow, NEW p \in Readable, NEW to \in Paths \ Listing,
         NEW e, e.from = to, e.to = to, e.after = StepBytes,
         Compose(<<Entry(p, p, StepBytes), e>>, {to})
  PROVE  ChainOK(byOrigin', currentToOrigin', tree', dropped')
  <1>. DEFINE d == Entry(p, p, StepBytes)
              one == Changed(ChainOf, d)
              two == Created(one, e)
  <1>1. StepBytes # NoFile
    BY DEF StepBytes, NoFile, Bytes
  <1>2. Plans(d, byOrigin) /\ d.from = p /\ d.to = p
    BY <1>1, EntryPlans
  <1>3. Listing = Listed(byOrigin) /\ p \in Listing /\ p # to
    BY DEF Readable, Listing, Listed
  <1>. HIDE DEF d
  <1>4. /\ ChainOK(one.by, one.at, Carried(tree, d), dropped)
        /\ Listed(one.by) = (Listed(byOrigin) \ {p}) \cup {p}
        /\ \A s \in one.by :
               \/ s.origin = p /\ s.current = p
               \/ \E r \in byOrigin : /\ r.origin = s.origin /\ (r.isNew <=> s.isNew)
                                      /\ s.current = r.current
    <2>1. /\ ChainOK(one.by, one.at, Carried(tree, d), dropped)
          /\ Listed(one.by) = (Listed(byOrigin) \ {d.from}) \cup {d.to}
          /\ \A s \in one.by :
                \/ s.origin = d.from /\ s.current = d.to
                \/ \E r \in byOrigin : /\ r.origin = s.origin /\ (r.isNew <=> s.isNew)
                                       /\ s.current = IF r.current = d.from THEN d.to ELSE r.current
      BY <1>2, FoldNow
    <2>2. d.from = p /\ d.to = p
      BY <1>2
    <2>. HIDE DEF one
    <2>3. Listed(one.by) = (Listed(byOrigin) \ {p}) \cup {p}
      BY <2>1, <2>2
    <2>4. ASSUME NEW s \in one.by
          PROVE  \/ s.origin = p /\ s.current = p
                 \/ \E r \in byOrigin : /\ r.origin = s.origin /\ (r.isNew <=> s.isNew)
                                        /\ s.current = r.current
      BY <2>1, <2>2
    <2> QED BY <2>1, <2>3, <2>4
  <1>5. one = [by |-> one.by, at |-> one.at]
    BY DEF Changed, Fold
  <1>6. Carried(tree, d) = [q \in Paths |-> Carried(tree, d)[q]]
    BY DEF ChainNow, Carried
  <1>7. /\ byOrigin' = two.by /\ currentToOrigin' = two.at /\ tree' = Carried(Carried(tree, d), e)
        /\ dropped' = (dropped \cup Replaced({to})) \ {s.current : s \in byOrigin'}
    BY <1>2, <1>3, ComposeTwo DEF Folded, d
  <1>8. to \in Paths \ Listed(one.by)
    BY <1>3, <1>4
  <1>9. \A s \in one.by : s.origin = to => ~tombstoned(s) /\ s.current \in Replaced({to})
    <2>1. \A r \in byOrigin : r.origin = to => ~tombstoned(r) /\ r.current \in Replaced({to})
      BY DEF Compose, Unrepresentable, Replaced
    <2>. HIDE DEF one
    <2>2. ASSUME NEW s \in one.by, s.origin = to
          PROVE  \E r \in byOrigin : /\ r.origin = s.origin /\ (r.isNew <=> s.isNew)
                                     /\ s.current = r.current
      BY <1>3, <1>4, <2>2
    <2>3. ASSUME NEW s \in one.by, s.origin = to
          PROVE  ~tombstoned(s) /\ s.current \in Replaced({to})
      <3>1. PICK r \in byOrigin : r.origin = s.origin /\ (r.isNew <=> s.isNew) /\ s.current = r.current
        BY <2>2, <2>3
      <3> QED BY <2>1, <2>3, <3>1 DEF tombstoned
    <2> QED BY <2>3
  <1>10. ChainOK(two.by, two.at, Carried(Carried(tree, d), e), dropped \cup Replaced({to}))
    <2>. HIDE DEF one
    <2> QED BY <1>1, <1>4, <1>5, <1>6, <1>8, <1>9, CreateKeepsChain
  <1> QED BY <1>7, <1>10, DroppedGrows

LEMMA PlanKeepsTree ==
  ASSUME ChainNow, PlanStep
  PROVE  tree' = [p \in Paths |-> tree'[p]]
  <1>1. ASSUME NEW diff, NEW news, Compose(diff, news)
        PROVE  tree' = [p \in Paths |-> tree'[p]]
    BY <1>1 DEF Compose, InTurn, Carried, ChainNow
  <1> QED BY <1>1 DEF PlanStep, Edits, Moves, Extracts

LEMMA PlanKeepsChain ==
  ASSUME ChainNow, PlanStep
  PROVE  ChainOK(byOrigin', currentToOrigin', tree', dropped')
  <1>1. StepBytes # NoFile /\ \A p \in Readable : Content(p) # NoFile /\ p \in Listing
    BY DEF StepBytes, NoFile, Bytes, Readable
  <1>2. CASE Edits
    <2>1. PICK p, q \in Readable : Compose(IF p = q THEN <<Entry(p, p, StepBytes)>>
                                           ELSE <<Entry(p, p, StepBytes), Entry(q, q, StepBytes)>>, {})
      BY <1>2 DEF Edits
    <2>2. /\ Plans(Entry(p, p, StepBytes), byOrigin)
          /\ Entry(p, p, StepBytes).from = p /\ Entry(p, p, StepBytes).to = p
      BY <1>1, EntryPlans
    <2>3. CASE p = q
      BY <2>1, <2>2, <2>3, OneEntryKeepsChain
    <2>4. CASE p # q
      BY <2>1, <2>2, <2>4, TwoEntriesKeepChain
    <2> QED BY <2>3, <2>4
  <1>3. CASE Moves
    <2>1. PICK p \in Readable, to \in Paths \ Listing, own \in BOOLEAN :
            LET there == Entry(p, to, IF own THEN StepBytes ELSE Content(p)) IN
            \/ Compose(<<there>>, {})
            \/ \E r \in Readable \ {p} : Compose(<<there, Entry(r, r, StepBytes)>>, {})
      BY <1>3 DEF Moves
    <2> DEFINE there == Entry(p, to, IF own THEN StepBytes ELSE Content(p))
    <2>2. Plans(there, byOrigin) /\ there.from = p /\ there.to = to
      BY <1>1, EntryPlans
    <2> HIDE DEF there
    <2>3. CASE Compose(<<there>>, {})
      BY <2>2, <2>3, OneEntryKeepsChain
    <2>4. ASSUME NEW r \in Readable \ {p}, Compose(<<there, Entry(r, r, StepBytes)>>, {})
          PROVE  ChainOK(byOrigin', currentToOrigin', tree', dropped')
      BY <1>1, <2>2, <2>4, TwoEntriesKeepChain
    <2> QED BY <2>1, <2>3, <2>4 DEF there
  <1>4. CASE Extracts
    <2>1. PICK p \in Readable, to \in Paths \ Listing :
            Compose(<<Entry(p, p, StepBytes),
                      [Entry(p, to, StepBytes) EXCEPT !.from = to, !.before = NoFile]>>, {to})
      BY <1>4 DEF Extracts
    <2> DEFINE e == [Entry(p, to, StepBytes) EXCEPT !.from = to, !.before = NoFile]
    <2>2. e.from = to /\ e.to = to /\ e.after = StepBytes
      BY DEF Entry
    <2> HIDE DEF e
    <2> QED BY <2>1, <2>2, ExtractKeepsChain DEF e
  <1> QED BY <1>2, <1>3, <1>4 DEF PlanStep

\* What a plan does to the workspace, whatever the chain: it restores tracked files, its new paths
\* are free or the places of files that it moves away, and it writes one state to a path.
LEMMA PlanShape ==
  ASSUME NEW at, NEW t, NEW dr, ChainOK(byOrigin, at, t, dr)
  PROVE  /\ Restores \subseteq Files /\ Removes \subseteq Spots \cup Restores
         /\ \A s \in moves : s \in byOrigin /\ s.origin \in Restores /\ s.current \in Removes
         /\ \A s \in newFiles : s \in byOrigin /\ s.current \in Removes
         /\ \A s \in contentWrites : /\ s \in byOrigin /\ s.origin \in Restores
                                     /\ s.current = s.origin \/ s \in moves
  <1>. USE DEF Restores, Removes, Fresh, Dests, moves, newFiles, contentWrites, tombstoned, ChainOK
  <1>1. Restores \subseteq Files
    BY DEF States
  <1>2. ASSUME NEW p \in Removes, p \notin Spots
        PROVE  p \in Restores
    <2>1. PICK s \in byOrigin : s.current = p /\ (s.isNew \/ s.current # s.origin)
      BY <1>2
    <2>2. p \in Files
      BY <1>2, <2>1 DEF States, Paths
    <2>3. PICK r \in byOrigin : r.origin = p
      BY <2>1, <2>2 DEF States
    <2>4. ~r.isNew
      BY <2>2, <2>3 DEF States
    <2>5. r.current # r.origin
      BY <2>1, <2>3, <2>4 DEF Keyed
    <2>6. r \in moves
      BY <2>4, <2>5
    <2> QED BY <2>3, <2>6
  <1>3. \A s \in moves : s \in byOrigin /\ s.origin \in Restores /\ s.current \in Removes
    OBVIOUS
  <1>4. \A s \in newFiles : s \in byOrigin /\ s.current \in Removes
    OBVIOUS
  <1>5. \A s \in contentWrites : s \in byOrigin /\ s.origin \in Restores /\ (s.current = s.origin \/ s \in moves)
    OBVIOUS
  <1> QED BY <1>1, <1>2, <1>3, <1>4, <1>5

LEMMA PlannedIsAfter ==
  ASSUME NEW at, NEW t, NEW dr, ChainOK(byOrigin, at, t, dr), NEW s \in Diffed
  PROVE  Planned(s.current) = s.after
  <1>1. s \in byOrigin /\ \A r \in Diffed : r.current = s.current => r = s
    BY DEF Diffed, moves, newFiles, contentWrites, ChainOK, Keyed
  <1>2. \E r \in Diffed : r.current = s.current
    OBVIOUS
  <1> DEFINE r == CHOOSE r \in Diffed : r.current = s.current
  <1>3. r \in Diffed /\ r.current = s.current
    BY <1>2
  <1> QED BY <1>1, <1>3 DEF Planned

LEMMA Fixed ==
  ASSUME UNCHANGED chain
  PROVE  /\ Restores' = Restores /\ Removes' = Removes /\ moves' = moves /\ newFiles' = newFiles
         /\ contentWrites' = contentWrites /\ byOrigin' = byOrigin
  BY DEF chain, Restores, Removes, Fresh, Dests, moves, newFiles, contentWrites, tombstoned

\* What the other program does in a step.
Wrote(q) ==
    /\ era[q] = "never" /\ pc # "done"
    /\ \A p \in Paths : era'[p] = IF p = q THEN pc ELSE era[p]
    /\ \A p \in Paths \ {q} : disk'[p] = disk[p]
    /\ disk'[q] # disk[q] /\ disk'[q] \in {NoFile, Bytes("other", q)}
    /\ UNCHANGED <<chain, pc, outcome, flags, before, entry, todo, staged, failed, noted>>

LEMMA OtherWrote ==
  ASSUME Guarded, OtherWrites
  PROVE  \E q \in Paths : Wrote(q)
  <1>1. PICK q \in Paths : /\ pc # "done" /\ era[q] = "never" /\ era' = [era EXCEPT ![q] = pc]
                           /\ \E b \in {NoFile, Bytes("other", q)} : disk[q] # b /\ disk' = [disk EXCEPT ![q] = b]
                           /\ UNCHANGED <<chain, pc, outcome, flags, before, entry, todo, staged, failed, noted>>
    BY DEF OtherWrites
  <1>2. \A p \in Paths : era'[p] = IF p = q THEN pc ELSE era[p]
    BY <1>1 DEF Guarded
  <1>3. \A p \in Paths \ {q} : disk'[p] = disk[p]
    BY <1>1 DEF Guarded
  <1>4. disk'[q] # disk[q] /\ disk'[q] \in {NoFile, Bytes("other", q)}
    BY <1>1 DEF Guarded
  <1> QED BY <1>1, <1>2, <1>3, <1>4 DEF Wrote

----------------------------------------------------------------------------
(* The invariant, a part for each thing that the op relies on.             *)

Looking == {"plan", "entry", "gate", "collide", "fence", "compare"}
Acting == {"commit", "recheck", "rollback"}
Phase == pc \in Looking \cup Acting \cup {"done"}

\* The tree of the history is what the states of the chain say.
Chain == pc # "done" => /\ ChainOK(byOrigin, currentToOrigin, tree, dropped)
                        /\ tree = [p \in Paths |-> tree[p]]

\* Until it writes, the op has changed nothing, and what the other program wrote shows.
Watchful == pc \in Looking =>
    /\ \A p \in Paths : IF era[p] = "never" THEN disk[p] = AtFirst(p)
                        ELSE disk[p] \in {NoFile, Bytes("other", p)} /\ disk[p] # AtFirst(p)
    /\ staged = {} /\ (pc = "plan" => \A p \in Paths : era[p] \in {"never", "plan"})

\* The baseline holds the bytes of the files that the plan changes, as they were when it was built.
Baseline == pc \notin {"plan", "done"} =>
    \A p \in Restores :
        /\ before[p] # NoFile /\ (era[p] = "never" => before[p] = AtFirst(p))
        /\ pc \in Looking => (era[p] \in {"never", "plan"} <=> disk[p] = before[p])

Collided == pc \in {"fence", "compare"} =>
    \A p \in Removes : \/ p \in Spots /\ era[p] \notin {"plan", "entry", "gate", "collide"}
                       \/ p \in Restores /\ era[p] \notin {"never", "plan"}

Cleared == pc = "compare" /\ ~dirtyOk => \A p \in Restores : era[p] # "plan"

\* Once it writes, nothing it touches was written before its last look.
Safe == pc \in Acting =>
    /\ Removes \cap Restores = {} /\ Removes \subseteq Spots
    /\ \A p \in Removes \cup Restores : era[p] \notin LastLook(p)

LEMMA Writes ==
  ASSUME Guarded, Phase, [Next]_vars
  PROVE  \A p \in Paths : era'[p] = era[p] \/ (era[p] = "never" /\ era'[p] = pc /\ pc # "done")
  <1>1. CASE OtherWrites
    BY <1>1, OtherWrote DEF Wrote
  <1>2. CASE era' = era
    BY <1>2
  <1>3. OtherWrites \/ era' = era
    BY DEF Next, OpStep, Step, StepFails, Build, Capture, Gate, Collide, Fence, Compare, MoveFile,
           WriteFile, CommitFails, Unstage, UndoFile, RolledBack, Readback, Recheck, Expire, Still, vars
  <1> QED BY <1>1, <1>2, <1>3

LEMMA PhaseStep ==
  ASSUME Phase, [Next]_vars
  PROVE  Phase' /\ (pc = "done" => pc' = "done")
  BY DEF Phase, Looking, Acting, Next, OpStep, Step, StepFails, Build, Capture, Gate, Collide, Fence, Compare,
         MoveFile, WriteFile, CommitFails, Unstage, UndoFile, RolledBack, Readback, Recheck, Expire,
         OtherWrites, Goto, End, Rollback, vars

LEMMA ChainStep ==
  ASSUME Guarded, Phase, Chain, Watchful, [Next]_vars
  PROVE  Chain'
  <1>1. SUFFICES ASSUME pc' # "done"
                 PROVE  (ChainOK(byOrigin, currentToOrigin, tree, dropped) /\ tree = [p \in Paths |-> tree[p]])'
    BY DEF Chain
  <1>2. pc # "done"
    BY <1>1, PhaseStep
  <1>3. CASE Step
    <2>1. ChainNow /\ PlanStep /\ era' = era
      BY <1>2, <1>3 DEF Step, Chain, Watchful, Looking, ChainNow
    <2>2. tree' = [p \in Paths |-> tree'[p]]
      BY <2>1, PlanKeepsTree
    <2>3. ChainOK(byOrigin', currentToOrigin', tree', dropped')
      BY <2>1, PlanKeepsChain
    <2>4. States(byOrigin') => States(byOrigin)'
      BY <2>1 DEF States, AtFirst
    <2>5. /\ Keyed(byOrigin') => Keyed(byOrigin)'
          /\ Mapped(byOrigin', currentToOrigin') => Mapped(byOrigin, currentToOrigin)'
          /\ Mirrored(byOrigin', tree', dropped') => Mirrored(byOrigin, tree, dropped)'
      BY DEF Keyed, Mapped, Mirrored, Listed, AtFirst
    <2> QED BY <2>2, <2>3, <2>4, <2>5 DEF ChainOK
  <1>4. CASE UNCHANGED chain
    <2>1. \A p \in Paths : era'[p] = "never" => era[p] = "never"
      BY Writes
    <2>2. ChainOK(byOrigin, currentToOrigin, tree, dropped) /\ tree = [p \in Paths |-> tree[p]]
      BY <1>2 DEF Chain
    <2>3. byOrigin' = byOrigin /\ currentToOrigin' = currentToOrigin /\ tree' = tree /\ dropped' = dropped
      BY <1>4 DEF chain
    <2>4. States(byOrigin)'
      BY <2>1, <2>2, <2>3 DEF ChainOK, States, AtFirst
    <2>5. Keyed(byOrigin)' /\ Mapped(byOrigin, currentToOrigin)' /\ Mirrored(byOrigin, tree, dropped)'
      BY <2>2, <2>3 DEF ChainOK, Keyed, Mapped, Mirrored, Listed, AtFirst
    <2> QED BY <2>2, <2>3, <2>4, <2>5 DEF ChainOK
  <1>5. Step \/ UNCHANGED chain
    BY DEF Next, OpStep, StepFails, Build, Capture, Gate, Collide, Fence, Compare, MoveFile,
           WriteFile, CommitFails, Unstage, UndoFile, RolledBack, Readback, Recheck, Expire, OtherWrites, Still, vars
  <1> QED BY <1>3, <1>4, <1>5
\* A step of the op that looks, or ends: it writes nothing.
LEMMA LooksOnly ==
  ASSUME Phase, [Next]_vars, pc \in Looking, ~OtherWrites, ~Step
  PROVE  /\ disk' = disk /\ era' = era /\ staged' = staged /\ dirtyOk' = dirtyOk
         /\ UNCHANGED chain
         /\ pc' = "plan" => pc = "plan"
  BY DEF Looking, Next, OpStep, StepFails, Build, Capture, Gate, Collide, Fence, Compare, MoveFile,
         WriteFile, CommitFails, Unstage, UndoFile, RolledBack, Readback, Recheck, Expire, Still, flags, vars,
         Goto, End

LEMMA Before ==
  ASSUME Phase, [Next]_vars, pc' \in Looking
  PROVE  pc \in Looking
  BY DEF Phase, Looking, Acting, Next, OpStep, Step, StepFails, Build, Capture, Gate, Collide, Fence, Compare,
         MoveFile, WriteFile, CommitFails, Unstage, UndoFile, RolledBack, Readback, Recheck, Expire,
         OtherWrites, Goto, End, Rollback, vars

LEMMA WatchfulStep ==
  ASSUME Guarded, Phase, Watchful, [Next]_vars
  PROVE  Watchful'
  <1>1. SUFFICES ASSUME pc' \in Looking
                 PROVE  (/\ \A p \in Paths : IF era[p] = "never" THEN disk[p] = AtFirst(p)
                               ELSE disk[p] \in {NoFile, Bytes("other", p)} /\ disk[p] # AtFirst(p)
                         /\ staged = {} /\ (pc = "plan" => \A p \in Paths : era[p] \in {"never", "plan"}))'
    BY DEF Watchful
  <1>2. /\ pc \in Looking
        /\ \A p \in Paths : IF era[p] = "never" THEN disk[p] = AtFirst(p)
                            ELSE disk[p] \in {NoFile, Bytes("other", p)} /\ disk[p] # AtFirst(p)
        /\ staged = {} /\ (pc = "plan" => \A p \in Paths : era[p] \in {"never", "plan"})
    BY <1>1, Before DEF Watchful
  <1>3. CASE OtherWrites
    <2>1. PICK q \in Paths : Wrote(q)
      BY <1>3, OtherWrote
    <2>2. pc' = pc /\ staged' = staged
      BY <2>1 DEF Wrote
    <2>3. ASSUME NEW p \in Paths
          PROVE  IF era'[p] = "never" THEN disk'[p] = AtFirst(p)
                 ELSE disk'[p] \in {NoFile, Bytes("other", p)} /\ disk'[p] # AtFirst(p)
      BY <1>2, <2>1 DEF Wrote, Looking
    <2>4. pc = "plan" => \A p \in Paths : era'[p] \in {"never", "plan"}
      BY <1>2, <2>1 DEF Wrote
    <2> QED BY <1>2, <2>2, <2>3, <2>4 DEF AtFirst, NoFile, Bytes, AtHead
  <1>4. CASE Step
    <2>1. disk' = disk /\ era' = era /\ staged' = staged /\ pc = "plan"
      BY <1>4 DEF Step, PlanStep, Edits, Moves, Extracts, Compose
    <2> QED BY <1>2, <2>1 DEF AtFirst, NoFile, Bytes, AtHead
  <1>5. CASE ~OtherWrites /\ ~Step
    <2>1. disk' = disk /\ era' = era /\ staged' = staged /\ (pc' = "plan" => pc = "plan")
      BY <1>2, <1>5, LooksOnly
    <2> QED BY <1>2, <2>1 DEF AtFirst, NoFile, Bytes, AtHead
  <1> QED BY <1>3, <1>4, <1>5

LEMMA BaselineStep ==
  ASSUME Guarded, Phase, Chain, Watchful, Baseline, [Next]_vars
  PROVE  Baseline'
  <1>1. SUFFICES ASSUME pc' \notin {"plan", "done"}
                 PROVE  (\A p \in Restores :
                           /\ before[p] # NoFile /\ (era[p] = "never" => before[p] = AtFirst(p))
                           /\ pc \in Looking => (era[p] \in {"never", "plan"} <=> disk[p] = before[p]))'
    BY DEF Baseline
  <1>2. pc # "done"
    BY <1>1, PhaseStep
  <1>3. Restores \subseteq Files
    BY <1>2, PlanShape DEF Chain
  <1>4. CASE Build
    <2>1. /\ pc = "plan" /\ ~Unreadable /\ before' = [p \in Paths |-> IF p \in Restores THEN disk[p] ELSE NoFile]
          /\ disk' = disk /\ era' = era /\ UNCHANGED chain
      BY <1>1, <1>4 DEF Build, End
    <2>2. Restores' = Restores
      BY <2>1, Fixed
    <2>3. \A p \in Restores : before'[p] = disk[p]
      BY <1>3, <2>1 DEF Paths
    <2>4. \A p \in Restores : disk[p] # NoFile
      BY <2>1 DEF Unreadable, Restores, moves, contentWrites, tombstoned
    <2>5. \A p \in Restores : /\ era[p] = "never" => disk[p] = AtFirst(p)
                              /\ era[p] \in {"never", "plan"}
      BY <1>3, <2>1 DEF Watchful, Looking, Paths
    <2> QED BY <2>1, <2>2, <2>3, <2>4, <2>5 DEF AtFirst, NoFile, Bytes, AtHead
  <1>5. CASE ~Build
    <2>1. pc # "plan" /\ UNCHANGED chain /\ before' = before
      BY <1>1, <1>2, <1>5 DEF Next, OpStep, Step, StepFails, Capture, Gate, Collide, Fence, Compare, MoveFile,
         WriteFile, CommitFails, Unstage, UndoFile, RolledBack, Readback, Recheck, Expire, OtherWrites,
         Still, Goto, End, vars
    <2>2. Restores' = Restores
      BY <2>1, Fixed
    <2>3. \A p \in Restores :
             /\ before[p] # NoFile /\ (era[p] = "never" => before[p] = AtFirst(p))
             /\ pc \in Looking => (era[p] \in {"never", "plan"} <=> disk[p] = before[p])
      BY <1>2, <2>1 DEF Baseline
    <2>4. pc' \in Looking => pc \in Looking
      BY Before
    <2>5. CASE OtherWrites
      <3>1. PICK q \in Paths : Wrote(q)
        BY <2>5, OtherWrote
      <3>2. ASSUME NEW p \in Restores
            PROVE  /\ era'[p] = "never" => before[p] = AtFirst(p)
                   /\ pc \in Looking => (era'[p] \in {"never", "plan"} <=> disk'[p] = before[p])
        <4>1. p \in Paths /\ (p = q /\ pc \in Looking => disk[p] = before[p])
          BY <1>3, <2>3, <3>1 DEF Wrote, Paths
        <4>2. p = q => era'[p] \notin {"never", "plan"} /\ disk'[p] # disk[p]
          BY <1>2, <2>1, <3>1 DEF Wrote, Phase, Looking, Acting
        <4> QED BY <2>3, <3>1, <4>1, <4>2 DEF Wrote
      <3>3. pc' = pc
        BY <3>1 DEF Wrote
      <3> QED BY <2>1, <2>2, <2>3, <3>2, <3>3 DEF AtFirst, NoFile, Bytes, AtHead
    <2>6. CASE ~OtherWrites
      <3>1. era' = era
        BY <1>2, <2>6, <2>1 DEF Next, OpStep, Step, StepFails, Build, Capture, Gate, Collide, Fence, Compare, MoveFile,
           WriteFile, CommitFails, Unstage, UndoFile, RolledBack, Readback, Recheck, Expire, Still, vars
      <3>2. pc \in Looking => disk' = disk
        BY <2>1, <2>6, LooksOnly DEF Step
      <3> QED BY <2>1, <2>2, <2>3, <2>4, <3>1, <3>2 DEF AtFirst, NoFile, Bytes, AtHead
    <2> QED BY <2>5, <2>6
  <1> QED BY <1>4, <1>5
LEMMA CollidedStep ==
  ASSUME Guarded, Phase, Chain, Watchful, Baseline, Collided, [Next]_vars
  PROVE  Collided'
  <1>1. SUFFICES ASSUME pc' \in {"fence", "compare"}
                 PROVE  (\A p \in Removes : \/ p \in Spots /\ era[p] \notin {"plan", "entry", "gate", "collide"}
                                            \/ p \in Restores /\ era[p] \notin {"never", "plan"})'
    BY DEF Collided
  <1>2. pc \in Looking \ {"plan"}
    BY <1>1 DEF Next, OpStep, Step, StepFails, Build, Capture, Gate, Collide, Fence, Compare, MoveFile,
       WriteFile, CommitFails, Unstage, UndoFile, RolledBack, Readback, Recheck, Expire, OtherWrites,
       Goto, End, Rollback, Looking, vars
  <1>3. UNCHANGED chain
    BY <1>2, LooksOnly DEF Step, OtherWrites, Looking
  <1>4. Removes' = Removes /\ Restores' = Restores
    BY <1>3, Fixed
  <1>5. Restores \subseteq Files /\ Removes \subseteq Spots \cup Restores
    BY <1>2, PlanShape DEF Chain, Looking
  <1>6. CASE Collide
    <2>1. era' = era /\ pc = "collide" /\ \A p \in Removes : disk[p] = NoFile
      BY <1>1, <1>6 DEF Collide, End, Still
    <2>2. ASSUME NEW p \in Removes, p \in Spots
          PROVE  era[p] \notin {"plan", "entry", "gate", "collide"}
      <3>1. p \in Paths /\ AtFirst(p) = NoFile
        BY <2>2, TxnAssumption, RefactorApplyAssumption DEF Paths, AtFirst
      <3> QED BY <2>1, <2>2, <3>1 DEF Watchful, Looking
    <2>3. ASSUME NEW p \in Removes, p \in Restores
          PROVE  era[p] \notin {"never", "plan"}
      BY <2>1, <2>3 DEF Baseline, Looking
    <2> QED BY <1>4, <1>5, <2>1, <2>2, <2>3
  <1>7. CASE ~Collide
    <2>1. pc \in {"fence", "compare"}
      BY <1>1, <1>2, <1>7 DEF Next, OpStep, Step, StepFails, Build, Capture, Gate, Fence, Compare, MoveFile,
       WriteFile, CommitFails, Unstage, UndoFile, RolledBack, Readback, Recheck, Expire, OtherWrites,
       Goto, End, Rollback, Looking, vars
    <2>2. \A p \in Removes : p \in Paths
      BY <1>5 DEF Paths
    <2> QED BY <1>4, <2>1, <2>2, Writes DEF Collided
  <1> QED BY <1>6, <1>7

LEMMA ClearedStep ==
  ASSUME Guarded, Phase, Chain, Watchful, Cleared, [Next]_vars
  PROVE  Cleared'
  <1>1. SUFFICES ASSUME pc' = "compare", ~dirtyOk'
                 PROVE  (\A p \in Restores : era[p] # "plan")'
    BY DEF Cleared
  <1>2. pc \in {"fence", "compare"}
    BY <1>1 DEF Next, OpStep, Step, StepFails, Build, Capture, Gate, Collide, Fence, Compare, MoveFile,
       WriteFile, CommitFails, Unstage, UndoFile, RolledBack, Readback, Recheck, Expire, OtherWrites,
       Goto, End, Rollback, vars
  <1>3. UNCHANGED chain /\ dirtyOk' = dirtyOk
    BY <1>2, LooksOnly DEF Step, OtherWrites, Looking, flags
  <1>4. Restores' = Restores
    BY <1>3, Fixed
  <1>5. Restores \subseteq Files
    BY <1>2, PlanShape DEF Chain
  <1>6. CASE pc = "fence"
    <2>1. Fence
      BY <1>1, <1>6 DEF Next, OpStep, Step, StepFails, Build, Capture, Gate, Collide, Compare, MoveFile,
       WriteFile, CommitFails, Unstage, UndoFile, RolledBack, Readback, Recheck, Expire, OtherWrites,
       Goto, End, Rollback, vars
    <2>2. era' = era /\ Touched \cap Dirty = {}
      BY <1>1, <1>3, <2>1 DEF Fence, End, Still
    <2>3. ASSUME NEW p \in Restores
          PROVE  era[p] # "plan"
      <3>1. p \in Paths \ Ignored /\ p \in Files
        BY <1>5, TxnAssumption, RefactorApplyAssumption DEF Paths
      <3>2. disk[p] = AtHead(p)
        BY <2>2, <3>1 DEF Touched, Dirty
      <3>3. AtHead(p) # NoFile /\ AtHead(p) # Bytes("other", p)
        BY DEF AtHead, NoFile, Bytes
      <3>4. era[p] = "plan" => disk[p] \in {NoFile, Bytes("other", p)}
        BY <1>6, <3>1 DEF Watchful, Looking
      <3> QED BY <3>2, <3>3, <3>4
    <2> QED BY <1>4, <2>2, <2>3
  <1>7. CASE pc = "compare"
    BY <1>1, <1>3, <1>4, <1>5, <1>7, Writes DEF Cleared, Paths
  <1> QED BY <1>2, <1>6, <1>7

LEMMA SafeStep ==
  ASSUME Guarded, Phase, Chain, Baseline, Collided, Cleared, Safe, [Next]_vars
  PROVE  Safe'
  <1>1. SUFFICES ASSUME pc' \in Acting
                 PROVE  (/\ Removes \cap Restores = {} /\ Removes \subseteq Spots
                         /\ \A p \in Removes \cup Restores : era[p] \notin LastLook(p))'
    BY DEF Safe
  <1>2. pc \in Acting \cup {"compare"}
    BY <1>1 DEF Next, OpStep, Step, StepFails, Build, Capture, Gate, Collide, Fence, Compare, MoveFile,
       WriteFile, CommitFails, Unstage, UndoFile, RolledBack, Readback, Recheck, Expire, OtherWrites,
       Goto, End, Rollback, Acting, vars
  <1>3. UNCHANGED chain /\ dirtyOk' = dirtyOk
    BY <1>2 DEF Next, OpStep, Step, StepFails, Build, Capture, Gate, Collide, Fence, Compare, MoveFile,
       WriteFile, CommitFails, Unstage, UndoFile, RolledBack, Readback, Recheck, Expire, OtherWrites,
       Still, Acting, flags, vars
  <1>4. Removes' = Removes /\ Restores' = Restores
    BY <1>3, Fixed
  <1>5. \A p : LastLook(p)' = LastLook(p)
    BY <1>3, <1>4 DEF LastLook
  <1>6. Restores \subseteq Files /\ Removes \subseteq Spots \cup Restores
    BY <1>2, PlanShape DEF Chain, Acting
  <1>7. CASE pc = "compare"
    <2>1. Compare
      BY <1>1, <1>7 DEF Next, OpStep, Step, StepFails, Build, Capture, Gate, Collide, Fence, MoveFile,
       WriteFile, CommitFails, Unstage, UndoFile, RolledBack, Readback, Recheck, Expire, OtherWrites,
       Goto, End, Rollback, Acting, vars
    <2>2. era' = era /\ \A p \in Restores : disk[p] = before[p]
      BY <1>1, <2>1 DEF Compare, End, MovedUnderUs, Acting
    <2>3. \A p \in Restores : era[p] \in {"never", "plan"}
      BY <1>7, <2>2 DEF Baseline, Looking
    <2>4. \A p \in Removes : p \in Spots /\ era[p] \notin {"plan", "entry", "gate", "collide"}
      BY <1>7, <2>3 DEF Collided
    <2>5. Removes \cap Restores = {}
      BY <1>6, <2>4, TxnAssumption
    <2>6. ASSUME NEW p \in Removes
          PROVE  era[p] \notin LastLook(p)
      <3>1. p \in Ignored \/ era[p] \notin Watched
        BY <1>7, <2>4 DEF Guarded, Watched, Relevant, Paths
      <3> QED BY <2>4, <2>6, <3>1 DEF LastLook, Watched
    <2>7. ASSUME NEW p \in Restores
          PROVE  era[p] \notin LastLook(p)
      <3>1. p \notin Removes
        BY <2>5
      <3>2. era[p] = "plan" => dirtyOk
        BY <1>7 DEF Cleared
      <3> QED BY <2>3, <3>1, <3>2 DEF LastLook
    <2> QED BY <1>4, <1>5, <2>2, <2>4, <2>5, <2>6, <2>7
  <1>8. CASE pc \in Acting
    <2>1. \A p \in Removes \cup Restores : p \in Paths
      BY <1>6 DEF Paths
    <2>2. \A p : pc \notin LastLook(p)
      BY <1>8 DEF LastLook, Acting
    <2>3. \A p \in Removes \cup Restores : era'[p] \notin LastLook(p)
      BY <1>8, <2>1, <2>2, Writes DEF Safe
    <2>4. Removes \cap Restores = {} /\ Removes \subseteq Spots
      BY <1>8 DEF Safe
    <2> QED BY <1>4, <1>5, <2>3, <2>4
  <1> QED BY <1>2, <1>7, <1>8
\* What the commit has done: the operations that are left, what is at the paths it works on, and
\* that it leaves the other paths alone.
HasMoved(s) == Move(s) \notin todo
HasWritten(s) == Write(s) \notin todo
Progress == pc \in {"commit", "recheck"} =>
    /\ todo \subseteq {Move(s) : s \in moves} \cup {Write(s) : s \in newFiles \cup contentWrites}
    /\ pc = "recheck" => todo = {}
    /\ \A s \in moves : era[s.origin] = "never" => disk[s.origin] = IF HasMoved(s) THEN NoFile ELSE AtFirst(s.origin)
    /\ \A s \in moves : ~Meddled(s.current) /\ HasMoved(s) /\ ~s.edited => disk[s.current] = AtFirst(s.origin)
    /\ \A s \in newFiles \cup contentWrites : ~Meddled(s.current) /\ HasWritten(s) => disk[s.current] = s.after
    /\ \A p \in Paths \ (Removes \cup Restores) : era[p] = "never" => disk[p] = AtFirst(p)

\* The states of a plan are told apart by either path.
Apart ==
    /\ \A s, r \in byOrigin : s.origin = r.origin \/ s.current = r.current => s = r
    /\ \A s \in byOrigin : s.origin \in Paths /\ s.current \in Paths /\ s.after # NoFile
    /\ \A s \in moves : /\ s \in byOrigin /\ s.origin \in Restores /\ s.current \in Removes
                        /\ s.origin # s.current /\ ~s.isNew
    /\ \A s \in newFiles : s \in byOrigin /\ s.current \in Removes /\ s.isNew
    /\ \A s \in contentWrites : /\ s \in byOrigin /\ s.origin \in Restores /\ s.edited
                                /\ s.current = s.origin \/ s \in moves
    /\ \A s \in newFiles \cup contentWrites : Planned(s.current) = s.after

LEMMA StatesApart ==
  ASSUME NEW at, NEW t, NEW dr, ChainOK(byOrigin, at, t, dr)
  PROVE  Apart
  <1>1. Keyed(byOrigin) /\ States(byOrigin)
    BY DEF ChainOK
  <1>2. \A s \in newFiles \cup contentWrites : Planned(s.current) = s.after
    BY PlannedIsAfter DEF Diffed
  <1>3. /\ \A s \in moves : s.origin # s.current /\ ~s.isNew
        /\ \A s \in newFiles : s.isNew
        /\ \A s \in contentWrites : s.edited
    BY DEF moves, newFiles, contentWrites, tombstoned
  <1>4. /\ \A s \in moves : s \in byOrigin /\ s.origin \in Restores /\ s.current \in Removes
        /\ \A s \in newFiles : s \in byOrigin /\ s.current \in Removes
        /\ \A s \in contentWrites : s \in byOrigin /\ s.origin \in Restores /\ (s.current = s.origin \/ s \in moves)
    BY PlanShape
  <1> QED BY <1>1, <1>2, <1>3, <1>4 DEF Apart, Keyed, States

LEMMA Records ==
  ASSUME NEW s, NEW r
  PROVE  /\ Move(s).op = "move" /\ Move(s).at = s.current /\ Move(s).from = s.origin
         /\ Write(s).op = "write" /\ Write(s).at = s.current
         /\ Move(s) # Write(r)
         /\ Move(s) = Move(r) => s.current = r.current
         /\ Write(s) = Write(r) => s.current = r.current
  BY DEF Move, Write

\* The commit's operations keep it.
LEMMA MoveKeeps ==
  ASSUME Guarded, Apart, pc = "commit", Safe, Progress, MoveFile, pc' = "commit"
  PROVE  Progress'
  <1>1. PICK t \in todo :
          /\ t.op = "move" /\ disk[t.from] # NoFile /\ disk[t.at] = NoFile
          /\ disk' = [disk EXCEPT ![t.at] = disk[t.from], ![t.from] = NoFile]
          /\ todo' = todo \ {t}
          /\ UNCHANGED <<chain, era>>
    BY DEF MoveFile, Done, Goto, Rollback
  <1>2. PICK m \in moves : t = Move(m)
    BY <1>1, Records DEF Progress
  <1>3. /\ m \in byOrigin /\ m.origin \in Restores /\ m.current \in Removes /\ m.origin # m.current
        /\ m.origin \in Paths /\ m.current \in Paths
        /\ t.at = m.current /\ t.from = m.origin
    BY <1>2, Records DEF Apart
  <1>4. /\ \A p \in Paths : disk'[p] = IF p = m.origin THEN NoFile
                                      ELSE IF p = m.current THEN disk[m.origin] ELSE disk[p]
        /\ disk[m.origin] # NoFile /\ disk[m.current] = NoFile
    BY <1>1, <1>3 DEF Guarded
  <1>5. /\ Removes' = Removes /\ Restores' = Restores /\ moves' = moves /\ newFiles' = newFiles
        /\ contentWrites' = contentWrites /\ byOrigin' = byOrigin /\ era' = era
    BY <1>1, Fixed
  <1>6. Removes \cap Restores = {}
    BY DEF Safe, Acting
  <1>7. /\ \A s \in moves : Move(s) \notin todo' <=> HasMoved(s) \/ s = m
        /\ \A s : Write(s) \notin todo' <=> HasWritten(s)
        /\ ~HasMoved(m)
    BY <1>1, <1>2, Records DEF Apart, HasMoved, HasWritten
  <1>8. todo' \subseteq {Move(s) : s \in moves} \cup {Write(s) : s \in newFiles \cup contentWrites}
    BY <1>1 DEF Progress
  <1>9. ASSUME NEW s \in moves, era[s.origin] = "never"
        PROVE  disk'[s.origin] = IF Move(s) \notin todo' THEN NoFile ELSE AtFirst(s.origin)
    <2>1. s.origin # m.current /\ s.origin \in Paths /\ (s.origin = m.origin => s = m)
      BY <1>2, <1>3, <1>6 DEF Apart
    <2> QED BY <1>4, <1>7, <1>9, <2>1 DEF Progress
  <1>10. ASSUME NEW s \in moves, ~Meddled(s.current), Move(s) \notin todo', ~s.edited
         PROVE  disk'[s.current] = AtFirst(s.origin)
    <2>1. s.current # m.origin /\ s.current \in Paths /\ (s.current = m.current => s = m)
      BY <1>2, <1>3, <1>6 DEF Apart
    <2>2. CASE s = m
      <3>1. era[m.origin] = "never"
        BY <1>3, <1>10, <2>2 DEF Meddled
      <3> QED BY <1>4, <1>7, <2>1, <2>2, <3>1 DEF Progress
    <2>3. CASE s # m
      BY <1>4, <1>7, <1>10, <2>1, <2>3 DEF Progress
    <2> QED BY <2>2, <2>3
  <1>11. ASSUME NEW s \in newFiles \cup contentWrites, ~Meddled(s.current), HasWritten(s)
         PROVE  disk'[s.current] = s.after
    <2>1. disk[s.current] = s.after /\ s.after # NoFile /\ s.current \in Paths
      BY <1>11 DEF Progress, Apart
    <2>2. s.current # m.current
      BY <1>4, <2>1
    <2>3. s.current # m.origin
      BY <1>2, <1>3, <1>6, <2>2 DEF Apart
    <2> QED BY <1>4, <2>1, <2>2, <2>3
  <1>12. ASSUME NEW p \in Paths \ (Removes \cup Restores), era[p] = "never"
         PROVE  disk'[p] = AtFirst(p)
    BY <1>3, <1>4, <1>12 DEF Progress
  <1>13. \A p : Meddled(p)' <=> Meddled(p)
    BY <1>5 DEF Meddled
  <1>15. pc' # "recheck"
    OBVIOUS
  <1> QED BY <1>5, <1>7, <1>8, <1>9, <1>10, <1>11, <1>12, <1>13, <1>15
          DEF Progress, HasMoved, HasWritten, Move, Write, AtFirst, NoFile, Bytes, AtHead
LEMMA WriteKeeps ==
  ASSUME Guarded, Apart, Safe, Progress, WriteFile
  PROVE  Progress'
  <1>1. PICK t \in todo :
          /\ pc = "commit" /\ t.op = "write" /\ disk' = [disk EXCEPT ![t.at] = Planned(t.at)]
          /\ todo' = todo \ {t} /\ pc' = pc
          /\ UNCHANGED <<chain, era>>
    BY DEF WriteFile, Done, Goto
  <1>2. PICK w \in newFiles \cup contentWrites : t = Write(w)
    BY <1>1, Records DEF Progress
  <1>3. /\ w \in byOrigin /\ w.current \in Paths /\ w.current \in Removes \cup Restores
        /\ t.at = w.current /\ Planned(w.current) = w.after
    BY <1>2, Records DEF Apart
  <1>4. \A p \in Paths : disk'[p] = IF p = w.current THEN w.after ELSE disk[p]
    BY <1>1, <1>3 DEF Guarded
  <1>5. /\ Removes' = Removes /\ Restores' = Restores /\ moves' = moves /\ newFiles' = newFiles
        /\ contentWrites' = contentWrites /\ byOrigin' = byOrigin /\ era' = era
    BY <1>1, Fixed
  <1>6. Removes \cap Restores = {}
    BY <1>1 DEF Safe, Acting
  <1>7. /\ \A s : Move(s) \notin todo' <=> HasMoved(s)
        /\ \A s \in newFiles \cup contentWrites : Write(s) \notin todo' <=> HasWritten(s) \/ s = w
    <2>1. \A s \in newFiles \cup contentWrites : Write(s) = Write(w) => s = w
      BY <1>2, Records DEF Apart
    <2> QED BY <1>1, <1>2, <2>1, Records DEF HasMoved, HasWritten
  <1>8. todo' \subseteq {Move(s) : s \in moves} \cup {Write(s) : s \in newFiles \cup contentWrites}
    BY <1>1 DEF Progress
  <1>9. ASSUME NEW s \in moves, era[s.origin] = "never"
        PROVE  disk'[s.origin] = IF HasMoved(s) THEN NoFile ELSE AtFirst(s.origin)
    <2>1. s.origin # w.current /\ s.origin \in Paths
      BY <1>2, <1>3, <1>6 DEF Apart
    <2> QED BY <1>1, <1>4, <1>9, <2>1 DEF Progress
  <1>10. ASSUME NEW s \in moves, ~Meddled(s.current), HasMoved(s), ~s.edited
         PROVE  disk'[s.current] = AtFirst(s.origin)
    <2>1. s.current # w.current /\ s.current \in Paths
      BY <1>2, <1>3, <1>10 DEF Apart
    <2> QED BY <1>1, <1>4, <1>10, <2>1 DEF Progress
  <1>11. ASSUME NEW s \in newFiles \cup contentWrites, ~Meddled(s.current), HasWritten(s) \/ s = w
         PROVE  disk'[s.current] = s.after
    <2>1. s.current \in Paths /\ (s.current = w.current => s = w)
      BY <1>2, <1>3 DEF Apart
    <2> QED BY <1>1, <1>4, <1>11, <2>1 DEF Progress
  <1>12. ASSUME NEW p \in Paths \ (Removes \cup Restores), era[p] = "never"
         PROVE  disk'[p] = AtFirst(p)
    BY <1>1, <1>3, <1>4, <1>12 DEF Progress
  <1>13. \A p : Meddled(p)' <=> Meddled(p)
    BY <1>5 DEF Meddled
  <1>14. pc' # "recheck"
    BY <1>1
  <1> QED BY <1>5, <1>7, <1>8, <1>9, <1>10, <1>11, <1>12, <1>13, <1>14
          DEF Progress, HasMoved, HasWritten, Move, Write, AtFirst, NoFile, Bytes, AtHead

LEMMA OtherKeeps ==
  ASSUME Guarded, Phase, Apart, Progress, OtherWrites
  PROVE  Progress'
  <1>1. PICK q \in Paths : Wrote(q)
    BY OtherWrote
  <1>2. /\ Removes' = Removes /\ Restores' = Restores /\ moves' = moves /\ newFiles' = newFiles
        /\ contentWrites' = contentWrites /\ byOrigin' = byOrigin /\ todo' = todo /\ pc' = pc
    BY <1>1, Fixed DEF Wrote
  <1>3. /\ \A p \in Paths : era'[p] = "never" => era[p] = "never" /\ disk'[p] = disk[p]
        /\ \A p \in Paths : era[p] # "never" => era'[p] # "never"
    BY <1>1 DEF Wrote, Phase, Looking, Acting
  <1>4. \A p \in Paths : ~Meddled(p)' => ~Meddled(p) /\ disk'[p] = disk[p]
    BY <1>2, <1>3 DEF Meddled, Apart
  <1>5. \A s \in moves : s.origin \in Paths /\ s.current \in Paths
    BY DEF Apart
  <1>6. \A s \in newFiles \cup contentWrites : s.current \in Paths
    BY DEF Apart
  <1>7. \A s : /\ (HasMoved(s)' <=> HasMoved(s)) /\ (HasWritten(s)' <=> HasWritten(s))
               /\ Move(s)' = Move(s) /\ Write(s)' = Write(s)
    BY <1>2 DEF HasMoved, HasWritten, Move, Write
  <1>8. \A p : AtFirst(p)' = AtFirst(p)
    BY DEF AtFirst, NoFile, Bytes, AtHead
  <1>9. SUFFICES ASSUME pc \in {"commit", "recheck"}
                 PROVE  Progress'
    BY <1>2 DEF Progress
  <1>10. /\ todo' \subseteq {Move(s) : s \in moves'} \cup {Write(s) : s \in newFiles' \cup contentWrites'}
         /\ pc' = "recheck" => todo' = {}
    BY <1>2, <1>9 DEF Progress
  <1>11. ASSUME NEW s \in moves, era'[s.origin] = "never"
         PROVE  disk'[s.origin] = IF HasMoved(s) THEN NoFile ELSE AtFirst(s.origin)
    BY <1>3, <1>5, <1>9, <1>11 DEF Progress
  <1>12. ASSUME NEW s \in moves, ~Meddled(s.current)', HasMoved(s), ~s.edited
         PROVE  disk'[s.current] = AtFirst(s.origin)
    BY <1>4, <1>5, <1>9, <1>12 DEF Progress
  <1>13. ASSUME NEW s \in newFiles \cup contentWrites, ~Meddled(s.current)', HasWritten(s)
         PROVE  disk'[s.current] = s.after
    BY <1>4, <1>6, <1>9, <1>13 DEF Progress
  <1>14. ASSUME NEW p \in Paths \ (Removes \cup Restores), era'[p] = "never"
         PROVE  disk'[p] = AtFirst(p)
    BY <1>3, <1>9, <1>14 DEF Progress
  <1> QED BY <1>2, <1>7, <1>8, <1>10, <1>11, <1>12, <1>13, <1>14
          DEF Progress, HasMoved, HasWritten, Move, Write, AtFirst, NoFile, Bytes, AtHead

LEMMA ProgressStep ==
  ASSUME Guarded, Phase, Chain, Watchful, Safe, Progress, Safe', [Next]_vars
  PROVE  Progress'
  <1>1. SUFFICES ASSUME pc' \in {"commit", "recheck"}
                 PROVE  Progress'
    BY DEF Progress
  <1>2. pc # "done" /\ Apart
    BY <1>1, PhaseStep, StatesApart DEF Chain
  <1>3. CASE OtherWrites
    BY <1>2, <1>3, OtherKeeps
  <1>4. CASE MoveFile
    <2>1. pc' = "commit"
      BY <1>1, <1>4 DEF MoveFile, Goto, Rollback
    <2> QED BY <1>2, <1>4, <2>1, MoveKeeps DEF MoveFile
  <1>5. CASE WriteFile
    BY <1>2, <1>5, WriteKeeps
  <1>6. CASE Compare
    <2>1. /\ pc = "compare" /\ pc' = "commit" /\ disk' = disk /\ era' = era
          /\ todo' = {Move(s) : s \in moves} \cup {Write(s) : s \in newFiles \cup contentWrites}
          /\ UNCHANGED chain
      BY <1>1, <1>6 DEF Compare, Goto, End
    <2>2. /\ Removes' = Removes /\ Restores' = Restores /\ moves' = moves /\ newFiles' = newFiles
          /\ contentWrites' = contentWrites
      BY <2>1, Fixed
    <2>3. \A p \in Paths : era[p] = "never" => disk[p] = AtFirst(p)
      BY <2>1 DEF Watchful, Looking
    <2>4. \A s \in moves : s.origin \in Paths
      BY <1>2 DEF Apart
    <2>5. /\ \A s \in moves : Move(s) \in todo'
          /\ \A s \in newFiles \cup contentWrites : Write(s) \in todo'
      BY <2>1
    <2> QED BY <2>1, <2>2, <2>3, <2>4, <2>5 DEF Progress, HasMoved, HasWritten, Move, Write, AtFirst, NoFile, Bytes, AtHead
  <1>7. CASE ~OtherWrites /\ ~MoveFile /\ ~WriteFile /\ ~Compare
    <2>1. /\ pc \in {"commit", "recheck"} /\ disk' = disk /\ era' = era /\ UNCHANGED chain /\ todo' = todo
          /\ pc' = "recheck" => pc = "recheck" \/ todo = {}
      BY <1>1, <1>2, <1>7 DEF Next, OpStep, Step, StepFails, Build, Capture, Gate, Collide, Fence,
         CommitFails, Unstage, UndoFile, RolledBack, Readback, Recheck, Expire,
         Goto, End, Rollback, Still, vars
    <2>2. /\ Removes' = Removes /\ Restores' = Restores /\ moves' = moves /\ newFiles' = newFiles
          /\ contentWrites' = contentWrites /\ byOrigin' = byOrigin
      BY <2>1, Fixed
    <2> QED BY <2>1, <2>2 DEF Progress, HasMoved, HasWritten, Move, Write, Meddled, AtFirst, NoFile, Bytes, AtHead
  <1> QED BY <1>3, <1>4, <1>5, <1>6, <1>7
\* What a rollback has done: a path that is left alone, or dealt with, is as it was at first.
Undoing == pc = "rollback" =>
    /\ todo \subseteq {Undo("unstage", "index")} \cup {Undo("remove", p) : p \in Removes}
                      \cup {Undo("restore", p) : p \in Restores}
    /\ Undo("unstage", "index") \in todo \/ staged = {} \/ noted
    /\ \A p \in Removes : era[p] = "never" => Undo("remove", p) \in todo \/ p \in failed \/ disk[p] = AtFirst(p)
    /\ \A p \in Restores : era[p] = "never" => Undo("restore", p) \in todo \/ p \in failed \/ disk[p] = AtFirst(p)
    /\ \A p \in Paths \ (Removes \cup Restores) : era[p] = "never" => disk[p] = AtFirst(p)

LEMMA UndoRecords ==
  ASSUME NEW p, NEW q, NEW k, NEW l
  PROVE  Undo(k, p).op = k /\ Undo(k, p).at = p /\ (Undo(k, p) = Undo(l, q) => k = l /\ p = q)
  <1>1. Undo(k, p).op = k /\ Undo(k, p).at = p /\ Undo(l, q).op = l /\ Undo(l, q).at = q
    BY DEF Undo
  <1>2. Undo(k, p) = Undo(l, q) => Undo(k, p).op = Undo(l, q).op /\ Undo(k, p).at = Undo(l, q).at
    OBVIOUS
  <1> QED BY <1>1, <1>2

\* A rollback starts from a commit, or after it.
LEMMA RollbackStarts ==
  ASSUME Guarded, Apart, Safe, Progress, pc \in {"commit", "recheck"}, pc' = "rollback", [Next]_vars
  PROVE  Undoing'
  <1>1. /\ todo' = {Undo("unstage", "index")} \cup {Undo("remove", p) : p \in Removes}
                    \cup {Undo("restore", p) : p \in Restores}
        /\ era' = era /\ UNCHANGED chain
    BY DEF Next, OpStep, Step, StepFails, Build, Capture, Gate, Collide, Fence, Compare, MoveFile, WriteFile,
       CommitFails, Unstage, UndoFile, RolledBack, Readback, Recheck, Expire, OtherWrites, Goto, End, Rollback,
       Restored, vars
  <1>2. Removes' = Removes /\ Restores' = Restores
    BY <1>1, Fixed
  <1>3. \A p \in Paths \ (Removes \cup Restores) : disk'[p] = disk[p]
    <2>1. CASE MoveFile
      <3>1. PICK t \in todo : t.op = "move" /\ disk' = [disk EXCEPT ![t.at] = disk[t.from], ![t.from] = NoFile]
        BY <2>1 DEF MoveFile
      <3>2. t.at \in Removes /\ t.from \in Restores
        BY <3>1, Records DEF Progress, Apart
      <3> QED BY <3>1, <3>2 DEF Guarded
    <2>2. CASE ~MoveFile
      BY <2>2 DEF Next, OpStep, Step, StepFails, Build, Capture, Gate, Collide, Fence, Compare, WriteFile,
       CommitFails, Unstage, UndoFile, RolledBack, Readback, Recheck, Expire, OtherWrites, Goto, End, Rollback, vars
    <2> QED BY <2>1, <2>2
  <1>4. \A p \in Paths \ (Removes \cup Restores) : era[p] = "never" => disk'[p] = AtFirst(p)
    BY <1>3 DEF Progress
  <1> QED BY <1>1, <1>2, <1>4 DEF Undoing, Undo, AtFirst, NoFile, Bytes, AtHead

LEMMA UndoKeeps ==
  ASSUME Guarded, Apart, Removes \subseteq Paths, Restores \subseteq Files, Safe, Baseline, Undoing, UndoFile
  PROVE  Undoing'
  <1>1. PICK t \in todo :
          /\ pc = "rollback" /\ pc' = pc /\ t.op \in {"remove", "restore"} /\ todo' = todo \ {t}
          /\ \/ /\ disk' = [disk EXCEPT ![t.at] = IF t.op = "remove" THEN NoFile ELSE before[t.at]]
                /\ failed' = failed
             \/ failed' = failed \cup {t.at} /\ disk' = disk
          /\ UNCHANGED <<chain, era, staged, noted>>
    BY DEF UndoFile, Done, Goto
  <1>2. /\ Removes' = Removes /\ Restores' = Restores /\ era' = era /\ staged' = staged /\ noted' = noted
    BY <1>1, Fixed
  <1>3. \/ \E p \in Removes : t = Undo("remove", p)
        \/ \E p \in Restores : t = Undo("restore", p)
    BY <1>1, UndoRecords DEF Undoing
  <1>4. Removes \cap Restores = {} /\ Removes \subseteq Spots
    BY <1>1 DEF Safe, Acting
  <1>5. t # Undo("unstage", "index")
    BY <1>1, UndoRecords
  <1>6. t.at \in Removes \cup Restores /\ t.at \in Paths
    BY <1>3, UndoRecords DEF Paths
  <1>7. \A p \in Paths : p # t.at => disk'[p] = disk[p]
    BY <1>1 DEF Guarded
  <1>8. failed \subseteq failed'
    BY <1>1
  <1>9. ASSUME NEW p \in Removes, era[p] = "never"
        PROVE  Undo("remove", p) \in todo' \/ p \in failed' \/ disk'[p] = AtFirst(p)
    <2>1. CASE p = t.at
      <3>1. t = Undo("remove", p)
        BY <1>3, <1>4, <2>1, UndoRecords
      <3>2. AtFirst(p) = NoFile
        BY <1>4, TxnAssumption, RefactorApplyAssumption DEF AtFirst
      <3>3. t.op = "remove"
        BY <3>1, UndoRecords
      <3> QED BY <1>1, <1>6, <2>1, <3>2, <3>3 DEF Guarded
    <2>2. CASE p # t.at
      <3>1. Undo("remove", p) # t
        BY <2>2, UndoRecords
      <3> QED BY <1>1, <1>7, <1>8, <1>9, <2>2, <3>1 DEF Undoing
    <2> QED BY <2>1, <2>2
  <1>10. ASSUME NEW p \in Restores, era[p] = "never"
         PROVE  Undo("restore", p) \in todo' \/ p \in failed' \/ disk'[p] = AtFirst(p)
    <2>1. CASE p = t.at
      <3>1. t = Undo("restore", p)
        BY <1>3, <1>4, <2>1, UndoRecords
      <3>2. before[p] = AtFirst(p)
        BY <1>1, <1>10 DEF Baseline
      <3>3. t.op # "remove"
        BY <3>1, UndoRecords
      <3> QED BY <1>1, <1>6, <2>1, <3>2, <3>3 DEF Guarded
    <2>2. CASE p # t.at
      <3>1. Undo("restore", p) # t /\ p \in Paths
        BY <2>2, UndoRecords DEF Paths
      <3> QED BY <1>1, <1>7, <1>8, <1>10, <2>2, <3>1 DEF Undoing
    <2> QED BY <2>1, <2>2
  <1>11. ASSUME NEW p \in Paths \ (Removes \cup Restores), era[p] = "never"
         PROVE  disk'[p] = AtFirst(p)
    BY <1>1, <1>6, <1>7, <1>11 DEF Undoing
  <1>12. /\ todo' \subseteq {Undo("unstage", "index")} \cup {Undo("remove", p) : p \in Removes}
                      \cup {Undo("restore", p) : p \in Restores}
         /\ Undo("unstage", "index") \in todo' \/ staged = {} \/ noted
    BY <1>1, <1>5 DEF Undoing
  <1> QED BY <1>2, <1>9, <1>10, <1>11, <1>12 DEF Undoing, Undo, AtFirst, NoFile, Bytes, AtHead

LEMMA UndoingStep ==
  ASSUME Guarded, Phase, Chain, Baseline, Safe, Progress, Undoing, [Next]_vars
  PROVE  Undoing'
  <1>1. SUFFICES ASSUME pc' = "rollback"
                 PROVE  Undoing'
    BY DEF Undoing
  <1>2. pc # "done" /\ Apart /\ Restores \subseteq Files /\ Removes \subseteq Paths
    BY <1>1, PhaseStep, StatesApart, PlanShape DEF Chain, Paths
  <1>3. CASE pc \in {"commit", "recheck"}
    BY <1>1, <1>2, <1>3, RollbackStarts
  <1>4. CASE pc = "rollback" /\ OtherWrites
    <2>1. PICK q \in Paths : Wrote(q)
      BY <1>4, OtherWrote
    <2>2. /\ Removes' = Removes /\ Restores' = Restores /\ todo' = todo /\ staged' = staged /\ noted' = noted
          /\ failed' = failed
      BY <2>1, Fixed DEF Wrote
    <2>3. \A p \in Paths : era'[p] = "never" => era[p] = "never" /\ disk'[p] = disk[p]
      BY <1>4, <2>1 DEF Wrote
    <2>4. Removes \subseteq Paths /\ Restores \subseteq Paths
      BY <1>2 DEF Paths
    <2> QED BY <1>4, <2>2, <2>3, <2>4 DEF Undoing, Undo, AtFirst, NoFile, Bytes, AtHead
  <1>5. CASE pc = "rollback" /\ UndoFile
    BY <1>2, <1>5, UndoKeeps
  <1>6. CASE pc = "rollback" /\ Unstage
    <2>1. PICK t \in todo : t.op = "unstage" /\ todo' = todo \ {t} /\ (staged' = {} \/ noted' = TRUE)
                            /\ disk' = disk /\ era' = era /\ failed' = failed /\ UNCHANGED chain
      BY <1>6 DEF Unstage, Done
    <2>2. Removes' = Removes /\ Restores' = Restores
      BY <2>1, Fixed
    <2>3. \A p : Undo("remove", p) # t /\ Undo("restore", p) # t
      BY <2>1, UndoRecords
    <2> QED BY <1>6, <2>1, <2>2, <2>3 DEF Undoing, Undo, AtFirst, NoFile, Bytes, AtHead
  <1>7. CASE pc = "rollback" /\ UNCHANGED vars
    <2>1. Removes' = Removes /\ Restores' = Restores
      BY <1>7, Fixed DEF vars
    <2> QED BY <1>7, <2>1 DEF Undoing, Undo, AtFirst, NoFile, Bytes, AtHead, vars
  <1>8. \/ pc \in {"commit", "recheck"}
        \/ pc = "rollback" /\ (OtherWrites \/ UndoFile \/ Unstage \/ UNCHANGED vars)
    <2>1. pc' = "rollback" /\ pc \notin {"commit", "recheck"} => pc = "rollback"
      BY DEF Next, OpStep, Step, StepFails, Build, Capture, Gate, Collide, Fence, Compare, MoveFile, WriteFile,
         CommitFails, Unstage, UndoFile, RolledBack, Readback, Recheck, Expire, OtherWrites, Goto, End, Rollback, vars
    <2>2. pc' = "rollback" /\ pc = "rollback" => OtherWrites \/ UndoFile \/ Unstage \/ UNCHANGED vars
      BY DEF Next, OpStep, Step, StepFails, Build, Capture, Gate, Collide, Fence, Compare, MoveFile, WriteFile,
         CommitFails, RolledBack, Readback, Recheck, Expire, End
    <2> QED BY <1>1, <2>1, <2>2
  <1> QED BY <1>3, <1>4, <1>5, <1>6, <1>7, <1>8

\* What the op reports of a path that nobody else wrote to.
Accounted(p) == Meddled(p) \/ Told(p) \/ Lost(p)

\* A commit that is done has left the tree of the history.
LEMMA CarriedOut ==
  ASSUME Chain, Safe, Progress, pc \in {"commit", "recheck"}, todo = {},
         NEW p \in Paths, ~Meddled(p), p \notin dropped
  PROVE  disk[p] = tree[p]
  <1>1. /\ ChainOK(byOrigin, currentToOrigin, tree, dropped)
        /\ Apart /\ Restores \subseteq Files /\ Removes \cap Restores = {} /\ Removes \subseteq Spots
    BY StatesApart, PlanShape DEF Chain, Safe, Acting
  <1>2. Keyed(byOrigin) /\ States(byOrigin) /\ Mirrored(byOrigin, tree, dropped)
    BY <1>1 DEF ChainOK
  <1>3. /\ \A s : HasMoved(s) /\ HasWritten(s)
        /\ era[p] = "never" /\ \A s \in byOrigin : s.current = p => era[s.origin] = "never"
    BY DEF HasMoved, HasWritten, Meddled
  <1>4. CASE p \notin Removes \cup Restores
    <2>1. disk[p] = AtFirst(p)
      BY <1>3, <1>4 DEF Progress
    <2>2. CASE \E s \in byOrigin : s.current = p
      <3>1. PICK s \in byOrigin : s.current = p
        BY <2>2
      <3>2. s \notin moves /\ s \notin newFiles /\ s \notin contentWrites
        BY <1>1, <1>4, <3>1 DEF Apart
      <3>3. ~s.isNew /\ ~s.edited /\ s.origin = p
        BY <1>2, <3>1, <3>2 DEF moves, newFiles, contentWrites, tombstoned, States
      <3> QED BY <1>2, <1>3, <2>1, <3>1, <3>3 DEF States, Mirrored
    <2>3. CASE p \in Listed(byOrigin) /\ \A s \in byOrigin : s.current # p
      BY <1>2, <2>1, <2>3 DEF Mirrored
    <2>4. CASE p \notin Listed(byOrigin)
      <3>1. p \notin Files
        <4>1. SUFFICES ASSUME p \in Files
                       PROVE  FALSE
          OBVIOUS
        <4>2. PICK s \in byOrigin : s.origin = p /\ s.current # p
          BY <2>4, <4>1 DEF Listed
        <4>3. s \in moves
          BY <1>2, <4>1, <4>2 DEF moves, tombstoned, States
        <4> QED BY <1>1, <1>4, <4>2, <4>3 DEF Apart
      <3>2. AtFirst(p) = NoFile
        BY <3>1, RefactorApplyAssumption DEF AtFirst
      <3> QED BY <1>2, <2>1, <2>4, <3>2 DEF Mirrored
    <2> QED BY <2>2, <2>3, <2>4
  <1>5. CASE \E s \in newFiles \cup contentWrites : s.current = p
    <2>1. PICK s \in newFiles \cup contentWrites : s.current = p
      BY <1>5
    <2>2. disk[p] = s.after /\ s \in byOrigin
      BY <1>1, <1>3, <2>1 DEF Progress, Apart
    <2> QED BY <1>2, <2>1, <2>2 DEF Mirrored
  <1>6. CASE p \in Removes /\ \A s \in newFiles \cup contentWrites : s.current # p
    <2>1. PICK s \in moves : s.current = p
      BY <1>6 DEF Removes, Fresh, Dests
    <2>2. s \in byOrigin /\ ~s.isNew /\ ~s.edited /\ era[s.origin] = "never"
      BY <1>1, <1>3, <1>6, <2>1 DEF Apart, States, contentWrites
    <2>3. disk[p] = AtFirst(s.origin)
      BY <1>3, <2>1, <2>2 DEF Progress
    <2> QED BY <1>2, <2>1, <2>2, <2>3 DEF States, Mirrored
  <1>7. CASE p \in Restores /\ p \notin Removes /\ \A s \in newFiles \cup contentWrites : s.current # p
    <2>1. PICK s \in moves : s.origin = p
      BY <1>1, <1>7 DEF Restores, Apart
    <2>2. disk[p] = NoFile
      BY <1>3, <2>1 DEF Progress
    <2>3. s \in byOrigin /\ s.current # p /\ \A r \in byOrigin : r.origin = p => r = s
      BY <1>1, <2>1 DEF Apart
    <2>4. p \notin Listed(byOrigin)
      <3>1. \A r \in byOrigin : r.current # p
        <4>1. SUFFICES ASSUME NEW r \in byOrigin, r.current = p
                       PROVE  FALSE
          OBVIOUS
        <4>2. r \notin moves /\ r \notin newFiles
          BY <1>1, <1>7, <4>1 DEF Apart
        <4>3. r.origin = p
          BY <1>2, <4>1, <4>2 DEF moves, newFiles, tombstoned, States
        <4> QED BY <2>3, <4>1, <4>3
      <3> QED BY <2>1, <2>3, <3>1 DEF Listed
    <2> QED BY <1>2, <2>2, <2>4 DEF Mirrored
  <1> QED BY <1>4, <1>5, <1>6, <1>7

\* Before it writes, the op leaves the workspace as it was.
LEMMA NothingDone ==
  ASSUME Watchful, pc \in Looking, outcome' \notin {"applied", "incomplete"},
         disk' = disk, era' = era, staged' = staged, UNCHANGED chain
  PROVE  \A p \in Paths : Accounted(p)'
  <1>1. staged' = {} /\ \A p \in Paths : era'[p] = "never" => disk'[p] = AtFirst(p)
    BY DEF Watchful
  <1> QED BY <1>1 DEF Accounted, Told, Lost, Meddled, AtFirst, NoFile, Bytes, AtHead

LEMMA ReportStep ==
  ASSUME Guarded, Phase, Chain, Watchful, Safe, Progress, Undoing, ReportIsTrueButForLost, [Next]_vars
  PROVE  ReportIsTrueButForLost'
  <1>1. SUFFICES ASSUME pc' = "done"
                 PROVE  \A p \in Paths : Accounted(p)'
    BY DEF ReportIsTrueButForLost, Accounted
  <1>2. CASE pc = "done"
    <2>1. UNCHANGED vars
      BY <1>2 DEF Next, OpStep, Step, StepFails, Build, Capture, Gate, Collide, Fence, Compare, MoveFile, WriteFile,
         CommitFails, Unstage, UndoFile, RolledBack, Readback, Recheck, Expire, OtherWrites
    <2>2. \A p \in Paths : Accounted(p)
      BY <1>2 DEF ReportIsTrueButForLost, Accounted
    <2> QED BY <2>1, <2>2 DEF Accounted, Told, Lost, Meddled, AtFirst, NoFile, Bytes, AtHead, vars, chain
  <1>3. CASE pc \in Looking
    <2>1. ~OtherWrites /\ ~Step
      BY <1>1, <1>3 DEF OtherWrites, Step, Looking
    <2>2. disk' = disk /\ era' = era /\ staged' = staged /\ UNCHANGED chain
      BY <1>3, <2>1, LooksOnly
    <2>3. outcome' \notin {"applied", "incomplete"}
      BY <1>1, <1>3, <2>1 DEF Looking, Next, OpStep, StepFails, Build, Capture, Gate, Collide, Fence, Compare, MoveFile,
         WriteFile, CommitFails, Unstage, UndoFile, RolledBack, Readback, Recheck, Expire, Goto, End, Rollback, vars
    <2> QED BY <1>3, <2>2, <2>3, NothingDone
  <1>4. CASE pc \in {"commit", "recheck"}
    <2>1. /\ outcome' \in {"applied", "incomplete"} /\ todo = {}
          /\ disk' = disk /\ era' = era /\ UNCHANGED chain
      BY <1>1, <1>4 DEF Progress, Next, OpStep, Step, StepFails, Build, Capture, Gate, Collide, Fence, Compare, MoveFile,
         WriteFile, CommitFails, Unstage, UndoFile, RolledBack, Readback, Recheck, Expire, OtherWrites, Goto, End,
         Rollback, Still, vars
    <2>2. \A p \in Paths : Meddled(p) \/ p \in dropped \/ disk[p] = tree[p]
      BY <1>4, <2>1, CarriedOut
    <2> QED BY <2>1, <2>2 DEF Accounted, Told, Lost, Meddled, chain
  <1>5. CASE pc = "rollback"
    <2>1. /\ todo = {} /\ outcome' = IF failed = {} THEN "rolled back" ELSE "rollback incomplete"
          /\ disk' = disk /\ era' = era /\ staged' = staged /\ noted' = noted /\ failed' = failed
          /\ UNCHANGED chain
      BY <1>1, <1>5 DEF Next, OpStep, Step, StepFails, Build, Capture, Gate, Collide, Fence, Compare, MoveFile,
         WriteFile, CommitFails, Unstage, UndoFile, RolledBack, Readback, Recheck, Expire, OtherWrites, Goto, End,
         Rollback, Still, vars
    <2>2. staged = {} \/ noted
      BY <1>5, <2>1 DEF Undoing
    <2>3. \A p \in Paths : era[p] = "never" => disk[p] = AtFirst(p) \/ p \in failed
      BY <1>5, <2>1 DEF Undoing
    <2> QED BY <2>1, <2>2, <2>3 DEF Accounted, Told, Lost, Meddled, AtFirst, NoFile, Bytes, AtHead
  <1> QED BY <1>2, <1>3, <1>4, <1>5 DEF Phase, Acting

----------------------------------------------------------------------------
Inv == /\ Guarded /\ Phase /\ Chain /\ Watchful /\ Baseline /\ Collided /\ Cleared
       /\ Safe /\ Progress /\ Undoing /\ ReportIsTrueButForLost

LEMMA InvInit == Init => Inv
  <1> SUFFICES ASSUME Init PROVE Inv
    OBVIOUS
  <1>1. /\ disk = [p \in Paths |-> AtFirst(p)] /\ era = [p \in Paths |-> "never"] /\ pc = "plan"
        /\ byOrigin = {} /\ currentToOrigin = {} /\ tree = disk /\ staged = {}
    BY DEF Init
  <1>2. Guarded
    BY GuardedInit
  <1>3. Chain
    <2>1. Listed(byOrigin) = Files
      BY <1>1 DEF Listed
    <2>2. \A p \in Paths \ Files : AtFirst(p) = NoFile
      BY RefactorApplyAssumption DEF AtFirst
    <2>3. Files \subseteq Paths
      BY DEF Paths
    <2>4. tree = [p \in Paths |-> tree[p]]
      BY <1>1
    <2>5. Keyed(byOrigin) /\ States(byOrigin) /\ Mapped(byOrigin, currentToOrigin)
      BY <1>1 DEF Keyed, States, Mapped
    <2>6. Mirrored(byOrigin, tree, dropped)
      BY <1>1, <2>1, <2>2, <2>3 DEF Mirrored
    <2> QED BY <2>4, <2>5, <2>6 DEF Chain, ChainOK
  <1>4. Watchful
    BY <1>1 DEF Watchful
  <1>5. Phase /\ Baseline /\ Collided /\ Cleared /\ Safe /\ Progress /\ Undoing /\ ReportIsTrueButForLost
    BY <1>1 DEF Phase, Looking, Acting, Baseline, Collided, Cleared, Safe, Progress, Undoing, ReportIsTrueButForLost
  <1> QED BY <1>2, <1>3, <1>4, <1>5 DEF Inv

LEMMA InvStep == Inv /\ [Next]_vars => Inv'
  <1> SUFFICES ASSUME Inv, [Next]_vars PROVE Inv'
    OBVIOUS
  <1>1. /\ Guarded /\ Phase /\ Chain /\ Watchful /\ Baseline /\ Collided /\ Cleared
        /\ Safe /\ Progress /\ Undoing /\ ReportIsTrueButForLost
    BY DEF Inv
  <1>2. Guarded' /\ Phase'
    BY <1>1, GuardedStep, PhaseStep
  <1>3. Chain' /\ Watchful' /\ Baseline' /\ Collided' /\ Cleared'
    BY <1>1, ChainStep, WatchfulStep, BaselineStep, CollidedStep, ClearedStep
  <1>4. Safe' /\ Undoing' /\ ReportIsTrueButForLost'
    BY <1>1, SafeStep, UndoingStep, ReportStep
  <1>5. Progress'
    BY <1>1, <1>4, ProgressStep
  <1> QED BY <1>2, <1>3, <1>4, <1>5 DEF Inv

\* Whatever is planned and whoever else writes, what the op reports is what is on disk, at every path
\* but one: where an applied chain has lost a file that a step created, because a later step created
\* another at its old path (transaction-compose.ts:59-73; refactor-plan-apply.ts).
THEOREM TheReportIsTrueButForLost == Spec => []ReportIsTrueButForLost
  <1>1. Inv => ReportIsTrueButForLost
    BY DEF Inv
  <1> QED BY <1>1, InvInit, InvStep, PTL DEF Spec

\* The chain, at every step of its planning, stands for the tree that its steps would have left, but
\* for the files it has lost: of their paths it knows nothing (transaction-compose.ts:59-73).
THEOREM TheChainIsTheTreeButForLost == Spec => []Chain
  <1>1. Inv => Chain
    BY DEF Inv
  <1> QED BY <1>1, InvInit, InvStep, PTL DEF Spec

\* A step that changes the disk is one of a commit or of a rollback, and works on the plan's paths.
LEMMA TouchesItsOwn ==
  ASSUME Inv, [Next]_vars, era' = era, NEW p \in Paths, disk'[p] # disk[p]
  PROVE  pc \in Acting /\ p \in Removes \cup Restores
  <1>1. Guarded /\ Phase /\ Progress /\ Undoing /\ pc # "done" => Apart
    BY StatesApart DEF Inv, Chain
  <1>2. ~OtherWrites
    <2>1. SUFFICES ASSUME OtherWrites
                   PROVE  FALSE
      OBVIOUS
    <2>2. PICK q \in Paths : Wrote(q)
      BY <2>1, OtherWrote DEF Inv
    <2>3. era'[q] # era[q]
      BY <2>2 DEF Wrote, Inv, Phase, Looking, Acting
    <2> QED BY <2>3
  <1>3. MoveFile \/ WriteFile \/ UndoFile
    BY <1>2 DEF Next, OpStep, Step, PlanStep, Edits, Moves, Extracts, Compose, StepFails, Build, Capture, Gate,
       Collide, Fence, Compare, CommitFails, Unstage, RolledBack, Readback, Recheck, Expire, Still, vars
  <1>4. CASE MoveFile
    <2>1. PICK t \in todo : /\ pc = "commit" /\ t.op = "move"
                            /\ disk' = [disk EXCEPT ![t.at] = disk[t.from], ![t.from] = NoFile]
      BY <1>4 DEF MoveFile
    <2>2. t.at \in Removes /\ t.from \in Restores
      <3>1. Apart
        BY <2>1, StatesApart DEF Inv, Chain
      <3> QED BY <2>1, <3>1, Records DEF Inv, Progress, Apart
    <2> QED BY <2>1, <2>2 DEF Inv, Guarded, Acting
  <1>5. CASE WriteFile
    <2>1. PICK t \in todo : pc = "commit" /\ t.op = "write" /\ disk' = [disk EXCEPT ![t.at] = Planned(t.at)]
      BY <1>5 DEF WriteFile
    <2>2. t.at \in Removes \cup Restores
      <3>1. Apart
        BY <2>1, StatesApart DEF Inv, Chain
      <3> QED BY <2>1, <3>1, Records DEF Inv, Progress, Apart
    <2> QED BY <2>1, <2>2 DEF Inv, Guarded, Acting
  <1>6. CASE UndoFile
    <2>1. PICK t \in todo : /\ pc = "rollback" /\ t.op \in {"remove", "restore"}
                            /\ \/ disk' = [disk EXCEPT ![t.at] = IF t.op = "remove" THEN NoFile ELSE before[t.at]]
                               \/ disk' = disk
      BY <1>6 DEF UndoFile
    <2>2. t.at \in Removes \cup Restores
      BY <2>1, UndoRecords DEF Inv, Undoing
    <2> QED BY <2>1, <2>2 DEF Inv, Guarded, Acting
  <1> QED BY <1>3, <1>4, <1>5, <1>6

\* Neither a commit nor its rollback overwrites, moves or removes what another program wrote before
\* the op's last look at the path (the checks before the write of refactor-plan-apply.ts).
THEOREM OthersAreSpared == Spec => SparesOthers
  <1>1. Inv /\ [Next]_vars => [era' = era => \A p \in Paths : disk'[p] # disk[p] => era[p] \notin LastLook(p)]_vars
    <2>1. SUFFICES ASSUME Inv, [Next]_vars, era' = era, NEW p \in Paths, disk'[p] # disk[p]
                   PROVE  era[p] \notin LastLook(p)
      OBVIOUS
    <2>2. pc \in Acting /\ p \in Removes \cup Restores
      BY <2>1, TouchesItsOwn
    <2> QED BY <2>1, <2>2 DEF Inv, Safe
  <1> QED BY <1>1, InvInit, InvStep, PTL DEF Spec, SparesOthers

----------------------------------------------------------------------------
(* Types: every byte string that is planned, kept or written is one of a   *)
(* known author.                                                           *)

AllBytes == [by : {"none", "head", "user", "step", "other"}, of : Paths \cup 0..MaxSteps]
Typed == /\ disk \in [Paths -> AllBytes] /\ before \in [Paths -> AllBytes]
         /\ \A s \in byOrigin : s.after \in AllBytes
         /\ staged \subseteq Paths /\ failed \subseteq Paths /\ steps \in 0..MaxSteps

LEMMA FoldedAfter ==
  ASSUME NEW st, NEW d, NEW news, NEW s \in Folded(st, d, news).by
  PROVE  s \in st.by \/ s.after = d.after
  <1>1. CASE d.from = d.to /\ d.to \in news
    BY <1>1 DEF Folded, Created
  <1>2. CASE ~(d.from = d.to /\ d.to \in news)
    BY <1>2 DEF Folded, Changed, Fold
  <1> QED BY <1>1, <1>2

LEMMA OneAfter ==
  ASSUME NEW d, NEW news, Compose(<<d>>, news), NEW s \in byOrigin'
  PROVE  s \in byOrigin \/ s.after = d.after
  <1>1. Len(<<d>>) = 1 /\ <<d>>[1] = d
    OBVIOUS
  <1>2. byOrigin' = Folded(ChainOf, d, news).by
    BY <1>1 DEF Compose, ApplyStep, ChainOf
  <1> QED BY <1>2, FoldedAfter DEF ChainOf

LEMMA TwoAfter ==
  ASSUME NEW d, NEW e, NEW news, Compose(<<d, e>>, news), NEW s \in byOrigin'
  PROVE  s \in byOrigin \/ s.after \in {d.after, e.after}
  <1>1. byOrigin' = Folded(Folded(ChainOf, d, news), e, news).by
    BY ComposeTwo
  <1> QED BY <1>1, FoldedAfter DEF ChainOf

LEMMA PlansAreTyped ==
  ASSUME Typed, ChainNow, PlanStep
  PROVE  /\ \A s \in byOrigin' : s.after \in AllBytes
         /\ steps' \in 0..MaxSteps
  <1>1. steps < MaxSteps /\ steps' = steps + 1 /\ disk' = disk
    BY DEF PlanStep, Edits, Moves, Extracts, Compose
  <1>2. steps \in Nat /\ MaxSteps \in Nat /\ steps + 1 \in 0..MaxSteps
    BY <1>1, TxnAssumption DEF Typed
  <1>3. StepBytes \in AllBytes
    BY <1>2 DEF StepBytes, Bytes, AllBytes
  <1>4. ASSUME NEW p \in Readable
        PROVE  Content(p) \in AllBytes
    <2>1. p \in Paths
      BY DEF Readable, Listing, Paths, ChainNow, ChainOK, States
    <2>2. CASE \E s \in byOrigin : s.current = p
      BY <2>2 DEF Content, Typed
    <2>3. CASE ~\E s \in byOrigin : s.current = p
      BY <2>1, <2>3 DEF Content, Typed
    <2> QED BY <2>2, <2>3
  <1>5. \A p, to, after : Entry(p, to, after).after = after
    BY DEF Entry
  <1>6. CASE Edits
    <2>1. PICK p, q \in Readable : Compose(IF p = q THEN <<Entry(p, p, StepBytes)>>
                                           ELSE <<Entry(p, p, StepBytes), Entry(q, q, StepBytes)>>, {})
      BY <1>6 DEF Edits
    <2>2. CASE p = q
      BY <1>2, <1>1, <1>3, <1>5, <2>1, <2>2, OneAfter DEF Typed
    <2>3. CASE p # q
      BY <1>2, <1>1, <1>3, <1>5, <2>1, <2>3, TwoAfter DEF Typed
    <2> QED BY <2>2, <2>3
  <1>7. CASE Moves
    <2>1. PICK p \in Readable, to \in Paths \ Listing, own \in BOOLEAN :
            LET there == Entry(p, to, IF own THEN StepBytes ELSE Content(p)) IN
            \/ Compose(<<there>>, {})
            \/ \E r \in Readable \ {p} : Compose(<<there, Entry(r, r, StepBytes)>>, {})
      BY <1>7 DEF Moves
    <2> DEFINE there == Entry(p, to, IF own THEN StepBytes ELSE Content(p))
    <2>2. there.after \in AllBytes
      BY <1>3, <1>4, <1>5
    <2> HIDE DEF there
    <2>3. CASE Compose(<<there>>, {})
      BY <1>1, <1>2, <2>2, <2>3, OneAfter DEF Typed
    <2>4. ASSUME NEW r \in Readable \ {p}, Compose(<<there, Entry(r, r, StepBytes)>>, {})
          PROVE  \A s \in byOrigin' : s.after \in AllBytes
      BY <1>3, <1>5, <2>2, <2>4, TwoAfter DEF Typed
    <2> QED BY <1>1, <1>2, <2>1, <2>3, <2>4 DEF there
  <1>8. CASE Extracts
    <2>1. PICK p \in Readable, to \in Paths \ Listing :
            Compose(<<Entry(p, p, StepBytes),
                      [Entry(p, to, StepBytes) EXCEPT !.from = to, !.before = NoFile]>>, {to})
      BY <1>8 DEF Extracts
    <2> DEFINE e == [Entry(p, to, StepBytes) EXCEPT !.from = to, !.before = NoFile]
    <2>2. e.after = StepBytes
      BY DEF Entry
    <2> HIDE DEF e
    <2>3. Compose(<<Entry(p, p, StepBytes), e>>, {to})
      BY <2>1 DEF e
    <2> QED BY <1>1, <1>2, <1>3, <1>5, <2>2, <2>3, TwoAfter DEF Typed
  <1> QED BY <1>6, <1>7, <1>8 DEF PlanStep

LEMMA TypedInit == Init => Typed
  <1> SUFFICES ASSUME Init PROVE Typed
    OBVIOUS
  <1>1. NoFile \in AllBytes /\ \A p \in Paths : AtFirst(p) \in AllBytes
    BY TxnAssumption DEF NoFile, Bytes, AllBytes, AtFirst, AtHead
  <1> QED BY <1>1, TxnAssumption DEF Init, Typed

LEMMA TypedStep == Inv /\ Typed /\ [Next]_vars => Typed'
  <1> SUFFICES ASSUME Inv, Typed, [Next]_vars PROVE Typed'
    OBVIOUS
  <1>1. AllBytes' = AllBytes /\ NoFile \in AllBytes
    BY TxnAssumption DEF AllBytes, NoFile, Bytes
  <1>2. /\ Guarded /\ Phase /\ Chain /\ Watchful /\ Safe /\ Progress /\ Undoing
    BY DEF Inv
  <1>3. pc # "done" => Apart /\ Removes \subseteq Paths /\ Restores \subseteq Paths
    BY <1>2, StatesApart, PlanShape DEF Chain, Paths
  <1>4. CASE Step
    <2>1. ChainNow /\ PlanStep
      BY <1>2, <1>4 DEF Step, Chain, Watchful, Looking, ChainNow
    <2>2. disk' = disk /\ before' = before /\ staged' = staged /\ failed' = failed
      BY <1>4 DEF Step, PlanStep, Edits, Moves, Extracts, Compose
    <2> QED BY <1>1, <2>1, <2>2, PlansAreTyped DEF Typed
  <1>5. CASE Build
    <2>1. /\ disk' = disk /\ UNCHANGED chain /\ staged' = staged /\ failed' = failed
          /\ before' = before \/ before' = [p \in Paths |-> IF p \in Restores THEN disk[p] ELSE NoFile]
      BY <1>5 DEF Build
    <2>2. before' \in [Paths -> AllBytes]
      BY <1>1, <2>1 DEF Typed
    <2> QED BY <1>1, <2>1, <2>2 DEF Typed, chain
  <1>6. CASE MoveFile
    <2>1. PICK t \in todo :
            /\ pc = "commit" /\ t.op = "move"
            /\ disk' = [disk EXCEPT ![t.at] = disk[t.from], ![t.from] = NoFile]
            /\ staged' \in {staged, staged \cup {t.at}}
            /\ UNCHANGED <<chain, before, failed>>
      BY <1>6 DEF MoveFile
    <2>2. t.at \in Paths /\ t.from \in Paths
      BY <1>2, <1>3, <2>1, Records DEF Progress, Apart
    <2>3. disk' \in [Paths -> AllBytes]
      BY <1>1, <2>1, <2>2 DEF Typed
    <2> QED BY <1>1, <2>1, <2>2, <2>3 DEF Typed, chain
  <1>7. CASE WriteFile
    <2>1. PICK t \in todo :
            /\ pc = "commit" /\ t.op = "write" /\ disk' = [disk EXCEPT ![t.at] = Planned(t.at)]
            /\ UNCHANGED <<chain, before, staged, failed>>
      BY <1>7 DEF WriteFile
    <2>2. Planned(t.at) \in AllBytes
      BY <1>2, <1>3, <2>1, Records DEF Progress, Apart, Typed
    <2>3. disk' \in [Paths -> AllBytes]
      BY <2>1, <2>2 DEF Typed
    <2> QED BY <1>1, <2>1, <2>3 DEF Typed, chain
  <1>8. CASE UndoFile
    <2>1. PICK t \in todo :
            /\ pc = "rollback" /\ t.op \in {"remove", "restore"}
            /\ disk' \in {disk, [disk EXCEPT ![t.at] = IF t.op = "remove" THEN NoFile ELSE before[t.at]]}
            /\ failed' \in {failed, failed \cup {t.at}}
            /\ UNCHANGED <<chain, before, staged>>
      BY <1>8 DEF UndoFile
    <2>2. t.at \in Paths
      BY <1>2, <1>3, <2>1, UndoRecords DEF Undoing
    <2>3. disk' \in [Paths -> AllBytes]
      BY <1>1, <2>1, <2>2 DEF Typed
    <2> QED BY <1>1, <2>1, <2>2, <2>3 DEF Typed, chain
  <1>9. CASE OtherWrites
    <2>1. PICK p \in Paths : \E b \in {NoFile, Bytes("other", p)} : disk' = [disk EXCEPT ![p] = b]
      BY <1>9 DEF OtherWrites
    <2>2. Bytes("other", p) \in AllBytes
      BY DEF Bytes, AllBytes
    <2>3. disk' \in [Paths -> AllBytes]
      BY <1>1, <2>1, <2>2 DEF Typed
    <2>4. UNCHANGED <<chain, before, staged, failed>>
      BY <1>9 DEF OtherWrites
    <2> QED BY <1>1, <2>3, <2>4 DEF Typed, chain
  <1>10. CASE UNCHANGED <<disk, chain, before, failed>> /\ staged' \in {staged, {}}
    BY <1>1, <1>10 DEF Typed, chain
  <1>11. \/ Step \/ Build \/ MoveFile \/ WriteFile \/ UndoFile \/ OtherWrites
         \/ UNCHANGED <<disk, chain, before, failed>> /\ staged' \in {staged, {}}
    BY DEF Next, OpStep, StepFails, Capture, Gate, Collide, Fence, Compare, CommitFails, Unstage, RolledBack,
           Readback, Recheck, Expire, Still, vars
  <1> QED BY <1>4, <1>5, <1>6, <1>7, <1>8, <1>9, <1>10, <1>11

\* The op only ever writes planned or kept bytes, to paths of the workspace.
THEOREM ApplyTypes == Spec => []TypeOK
  <1>1. Inv /\ Typed => TypeOK
    BY DEF Inv, Phase, Looking, Acting, Typed, AllBytes, TypeOK
  <1> QED BY <1>1, InvInit, InvStep, TypedInit, TypedStep, PTL DEF Spec
=============================================================================
