----------------------------- MODULE TxnCompose ----------------------------
(***************************************************************************)
(* Planning a chain of mutating steps as one change: ops/transaction.ts    *)
(* and ops/transaction-compose.ts.  A step is what its planner returns: a  *)
(* diff, each entry taking a file from a path to a path with new bytes,    *)
(* and the paths it creates.  It is planned over the overlay of the steps  *)
(* before it and folded into one state per file, keyed by the path the     *)
(* file had when the chain began.                                          *)
(*                                                                         *)
(* Bytes are named for who wrote them.  The language service's part, what  *)
(* a step rewrites, is a free choice; a run of consecutive moves, which is *)
(* planned on one tree, is the moves one by one; folders are left out.     *)
(***************************************************************************)
EXTENDS Naturals, FiniteSets, Sequences

CONSTANTS Files,      \* what git tracks
          Spots,      \* the other paths of the workspace, free at first
          MaxSteps    \* bound: the length of a chain

Paths == Files \cup Spots
ASSUME TxnAssumption == Files \cap Spots = {} /\ IsFiniteSet(Paths) /\ MaxSteps \in Nat

VARIABLES
    disk,             \* the workspace: the bytes at every path
    byOrigin,         \* the chain so far: a set of file states, one for each origin
    currentToOrigin,  \* current path -> origin, a set of pairs
    steps,            \* history: how many steps were planned
    tree,             \* history: the workspace had every step been carried out in turn
    dropped           \* history: the files an earlier step created that the chain has lost

chain == <<byOrigin, currentToOrigin, steps, tree, dropped>>

Bytes(by, of) == [by |-> by, of |-> of]
NoFile == Bytes("none", 0)
AtHead(p) == Bytes("head", p)          \* what HEAD holds
StepBytes == Bytes("step", steps + 1)

State(o) == {s \in byOrigin : s.origin = o}
tombstoned(s) == ~s.isNew /\ s.current # s.origin

\* The overlay of the next step: its listing, and the bytes at a listed path.
Listing == {s.current : s \in byOrigin} \cup (Files \ {s.origin : s \in byOrigin})
Content(p) == IF \E s \in byOrigin : s.current = p
              THEN (CHOOSE s \in byOrigin : s.current = p).after ELSE disk[p]

Entry(from, to, after) == [from |-> from, to |-> to, before |-> Content(from), after |-> after]

----------------------------------------------------------------------------
(* applyStep: one diff entry folded into the state of its file.            *)

OriginOf(at, p) == IF \E pr \in at : pr[1] = p THEN (CHOOSE pr \in at : pr[1] = p)[2] ELSE p

Created(st, d) ==
    [by |-> {s \in st.by : s.origin # d.to} \cup
              {[origin |-> d.to, current |-> d.to, after |-> d.after, edited |-> FALSE, isNew |-> TRUE]},
     at |-> {pr \in st.at : pr[1] # d.to} \cup {<<d.to, d.to>>}]

Prev(st, d) == {s \in st.by : s.origin = OriginOf(st.at, d.from)}
Fold(st, d, edited) ==
    LET o == OriginOf(st.at, d.from) IN
    [by |-> (st.by \ Prev(st, d)) \cup
              {[origin |-> o, current |-> d.to, after |-> d.after, edited |-> edited,
                isNew |-> \E s \in Prev(st, d) : s.isNew]},
     at |-> IF d.from # d.to THEN {pr \in st.at : pr[1] \notin {d.from, d.to}} \cup {<<d.to, o>>}
            ELSE IF \E pr \in st.at : pr[1] = d.to THEN st.at ELSE st.at \cup {<<d.to, o>>}]
Changed_LastOnly(st, d) == Fold(st, d, d.after # d.before)
Changed(st, d) == Fold(st, d, d.after # d.before \/ \E s \in Prev(st, d) : s.edited)

Unrepresentable(news) == \E q \in news, s \in byOrigin : s.origin = q /\ tombstoned(s)

Folded(st, d, news) == IF d.from = d.to /\ d.to \in news THEN Created(st, d) ELSE Changed(st, d)

\* A diff has one entry or two.
ApplyStep(diff, news) ==
    LET one == Folded([by |-> byOrigin, at |-> currentToOrigin], diff[1], news)
        st == IF Len(diff) = 1 THEN one ELSE Folded(one, diff[2], news) IN
    byOrigin' = st.by /\ currentToOrigin' = st.at

\* The same entries carried out on the tree, for the history.
Carried(t, d) == [t EXCEPT ![d.from] = NoFile, ![d.to] = d.after]
InTurn(diff) == IF Len(diff) = 1 THEN Carried(tree, diff[1]) ELSE Carried(Carried(tree, diff[1]), diff[2])

\* A file that a step creates takes the place of one that was created there and has moved since:
\* nothing refuses it, and the chain forgets the other.
Replaced(news) == {s.current : s \in {r \in byOrigin : r.origin \in news}}

Compose(diff, news) ==
    /\ steps < MaxSteps /\ ~Unrepresentable(news)
    /\ ApplyStep(diff, news)
    /\ steps' = steps + 1 /\ tree' = InTurn(diff)
    /\ dropped' = (dropped \cup Replaced(news)) \ {s.current : s \in byOrigin'}
    /\ UNCHANGED disk

----------------------------------------------------------------------------
(* The step kinds, by the shape of their plans.                            *)

Readable == {p \in Listing : Content(p) # NoFile}

\* rename_symbol, change_signature, and a move_symbol between files that exist
Edits == \E p, q \in Readable :
            Compose(IF p = q THEN <<Entry(p, p, StepBytes)>>
                    ELSE <<Entry(p, p, StepBytes), Entry(q, q, StepBytes)>>, {})

\* move_file: its own imports, and those of an importer, may need rewriting
Moves == \E p \in Readable, to \in Paths \ Listing, own \in BOOLEAN :
            LET there == Entry(p, to, IF own THEN StepBytes ELSE Content(p)) IN
            \/ Compose(<<there>>, {})
            \/ \E r \in Readable \ {p} : Compose(<<there, Entry(r, r, StepBytes)>>, {})

\* extract_symbol, and a move_symbol into a new file
Extracts == \E p \in Readable, to \in Paths \ Listing :
               Compose(<<Entry(p, p, StepBytes), [Entry(p, to, StepBytes) EXCEPT !.from = to, !.before = NoFile]>>, {to})

PlanStep == Edits \/ Moves \/ Extracts

----------------------------------------------------------------------------
(* build: the chain as one plan, which the states of the files already are.*)

isEmpty == \A s \in byOrigin : ~s.isNew /\ ~s.edited /\ ~tombstoned(s)

newFiles == {s \in byOrigin : s.isNew}
moves == {s \in byOrigin : tombstoned(s)}
contentWrites == {s \in byOrigin : ~s.isNew /\ s.edited}
Diffed == newFiles \cup moves \cup contentWrites
Unreadable == \E s \in byOrigin : ~s.isNew /\ disk[s.origin] = NoFile
=============================================================================
