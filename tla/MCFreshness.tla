---------------------------- MODULE MCFreshness ----------------------------
(* The two halves of the guard in one run, each on its own: `part` says    *)
(* which of them a behaviour is about, and the other one stands still.     *)
(*                                                                         *)
(* The environments: one file and a tree that moves during the batches, in *)
(* three kinds (in the third, git and failing walks meet and the guard     *)
(* gives in), and two files whose past comes back between the batches.     *)
EXTENDS Freshness, FileStamp
CONSTANTS f1, f2

VARIABLE part

Moved(may) == [may |-> {"midBatch", "watcher"} \cup may, files |-> {f1},
               contents |-> 0 .. 3, commits |-> 2]

Reverted == [may |-> {"revert", "delete"}, files |-> {f1, f2},
             contents |-> 0 .. 1, commits |-> 3]

Mixes == {Moved({"diffFails", "delete", "apply"}),
          Moved({"noGit", "walkFails"}),
          [may |-> {"midBatch", "diffFails", "gitLost", "walkFails"},
           files |-> {f1}, contents |-> 0 .. 2, commits |-> 2],
          Reverted}

\* Commits of the past come back, and `git diff` may fail.
Forgetful == {[may |-> {"revert", "diffFails"}, files |-> {f1},
               contents |-> 0 .. 2, commits |-> 3]}

GuardInit == /\ part = "guard" /\ Init
             /\ now = 0 /\ StampInit

FileInit == /\ part = "stamp" /\ StampInit
            /\ env = Reverted /\ work = Cold /\ Init

PartsInit == GuardInit \/ FileInit

PartsNext ==
    \/ part = "guard" /\ Next /\ UNCHANGED <<part, stampVars>>
    \/ part = "stamp" /\ StampNext /\ UNCHANGED <<part, vars>>

PartsSpec == PartsInit /\ [][PartsNext]_<<part, vars, stampVars>>
=============================================================================
