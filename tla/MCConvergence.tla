---------------------------- MODULE MCConvergence ---------------------------
(***************************************************************************)
(* Two clients, in the mixes of roles that meet each other: restart is a   *)
(* stop and a start.                                                       *)
(***************************************************************************)
EXTENDS Convergence, TLC

CONSTANTS c1, c2

Mix(x, y) == (c1 :> x) @@ (c2 :> y)
Mixes == {Mix("bridge", "bridge"), Mix("bridge", "restart"), Mix("bridge", "start"),
          Mix("stop", "stop"), Mix("stop", "start")}
===========================================================================
