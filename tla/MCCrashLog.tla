----------------------------- MODULE MCCrashLog ----------------------------
(***************************************************************************)
(* CrashLog for TLC.  No definition chooses among the processes, and only  *)
(* invariants are checked, so they are symmetric.                          *)
(***************************************************************************)
EXTENDS CrashLog, TLC

Symmetry == Permutations(Processes)
=============================================================================
