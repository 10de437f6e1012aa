--------------------------- MODULE MCOrchestrator --------------------------
(***************************************************************************)
(* Settings of Orchestrator for TLC: two repositories that stay as they    *)
(* are; one that changes on disk; one that concurrent requests share, some *)
(* of them for operations that need no TypeScript project.                 *)
(***************************************************************************)
EXTENDS Orchestrator

CONSTANTS r1, r2, c1

Set(asks, volatile, independent, shared) ==
    [asks |-> asks, volatile |-> volatile, independent |-> independent, shared |-> shared]

Still    == Set({r1, r2}, {}, {}, FALSE)
Changing == Set({r1}, {r1}, {}, FALSE)
Shared   == Set({r1}, {r1}, {}, TRUE)
Gated    == Set({r1}, {}, {c1}, TRUE)
Bare     == Set({r1}, {}, {}, TRUE)

Each == {Still, Changing, Shared, Gated}
OnlyBare == {Bare}
=============================================================================
