------------------------------- MODULE IdleExit -------------------------------
(***************************************************************************)
(* createIdleExit (common/async/idle-exit.ts): a deadline that is under    *)
(* way only while nobody holds the process, and fires once.  Its four      *)
(* methods are actions here; DaemonServer says when they are called and    *)
(* what firing does.                                                       *)
(***************************************************************************)
EXTENDS Naturals

VARIABLES
  holds,    \* how many connections and dispatches hold the daemon
  armed,    \* the deadline is scheduled
  fired     \* onIdle ran

idleVars == <<holds, armed, fired>>

IdleTypeOK == holds \in Nat /\ armed \in BOOLEAN /\ fired \in BOOLEAN

IdleInit == holds = 0 /\ armed = FALSE /\ fired = FALSE

-----------------------------------------------------------------------------
(* Mutations.                                                              *)
Leave_NoRearm == holds' = holds - 1 /\ UNCHANGED <<armed, fired>>

-----------------------------------------------------------------------------
(* arm: no-op once the deadline has fired.                                 *)
ArmIf(nobodyHolds) == IF nobodyHolds THEN ~fired ELSE FALSE

Enter ==
  /\ holds' = holds + 1
  /\ armed' = FALSE
  /\ UNCHANGED fired

(* The last release re-arms the deadline; one without a hold leaves the    *)
(* count at zero.                                                          *)
Leave ==
  /\ holds' = IF holds > 0 THEN holds - 1 ELSE 0
  /\ armed' = IF holds' = 0 THEN ~fired ELSE armed
  /\ UNCHANGED fired

(* An enter and its leave in one turn of the loop.                         *)
EnterAndLeave == armed' = ArmIf(holds = 0) /\ UNCHANGED <<holds, fired>>

(* start: armed unless somebody already holds.                             *)
Start == armed' = (holds = 0) /\ UNCHANGED <<holds, fired>>

(* stop cancels the deadline of now, not the one a later leave arms.       *)
Stop == armed' = FALSE /\ UNCHANGED <<holds, fired>>

(* The guard of the timer's callback.                                      *)
TimerFires == holds = 0 /\ ~fired

=============================================================================
