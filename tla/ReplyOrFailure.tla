---------------------------- MODULE ReplyOrFailure ----------------------------
(***************************************************************************)
(* What a ProjectHost promises the orchestrator (daemon/host.ts and the    *)
(* header of daemon/process-host.ts), whatever runs behind it: a call made *)
(* on an open host is answered, or fails when the host gives up on all its *)
(* calls at once; a call on a host that gave up fails at once.             *)
(***************************************************************************)
CONSTANT Calls

VARIABLES
  status,  \* [Calls -> "unused" | "waiting" | "answered" | "failed"]
  open

vars == <<status, open>>

Init == status = [c \in Calls |-> "unused"] /\ open = TRUE

Issue(c) ==
  /\ open
  /\ status[c] = "unused"
  /\ status' = [status EXCEPT ![c] = "waiting"]
  /\ UNCHANGED open

Refuse(c) ==
  /\ ~open
  /\ status[c] = "unused"
  /\ status' = [status EXCEPT ![c] = "failed"]
  /\ UNCHANGED open

Answer(c) ==
  /\ open
  /\ status[c] = "waiting"
  /\ status' = [status EXCEPT ![c] = "answered"]
  /\ UNCHANGED open

GiveUp ==
  /\ open
  /\ open' = FALSE
  /\ status' = [c \in Calls |-> IF status[c] = "waiting" THEN "failed" ELSE status[c]]

Next == GiveUp \/ \E c \in Calls : Issue(c) \/ Refuse(c) \/ Answer(c)

(* A waiting call ends: with its answer, or with everything else.          *)
Fairness == \A c \in Calls : WF_vars((status[c] = "waiting") /\ (Answer(c) \/ GiveUp))

Spec == Init /\ [][Next]_vars /\ Fairness

Safety == Init /\ [][Next]_vars

=============================================================================
