------------------------------- MODULE MCHost -------------------------------
(* An engine in a process of its own, in one run from both sides: the host *)
(* that must not wait for it, and the watchdog that must not let it live.  *)
(* `part` says which of them a behaviour is about, and the other one is at  *)
(* rest: the watchdog has no reason to act, or the host has given up on    *)
(* its child before the behaviour begins.                                  *)
EXTENDS ProcessHost, Watchdog

VARIABLE part

PartsInit == /\ Init /\ WatchInit
             /\ \/ part = "host" /\ parent = "alive" /\ ~aware
                \/ part = "watchdog"

PartsNext ==
    /\ UNCHANGED part
    /\ \/ part = "host" /\ Next /\ UNCHANGED watchVars
       \/ part = "watchdog" /\ StartupDeadline /\ UNCHANGED watchVars
       \/ part = "watchdog" /\ phase = "failed" /\ WatchNext /\ UNCHANGED vars

PartsSpec == /\ PartsInit /\ [][PartsNext]_<<part, vars, watchVars>>
             /\ Fairness
             /\ WF_watchVars(part = "watchdog" /\ WorkerStep)
             /\ WF_watchVars(part = "watchdog" /\ Elapse)
             /\ WF_watchVars(part = "watchdog" /\ Store)
             /\ WF_watchVars(part = "watchdog" /\ OrphanPoll)
             /\ WF_watchVars(part = "watchdog" /\ Exit)
=============================================================================
