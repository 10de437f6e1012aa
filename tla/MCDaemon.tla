------------------------------ MODULE MCDaemon ------------------------------
(* The two ends of the socket in one run, each against everything the      *)
(* other one may do to it: `part` says which of them a behaviour is about. *)
(* While it is about the bridge, the daemon has crashed before it began.   *)
EXTENDS DaemonServer, RemoteOrchestrator

VARIABLE part

PartsInit == part \in {"server", "bridge"} /\ Init /\ RemoteInit

PartsNext ==
    /\ UNCHANGED part
    /\ \/ part = "server" /\ Next /\ UNCHANGED remoteVars
       \/ part = "bridge" /\ phase = "serving" /\ Crash /\ UNCHANGED remoteVars
       \/ part = "bridge" /\ phase = "crashed" /\ RemoteNext /\ UNCHANGED vars

PartsSpec == /\ PartsInit /\ [][PartsNext]_<<part, vars, remoteVars>>
             /\ Fairness
             /\ WF_remoteVars(part = "bridge" /\ BridgeStep)
=============================================================================
