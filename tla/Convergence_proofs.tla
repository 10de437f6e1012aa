------------------------- MODULE Convergence_proofs -------------------------
(***************************************************************************)
(* Proofs about Convergence: one invariant, Inv, kept by every step of a   *)
(* daemon and of a client, and what follows from it.  A client that does   *)
(* not move keeps what it knows because a daemon's stage only advances     *)
(* (Forward); a client that moves learns what the files told it.           *)
(***************************************************************************)
EXTENDS Convergence, TLAPS

\* Stages from which no daemon goes back: it has bound; it has written its hint.
HasBound(d) == stage[d] \notin {"unborn", "starting"}
Past(d) == stage[d] \in {"serving", "closing", "closed", "disposing", "gone"}

Recovery == {"confirm", "term", "grace", "reread", "kill", "gone"}
StopHalf == {"asking", "closing", "read", "unhint"} \cup Recovery
StartHalf == {"probe", "probing", "connect", "reprobe", "clear", "poll", "starting"}
BridgePcs == {"connect", "reprobe", "clear", "poll", "linked", "local", "done"}

-----------------------------------------------------------------------------
(* The invariant.                                                          *)

Typed ==
    /\ socket \in Daemons \cup {Nobody} /\ pidfile \in Daemons \cup {Nobody}
    /\ stage \in [Daemons -> Stages]
    /\ stuck \subseteq Daemons /\ busy \subseteq Daemons
    /\ asked \subseteq Daemons /\ doomed \subseteq Daemons
    /\ unclean \subseteq Daemons /\ reused \subseteq Daemons
    /\ role \in [Clients -> Roles] /\ pc \in [Clients -> Pcs]
    /\ link \in [Clients -> Daemons \cup {Nobody}]
    /\ target \in [Clients -> Daemons \cup {Nobody}]
    /\ claim \in [Clients -> [what : Verdicts, of : Daemons \cup {Nobody}]]
    /\ reprobed \subseteq Clients /\ unseen \in [Clients -> SUBSET Daemons]
    /\ checked \in [Clients -> BOOLEAN]
    /\ served \in [Clients -> SUBSET Daemons] /\ crossed \in BOOLEAN

\* A hint that outlives its daemon was left by a killed one.
Hints ==
    /\ pidfile \in Daemons =>
          stage[pidfile] \in {"serving", "closing", "closed"} \/ pidfile \in unclean
    /\ \A d \in unclean \cup reused : stage[d] = "gone"

\* As long as nobody's live file was removed, whoever listens is at the socket,
\* and whoever serves is in the pidfile.
OneDaemon ==
    ~crossed => \A d \in Daemons : /\ stage[d] \in Listening => socket = d
                                   /\ stage[d] = "serving" => pidfile = d

\* What a recovery knows of the pid it has read.
TargetIsKnown(c) ==
    /\ pc[c] \in Recovery => target[c] \in Daemons /\ Past(target[c])
    /\ pc[c] = "unhint" => target[c] \in Daemons /\ stage[target[c]] = "gone"
    /\ pc[c] \in {"term", "kill"} => checked[c] \/ target[c] \in unclean

LinkIsKnown(c) ==
    /\ pc[c] \in StopHalf \cup {"linked", "probing", "starting"} =>
          link[c] \in Daemons /\ HasBound(link[c])
    /\ pc[c] \in StopHalf \ {"asking", "closing"} => Past(link[c])
    /\ \A d \in served[c] : HasBound(d)

\* The daemon a restart began with has left when its start half begins.
Replaces(c) ==
    /\ ~crossed =>
          /\ pc[c] \in StopHalf => served[c] \subseteq {link[c]}
          /\ pc[c] \in Recovery => target[c] = link[c] \/ ~Up(link[c])
          /\ pc[c] = "unhint" => ~Up(link[c])
          /\ role[c] = "restart" /\ pc[c] \in StartHalf => \A d \in served[c] : ~Up(d)
    /\ role[c] = "restart" /\ claim[c].what \in {"running", "started"}
          => pc[c] = "done" /\ (claim[c].of \notin served[c] \/ crossed)

PlaysItsRole(c) ==
    /\ role[c] = "bridge" => pc[c] \in BridgePcs /\ claim[c].what = "none"
    /\ role[c] # "bridge" => pc[c] \notin {"linked", "local"}

ClientInv(c) == TargetIsKnown(c) /\ LinkIsKnown(c) /\ Replaces(c) /\ PlaysItsRole(c)

\* A client about to remove the socket has probed twice, and knows whom the second probe missed.
Watches(c) == pc[c] = "clear" => c \in reprobed /\ (Up(socket) => socket \in unseen[c])

Inv == Typed /\ Hints /\ OneDaemon /\ \A c \in Clients : ClientInv(c) /\ Watches(c)

-----------------------------------------------------------------------------
(* How the world may move while a client stands still.                     *)

Forward ==
    /\ \A d \in Daemons : /\ HasBound(d) => HasBound(d)'
                          /\ Past(d) => Past(d)'
                          /\ stage[d] = "gone" => stage'[d] = "gone"
                          /\ HasBound(d) /\ ~Up(d) => ~Up(d)'
    /\ unclean \subseteq unclean' /\ (crossed => crossed')

Stands(c) ==
    /\ pc'[c] = pc[c] /\ link'[c] = link[c] /\ target'[c] = target[c] /\ claim'[c] = claim[c]
    /\ checked'[c] = checked[c] /\ served'[c] = served[c] /\ role'[c] = role[c]

KeepsTrack(c) == unseen'[c] = unseen[c] /\ (c \in reprobed' <=> c \in reprobed)

LEMMA ClientStands ==
  ASSUME Typed, NEW c \in Clients, ClientInv(c), Forward, Stands(c)
  PROVE  ClientInv(c)'
  <1>1. TargetIsKnown(c)'
    BY DEF Typed, ClientInv, TargetIsKnown, Forward, Stands
  <1>2. LinkIsKnown(c)'
    BY DEF Typed, ClientInv, LinkIsKnown, Forward, Stands
  <1>3. Replaces(c)'
    <2>1. \A d \in served[c] : ~Up(d) => ~Up(d)'
      BY DEF Typed, ClientInv, LinkIsKnown, Forward
    <2>2. pc[c] \in StopHalf => (~Up(link[c]) => ~Up(link[c])')
      BY DEF ClientInv, LinkIsKnown, Forward, Stands, StopHalf
    <2> QED BY <2>1, <2>2 DEF ClientInv, Replaces, Forward, Stands, StopHalf, Up
  <1>4. PlaysItsRole(c)'
    BY DEF ClientInv, PlaysItsRole, Stands
  <1> QED BY <1>1, <1>2, <1>3, <1>4 DEF ClientInv

-----------------------------------------------------------------------------
(* The daemons.                                                            *)

DaemonMoves(d) ==
    \/ DaemonStep(d) \/ Dispatch(d) \/ Settle(d)
    \/ Dies(d) \/ GetsStuck(d) \/ ComesBack(d) \/ PidIsReused(d)

LEMMA DaemonTypes ==
  ASSUME Inv, NEW d \in Daemons, DaemonMoves(d)
  PROVE  /\ Typed' /\ Forward /\ UNCHANGED <<role, pc, link, target, claim, checked, served>>
         /\ \A c \in Clients : Watches(c)'
  <1>. USE ConvergenceAssumption DEF Inv, Typed, Watches, Forward, HasBound, Past, Up, Listening,
           Stages, clients
  <1>1. CASE Bind(d)
    BY <1>1 DEF Bind
  <1>2. CASE LoseBind(d)
    BY <1>2 DEF LoseBind
  <1>3. CASE WritePidfile(d)
    BY <1>3 DEF WritePidfile
  <1>4. CASE Shutdown(d)
    BY <1>4 DEF Shutdown, UnlinkSocket, Answers
  <1>5. CASE ListenerClosed(d)
    BY <1>5 DEF ListenerClosed, UnlinkSocket
  <1>6. CASE DropHint(d)
    BY <1>6 DEF DropHint, RemovePidfile
  <1>7. CASE Exit(d)
    BY <1>7 DEF Exit, Ends
  <1>8. CASE Dies(d)
    BY <1>8 DEF Dies, Ends, Exists
  <1>9. CASE GetsStuck(d) \/ ComesBack(d) \/ PidIsReused(d)
    BY <1>9 DEF GetsStuck, ComesBack, PidIsReused
  <1>10. CASE Dispatch(d) \/ Settle(d)
    BY <1>10 DEF Dispatch, Settle
  <1> QED BY <1>1, <1>2, <1>3, <1>4, <1>5, <1>6, <1>7, <1>8, <1>9, <1>10
          DEF DaemonMoves, DaemonStep

LEMMA DaemonFiles ==
  ASSUME Inv, NEW d \in Daemons, DaemonMoves(d)
  PROVE  Hints' /\ OneDaemon'
  <1>. USE ConvergenceAssumption DEF Inv, Typed, Hints, OneDaemon, Up, Listening, Stages, clients
  <1>1. CASE Bind(d)
    BY <1>1 DEF Bind
  <1>2. CASE LoseBind(d)
    BY <1>2 DEF LoseBind
  <1>3. CASE WritePidfile(d)
    BY <1>3 DEF WritePidfile
  <1>4. CASE Shutdown(d)
    BY <1>4 DEF Shutdown, UnlinkSocket, Answers
  <1>5. CASE ListenerClosed(d)
    BY <1>5 DEF ListenerClosed, UnlinkSocket
  <1>6. CASE DropHint(d)
    BY <1>6 DEF DropHint, RemovePidfile, Exists
  <1>7. CASE Exit(d)
    BY <1>7 DEF Exit, Ends
  <1>8. CASE Dies(d)
    BY <1>8 DEF Dies, Ends, Exists
  <1>9. CASE GetsStuck(d) \/ ComesBack(d) \/ PidIsReused(d)
    BY <1>9 DEF GetsStuck, ComesBack, PidIsReused
  <1>10. CASE Dispatch(d) \/ Settle(d)
    BY <1>10 DEF Dispatch, Settle
  <1> QED BY <1>1, <1>2, <1>3, <1>4, <1>5, <1>6, <1>7, <1>8, <1>9, <1>10
          DEF DaemonMoves, DaemonStep

LEMMA DaemonKeepsInv ==
  ASSUME Inv, NEW d \in Daemons, DaemonMoves(d)
  PROVE  Inv'
  <1>1. \A c \in Clients : Stands(c)
    BY DaemonTypes DEF Stands
  <1> QED BY <1>1, DaemonTypes, DaemonFiles, ClientStands DEF Inv

-----------------------------------------------------------------------------
(* The clients.                                                            *)

ClientMoves(c) == ClientStep(c) \/ BridgeLeaves(c)

\* The steps that reach for the socket.
Dials(c) == Connect(c) \/ Reprobe(c) \/ Poll(c) \/ Probe(c)

\* The steps that leave the world alone, those that reach for the socket apart.
Minds(c) == \/ PollEnds(c) \/ Probed(c) \/ Started(c) \/ Stop(c) \/ Closed(c) \/ NotClosedInTime(c)
            \/ Read(c) \/ Confirm(c) \/ GoneAfter(c, "grace") \/ GraceEnds(c) \/ Reread(c)
            \/ GoneAfter(c, "gone") \/ KillUnconfirmed(c) \/ BridgeLeaves(c)

Touches(c) == Clear(c) \/ Asks(c) \/ Term(c) \/ Kill(c) \/ Unhint(c)

LEMMA ClientSteps ==
  ASSUME NEW c \in Clients, ClientMoves(c)
  PROVE  Dials(c) \/ Minds(c) \/ Touches(c)
  BY DEF ClientMoves, ClientStep, Dials, Minds, Touches

\* What a step of a client may write of its own state.
Writes(f, c, S) == f' = f \/ \E v \in S : f' = [f EXCEPT ![c] = v]
OwnWrites(c) ==
    /\ Writes(pc, c, Pcs) /\ Writes(link, c, Daemons) /\ Writes(target, c, Daemons \cup {Nobody})
    /\ Writes(checked, c, BOOLEAN) /\ Writes(served, c, SUBSET Daemons)
    /\ Writes(unseen, c, SUBSET Daemons) /\ role' = role
    /\ reprobed' \in {reprobed, reprobed \cup {c}, reprobed \ {c}}
ClaimWrites(c) == Writes(claim, c, [what : Verdicts, of : Daemons \cup {Nobody}])

LEMMA DialsWrite ==
  ASSUME Typed, NEW c \in Clients, Dials(c)
  PROVE  OwnWrites(c) /\ UNCHANGED <<world, crossed, claim>>
  <1>. USE DEF Typed, Connects, Refused, Obtained, Goto, WorldStays, world, Up, Pcs, OwnWrites, Writes
  <1>1. CASE Connect(c)
    BY <1>1 DEF Connect, AfterRefusal
  <1>2. CASE Reprobe(c)
    BY <1>2 DEF Reprobe, Missed
  <1>3. CASE Poll(c) \/ Probe(c)
    BY <1>3 DEF Poll, Probe
  <1> QED BY <1>1, <1>2, <1>3 DEF Dials

LEMMA MindsWrite ==
  ASSUME Typed, NEW c \in Clients, Minds(c)
  PROVE  OwnWrites(c) /\ UNCHANGED <<world, crossed>>
  <1>. USE DEF WorldStays, HintUnread, Goto, Concludes, StopHalfEnds, OwnWrites, Writes, world, Pcs
  <1>1. CASE PollEnds(c) \/ BridgeLeaves(c) \/ NotClosedInTime(c) \/ GraceEnds(c)
    BY <1>1 DEF PollEnds, BridgeLeaves, NotClosedInTime, GraceEnds
  <1>2. CASE Probed(c) \/ Started(c)
    BY <1>2 DEF Probed, Started
  <1>3. CASE Stop(c)
    <2>1. Writes(served, c, SUBSET Daemons)
      BY <1>3 DEF Stop
    <2> QED BY <1>3, <2>1 DEF Stop, Up
  <1>4. CASE Closed(c) \/ KillUnconfirmed(c)
    BY <1>4 DEF Closed, KillUnconfirmed
  <1>5. CASE Read(c)
    BY <1>5 DEF Read, Checks, Typed
  <1>6. CASE Confirm(c) \/ Reread(c)
    BY <1>6 DEF Confirm, Reread, Checks
  <1>7. CASE GoneAfter(c, "grace") \/ GoneAfter(c, "gone")
    BY <1>7 DEF GoneAfter
  <1> QED BY <1>1, <1>2, <1>3, <1>4, <1>5, <1>6, <1>7 DEF Minds
LEMMA MindsClaim ==
  ASSUME Typed, NEW c \in Clients, Minds(c)
  PROVE  ClaimWrites(c)
  <1>. USE DEF Reports, Concludes, StopHalfEnds, WorldStays, ClaimWrites, Writes, Typed, Verdicts
  <1>1. CASE PollEnds(c) \/ BridgeLeaves(c) \/ NotClosedInTime(c) \/ GraceEnds(c)
    BY <1>1 DEF PollEnds, BridgeLeaves, NotClosedInTime, GraceEnds
  <1>2. CASE Probed(c) \/ Started(c)
    BY <1>2 DEF Probed, Started
  <1>3. CASE Stop(c)
    BY <1>3 DEF Stop
  <1>4. CASE Closed(c) \/ KillUnconfirmed(c)
    BY <1>4 DEF Closed, KillUnconfirmed
  <1>5. CASE Read(c)
    BY <1>5 DEF Read
  <1>6. CASE Confirm(c) \/ Reread(c)
    BY <1>6 DEF Confirm, Reread
  <1>7. CASE GoneAfter(c, "grace") \/ GoneAfter(c, "gone")
    BY <1>7 DEF GoneAfter
  <1> QED BY <1>1, <1>2, <1>3, <1>4, <1>5, <1>6, <1>7 DEF Minds

LEMMA TouchesWrite ==
  ASSUME Typed, NEW c \in Clients, Touches(c)
  PROVE  OwnWrites(c) /\ ClaimWrites(c) /\ UNCHANGED <<unclean, reused>>
  <1>. USE DEF WorldStays, Goto, Reports, StopHalfEnds, OwnWrites, ClaimWrites, Writes, world, Pcs
  <1>1. CASE Clear(c)
    BY <1>1 DEF Clear
  <1>2. CASE Asks(c)
    BY <1>2 DEF Asks, Typed, Verdicts
  <1>3. CASE Term(c)
    BY <1>3 DEF Term, Signalled
  <1>4. CASE Kill(c)
    BY <1>4 DEF Kill, Signalled, Typed, Verdicts
  <1>5. CASE Unhint(c)
    <2>1. claim[c].what \in Verdicts /\ claim[c].of \in Daemons \cup {Nobody}
      BY DEF Typed
    <2> QED BY <1>5, <2>1 DEF Unhint
  <1> QED BY <1>1, <1>2, <1>3, <1>4, <1>5 DEF Touches

\* A daemon that can be signalled or asked is a daemon.
TouchesFiles(c) ==
    /\ socket' \in Daemons \cup {Nobody} /\ pidfile' \in Daemons \cup {Nobody}
    /\ stage' \in [Daemons -> Stages] /\ stuck' \subseteq Daemons /\ busy' \subseteq Daemons
    /\ asked' \subseteq Daemons /\ doomed' \subseteq Daemons /\ crossed' \in BOOLEAN

LEMMA TouchesTypes ==
  ASSUME Typed, NEW c \in Clients, TargetIsKnown(c), Touches(c)
  PROVE  TouchesFiles(c)
  <1>. USE DEF TouchesFiles, Typed
  <1>1. CASE Clear(c)
    BY <1>1 DEF Clear, UnlinkSocket, Stages
  <1>2. CASE Asks(c)
    BY <1>2 DEF Asks, Open, Up, WorldStays, world
  <1>3. CASE Term(c)
    BY <1>3 DEF Term, TargetIsKnown, Recovery
  <1>4. CASE Kill(c)
    BY <1>4 DEF Kill, TargetIsKnown, Recovery
  <1>5. CASE Unhint(c)
    BY <1>5 DEF Unhint, RemovePidfile
  <1> QED BY <1>1, <1>2, <1>3, <1>4, <1>5 DEF Touches

LEMMA WritesKeepTypes ==
  ASSUME Typed, NEW c \in Clients, OwnWrites(c), ClaimWrites(c)
  PROVE  /\ role' \in [Clients -> Roles] /\ pc' \in [Clients -> Pcs]
         /\ link' \in [Clients -> Daemons \cup {Nobody}]
         /\ target' \in [Clients -> Daemons \cup {Nobody}]
         /\ claim' \in [Clients -> [what : Verdicts, of : Daemons \cup {Nobody}]]
         /\ reprobed' \subseteq Clients /\ unseen' \in [Clients -> SUBSET Daemons]
         /\ checked' \in [Clients -> BOOLEAN] /\ served' \in [Clients -> SUBSET Daemons]
         /\ \A e \in Clients \ {c} : Stands(e) /\ KeepsTrack(e)
  <1>1. \A e \in Clients \ {c} : Stands(e) /\ KeepsTrack(e)
    BY DEF Typed, OwnWrites, ClaimWrites, Writes, Stands, KeepsTrack
  <1>2. claim' \in [Clients -> [what : Verdicts, of : Daemons \cup {Nobody}]]
    BY DEF Typed, ClaimWrites, Writes
  <1>3. reprobed' \subseteq Clients /\ unseen' \in [Clients -> SUBSET Daemons]
    BY DEF Typed, OwnWrites, Writes
  <1>4. served' \in [Clients -> SUBSET Daemons]
    BY DEF Typed, OwnWrites, Writes
  <1>5. pc' \in [Clients -> Pcs]
    BY DEF Typed, OwnWrites, Writes
  <1>6. link' \in [Clients -> Daemons \cup {Nobody}]
    BY DEF Typed, OwnWrites, Writes
  <1>7. target' \in [Clients -> Daemons \cup {Nobody}]
    BY DEF Typed, OwnWrites, Writes
  <1>8. checked' \in [Clients -> BOOLEAN]
    BY DEF Typed, OwnWrites, Writes
  <1> QED BY <1>1, <1>2, <1>3, <1>4, <1>5, <1>6, <1>7, <1>8 DEF Typed, OwnWrites

LEMMA ClientTypes ==
  ASSUME Typed, NEW c \in Clients, TargetIsKnown(c), ClientMoves(c)
  PROVE  /\ Typed' /\ UNCHANGED <<unclean, reused>>
         /\ \A e \in Clients \ {c} : Stands(e) /\ KeepsTrack(e)
  <1>1. CASE Dials(c)
    <2>1. OwnWrites(c) /\ ClaimWrites(c) /\ UNCHANGED <<world, crossed>>
      BY <1>1, DialsWrite DEF ClaimWrites, Writes
    <2> QED BY <2>1, WritesKeepTypes DEF Typed, world
  <1>2. CASE Minds(c)
    <2>1. OwnWrites(c) /\ ClaimWrites(c) /\ UNCHANGED <<world, crossed>>
      BY <1>2, MindsWrite, MindsClaim
    <2> QED BY <2>1, WritesKeepTypes DEF Typed, world
  <1>3. CASE Touches(c)
    <2>1. OwnWrites(c) /\ ClaimWrites(c) /\ UNCHANGED <<unclean, reused>>
      BY <1>3, TouchesWrite
    <2> QED BY <1>3, <2>1, WritesKeepTypes, TouchesTypes DEF Typed, TouchesFiles
  <1> QED BY <1>1, <1>2, <1>3, ClientSteps
\* What a client's step does to the world.
LEMMA ClientWorld ==
  ASSUME Inv, NEW c \in Clients, ClientMoves(c)
  PROVE  Forward /\ Hints' /\ OneDaemon' /\ (Up(socket)' => Up(socket) /\ socket' = socket)
  <1>1. Typed /\ Hints /\ OneDaemon /\ TargetIsKnown(c) /\ Nobody \notin Daemons
    BY ConvergenceAssumption DEF Inv, ClientInv
  <1>. USE DEF Typed, Hints, OneDaemon, Forward, HasBound, Past, Up, Listening
  <1>2. CASE UNCHANGED <<world, crossed>>
    BY <1>1, <1>2 DEF world
  <1>3. CASE Clear(c)
    BY <1>1, <1>3 DEF Clear, UnlinkSocket, Stages
  <1>4. CASE Asks(c) \/ Term(c) \/ Kill(c)
    <2>1. UNCHANGED <<socket, pidfile, stage, unclean, reused, crossed>>
      BY <1>4 DEF Asks, Term, Kill, WorldStays, world
    <2> QED BY <1>1, <2>1
  <1>5. CASE Unhint(c)
    BY <1>1, <1>5 DEF Unhint, RemovePidfile, TargetIsKnown, Exists
  <1>6. Dials(c) \/ Minds(c) => UNCHANGED <<world, crossed>>
    BY <1>1, DialsWrite, MindsWrite
  <1> QED BY <1>2, <1>3, <1>4, <1>5, <1>6, ClientSteps DEF Touches

LEMMA ClientWatches ==
  ASSUME Inv, NEW c \in Clients, ClientMoves(c), NEW e \in Clients
  PROVE  Watches(e)'
  <1>1. Typed /\ Watches(e) /\ Watches(c) /\ TargetIsKnown(c)
    BY DEF Inv, ClientInv
  <1>2. Up(socket)' => Up(socket) /\ socket' = socket
    BY ClientWorld
  <1>3. CASE e # c
    BY <1>1, <1>2, <1>3, ClientTypes DEF Watches, Stands, KeepsTrack
  <1>4. CASE e = c
    <2>1. SUFFICES ASSUME pc'[c] = "clear"
                   PROVE  c \in reprobed' /\ (Up(socket) => socket \in unseen'[c])
      BY <1>2, <1>4 DEF Watches
    <2>2. ~Minds(c)
      BY <1>1, <2>1 DEF Minds, PollEnds, Probed, Started, Stop, Closed, NotClosedInTime,
         Read, Confirm, GoneAfter, GraceEnds, Reread, KillUnconfirmed, BridgeLeaves, Concludes,
         StopHalfEnds, Goto, Typed
    <2>3. ~Touches(c)
      BY <1>1, <2>1 DEF Touches, Clear, Asks, Term, Kill, Unhint, StopHalfEnds, Goto, Typed
    <2>4. Dials(c)
      BY <2>2, <2>3, ClientSteps
    <2>5. Reprobe(c)
      BY <1>1, <2>1, <2>4 DEF Dials, Connect, Reprobe, Poll, Probe, Connects, Refused, AfterRefusal,
         Obtained, Goto, Typed
    <2> QED BY <1>1, <2>1, <2>5 DEF Reprobe, Connects, Obtained, Goto, Missed, Typed
  <1> QED BY <1>3, <1>4
-----------------------------------------------------------------------------
(* What a client knows after a step of its own.                            *)

\* The world's part of what the invariant says of a daemon, before and after a client's step.
LEMMA Knowledge ==
  ASSUME Inv, NEW c \in Clients, ClientMoves(c)
  PROVE  /\ Typed /\ Hints /\ OneDaemon /\ Typed' /\ Forward
         /\ TargetIsKnown(c) /\ LinkIsKnown(c) /\ Replaces(c) /\ PlaysItsRole(c)
         /\ Nobody \notin Daemons
  BY ConvergenceAssumption, ClientTypes, ClientWorld DEF Inv, ClientInv

LEMMA DialsKnow ==
  ASSUME Inv, NEW c \in Clients, Dials(c)
  PROVE  ClientInv(c)'
  <1>1. /\ Typed /\ Hints /\ OneDaemon /\ Nobody \notin Daemons
        /\ TargetIsKnown(c) /\ LinkIsKnown(c) /\ Replaces(c) /\ PlaysItsRole(c)
    BY ConvergenceAssumption DEF Inv, ClientInv
  <1>2. /\ UNCHANGED <<stage, unclean, crossed>>
        /\ role'[c] = role[c] /\ target'[c] = target[c] /\ claim'[c] = claim[c]
        /\ checked'[c] = checked[c] /\ served'[c] = served[c]
    BY <1>1, DialsWrite DEF Dials, Connect, Reprobe, Poll, Probe, Connects, Refused,
       AfterRefusal, WorldStays, world
  <1>3. /\ pc[c] \in {"connect", "reprobe", "poll", "probe"}
        /\ \/ /\ Up(socket) /\ link'[c] = socket
              /\ pc'[c] = IF pc[c] = "probe" THEN "probing" ELSE Obtained(c)
           \/ /\ pc[c] # "poll" /\ link'[c] = link[c] /\ pc'[c] \in {"reprobe", "clear", "connect"}
    BY <1>1 DEF Dials, Connect, Reprobe, Poll, Probe, Connects, Refused, AfterRefusal, Goto,
       WorldStays, Typed
  <1>4. TargetIsKnown(c)'
    BY <1>1, <1>2, <1>3 DEF TargetIsKnown, Recovery, Obtained
  <1>5. LinkIsKnown(c)'
    <2>1. \A d \in served[c] : HasBound(d)'
      BY <1>1, <1>2 DEF LinkIsKnown, HasBound
    <2>2. Up(socket) => socket \in Daemons /\ HasBound(socket)
      BY DEF Up, HasBound, Listening
    <2> QED BY <1>2, <1>3, <2>1, <2>2 DEF LinkIsKnown, HasBound, StopHalf, Recovery, Obtained
  <1>6. Replaces(c)'
    BY <1>1, <1>2, <1>3 DEF Replaces, Up, StopHalf, StartHalf, Recovery, Obtained
  <1>7. PlaysItsRole(c)'
    BY <1>1, <1>2, <1>3 DEF PlaysItsRole, BridgePcs, Obtained
  <1> QED BY <1>4, <1>5, <1>6, <1>7 DEF ClientInv
\* The actions that report and go on, or only go on, outside of a recovery.
LEMMA TalksKnow ==
  ASSUME Inv, NEW c \in Clients,
         PollEnds(c) \/ Probed(c) \/ Started(c) \/ Closed(c) \/ NotClosedInTime(c) \/ BridgeLeaves(c)
  PROVE  ClientInv(c)'
  <1>1. /\ Typed /\ Hints /\ OneDaemon /\ Nobody \notin Daemons
        /\ TargetIsKnown(c) /\ LinkIsKnown(c) /\ Replaces(c) /\ PlaysItsRole(c)
    BY ConvergenceAssumption DEF Inv, ClientInv
  <1>2. /\ UNCHANGED <<stage, unclean, crossed>>
        /\ role'[c] = role[c] /\ target'[c] = target[c] /\ link'[c] = link[c]
        /\ checked'[c] = checked[c] /\ served'[c] = served[c]
    BY <1>1 DEF PollEnds, Probed, Started, Closed, NotClosedInTime, BridgeLeaves, Concludes,
       WorldStays, world
  <1>3. /\ \A d \in served[c] : HasBound(d)'
        /\ HasBound(link[c]) => HasBound(link[c])'
        /\ Past(link[c]) => Past(link[c])'
        /\ \A d \in Daemons : Up(d)' <=> Up(d)
    BY <1>1, <1>2 DEF LinkIsKnown, HasBound, Past, Up
  <1>4. CASE PollEnds(c)
    <2>1. /\ pc[c] = "poll"
          /\ \/ role[c] = "bridge" /\ pc'[c] = "local" /\ claim'[c] = claim[c]
             \/ role[c] # "bridge" /\ pc'[c] = "done" /\ claim'[c].what = "failed"
      BY <1>1, <1>4 DEF PollEnds, Goto, Reports, Typed
    <2> QED BY <1>1, <1>2, <1>3, <2>1 DEF ClientInv, TargetIsKnown, LinkIsKnown, Replaces,
            PlaysItsRole, Recovery, StopHalf, StartHalf, BridgePcs
  <1>5. CASE Probed(c)
    <2>1. /\ pc[c] = "probing"
          /\ \/ Answers(link[c]) /\ pc'[c] = "done" /\ claim'[c] = [what |-> "running", of |-> link[c]]
             \/ pc'[c] = "done" /\ claim'[c].what \in {"wedged", "draining"}
             \/ pc'[c] = "probe" /\ claim'[c] = claim[c]
      BY <1>1, <1>5 DEF Probed, Concludes, Goto, Reports, WorldStays, Typed
    <2>2. Answers(link[c]) /\ role[c] = "restart" => link[c] \notin served[c] \/ crossed
      BY <1>1, <2>1 DEF Replaces, StartHalf, Answers, Up, Listening, LinkIsKnown
    <2>3. role[c] # "bridge"
      BY <1>1, <2>1 DEF PlaysItsRole, BridgePcs
    <2> QED BY <1>1, <1>2, <1>3, <2>1, <2>2, <2>3 DEF ClientInv, TargetIsKnown, LinkIsKnown,
            Replaces, PlaysItsRole, Recovery, StopHalf, StartHalf, Up
  <1>6. CASE Started(c)
    <2>1. /\ pc[c] = "starting" /\ pc'[c] = "done"
          /\ \/ Answers(link[c]) /\ claim'[c] = [what |-> "started", of |-> link[c]]
             \/ claim'[c].what = "failed"
      BY <1>1, <1>6 DEF Started, Concludes, Goto, Reports, Typed
    <2>2. Answers(link[c]) /\ role[c] = "restart" => link[c] \notin served[c] \/ crossed
      BY <1>1, <2>1 DEF Replaces, StartHalf, Answers, Up, Listening, LinkIsKnown
    <2>3. role[c] # "bridge"
      BY <1>1, <2>1 DEF PlaysItsRole, BridgePcs
    <2> QED BY <1>1, <1>2, <1>3, <2>1, <2>2, <2>3 DEF ClientInv, TargetIsKnown, LinkIsKnown,
            Replaces, PlaysItsRole, Recovery, StopHalf, StartHalf
  <1>7. CASE Closed(c)
    <2>1. /\ pc[c] = "closing" /\ ~Up(link[c]) /\ claim'[c].what = "stopped"
          /\ pc'[c] = IF role[c] = "restart" THEN "probe" ELSE "done"
      BY <1>1, <1>7 DEF Closed, StopHalfEnds, Goto, Reports, Open, Typed
    <2>2. role[c] # "bridge"
      BY <1>1, <2>1 DEF PlaysItsRole, BridgePcs
    <2>3. ~crossed => \A d \in served[c] : ~Up(d)
      BY <1>1, <2>1 DEF Replaces, StopHalf
    <2> QED BY <1>1, <1>2, <1>3, <2>1, <2>2, <2>3 DEF ClientInv, TargetIsKnown, LinkIsKnown,
            Replaces, PlaysItsRole, Recovery, StopHalf, StartHalf, Up
  <1>8. CASE NotClosedInTime(c)
    <2>1. /\ pc[c] = "closing" /\ stage[link[c]] = "serving" /\ claim'[c] = claim[c]
          /\ pc'[c] = "read"
      BY <1>1, <1>8 DEF NotClosedInTime, Goto, Typed
    <2>2. Past(link[c])
      BY <2>1 DEF Past
    <2> QED BY <1>1, <1>2, <1>3, <2>1, <2>2 DEF ClientInv, TargetIsKnown, LinkIsKnown,
            Replaces, PlaysItsRole, Recovery, StopHalf, StartHalf, BridgePcs
  <1>9. CASE BridgeLeaves(c)
    <2>1. pc[c] = "linked" /\ pc'[c] = "done" /\ claim'[c] = claim[c]
      BY <1>1, <1>9 DEF BridgeLeaves, Goto, Typed
    <2> QED BY <1>1, <1>2, <1>3, <2>1 DEF ClientInv, TargetIsKnown, LinkIsKnown,
            Replaces, PlaysItsRole, Recovery, StopHalf, StartHalf, BridgePcs
  <1> QED BY <1>4, <1>5, <1>6, <1>7, <1>8, <1>9

\* A stop or restart begins: whoever listens is at the socket, unless files were crossed.
LEMMA StopKnows ==
  ASSUME Inv, NEW c \in Clients, Stop(c)
  PROVE  ClientInv(c)'
  <1>1. /\ Typed /\ OneDaemon /\ Nobody \notin Daemons
        /\ TargetIsKnown(c) /\ LinkIsKnown(c) /\ Replaces(c) /\ PlaysItsRole(c)
    BY ConvergenceAssumption DEF Inv, ClientInv
  <1>2. /\ UNCHANGED <<socket, stage, unclean, crossed>> /\ pc[c] = "stop"
        /\ role'[c] = role[c] /\ target'[c] = target[c]
        /\ checked'[c] = checked[c] /\ served'[c] \subseteq {d \in Daemons : Up(d)}
    BY <1>1 DEF Stop, world, Typed
  <1>3. \/ Up(socket) /\ link'[c] = socket /\ pc'[c] = "asking" /\ claim'[c] = claim[c]
        \/ /\ Up(socket) => socket \notin served'[c]
           /\ link'[c] = link[c] /\ claim'[c].what = "noDaemon"
           /\ pc'[c] = IF role[c] = "restart" THEN "probe" ELSE "done"
    BY <1>1 DEF Stop, StopHalfEnds, Reports, Goto, Missed, Typed
  <1>4. /\ \A d \in served'[c] : HasBound(d)' /\ (~crossed => d = socket)
        /\ Up(socket) => socket \in Daemons /\ HasBound(socket)'
    <2>1. \A d \in Daemons : Up(d) => HasBound(d)'
      BY <1>2 DEF Up, HasBound, Listening
    <2>2. \A d \in Daemons : Up(d) /\ ~crossed => d = socket
      BY <1>1 DEF Up, OneDaemon
    <2>3. Up(socket) => socket \in Daemons
      BY DEF Up
    <2> QED BY <1>2, <2>1, <2>2, <2>3
  <1>5. role[c] # "bridge"
    BY <1>1, <1>2 DEF PlaysItsRole, BridgePcs
  <1>6. TargetIsKnown(c)'
    BY <1>1, <1>2, <1>3 DEF TargetIsKnown, Recovery
  <1>7. LinkIsKnown(c)'
    BY <1>1, <1>2, <1>3, <1>4, <1>5 DEF LinkIsKnown, StopHalf, Recovery
  <1>8. Replaces(c)'
    <2>1. \A d \in Daemons : Up(d)' <=> Up(d)
      BY <1>2 DEF Up
    <2>2. claim'[c].what \in {"running", "started"} /\ role[c] = "restart" => FALSE
      BY <1>1, <1>2, <1>3 DEF Replaces
    <2> QED BY <1>1, <1>2, <1>3, <1>4, <1>5, <2>1, <2>2 DEF Replaces, StopHalf, StartHalf, Recovery
  <1>9. PlaysItsRole(c)'
    BY <1>1, <1>2, <1>3, <1>5 DEF PlaysItsRole
  <1> QED BY <1>6, <1>7, <1>8, <1>9 DEF ClientInv
\* The reads and waits of a recovery, which leave the world alone.
LEMMA RecoveryKnows ==
  ASSUME Inv, NEW c \in Clients,
         \/ Read(c) \/ Confirm(c) \/ Reread(c) \/ GraceEnds(c) \/ KillUnconfirmed(c)
         \/ GoneAfter(c, "grace") \/ GoneAfter(c, "gone")
  PROVE  ClientInv(c)'
  <1>1. /\ Typed /\ Hints /\ OneDaemon /\ Nobody \notin Daemons
        /\ TargetIsKnown(c) /\ LinkIsKnown(c) /\ Replaces(c) /\ PlaysItsRole(c)
    BY ConvergenceAssumption DEF Inv, ClientInv
  <1>2. /\ UNCHANGED <<pidfile, stage, unclean, crossed>>
        /\ role'[c] = role[c] /\ link'[c] = link[c] /\ served'[c] = served[c]
    BY <1>1 DEF Read, Confirm, Reread, GraceEnds, KillUnconfirmed, GoneAfter, Concludes,
       WorldStays, HintUnread, world
  <1>3. /\ \A d \in served[c] : HasBound(d)'
        /\ Past(link[c]) => Past(link[c])' /\ HasBound(link[c])'
        /\ \A d \in Daemons : (Up(d)' <=> Up(d)) /\ (Past(d)' <=> Past(d))
    BY <1>1, <1>2 DEF LinkIsKnown, HasBound, Past, Up
  <1>4. pc[c] \in {"read"} \cup Recovery
    BY <1>1 DEF Read, Confirm, Reread, GraceEnds, KillUnconfirmed, GoneAfter, Recovery
  <1>5. role[c] # "bridge" /\ link[c] \in Daemons /\ Past(link[c])
    BY <1>1, <1>4 DEF PlaysItsRole, BridgePcs, Recovery, StopHalf, LinkIsKnown
  <1>6. pc[c] \in Recovery => target[c] \in Daemons /\ Past(target[c])
    BY <1>1 DEF TargetIsKnown
  <1>7. ~crossed => /\ served[c] \subseteq {link[c]}
                    /\ pc[c] \in Recovery => target[c] = link[c] \/ ~Up(link[c])
    BY <1>1, <1>4 DEF Replaces, StopHalf, Recovery
  \* the pidfile, read while the asked daemon is past its write
  <1>8. /\ ~crossed /\ Up(link[c]) => pidfile = link[c]
        /\ pidfile \in Daemons => Past(pidfile)
        /\ pidfile \in Daemons /\ ~Exists(pidfile) => pidfile \in unclean
    BY <1>1, <1>5 DEF Up, Past, Listening, OneDaemon, Hints, Exists
  <1>9. \A d \in Daemons : ~IsAlive(d) /\ Past(d) => stage[d] = "gone" /\ ~Up(d)
    BY DEF IsAlive, Exists, Past, Up, Listening
  <1>. USE DEF ClientInv, TargetIsKnown, LinkIsKnown, Replaces, PlaysItsRole, Recovery, StopHalf,
           StartHalf
  <1>10. CASE Read(c)
    <2>1. /\ pc[c] = "read" /\ target'[c] = pidfile
          /\ \/ pidfile = Nobody /\ pc'[c] = "done" /\ claim'[c].what = "manual"
             \/ /\ pidfile \in Daemons /\ ~IsAlive(pidfile) /\ pc'[c] = "unhint"
                /\ claim'[c].what = "alreadyGone"
             \/ pidfile \in Daemons /\ pc'[c] = "confirm" /\ claim'[c] = claim[c]
      BY <1>1, <1>10 DEF Read, Reports, Goto, Typed
    <2> QED BY <1>1, <1>2, <1>3, <1>5, <1>7, <1>8, <1>9, <2>1
  <1>11. CASE Confirm(c)
    <2>1. /\ pc[c] = "confirm" /\ target'[c] = target[c]
          /\ checked'[c] = (pidfile \in Daemons /\ Exists(pidfile))
          /\ \/ /\ pidfile # target[c] /\ claim'[c].what = "changed"
                /\ pc'[c] = IF role[c] = "restart" THEN "probe" ELSE "done"
             \/ pidfile = target[c] /\ pc'[c] = "term" /\ claim'[c] = claim[c]
      BY <1>1, <1>11 DEF Confirm, Checks, StopHalfEnds, Reports, Goto, Typed
    <2>2. ~crossed /\ pidfile # target[c] => \A d \in served[c] : ~Up(d)
      BY <1>7, <1>8, <2>1
    <2> QED BY <1>1, <1>2, <1>3, <1>5, <1>6, <1>7, <1>8, <2>1, <2>2
  <1>12. CASE Reread(c)
    <2>1. /\ pc[c] = "reread" /\ target'[c] = target[c]
          /\ checked'[c] = (pidfile \in Daemons /\ Exists(pidfile))
          /\ \/ /\ pidfile # target[c] /\ claim'[c].what \in {"changed", "killed"}
                /\ pc'[c] = IF role[c] = "restart" THEN "probe" ELSE "done"
             \/ pidfile = target[c] /\ pc'[c] = "kill" /\ claim'[c] = claim[c]
      BY <1>1, <1>6, <1>12 DEF Reread, Checks, StopHalfEnds, Reports, Goto, Typed
    <2>2. ~crossed /\ pidfile # target[c] => \A d \in served[c] : ~Up(d)
      BY <1>7, <1>8, <2>1
    <2> QED BY <1>1, <1>2, <1>3, <1>5, <1>6, <1>7, <1>8, <2>1, <2>2
  <1>13. CASE GraceEnds(c)
    <2>1. /\ pc[c] = "grace" /\ pc'[c] = "reread" /\ target'[c] = target[c]
          /\ claim'[c] = claim[c]
      BY <1>1, <1>13 DEF GraceEnds, WorldStays, Goto, Typed
    <2> QED BY <1>1, <1>2, <1>3, <1>5, <1>6, <1>7, <2>1
  <1>14. CASE KillUnconfirmed(c)
    <2>1. /\ pc[c] = "gone" /\ pc'[c] = "done" /\ target'[c] = target[c]
          /\ claim'[c].what = "stillAlive"
      BY <1>1, <1>14 DEF KillUnconfirmed, Concludes, Reports, Goto, Typed
    <2> QED BY <1>1, <1>2, <1>3, <1>5, <1>6, <1>7, <2>1
  <1>15. CASE GoneAfter(c, "grace") \/ GoneAfter(c, "gone")
    <2>1. /\ pc[c] \in Recovery /\ pc'[c] = "unhint" /\ target'[c] = target[c]
          /\ ~IsAlive(target[c]) /\ claim'[c].what = "killed"
      BY <1>1, <1>15 DEF GoneAfter, Reports, Goto, Typed
    <2>2. stage[target[c]] = "gone" /\ ~Up(target[c])
      BY <1>6, <1>9, <2>1
    <2> QED BY <1>1, <1>2, <1>3, <1>5, <1>6, <1>7, <2>1, <2>2
  <1> QED BY <1>10, <1>11, <1>12, <1>13, <1>14, <1>15
\* The messages and signals, and the changes of the shared files.
LEMMA TouchesKnow ==
  ASSUME Inv, NEW c \in Clients, Touches(c)
  PROVE  ClientInv(c)'
  <1>1. /\ Typed /\ Hints /\ OneDaemon /\ Nobody \notin Daemons
        /\ TargetIsKnown(c) /\ LinkIsKnown(c) /\ Replaces(c) /\ PlaysItsRole(c)
    BY ConvergenceAssumption DEF Inv, ClientInv
  <1>2. ClientMoves(c)
    BY DEF Touches, ClientMoves, ClientStep
  <1>3. /\ role'[c] = role[c] /\ target'[c] = target[c] /\ link'[c] = link[c]
        /\ served'[c] = served[c] /\ unclean' = unclean
    BY <1>1 DEF Touches, Clear, Asks, Term, Kill, Unhint, WorldStays, world
  <1>4. /\ Forward /\ (crossed => crossed')
        /\ \A d \in served[c] : HasBound(d) /\ HasBound(d)' /\ (~Up(d) => ~Up(d)')
    BY <1>1, <1>2, ClientWorld DEF LinkIsKnown, Forward, Typed
  <1>5. /\ pc[c] \in StopHalf => HasBound(link[c])' /\ (~Up(link[c]) => ~Up(link[c])')
        /\ pc[c] \in StopHalf \ {"asking", "closing"} => Past(link[c])'
        /\ pc[c] \in Recovery => Past(target[c])'
    BY <1>1, <1>3, <1>4 DEF LinkIsKnown, TargetIsKnown, Forward, StopHalf, Recovery
  <1>. USE DEF ClientInv, TargetIsKnown, LinkIsKnown, Replaces, PlaysItsRole, Recovery, StopHalf,
           StartHalf
  <1>6. CASE Clear(c)
    <2>1. pc[c] = "clear" /\ pc'[c] = "poll" /\ claim'[c] = claim[c]
      BY <1>1, <1>6 DEF Clear, Goto, Typed
    <2> QED BY <1>1, <1>3, <1>4, <2>1 DEF BridgePcs
  <1>7. CASE Asks(c)
    <2>1. /\ pc[c] = "asking" /\ UNCHANGED <<stage, crossed>>
          /\ \/ /\ ~Up(link[c]) /\ claim'[c].what = "exiting"
                /\ pc'[c] = IF role[c] = "restart" THEN "probe" ELSE "done"
             \/ pc'[c] = "closing" /\ claim'[c] = claim[c]
      BY <1>1, <1>7 DEF Asks, StopHalfEnds, Reports, Goto, Open, WorldStays, world, Typed
    <2>2. role[c] # "bridge"
      BY <1>1, <2>1 DEF BridgePcs
    <2>3. ~crossed /\ ~Up(link[c]) => \A d \in served[c] : ~Up(d)
      BY <1>1, <2>1
    <2> QED BY <1>1, <1>3, <1>4, <1>5, <2>1, <2>2, <2>3
  <1>8. CASE Term(c)
    <2>1. /\ pc[c] = "term" /\ pc'[c] = "grace" /\ claim'[c] = claim[c]
          /\ UNCHANGED <<stage, crossed>>
      BY <1>1, <1>8 DEF Term, Goto, Typed
    <2> QED BY <1>1, <1>3, <1>4, <1>5, <2>1 DEF BridgePcs
  <1>9. CASE Kill(c)
    <2>1. /\ pc[c] = "kill" /\ UNCHANGED <<stage, crossed>>
          /\ \/ pc'[c] = "gone" /\ claim'[c] = claim[c]
             \/ /\ target[c] \in reused /\ claim'[c].what = "changed"
                /\ pc'[c] = IF role[c] = "restart" THEN "probe" ELSE "done"
      BY <1>1, <1>9 DEF Kill, StopHalfEnds, Reports, Goto, Typed
    <2>2. role[c] # "bridge"
      BY <1>1, <2>1 DEF BridgePcs
    <2>3. ~crossed /\ target[c] \in reused => \A d \in served[c] : ~Up(d)
      BY <1>1, <2>1 DEF Hints, Up, Listening
    <2> QED BY <1>1, <1>3, <1>4, <1>5, <2>1, <2>2, <2>3
  <1>10. CASE Unhint(c)
    <2>1. /\ pc[c] = "unhint" /\ claim'[c] = claim[c] /\ UNCHANGED stage
          /\ pc'[c] = IF role[c] = "restart" THEN "probe" ELSE "done"
      BY <1>1, <1>10 DEF Unhint, StopHalfEnds, Reports, Goto, Typed
    <2>2. role[c] # "bridge"
      BY <1>1, <2>1 DEF BridgePcs
    <2>3. ~crossed => \A d \in served[c] : ~Up(d)
      BY <1>1, <2>1
    <2> QED BY <1>1, <1>3, <1>4, <2>1, <2>2, <2>3
  <1> QED BY <1>6, <1>7, <1>8, <1>9, <1>10 DEF Touches

LEMMA ClientKeepsInv ==
  ASSUME Inv, NEW c \in Clients, ClientMoves(c)
  PROVE  Inv'
  <1>1. Typed /\ TargetIsKnown(c)
    BY DEF Inv, ClientInv
  <1>2. Typed' /\ \A e \in Clients \ {c} : Stands(e)
    BY <1>1, ClientTypes
  <1>3. Forward /\ Hints' /\ OneDaemon'
    BY ClientWorld
  <1>4. ClientInv(c)'
    BY ClientSteps, DialsKnow, TalksKnow, StopKnows, RecoveryKnows, TouchesKnow DEF Minds
  <1>5. \A e \in Clients \ {c} : ClientInv(e)'
    BY <1>1, <1>2, <1>3, ClientStands DEF Inv
  <1> QED BY <1>2, <1>3, <1>4, <1>5, ClientWatches DEF Inv

-----------------------------------------------------------------------------
(* The invariant holds.                                                    *)

LEMMA FirstSteps ==
  ASSUME NEW r \in Roles
  PROVE  /\ FirstStep(r) \in Pcs \cap ({"stop"} \cup StartHalf)
         /\ r = "bridge" => FirstStep(r) \in BridgePcs
         /\ r = "restart" => FirstStep(r) = "stop"
  <1>1. CASE r = "bridge"
    <2>1. FirstStep(r) = "connect"
      BY <1>1, Zenon DEF FirstStep
    <2> QED BY <1>1, <2>1 DEF Pcs, StartHalf, BridgePcs
  <1>2. CASE r = "start"
    <2>1. r # "bridge"
      BY <1>2
    <2>2. FirstStep(r) = "probe"
      BY <1>2, <2>1, Zenon DEF FirstStep
    <2> QED BY <1>2, <2>2 DEF Pcs, StartHalf, BridgePcs
  <1>3. CASE r \in {"stop", "restart"}
    <2>1. r # "bridge" /\ r # "start"
      BY <1>3
    <2>2. FirstStep(r) = "stop"
      BY <2>1, Zenon DEF FirstStep
    <2> QED BY <1>3, <2>2 DEF Pcs, StartHalf
  <1> QED BY <1>1, <1>2, <1>3 DEF Roles

LEMMA InitInv == Init => Inv
  <1>. SUFFICES ASSUME Init
                PROVE  Inv
    OBVIOUS
  <1>. USE ConvergenceAssumption DEF Init
  <1>1. role \in [Clients -> Roles]
    OBVIOUS
  <1>2. \A c \in Clients : pc[c] = FirstStep(role[c]) /\ role[c] \in Roles
    BY <1>1
  <1>3. pc \in [Clients -> Pcs]
    BY <1>2, FirstSteps
  <1>4. Typed
    BY <1>1, <1>3 DEF Typed, Stages, Listening, Verdicts
  <1>5. Hints /\ OneDaemon
    BY DEF Hints, OneDaemon, Listening
  <1>6. ASSUME NEW c \in Clients
        PROVE  ClientInv(c) /\ Watches(c)
    <2>1. /\ pc[c] \in {"stop"} \cup StartHalf /\ served[c] = {} /\ claim[c].what = "none"
          /\ role[c] = "bridge" => pc[c] \in BridgePcs
      BY <1>2, FirstSteps
    <2>2. pc[c] \in {"stop", "connect", "probe"}
      BY <1>2, Zenon DEF FirstStep, Roles
    <2> QED BY <2>1, <2>2 DEF ClientInv, TargetIsKnown, LinkIsKnown, Replaces, PlaysItsRole, Watches,
            Recovery, StopHalf, StartHalf
  <1> QED BY <1>4, <1>5, <1>6 DEF Inv

LEMMA UnchangedInv == Inv /\ UNCHANGED vars => Inv'
  <1>. SUFFICES ASSUME Inv, UNCHANGED vars
                PROVE  Inv'
    OBVIOUS
  <1>. USE DEF vars, world, clients
  <1>1. Typed' /\ Hints' /\ OneDaemon'
    BY DEF Inv, Typed, Hints, OneDaemon
  <1>2. ASSUME NEW c \in Clients
        PROVE  ClientInv(c)' /\ Watches(c)'
    <2>1. Typed /\ ClientInv(c) /\ Watches(c)
      BY DEF Inv
    <2>2. Forward /\ Stands(c)
      BY <2>1 DEF Typed, Forward, HasBound, Past, Up, Stands
    <2> QED BY <2>1, <2>2, ClientStands DEF Watches, Up
  <1> QED BY <1>1, <1>2 DEF Inv

LEMMA NextKeepsInv == Inv /\ [Next]_vars => Inv'
  BY DaemonKeepsInv, ClientKeepsInv, UnchangedInv DEF Next, DaemonMoves, ClientMoves

THEOREM ConvergenceInvariant == Spec => []Inv
  BY InitInv, NextKeepsInv, PTL DEF Spec
\* Whatever daemons and clients do, every variable keeps its type, only a verb reports, and only a
\* bridge stays on its connection or serves in process (connect-or-spawn.ts, manage.ts).
THEOREM ConvergenceTypes == Spec => []TypeOK
  <1>1. Inv => TypeOK
    BY DEF Inv, ClientInv, PlaysItsRole, Typed, TypeOK
  <1> QED BY <1>1, ConvergenceInvariant, PTL

\* A recovery (force-recover.ts) about to signal a pid that a stranger has been given has read the
\* pidfile since its last signal and seen the daemon alive then, or the daemon had been killed. What
\* changes hands after that read, and a hint that a killed daemon left, the reads do not catch.
THEOREM NoStrangerIsSignalled == Spec => []StrangersAreSpared
  <1>1. Inv => StrangersAreSpared
    BY DEF Inv, ClientInv, TargetIsKnown, StrangersAreSpared
  <1> QED BY <1>1, ConvergenceInvariant, PTL

\* A restart that ends well names a daemon that was not serving when the restart began (manage.ts:
\* the start half only runs once the daemon that was asked has left), unless a live daemon's file
\* was removed by another or never written, or the restart could not connect to it.
THEOREM RestartsRenew == Spec => []RestartRenews
  <1>1. Inv => RestartRenews
    BY DEF Inv, ClientInv, Replaces, RestartRenews
  <1> QED BY <1>1, ConvergenceInvariant, PTL

-----------------------------------------------------------------------------
(* What a step may not do.                                                 *)

\* Only a client that has failed to connect twice in a row removes the socket of a listening daemon
\* (connect-or-spawn.ts), and that daemon is one the second attempt missed or that bound after it.
THEOREM ReprobesGuard == Spec => ReprobeGuards
  <1>. DEFINE Guards == \A c \in Clients : pc'[c] # pc[c] /\ Up(socket) /\ socket' # socket
                                            => c \in reprobed /\ socket \in unseen[c]
  <1>1. ASSUME Inv, NEW d \in Daemons, DaemonMoves(d)
        PROVE  Guards
    BY <1>1, DaemonTypes
  <1>2. ASSUME Inv, NEW e \in Clients, ClientMoves(e)
        PROVE  Guards
    <2>1. Typed /\ TargetIsKnown(e) /\ Watches(e)
      BY <1>2 DEF Inv, ClientInv
    <2>2. \A c \in Clients \ {e} : pc'[c] = pc[c]
      BY <1>2, <2>1, ClientTypes DEF Stands
    <2>3. CASE Clear(e)
      BY <2>1, <2>2, <2>3 DEF Clear, Watches
    <2>4. CASE Dials(e) \/ Minds(e) \/ Asks(e) \/ Term(e) \/ Kill(e) \/ Unhint(e)
      <3>1. socket' = socket
        BY <2>1, <2>4, DialsWrite, MindsWrite DEF Asks, Term, Kill, Unhint, WorldStays, world
      <3> QED BY <3>1
    <2> QED BY <1>2, <2>3, <2>4, ClientSteps DEF Touches
  <1>3. Inv /\ [Next]_vars => [Guards]_vars
    BY <1>1, <1>2 DEF Next, DaemonMoves, ClientMoves
  <1> QED BY <1>3, ConvergenceInvariant, PTL DEF Spec, ReprobeGuards

\* `stopped` and `force-killed` are said of a daemon that has left the socket (manage.ts,
\* force-recover.ts), unless a live daemon's file was removed by another or never written.
THEOREM StoppedIsStopped == Spec => StopMeansStopped
  <1>. DEFINE Means == \A c \in Clients :
                 claim'[c] # claim[c] /\ claim'[c].what \in {"stopped", "killed"}
                 => ~Up(claim'[c].of) \/ crossed
  <1>1. ASSUME Inv, NEW d \in Daemons, DaemonMoves(d)
        PROVE  Means
    BY <1>1, DaemonTypes
  <1>2. ASSUME Inv, NEW e \in Clients, ClientMoves(e)
        PROVE  Means
    <2>1. /\ Typed /\ OneDaemon /\ TargetIsKnown(e) /\ Nobody \notin Daemons
      BY <1>2, ConvergenceAssumption DEF Inv, ClientInv
    <2>2. \A c \in Clients \ {e} : claim'[c] = claim[c]
      BY <1>2, <2>1, ClientTypes DEF Stands
    <2>3. SUFFICES ASSUME claim'[e] # claim[e], claim'[e].what \in {"stopped", "killed"}
                   PROVE  ~Up(claim'[e].of) \/ crossed
      BY <2>2
    <2>4. CASE Closed(e)
      BY <2>1, <2>4 DEF Closed, StopHalfEnds, Reports, Open, Typed
    <2>5. CASE GoneAfter(e, "grace") \/ GoneAfter(e, "gone")
      <3>1. claim'[e].of = target[e] /\ ~IsAlive(target[e])
        BY <2>1, <2>5 DEF GoneAfter, Reports, Typed
      <3> QED BY <3>1 DEF IsAlive, Exists, Up, Listening
    <2>6. CASE Reread(e)
      <3>1. pc[e] = "reread" /\ claim'[e].of = target[e] /\ pidfile = Nobody
        BY <2>1, <2>3, <2>6 DEF Reread, StopHalfEnds, Reports, Typed
      <3>2. target[e] \in Daemons /\ Past(target[e])
        BY <2>1, <3>1 DEF TargetIsKnown, Recovery
      <3> QED BY <2>1, <3>1, <3>2 DEF OneDaemon, Past, Up, Listening
    <2>7. CASE Dials(e) \/ Clear(e) \/ Term(e)
      <3>1. claim' = claim
        BY <2>1, <2>7, DialsWrite DEF Clear, Term
      <3> QED BY <2>3, <3>1
    <2>8. CASE Unhint(e)
      <3>1. claim'[e] = claim[e]
        BY <2>1, <2>8 DEF Unhint, StopHalfEnds, Reports, Typed
      <3> QED BY <2>3, <3>1
    <2>9. CASE Asks(e) \/ Kill(e)
      BY <2>1, <2>3, <2>9 DEF Asks, Kill, StopHalfEnds, Reports, Typed
    <2>10. CASE PollEnds(e) \/ BridgeLeaves(e) \/ NotClosedInTime(e) \/ GraceEnds(e)
      BY <2>1, <2>3, <2>10 DEF PollEnds, BridgeLeaves, NotClosedInTime, GraceEnds, Reports, Typed
    <2>11. CASE Probed(e) \/ Started(e) \/ KillUnconfirmed(e)
      BY <2>1, <2>3, <2>11 DEF Probed, Started, KillUnconfirmed, Concludes, Reports, Typed
    <2>12. CASE Stop(e) \/ Read(e) \/ Confirm(e)
      BY <2>1, <2>3, <2>12 DEF Stop, Read, Confirm, StopHalfEnds, Reports, Typed
    <2> QED BY <1>2, <2>4, <2>5, <2>6, <2>7, <2>8, <2>9, <2>10, <2>11, <2>12, ClientSteps
            DEF Minds, Touches
  <1>3. Inv /\ [Next]_vars => [Means]_vars
    BY <1>1, <1>2 DEF Next, DaemonMoves, ClientMoves
  <1> QED BY <1>3, ConvergenceInvariant, PTL DEF Spec, StopMeansStopped
=============================================================================
