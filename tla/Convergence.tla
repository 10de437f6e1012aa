---------------------------- MODULE Convergence ----------------------------
(***************************************************************************)
(* How every bridge and every `daemon` verb of one machine converges on    *)
(* one daemon: daemon/connect-or-spawn.ts, daemon/manage.ts,               *)
(* daemon/manage-probe.ts and daemon/force-recover.ts, against what        *)
(* daemon/daemon-server.ts and support/transport/unix-socket.ts do to the  *)
(* two files everybody shares, the socket and the pidfile.                 *)
(*                                                                         *)
(* A daemon process stands for its pid: a pid whose daemon is gone may be  *)
(* given to a stranger, never to a later daemon.  Every deadline may fire  *)
(* whenever it is running.  The replies of older versions (`legacy`) and   *)
(* the `status` verb, which changes nothing, are left out.                 *)
(***************************************************************************)
EXTENDS Naturals, FiniteSets

CONSTANTS Daemons, Clients, Nobody,
          Incumbents,      \* who may be serving at first: daemons or Nobody
          Scenarios,       \* the roles the clients may have: [Clients -> Roles]
          DaemonsCrash,    \* whether a daemon may die by itself
          ConnectsFail     \* whether a connect to a listening daemon may fail

Roles == {"bridge", "start", "stop", "restart"}
Listening == {"bound", "serving"}
Stages == {"unborn", "starting", "closing", "closed", "disposing", "gone"} \cup Listening
Verdicts == {"none", "noDaemon", "exiting", "stopped", "killed", "alreadyGone", "changed",
             "manual", "stillAlive", "running", "wedged", "draining", "started", "failed"}

ASSUME ConvergenceAssumption ==
    /\ Nobody \notin Daemons
    /\ Incumbents \subseteq Daemons \cup {Nobody}
    /\ Scenarios \subseteq [Clients -> Roles]
    /\ DaemonsCrash \in BOOLEAN /\ ConnectsFail \in BOOLEAN

VARIABLES
    socket,      \* whose inode is at the socket's path, or Nobody
    pidfile,     \* whose pid the pidfile names, or Nobody
    stage,       \* of each daemon process
    stuck,       \* the daemons whose thread is blocked
    busy,        \* the daemons with a request under way, its client there or not
    asked,       \* the daemons with a shutdown message or SIGTERM to handle
    doomed,      \* the daemons with a SIGKILL on its way
    unclean,     \* history: the daemons that did not exit by themselves
    reused,      \* the pids of dead daemons that a stranger has been given
    role, pc,    \* of each client
    link,        \* the daemon a client's last connection led to
    target,      \* the pid a recovery has read
    claim,       \* what a verb has reported, and about which daemon
    reprobed,    \* history: the clients whose second connect in a row failed
    unseen,      \* history: the daemons that such a connect missed, or that bound after it
    checked,     \* history: a read since the last signal saw the target alive
    served,      \* history: the daemons that listened when a stop found one, or none was there
    crossed      \* history: a live daemon's file was removed by another, or never written

world == <<socket, pidfile, stage, stuck, busy, asked, doomed, unclean, reused>>
clients == <<role, pc, link, target, claim, reprobed, unseen, checked, served>>
vars == <<world, clients, crossed>>

FirstStep(r) == CASE r = "bridge" -> "connect" [] r = "start" -> "probe" [] OTHER -> "stop"

Init == /\ \E up \in Incumbents :
             /\ socket = up /\ pidfile = up
             /\ stage = [d \in Daemons |-> IF d = up THEN "serving" ELSE "unborn"]
        /\ role \in Scenarios
        /\ pc = [c \in Clients |-> FirstStep(role[c])]
        /\ link = [c \in Clients |-> Nobody] /\ target = [c \in Clients |-> Nobody]
        /\ claim = [c \in Clients |-> [what |-> "none", of |-> Nobody]]
        /\ reprobed = {} /\ unseen = [c \in Clients |-> {}] /\ checked = [c \in Clients |-> FALSE]
        /\ served = [c \in Clients |-> {}]
        /\ stuck = {} /\ busy = {} /\ asked = {} /\ doomed = {} /\ unclean = {} /\ reused = {}
        /\ crossed = FALSE

----------------------------------------------------------------------------
(* The shared files.  Both are removed by path, whoever they belong to.    *)

Up(d) == d \in Daemons /\ stage[d] \in Listening
Exists(d) == stage[d] \notin {"unborn", "gone"}
IsAlive(p) == Exists(p) \/ p \in reused
Answers(d) == stage[d] = "serving" /\ d \notin stuck
Open(c) == Up(link[c])

UnlinkSocket(by) == /\ socket' = Nobody
                    /\ crossed' = (crossed \/ (socket # by /\ Up(socket)))
RemovePidfile(by) == /\ pidfile' = Nobody
                     /\ crossed' = (crossed \/ (pidfile \in Daemons \ {by} /\ Exists(pidfile)))

----------------------------------------------------------------------------
(* The daemon process.                                                     *)

Bind(d) == /\ stage[d] = "starting" /\ socket = Nobody
           /\ socket' = d /\ stage' = [stage EXCEPT ![d] = "bound"]
           /\ unseen' = [c \in Clients |-> IF c \in reprobed THEN unseen[c] \cup {d} ELSE {}]
           /\ UNCHANGED <<pidfile, stuck, busy, asked, doomed, unclean, reused, role, pc, link,
                          target, claim, reprobed, checked, served, crossed>>

\* EADDRINUSE: some file is at the path, stale or not.
LoseBind(d) == /\ stage[d] = "starting" /\ socket # Nobody
               /\ stage' = [stage EXCEPT ![d] = "gone"]
               /\ UNCHANGED <<socket, pidfile, stuck, busy, asked, doomed, unclean, reused, clients,
                              crossed>>

WritePidfile(d) == /\ stage[d] = "bound"
                   /\ stage' = [stage EXCEPT ![d] = "serving"]
                   /\ \/ pidfile' = d /\ UNCHANGED crossed
                      \/ crossed' = TRUE /\ UNCHANGED pidfile        \* the write failed: no hint
                   /\ UNCHANGED <<socket, stuck, busy, asked, doomed, unclean, reused, clients>>

\* A bridge asks for something; the request settles, whether the bridge is still there or not.
Dispatch(d) == /\ Answers(d) /\ d \notin busy
               /\ \E c \in Clients : pc[c] = "linked" /\ link[c] = d
               /\ busy' = busy \cup {d}
               /\ UNCHANGED <<socket, pidfile, stage, stuck, asked, doomed, unclean, reused,
                              clients, crossed>>
Settle(d) == /\ Answers(d) /\ d \in busy
             /\ busy' = busy \ {d}
             /\ UNCHANGED <<socket, pidfile, stage, stuck, asked, doomed, unclean, reused,
                            clients, crossed>>

Linked(d) == \E c \in Clients : pc[c] = "linked" /\ link[c] = d
IsIdle_OnceUsed(d) == (\E c \in Clients : link[c] = d) /\ ~Linked(d) /\ d \notin busy
\* A connection the daemon has not accepted yet does not keep it from exiting, but a request does.
IsIdle(d) == ~Linked(d) /\ d \notin busy

\* shutdown(): the links are destroyed and closing the listener unlinks the path.
Shutdown(d) == /\ Answers(d) /\ (d \in asked \/ IsIdle(d))
               /\ stage' = [stage EXCEPT ![d] = "closing"]
               /\ UnlinkSocket(d)
               /\ UNCHANGED <<pidfile, stuck, busy, asked, doomed, unclean, reused, clients>>

\* The close callback unlinks the path a second time.
ListenerClosed(d) == /\ stage[d] = "closing"
                     /\ stage' = [stage EXCEPT ![d] = "closed"]
                     /\ UnlinkSocket(d)
                     /\ UNCHANGED <<pidfile, stuck, busy, asked, doomed, unclean, reused, clients>>

DropHint(d) == /\ stage[d] = "closed"
               /\ stage' = [stage EXCEPT ![d] = "disposing"]
               /\ RemovePidfile(d)
               /\ UNCHANGED <<socket, stuck, busy, asked, doomed, unclean, reused, clients>>

\* With the process go its thread and what was still to be delivered to it.
Ends(d) == /\ stage' = [stage EXCEPT ![d] = "gone"]
           /\ stuck' = stuck \ {d} /\ busy' = busy \ {d}
           /\ asked' = asked \ {d} /\ doomed' = doomed \ {d}
Exit(d) == /\ stage[d] = "disposing" /\ Ends(d)
           /\ UNCHANGED <<socket, pidfile, unclean, reused, clients, crossed>>

\* A killed daemon leaves its socket and its pidfile behind.
Dies(d) == /\ Exists(d) /\ (d \in doomed \/ DaemonsCrash)
           /\ Ends(d)
           /\ unclean' = unclean \cup {d}
           /\ UNCHANGED <<socket, pidfile, reused, clients, crossed>>

GetsStuck(d) == /\ Answers(d) /\ stuck' = stuck \cup {d}
                /\ UNCHANGED <<socket, pidfile, stage, busy, asked, doomed, unclean, reused, clients,
                               crossed>>
ComesBack(d) == /\ d \in stuck /\ Exists(d) /\ stuck' = stuck \ {d}
                /\ UNCHANGED <<socket, pidfile, stage, busy, asked, doomed, unclean, reused, clients,
                               crossed>>

\* Only a pid somebody still names matters.
PidIsReused(d) == /\ stage[d] = "gone" /\ d \notin reused /\ reused' = reused \cup {d}
                  /\ pidfile = d \/ \E c \in Clients : target[c] = d
                  /\ UNCHANGED <<socket, pidfile, stage, stuck, busy, asked, doomed, unclean, clients,
                                 crossed>>

----------------------------------------------------------------------------
(* The clients.  A step that only moves a client on leaves the world alone. *)

Goto(c, at) == pc' = [pc EXCEPT ![c] = at]
Reports(c, what, d) == claim' = [claim EXCEPT ![c] = [what |-> what, of |-> d]]
WorldStays == UNCHANGED <<world, crossed, role, reprobed, unseen, checked, served>>

\* tryConnect: a stuck daemon's backlog accepts, a stale file refuses.
Connects(c, then) == /\ Up(socket)
                     /\ link' = [link EXCEPT ![c] = socket]
                     /\ Goto(c, then)
                     /\ WorldStays /\ UNCHANGED <<target, claim>>
\* A connect fails also at a listening daemon: with its backlog full, or out of descriptors.
MayFail == ~Up(socket) \/ ConnectsFail
Refused(c, then) == /\ MayFail /\ Goto(c, then)
                    /\ WorldStays /\ UNCHANGED <<link, target, claim>>

\* Where an obtained connection leads: a bridge serves on it, `start` asks what it reached.
Obtained(c) == IF role[c] = "bridge" THEN "linked" ELSE "starting"

AfterRefusal_Clears(c) == "clear"
\* One failed connect is not enough to remove the socket.
AfterRefusal(c) == "reprobe"
Connect(c) == pc[c] = "connect" /\ (Connects(c, Obtained(c)) \/ Refused(c, AfterRefusal(c)))

\* What a connect that fails now has missed.
Missed == IF Up(socket) THEN {socket} ELSE {}
Reprobe(c) ==
    /\ pc[c] = "reprobe"
    /\ \/ Connects(c, Obtained(c))
       \/ /\ MayFail /\ Goto(c, "clear")
          /\ reprobed' = reprobed \cup {c} /\ unseen' = [unseen EXCEPT ![c] = Missed]
          /\ UNCHANGED <<world, crossed, role, checked, served, link, target, claim>>

\* unlinkIfExists and the detached spawn, which may fail without anybody noticing.
Clear(c) == /\ pc[c] = "clear" /\ Goto(c, "poll")
            /\ UnlinkSocket(Nobody)
            /\ reprobed' = reprobed \ {c} /\ unseen' = [unseen EXCEPT ![c] = {}]
            /\ \/ \E d \in Daemons : /\ stage[d] = "unborn"
                                     /\ stage' = [stage EXCEPT ![d] = "starting"]
               \/ UNCHANGED stage
            /\ UNCHANGED <<pidfile, stuck, busy, asked, doomed, unclean, reused, role, link, target,
                           claim, checked, served>>

Poll(c) == pc[c] = "poll" /\ Connects(c, Obtained(c))

PollEnds_Never(c) == FALSE
\* The last attempt before the deadline failed: the bridge serves in process.
PollEnds(c) == /\ pc[c] = "poll" /\ MayFail
               /\ IF role[c] = "bridge" THEN Goto(c, "local") /\ UNCHANGED claim
                  ELSE Goto(c, "done") /\ Reports(c, "failed", Nobody)
               /\ WorldStays /\ UNCHANGED <<link, target>>

BridgeLeaves(c) == /\ pc[c] = "linked" /\ Goto(c, "done")
                   /\ WorldStays /\ UNCHANGED <<link, target, claim>>

Concludes(c, what, d) == /\ Goto(c, "done") /\ Reports(c, what, d)
                         /\ WorldStays /\ UNCHANGED <<link, target>>

\* daemonStart: probe until the answer is not `draining`, or the budget is spent.
Probe(c) == pc[c] = "probe" /\ (Connects(c, "probing") \/ Refused(c, "connect"))
Probed(c) == /\ pc[c] = "probing"
             /\ \/ Answers(link[c]) /\ Concludes(c, "running", link[c])
                \/ Open(c) /\ Concludes(c, "wedged", link[c])             \* no reply in time
                \/ ~Open(c) /\ Concludes(c, "draining", link[c])
                \/ /\ ~Open(c) /\ Goto(c, "probe")
                   /\ WorldStays /\ UNCHANGED <<link, target, claim>>
Started(c) == /\ pc[c] = "starting"
              /\ \/ Answers(link[c]) /\ Concludes(c, "started", link[c])
                 \/ Concludes(c, "failed", link[c])

\* The end of the stop half with exit code 0: a restart goes on to start.
StopHalfEnds(c, what, d) ==
    /\ Reports(c, what, d)
    /\ Goto(c, IF role[c] = "restart" THEN "probe" ELSE "done")

\* A connect that fails is taken for "no daemon", even when one listens.
Stop(c) == /\ pc[c] = "stop"
           /\ \/ /\ Up(socket) /\ link' = [link EXCEPT ![c] = socket]
                 /\ Goto(c, "asking") /\ UNCHANGED claim
                 /\ served' = [served EXCEPT ![c] = {d \in Daemons : Up(d)}]
              \/ /\ MayFail /\ StopHalfEnds(c, "noDaemon", Nobody) /\ UNCHANGED link
                 /\ served' = [served EXCEPT ![c] = {d \in Daemons : Up(d)} \ Missed]
           /\ UNCHANGED <<world, crossed, role, target, reprobed, unseen, checked>>

\* The daemon-info exchange; unless the link dropped, the shutdown message follows.
Asks(c) == /\ pc[c] = "asking"
           /\ \/ /\ ~Open(c) /\ StopHalfEnds(c, "exiting", link[c])
                 /\ WorldStays /\ UNCHANGED <<link, target>>
              \/ /\ Open(c) /\ asked' = asked \cup {link[c]} /\ Goto(c, "closing")
                 /\ UNCHANGED <<socket, pidfile, stage, stuck, busy, doomed, unclean, reused, crossed,
                                role, link, target, claim, reprobed, unseen, checked, served>>

Closed(c) == /\ pc[c] = "closing" /\ ~Open(c) /\ StopHalfEnds(c, "stopped", link[c])
             /\ WorldStays /\ UNCHANGED <<link, target>>
\* (The pidfile is written in the turn that bound the socket: no deadline fits in between.)
NotClosedInTime(c) == /\ pc[c] = "closing" /\ stage[link[c]] = "serving" /\ Goto(c, "read")
                      /\ WorldStays /\ UNCHANGED <<link, target, claim>>

----------------------------------------------------------------------------
(* forceRecoverDaemon.                                                     *)

\* What a read of the pidfile tells about the pid it names.
Checks(c) == checked' = [checked EXCEPT ![c] = pidfile \in Daemons /\ Exists(pidfile)]
HintUnread == UNCHANGED <<world, crossed, role, reprobed, unseen, served, link>>

Read(c) == /\ pc[c] = "read" /\ Checks(c)
           /\ target' = [target EXCEPT ![c] = pidfile]
           /\ IF pidfile = Nobody THEN Goto(c, "done") /\ Reports(c, "manual", link[c])
              ELSE IF ~IsAlive(pidfile) THEN Goto(c, "unhint") /\ Reports(c, "alreadyGone", pidfile)
              ELSE Goto(c, "confirm") /\ UNCHANGED claim
           /\ HintUnread

Confirm(c) == /\ pc[c] = "confirm" /\ Checks(c)
              /\ IF pidfile # target[c] THEN StopHalfEnds(c, "changed", target[c])
                 ELSE Goto(c, "term") /\ UNCHANGED claim
              /\ HintUnread /\ UNCHANGED target

\* A signal reaches the daemon, a stranger or nobody; each needs a read of its own.
Signalled(c) == checked' = [checked EXCEPT ![c] = FALSE]
Term(c) == /\ pc[c] = "term" /\ Goto(c, "grace") /\ Signalled(c)
           /\ asked' = IF Exists(target[c]) THEN asked \cup {target[c]} ELSE asked
           /\ UNCHANGED <<socket, pidfile, stage, stuck, busy, doomed, unclean, reused, crossed,
                          role, link, target, claim, reprobed, unseen, served>>

GoneAfter(c, at) == /\ pc[c] = at /\ ~IsAlive(target[c]) /\ Goto(c, "unhint")
                    /\ Reports(c, "killed", target[c])
                    /\ WorldStays /\ UNCHANGED <<link, target>>
GraceEnds_TrustsTerm(c) ==
    /\ pc[c] = "grace" /\ Goto(c, "unhint") /\ Reports(c, "killed", target[c])
    /\ WorldStays /\ UNCHANGED <<link, target>>
GraceEnds_KillsAtOnce(c) ==
    /\ pc[c] = "grace" /\ IsAlive(target[c]) /\ Goto(c, "kill")
    /\ WorldStays /\ UNCHANGED <<link, target, claim>>
GraceEnds(c) == /\ pc[c] = "grace" /\ IsAlive(target[c]) /\ Goto(c, "reread")
                /\ WorldStays /\ UNCHANGED <<link, target, claim>>

Reread(c) == /\ pc[c] = "reread" /\ Checks(c)
             /\ IF pidfile = Nobody THEN StopHalfEnds(c, "killed", target[c])
                ELSE IF pidfile # target[c] THEN StopHalfEnds(c, "changed", target[c])
                ELSE Goto(c, "kill") /\ UNCHANGED claim
             /\ HintUnread /\ UNCHANGED target

Kill(c) == /\ pc[c] = "kill" /\ Signalled(c)
           /\ \/ /\ Goto(c, "gone") /\ UNCHANGED claim
                 /\ doomed' = IF Exists(target[c]) THEN doomed \cup {target[c]} ELSE doomed
              \/ /\ target[c] \in reused            \* EPERM: somebody else's process
                 /\ StopHalfEnds(c, "changed", target[c]) /\ UNCHANGED doomed
           /\ UNCHANGED <<socket, pidfile, stage, stuck, busy, asked, unclean, reused, crossed,
                          role, link, target, reprobed, unseen, served>>

KillUnconfirmed_GoesOn(c) ==
    /\ pc[c] = "gone" /\ IsAlive(target[c]) /\ StopHalfEnds(c, "stillAlive", target[c])
    /\ WorldStays /\ UNCHANGED <<link, target>>
KillUnconfirmed(c) == /\ pc[c] = "gone" /\ IsAlive(target[c])
                      /\ Concludes(c, "stillAlive", target[c])

\* removePidfile, by path: another daemon may have written it meanwhile.
Unhint(c) == /\ pc[c] = "unhint" /\ RemovePidfile(target[c])
             /\ StopHalfEnds(c, claim[c].what, claim[c].of)
             /\ UNCHANGED <<socket, stage, stuck, busy, asked, doomed, unclean, reused, role, link,
                            target, reprobed, unseen, checked, served>>

----------------------------------------------------------------------------
DaemonStep(d) == \/ Bind(d) \/ LoseBind(d) \/ WritePidfile(d) \/ Shutdown(d)
                 \/ ListenerClosed(d) \/ DropHint(d) \/ Exit(d)
Killed(d) == d \in doomed /\ Dies(d)
ClientStep(c) ==
    \/ Connect(c) \/ Reprobe(c) \/ Clear(c) \/ Poll(c) \/ PollEnds(c)
    \/ Probe(c) \/ Probed(c) \/ Started(c)
    \/ Stop(c) \/ Asks(c) \/ Closed(c) \/ NotClosedInTime(c)
    \/ Read(c) \/ Confirm(c) \/ Term(c) \/ GoneAfter(c, "grace") \/ GraceEnds(c) \/ Reread(c)
    \/ Kill(c) \/ GoneAfter(c, "gone") \/ KillUnconfirmed(c) \/ Unhint(c)

Next == \/ \E d \in Daemons : \/ DaemonStep(d) \/ Dispatch(d) \/ Settle(d)
                                \/ Dies(d) \/ GetsStuck(d) \/ ComesBack(d) \/ PidIsReused(d)
        \/ \E c \in Clients : ClientStep(c) \/ BridgeLeaves(c)

Spec == Init /\ [][Next]_vars
\* While some daemon or client can move, one does: their timers are real and nothing else blocks
\* them.  Nobody owes a crash, a blockage or its end.
Progress == \/ \E c \in Clients : ClientStep(c)
            \/ \E d \in Daemons : DaemonStep(d) \/ Killed(d)
FairSpec == Spec /\ WF_vars(Progress)

----------------------------------------------------------------------------
Pcs == {"connect", "reprobe", "clear", "poll", "linked", "local", "probe", "probing", "starting",
        "stop", "asking", "closing", "read", "confirm", "term", "grace", "reread", "kill", "gone",
        "unhint", "done"}

\* Types; only a verb reports, and only a bridge stays on its connection or serves by itself.
TypeOK == /\ socket \in Daemons \cup {Nobody} /\ pidfile \in Daemons \cup {Nobody}
          /\ stage \in [Daemons -> Stages]
          /\ stuck \subseteq Daemons /\ busy \subseteq Daemons
          /\ asked \subseteq Daemons /\ doomed \subseteq Daemons
          /\ unclean \subseteq Daemons /\ reused \subseteq Daemons
          /\ role \in [Clients -> Roles] /\ pc \in [Clients -> Pcs]
          /\ link \in [Clients -> Daemons \cup {Nobody}]
          /\ target \in [Clients -> Daemons \cup {Nobody}]
          /\ claim \in [Clients -> [what : Verdicts, of : Daemons \cup {Nobody}]]
          /\ reprobed \subseteq Clients /\ unseen \in [Clients -> SUBSET Daemons]
          /\ checked \in [Clients -> BOOLEAN]
          /\ served \in [Clients -> SUBSET Daemons] /\ crossed \in BOOLEAN
          /\ \A c \in Clients : IF role[c] = "bridge" THEN claim[c].what = "none"
                                ELSE pc[c] \notin {"linked", "local"}

\* A signal is about to reach a stranger only if the pid changed hands after the read
\* that precedes this very signal, or if its daemon was killed: the pid of a daemon that exited by
\* itself is never signalled from an old hint (force-recover.ts, its two re-reads).
StrangersAreSpared ==
    \A c \in Clients : pc[c] \in {"term", "kill"} /\ target[c] \in reused
                       => checked[c] \/ target[c] \in unclean

\* Nobody removes the socket of a listening daemon after a single failed connect: a second one
\* failed at this very daemon (a full backlog, no descriptor left), or before it had bound (the
\* residual race of connect-or-spawn.ts).
ReprobeGuards ==
    [][\A c \in Clients : pc'[c] # pc[c] /\ Up(socket) /\ socket' # socket
                          => c \in reprobed /\ socket \in unseen[c]]_vars

\* A stop that says `stopped` or `force-killed` is right: the daemon it asked or signalled no
\* longer listens. The exemption is `crossed`: some daemon lost its socket or its hint to another
\* process, by the residual race, by failing connects or by two exits that overlap, or could not
\* write its hint; from then on the files may name the wrong daemon.
StopMeansStopped ==
    [][\A c \in Clients : claim'[c] # claim[c] /\ claim'[c].what \in {"stopped", "killed"}
                          => ~Up(claim'[c].of) \/ crossed]_vars

\* A restart that ends well names a daemon that was not serving when the restart began, unless
\* the restart could not connect to it and said that there was none, and but for `crossed`.
RestartRenews ==
    \A c \in Clients : role[c] = "restart" /\ claim[c].what \in {"running", "started"}
                       => claim[c].of \notin served[c] \/ crossed

\* The idle exit of a daemon that was displaced leaves its successor's socket alone:
\* connect-or-spawn.ts says that the residual race "self-heals: the orphaned daemon
\* idle-exits by TTL".
DisplacedExitSparesSuccessor ==
    [][\A d \in Daemons : stage[d] = "serving" /\ stage'[d] = "closing" /\ socket # d
                          => socket' = socket]_vars

\* A daemon nobody can reach any more and nobody is connected to ends, unless it is blocked, once
\* its last request has settled, whose client may have left: one that never settles keeps the
\* daemon for ever.
Orphaned(d) == stage[d] = "serving" /\ socket # d /\ ~Linked(d) /\ d \notin busy
OrphansExit == \A d \in Daemons : Orphaned(d) ~> (~Up(d) \/ d \in stuck)

\* Never-hang: whatever daemons do, every client ends up connected, in process, or with a verdict.
ClientsConclude == \A c \in Clients : <>(pc[c] \in {"linked", "local", "done"})
============================================================================
