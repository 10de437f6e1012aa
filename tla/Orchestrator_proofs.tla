------------------------ MODULE Orchestrator_proofs ------------------------
(***************************************************************************)
(* Why a request is served by the right engine, for any number of          *)
(* repositories, clients and requests, whatever order spawns, evictions,   *)
(* exits and the sweep come in.  What carries it: an engine registered is  *)
(* live and of its repository (Sound), and what a request spawned or found *)
(* fits it from then on, whether it is still registered or not (Placed).   *)
(***************************************************************************)
EXTENDS Orchestrator, FiniteSetTheorems, TLAPS

Lives == {"unborn", "starting", "live", "disposing", "gone"}
Tasks == [stage : Stages, repo : Repos \cup {None}, rest : Seq(Repos), sql : BOOLEAN,
          asOf : Nat, host : Hosts \cup {None}, waitFor : Hosts \cup {None},
          then : {"idle", "spawn", "refuse", "govern"}]
Rounds == [stage : {"idle", "on", "off"}, left : SUBSET (Repos \X Hosts),
           waitFor : Hosts \cup {None}]
Record == [life : Lives, repo : Repos \cup {None}, fp : Nat, verified : BOOLEAN]

\* A registry and the hosts it names.
Sound(reg, hosts) ==
    /\ reg \in [Repos -> Hosts \cup {None}]
    /\ hosts \in [Hosts -> Record]
    /\ \A r \in Repos : reg[r] # None => hosts[reg[r]].life = "live" /\ hosts[reg[r]].repo = r

\* A host that a request may be sent to.
Fits(t, c, hosts) ==
    /\ t.host \in Hosts
    /\ hosts[t.host].life # "unborn"
    /\ hosts[t.host].repo = t.repo
    /\ hosts[t.host].fp >= t.asOf
    /\ c \in Independent \/ hosts[t.host].verified

Holding(t) == t.stage \in {"building", "sent"} \/ (t.stage = "awaiting" /\ t.then = "govern")

\* What a request is about, and what it holds.
Placed(t, c, hosts) ==
    /\ t \in Tasks
    /\ t.stage # "idle" => t.repo \in Repos /\ t.asOf <= config[t.repo]
    /\ t.then = "govern" => t.stage = "awaiting"
    /\ Holding(t) => Fits(t, c, hosts)
    /\ t.stage = "building" => hosts[t.host].life = "starting"

Apart == \A c, d \in Clients :
    task[c].stage = "building" /\ task[d].stage = "building" /\ c # d => task[c].host # task[d].host

World ==
    /\ setting \in Settings
    /\ config \in [Repos -> Nat]
    /\ inspectable \in [Repos -> BOOLEAN]
    /\ loop \in [Loops -> Rounds]
    /\ DOMAIN task = Clients

AllPlaced == \A c \in Clients : Placed(task[c], c, host)

Orderly == World /\ Sound(engines, host) /\ AllPlaced /\ Apart

-----------------------------------------------------------------------------
\* Dropping a slot and disposing of its host leaves a sound registry.
LEMMA DropKeepsSound ==
  ASSUME NEW reg, NEW hosts, Sound(reg, hosts), NEW r \in Repos, reg[r] # None
  PROVE  Sound(Dropped(reg, r), Disposing(hosts, reg[r]))
  BY DEF Sound, Dropped, Disposing, Record, Lives

\* What a host was spawned from never changes.
SameBirths(hosts) ==
    \A h \in Hosts : host[h].life # "unborn" =>
        /\ hosts[h].life # "unborn"
        /\ hosts[h].repo = host[h].repo /\ hosts[h].fp = host[h].fp
        /\ hosts[h].verified = host[h].verified

\* Only a host that has come up can be disposed of.
StartsGoOn(hosts) == \A h \in Hosts : host[h].life = "starting" => hosts[h].life = "starting"

LEMMA DropKeepsHosts ==
  ASSUME Sound(engines, host), NEW r \in Repos, engines[r] # None
  PROVE  SameBirths(Disposing(host, engines[r])) /\ StartsGoOn(Disposing(host, engines[r]))
  BY DEF Sound, Disposing, SameBirths, StartsGoOn, Record, Lives

\* Dropping whatever a slot holds is safe for everybody.
LEMMA EvictIsSafe ==
  ASSUME Orderly, NEW r \in Repos, Evict(r)
  PROVE  Sound(engines', host') /\ SameBirths(host') /\ StartsGoOn(host')
  <1>1. CASE engines[r] = None
    BY <1>1 DEF Orderly, Evict, Dropped, Sound, SameBirths, StartsGoOn
  <1>2. CASE engines[r] # None
    BY <1>2, DropKeepsSound, DropKeepsHosts DEF Orderly, Evict
  <1> QED BY <1>1, <1>2

\* A request that stands still stays placed.
LEMMA StandingStaysPlaced ==
  ASSUME Orderly, SameBirths(host'), setting' = setting, NEW c \in Clients,
         task'[c] = task[c], config' \in [Repos -> Nat], Sound(engines, host)',
         \A r \in Repos : config'[r] >= config[r],
         task[c].stage = "building" => host'[task[c].host].life = "starting"
  PROVE  Placed(task[c], c, host)'
  <1>1. Placed(task[c], c, host) /\ host' \in [Hosts -> Record] /\ host \in [Hosts -> Record]
        /\ config \in [Repos -> Nat]
    BY DEF Orderly, AllPlaced, Sound, World
  <1>2. Fits(task[c], c, host) => Fits(task[c], c, host)'
    BY <1>1 DEF Fits, SameBirths, Independent, Record, Placed, Tasks
  <1>3. task[c].stage # "idle" => task[c].asOf <= config'[task[c].repo]
    BY <1>1 DEF Placed, Tasks
  <1> QED BY <1>1, <1>2, <1>3 DEF Placed, Holding

\* What no request takes part in.
LEMMA OthersAct ==
  ASSUME Orderly, Sound(engines, host)', SameBirths(host'), StartsGoOn(host'),
         UNCHANGED <<task, setting>>, World', \A r \in Repos : config'[r] >= config[r]
  PROVE  Orderly'
  <1>1. \A c \in Clients : Placed(task[c], c, host)'
    <2> TAKE c \in Clients
    <2>1. task[c].stage = "building" => host'[task[c].host].life = "starting"
      BY DEF Orderly, AllPlaced, Placed, Fits, Holding, StartsGoOn
    <2> QED BY <2>1, StandingStaysPlaced DEF World
  <1> QED BY <1>1 DEF Orderly, AllPlaced, Apart

\* A step of one request, which leaves the others' hosts alone.
LEMMA OneActs ==
  ASSUME Orderly, Sound(engines, host)', SameBirths(host'),
         NEW c \in Clients, NEW t, task' = [task EXCEPT ![c] = t], Placed(t, c, host'),
         \A d \in Clients \ {c} : task[d].stage = "building" =>
            /\ host'[task[d].host].life = "starting"
            /\ t.stage = "building" => task[d].host # t.host,
         UNCHANGED <<setting, config, inspectable, loop>>
  PROVE  Orderly'
  <1>1. World' /\ DOMAIN task = Clients /\ config' \in [Repos -> Nat]
    BY DEF Orderly, World
  <1>2. \A d \in Clients : Placed(task[d], d, host)'
    <2> TAKE d \in Clients
    <2>1. CASE d = c
      BY <1>1, <2>1 DEF Placed, Fits, Independent
    <2>2. CASE d # c
      BY <1>1, <2>2, StandingStaysPlaced DEF Orderly, World
    <2> QED BY <2>1, <2>2
  <1>3. Apart'
    BY <1>1 DEF Orderly, Apart
  <1> QED BY <1>1, <1>2, <1>3 DEF Orderly, AllPlaced

\* The same, of a step that leaves every host that is starting alone.
LEMMA OneActsQuietly ==
  ASSUME Orderly, Sound(engines, host)', SameBirths(host'), StartsGoOn(host'),
         NEW c \in Clients, NEW t, task' = [task EXCEPT ![c] = t], Placed(t, c, host'),
         t.stage # "building", UNCHANGED <<setting, config, inspectable, loop>>
  PROVE  Orderly'
  <1>1. \A d \in Clients : task[d].stage = "building" => host'[task[d].host].life = "starting"
    BY DEF Orderly, AllPlaced, Placed, Fits, Holding, StartsGoOn
  <1> QED BY <1>1, OneActs

LEMMA NobodyMoves ==
  ASSUME Orderly, UNCHANGED <<engines, host>>
  PROVE  Sound(engines', host') /\ SameBirths(host') /\ StartsGoOn(host')
  BY DEF Orderly, Sound, SameBirths, StartsGoOn

\* The next group of a request, or none.
LEMMA GroupIsPlaced ==
  ASSUME Orderly, NEW c \in Clients, NEW repos \in Seq(Repos), repos # <<>>,
         NEW sql \in BOOLEAN, NEW hosts
  PROVE  Placed(Group(repos, sql), c, hosts) /\ Group(repos, sql).stage = "enter"
  <1>1. Head(repos) \in Repos /\ Tail(repos) \in Seq(Repos) /\ config[Head(repos)] \in Nat
    BY DEF Orderly, World
  <1>2. NoTask \in Tasks /\ NoTask.then = "idle"
    <2>1. <<>> \in Seq(Repos)
      OBVIOUS
    <2> QED BY <2>1 DEF NoTask, Tasks, Stages
  <1> DEFINE g(n) == [n EXCEPT !.stage = "enter", !.repo = Head(repos), !.rest = Tail(repos),
                               !.sql = sql, !.asOf = config[Head(repos)]]
  <1>3. ASSUME NEW n \in Tasks
        PROVE  /\ g(n) \in Tasks /\ g(n).stage = "enter" /\ g(n).then = n.then
               /\ g(n).repo = Head(repos) /\ g(n).asOf = config[Head(repos)]
    BY <1>1 DEF Tasks, Stages
  <1>4. Group(repos, sql) = g(NoTask)
    BY DEF Group
  <1> HIDE DEF g
  <1>5. /\ g(NoTask) \in Tasks /\ g(NoTask).stage = "enter" /\ g(NoTask).then = "idle"
        /\ g(NoTask).repo = Head(repos) /\ g(NoTask).asOf = config[Head(repos)]
    BY <1>2, <1>3
  <1>6. Placed(g(NoTask), c, hosts)
    BY <1>1, <1>5 DEF Placed, Holding
  <1> QED BY <1>4, <1>5, <1>6

LEMMA NoTaskIsPlaced ==
  ASSUME NEW c, NEW hosts
  PROVE  /\ Placed(NoTask, c, hosts)
         /\ NoTask \in Tasks /\ NoTask.stage = "idle" /\ NoTask.then = "idle"
  <1>1. <<>> \in Seq(Repos)
    OBVIOUS
  <1> QED BY <1>1 DEF NoTask, Placed, Tasks, Stages, Holding

LEMMA NextIsPlaced ==
  ASSUME Orderly, NEW c \in Clients, NEW hosts
  PROVE  Placed(NextGroup(c), c, hosts) /\ NextGroup(c).stage # "building"
  <1>1. task[c].rest \in Seq(Repos) /\ task[c].sql \in BOOLEAN
    BY DEF Orderly, AllPlaced, Placed, Tasks
  <1> QED BY <1>1, GroupIsPlaced, NoTaskIsPlaced DEF NextGroup

\* A group that is over leaves the rest in order.
LEMMA OverIsOrderly ==
  ASSUME Orderly, NEW c \in Clients, Finish(c) \/ Refused(c),
         Sound(engines, host)', SameBirths(host'), StartsGoOn(host'),
         UNCHANGED <<setting, config, inspectable, loop>>
  PROVE  Orderly'
  <1>1. PICK t \in {NoTask, NextGroup(c)} : task' = [task EXCEPT ![c] = t]
    BY DEF Finish, Refused
  <1>2. Placed(t, c, host') /\ t.stage # "building"
    BY <1>1, NextIsPlaced, NoTaskIsPlaced
  <1> QED BY <1>1, <1>2, OneActsQuietly

-----------------------------------------------------------------------------
LEMMA OrderlyInit == Init => Orderly
  <1> SUFFICES ASSUME Init PROVE Orderly
    OBVIOUS
  <1>1. World
    BY DEF Init, World, Rounds, Resting
  <1>2. Sound(engines, host)
    BY DEF Init, Sound, Record, Lives, Unborn
  <1>3. AllPlaced /\ Apart
    BY NoTaskIsPlaced DEF Init, AllPlaced, Apart
  <1> QED BY <1>1, <1>2, <1>3 DEF Orderly

LEMMA AskStep ==
  ASSUME Orderly, NEW c \in Clients, Ask(c)
  PROVE  Orderly'
  <1>1. PICK repos \in Routes, sql \in BOOLEAN : task' = [task EXCEPT ![c] = Group(repos, sql)]
    BY DEF Ask
  <1>2. setting.asks \subseteq Repos
    BY OrchestratorAssumption DEF Orderly, World
  <1>3. repos \in Seq(Repos) /\ repos # <<>>
    <2>1. CASE \E r \in setting.asks : repos = <<r>>
      BY <1>2, <2>1
    <2>2. CASE \E r, q \in setting.asks : repos = <<r, q>>
      BY <1>2, <2>2
    <2> QED BY <2>1, <2>2 DEF Routes
  <1>4. Placed(Group(repos, sql), c, host') /\ Group(repos, sql).stage # "building"
    BY <1>3, GroupIsPlaced
  <1> QED BY <1>1, <1>4, NobodyMoves, OneActsQuietly DEF Ask, registry, disk

\* To wait for an evicted host is to hold nothing, unless the request governs.
LEMMA WaitIsPlaced ==
  ASSUME Orderly, NEW c \in Clients, NEW h \in Hosts, NEW next \in {"spawn", "refuse"},
         Await(c, h, next), NEW hosts, task[c].stage # "idle"
  PROVE  \E t : task' = [task EXCEPT ![c] = t] /\ Placed(t, c, hosts) /\ t.stage # "building"
  <1> DEFINE t == [task[c] EXCEPT !.stage = "awaiting", !.waitFor = h, !.then = next]
  <1>1. task[c] \in Tasks /\ Placed(task[c], c, host)
    BY DEF Orderly, AllPlaced, Placed
  <1>2. t \in Tasks /\ t.stage = "awaiting" /\ t.then = next
        /\ t.repo = task[c].repo /\ t.asOf = task[c].asOf
    BY <1>1 DEF Tasks, Stages
  <1>3. Placed(t, c, hosts)
    BY <1>1, <1>2 DEF Placed, Holding
  <1>4. task' = [task EXCEPT ![c] = t]
    BY DEF Await
  <1> QED BY <1>2, <1>3, <1>4

\* A step that evicts, and makes the request wait.
LEMMA EvictAndWait ==
  ASSUME Orderly, NEW c \in Clients, NEW r \in Repos, engines[r] # None, Evict(r),
         NEW next \in {"spawn", "refuse"}, Await(c, engines[r], next),
         task[c].stage # "idle", UNCHANGED <<setting, config, inspectable, loop>>
  PROVE  Orderly'
  <1>1. engines[r] \in Hosts
    BY DEF Orderly, Sound
  <1>2. PICK t : task' = [task EXCEPT ![c] = t] /\ Placed(t, c, host') /\ t.stage # "building"
    BY <1>1, WaitIsPlaced
  <1> QED BY <1>2, EvictIsSafe, OneActsQuietly

LEMMA EnterVanishedStep ==
  ASSUME Orderly, NEW c \in Clients, EnterVanished(c)
  PROVE  Orderly'
  <1> DEFINE r == task[c].repo
  <1>1. r \in Repos /\ task[c].stage = "enter" /\ Evict(r)
        /\ UNCHANGED <<setting, config, inspectable, loop>>
    BY DEF EnterVanished, Orderly, AllPlaced, Placed, disk
  <1>2. CASE engines[r] = None
    BY <1>1, <1>2, EvictIsSafe, OverIsOrderly DEF EnterVanished
  <1>3. CASE engines[r] # None
    BY <1>1, <1>3, EvictAndWait DEF EnterVanished
  <1> QED BY <1>2, <1>3

LEMMA EnterDriftedStep ==
  ASSUME Orderly, NEW c \in Clients, EnterDrifted(c)
  PROVE  Orderly'
  <1>1. task[c].repo \in Repos /\ task[c].stage = "enter"
    BY DEF EnterDrifted, Orderly, AllPlaced, Placed
  <1> QED BY <1>1, EvictAndWait DEF EnterDrifted, disk

LEMMA EnterWarmStep ==
  ASSUME Orderly, NEW c \in Clients, EnterWarm(c)
  PROVE  Orderly'
  <1> DEFINE r == task[c].repo
             h == engines[r]
  <1>1. /\ r \in Repos /\ task[c].stage = "enter" /\ task[c] \in Tasks
        /\ h \in Hosts /\ host[h].life = "live" /\ host[h].repo = r
        /\ host[h].fp = config[r] /\ task[c].asOf <= config[r] /\ config[r] \in Nat
        /\ UNCHANGED <<engines, host, setting, config, inspectable, loop>>
    BY DEF EnterWarm, Orderly, AllPlaced, Placed, World, Sound, Record, ConfigChanged, disk
  <1>2. CASE Reusable(c, h)
    <2> DEFINE t == [task[c] EXCEPT !.stage = "sent", !.host = h]
    <2>1. t \in Tasks /\ t.stage = "sent" /\ t.host = h /\ t.repo = r /\ t.asOf = task[c].asOf
          /\ t.then = task[c].then
      BY <1>1 DEF Tasks, Stages
    <2>2. Fits(t, c, host)
      BY <1>1, <1>2, <2>1 DEF Fits, Reusable
    <2>3. t.then # "govern"
      BY <1>1, <2>1 DEF Orderly, AllPlaced, Placed
    <2>4. Placed(t, c, host')
      BY <1>1, <2>1, <2>2, <2>3 DEF Placed
    <2>5. task' = [task EXCEPT ![c] = t]
      BY <1>2 DEF EnterWarm, Send
    <2> QED BY <1>1, <2>1, <2>4, <2>5, NobodyMoves, OneActsQuietly
  <1>3. CASE ~Reusable(c, h)
    <2> DEFINE t == [task[c] EXCEPT !.stage = "gating", !.host = h]
    <2>1. t \in Tasks /\ t.stage = "gating" /\ t.repo = r /\ t.asOf = task[c].asOf
          /\ t.then = task[c].then
      BY <1>1 DEF Tasks, Stages
    <2>2. t.then # "govern"
      BY <1>1, <2>1 DEF Orderly, AllPlaced, Placed
    <2>3. Placed(t, c, host')
      BY <1>1, <2>1, <2>2 DEF Placed, Holding
    <2>4. task' = [task EXCEPT ![c] = t]
      BY <1>3 DEF EnterWarm
    <2> QED BY <1>1, <2>1, <2>3, <2>4, NobodyMoves, OneActsQuietly
  <1> QED BY <1>2, <1>3

\* A host is spawned from the configuration of the moment, or the gate refuses.
LEMMA SpawnStep ==
  ASSUME Orderly, NEW c \in Clients, Spawn(c), task[c].stage # "idle",
         UNCHANGED <<setting, config, inspectable, loop>>
  PROVE  Orderly'
  <1> DEFINE r == task[c].repo
  <1>1. r \in Repos /\ task[c] \in Tasks /\ task[c].asOf <= config[r] /\ config[r] \in Nat
        /\ inspectable[r] \in BOOLEAN
    BY DEF Orderly, AllPlaced, Placed, World
  <1>2. CASE ~inspectable[r] /\ c \notin Independent
    BY <1>2, NobodyMoves, OverIsOrderly DEF Spawn
  <1>3. CASE inspectable[r] \/ c \in Independent
    <2> DEFINE rec == [life |-> "starting", repo |-> r, fp |-> config[r],
                       verified |-> inspectable[r]]
    <2>1. PICK h \in Hosts :
            /\ IsNextHost(h)
            /\ host' = [host EXCEPT ![h] = rec]
            /\ task' = [task EXCEPT ![c].stage = "building", ![c].host = h,
                                    ![c].waitFor = None, ![c].then = "idle"]
      BY <1>3 DEF Spawn
    <2>2. host[h].life = "unborn" /\ engines' = engines /\ rec \in Record
      BY <1>1, <2>1 DEF IsNextHost, Spawn, Record, Lives
    <2>3. Sound(engines, host)'
      BY <2>1, <2>2 DEF Orderly, Sound
    <2>4. SameBirths(host') /\ StartsGoOn(host')
      BY <2>1, <2>2 DEF SameBirths, StartsGoOn, Orderly, Sound
    <2> DEFINE t == [task[c] EXCEPT !.stage = "building", !.host = h, !.waitFor = None,
                                    !.then = "idle"]
    <2>5. t \in Tasks /\ t.stage = "building" /\ t.host = h /\ t.repo = r /\ t.then = "idle"
          /\ t.asOf = task[c].asOf
      BY <1>1 DEF Tasks, Stages
    <2>6. host'[h] = rec
      BY <2>1 DEF Orderly, Sound
    <2>7. Fits(t, c, host')
      BY <1>1, <1>3, <2>5, <2>6 DEF Fits
    <2>8. Placed(t, c, host')
      BY <1>1, <2>5, <2>6, <2>7 DEF Placed
    <2>9. \A d \in Clients \ {c} : task[d].stage = "building" =>
             host'[task[d].host].life = "starting" /\ task[d].host # t.host
      BY <2>2, <2>4, <2>5 DEF Orderly, AllPlaced, Placed, Fits, Holding, StartsGoOn
    <2>10. task' = [task EXCEPT ![c] = t]
      BY <2>1
    <2> QED BY <2>3, <2>4, <2>8, <2>9, <2>10, OneActs
  <1> QED BY <1>2, <1>3

LEMMA GateStep ==
  ASSUME Orderly, NEW c \in Clients, Gate(c)
  PROVE  Orderly'
  <1> DEFINE r == task[c].repo
  <1>1. r \in Repos /\ task[c].stage = "gating"
        /\ UNCHANGED <<setting, config, inspectable, loop>>
    BY DEF Gate, Orderly, AllPlaced, Placed, disk
  <1>2. CASE ~inspectable[r]
    BY <1>1, <1>2, NobodyMoves, OverIsOrderly DEF Gate, registry
  <1>3. CASE inspectable[r] /\ engines[r] = None
    BY <1>1, <1>3, SpawnStep DEF Gate
  <1>4. CASE inspectable[r] /\ engines[r] # None
    BY <1>1, <1>4, EvictAndWait DEF Gate
  <1> QED BY <1>2, <1>3, <1>4

LEMMA EnterColdStep ==
  ASSUME Orderly, NEW c \in Clients, EnterCold(c)
  PROVE  Orderly'
  <1>1. task[c].stage # "idle"
    BY DEF EnterCold, Cold, Awaited
  <1> QED BY <1>1, SpawnStep DEF EnterCold, disk

LEMMA RefuseStep ==
  ASSUME Orderly, NEW c \in Clients, Refuse(c)
  PROVE  Orderly'
  BY NobodyMoves, OverIsOrderly DEF Refuse, registry, disk

LEMMA AnswerStep ==
  ASSUME Orderly, NEW c \in Clients, Answer(c)
  PROVE  Orderly'
  BY NobodyMoves, OverIsOrderly DEF Answer, registry, disk

-----------------------------------------------------------------------------
LEMMA BuildFailsStep ==
  ASSUME Orderly, NEW c \in Clients, BuildFails(c)
  PROVE  Orderly'
  <1> DEFINE h == task[c].host
  <1>1. h \in Hosts /\ host[h].life = "starting" /\ task[c].stage = "building"
    BY DEF BuildFails, Orderly, AllPlaced, Placed, Fits, Holding
  <1>2. Sound(engines, host)' /\ SameBirths(host')
    BY <1>1 DEF BuildFails, Orderly, Sound, Record, Lives, SameBirths
  <1>3. PICK t \in {NoTask, NextGroup(c)} : task' = [task EXCEPT ![c] = t]
    BY DEF BuildFails, Refused
  <1>4. Placed(t, c, host') /\ t.stage # "building"
    BY <1>3, NextIsPlaced, NoTaskIsPlaced
  <1>5. \A d \in Clients \ {c} : task[d].stage = "building" =>
           host'[task[d].host].life = "starting"
    BY <1>1 DEF BuildFails, Orderly, AllPlaced, Placed, Fits, Holding, Apart, Sound
  <1> QED BY <1>2, <1>3, <1>4, <1>5, OneActs DEF BuildFails, disk

\* The governor evicts, or lets the request be sent: reg, hosts and used are the
\* registry it judges, with the engine of the request in it.
LEMMA GovernStep ==
  ASSUME Orderly, NEW c \in Clients, NEW reg, NEW hosts, NEW used, Govern(c, reg, hosts, used),
         Sound(reg, hosts), SameBirths(hosts), Holding(task[c]), Fits(task[c], c, hosts),
         \A d \in Clients \ {c} : task[d].stage = "building" =>
            hosts[task[d].host].life = "starting",
         UNCHANGED <<setting, config, inspectable, loop>>
  PROVE  Orderly'
  <1> DEFINE registered == {reg[r] : r \in Repos} \ {None}
  <1>1. task[c] \in Tasks /\ task[c].repo \in Repos /\ task[c].asOf <= config[task[c].repo]
    BY DEF Orderly, AllPlaced, Placed, Holding
  <1>2. CASE OverBudget(registered)
    <2>1. PICK lru \in registered :
            /\ engines' = Dropped(reg, hosts[lru].repo)
            /\ host' = Disposing(hosts, lru)
            /\ Await(c, lru, "govern")
      BY <1>2 DEF Govern
    <2>2. PICK r \in Repos : reg[r] = lru /\ reg[r] # None
      BY <2>1
    <2>3. lru \in Hosts /\ hosts[lru].repo = r /\ hosts[lru].life = "live"
      BY <2>2 DEF Sound
    <2>4. Sound(engines, host)'
      BY <2>1, <2>2, <2>3, DropKeepsSound
    <2>5. /\ \A h \in Hosts : h # lru => host'[h] = hosts[h]
          /\ host'[lru].life = "disposing" /\ host'[lru].repo = hosts[lru].repo
          /\ host'[lru].fp = hosts[lru].fp /\ host'[lru].verified = hosts[lru].verified
      BY <2>1, <2>3 DEF Disposing, Sound, Record
    <2>6. SameBirths(host')
      BY <2>5 DEF SameBirths
    <2> DEFINE t == [task[c] EXCEPT !.stage = "awaiting", !.waitFor = lru, !.then = "govern"]
    <2>7. t \in Tasks /\ t.stage = "awaiting" /\ t.then = "govern" /\ t.host = task[c].host
          /\ t.repo = task[c].repo /\ t.asOf = task[c].asOf
      BY <1>1, <2>3 DEF Tasks, Stages
    <2>8. Fits(t, c, host')
      BY <2>5, <2>7 DEF Fits
    <2>9. Placed(t, c, host')
      BY <1>1, <2>7, <2>8 DEF Placed
    <2>10. task' = [task EXCEPT ![c] = t]
      BY <2>1 DEF Await
    <2>11. \A d \in Clients \ {c} : task[d].stage = "building" =>
              host'[task[d].host].life = "starting"
      BY <2>3, <2>5 DEF Orderly, AllPlaced, Placed, Fits, Holding
    <2> QED BY <2>4, <2>6, <2>7, <2>9, <2>10, <2>11, OneActs
  <1>3. CASE ~OverBudget(registered)
    <2>1. /\ engines' = reg /\ host' = hosts
          /\ task' = [task EXCEPT ![c].stage = "sent", ![c].waitFor = None, ![c].then = "idle"]
      BY <1>3 DEF Govern
    <2> DEFINE t == [task[c] EXCEPT !.stage = "sent", !.waitFor = None, !.then = "idle"]
    <2>2. t \in Tasks /\ t.stage = "sent" /\ t.then = "idle" /\ t.host = task[c].host
          /\ t.repo = task[c].repo /\ t.asOf = task[c].asOf
      BY <1>1 DEF Tasks, Stages
    <2>3. Placed(t, c, host')
      BY <1>1, <2>1, <2>2 DEF Placed, Fits
    <2>4. task' = [task EXCEPT ![c] = t]
      BY <2>1
    <2> QED BY <2>1, <2>2, <2>3, <2>4, OneActs
  <1> QED BY <1>2, <1>3

LEMMA BuiltStep ==
  ASSUME Orderly, NEW c \in Clients, Built(c)
  PROVE  Orderly'
  <1> DEFINE h == task[c].host
             r == task[c].repo
             reg == [engines EXCEPT ![r] = h]
             hosts == [host EXCEPT ![h].life = "live"]
  <1>1. /\ h \in Hosts /\ r \in Repos /\ host[h].life = "starting" /\ host[h].repo = r
        /\ Holding(task[c]) /\ Fits(task[c], c, host)
    BY DEF Built, Orderly, AllPlaced, Placed, Fits, Holding
  <1>2. Sound(reg, hosts) /\ SameBirths(hosts)
    BY <1>1 DEF Orderly, Sound, Record, Lives, SameBirths
  <1>3. Fits(task[c], c, hosts)
    BY <1>1, <1>2 DEF Fits, SameBirths
  <1>4. \A d \in Clients \ {c} : task[d].stage = "building" =>
           hosts[task[d].host].life = "starting"
    BY <1>1 DEF Built, Orderly, AllPlaced, Placed, Fits, Holding, Apart, Sound
  <1> QED BY <1>1, <1>2, <1>3, <1>4, GovernStep DEF Built, disk

LEMMA KeepGoverningStep ==
  ASSUME Orderly, NEW c \in Clients, KeepGoverning(c)
  PROVE  Orderly'
  <1>1. Holding(task[c]) /\ Fits(task[c], c, host)
    BY DEF KeepGoverning, Awaited, Orderly, AllPlaced, Placed, Holding
  <1>2. \A d \in Clients : task[d].stage = "building" => host[task[d].host].life = "starting"
    BY DEF Orderly, AllPlaced, Placed
  <1>3. Sound(engines, host) /\ SameBirths(host)
    BY DEF Orderly, SameBirths
  <1> QED BY <1>1, <1>2, <1>3, GovernStep DEF KeepGoverning, disk

-----------------------------------------------------------------------------
LEMMA HostGoneStep ==
  ASSUME Orderly, NEW h \in Hosts, HostGone(h)
  PROVE  Orderly'
  <1>1. Sound(engines, host)' /\ SameBirths(host') /\ StartsGoOn(host')
    BY DEF HostGone, Alive, EvictIfCurrent, Orderly, Sound, Record, Lives, SameBirths, StartsGoOn
  <1> QED BY <1>1, OthersAct DEF HostGone, disk, Orderly, World

\* A loop that goes on with a new state of its own.
LEMMA LoopMoves ==
  ASSUME Orderly, NEW k \in Loops, NEW l \in Rounds, loop' = [loop EXCEPT ![k] = l],
         Sound(engines, host)', SameBirths(host'), StartsGoOn(host'),
         UNCHANGED <<task, setting, config, inspectable>>
  PROVE  Orderly'
  <1>1. World' /\ \A r \in Repos : config'[r] >= config[r]
    BY DEF Orderly, World
  <1> QED BY <1>1, OthersAct

LEMMA SlotsAreHosts ==
  ASSUME Orderly
  PROVE  [Resting EXCEPT !.stage = "on", !.left = Slots] \in Rounds
  <1>1. Slots \in SUBSET (Repos \X Hosts)
    BY DEF Slots, Orderly, Sound
  <1> QED BY <1>1 DEF Resting, Rounds

LEMMA VisitStep ==
  ASSUME Orderly, NEW k \in Loops, Visit(k)
  PROVE  Orderly'
  <1>1. loop[k] \in Rounds
    BY DEF Orderly, World
  <1>2. PICK slot \in loop[k].left :
          LET r == slot[1]  h == slot[2]
              ahead == [loop[k] EXCEPT !.left = @ \ {slot}]
          IN  IF Condemned(k, r, h)
              THEN Evict(r) /\ loop' = [loop EXCEPT ![k] = [ahead EXCEPT !.waitFor = engines[r]]]
              ELSE UNCHANGED registry /\ loop' = [loop EXCEPT ![k] = ahead]
    BY DEF Visit
  <1> DEFINE r == slot[1]
             ahead == [loop[k] EXCEPT !.left = @ \ {slot}]
  <1>3. r \in Repos /\ ahead \in Rounds
    BY <1>1, <1>2 DEF Rounds
  <1>4. CASE Condemned(k, r, slot[2])
    <2>1. Evict(r) /\ loop' = [loop EXCEPT ![k] = [ahead EXCEPT !.waitFor = engines[r]]]
      BY <1>2, <1>4
    <2>2. engines[r] \in Hosts \cup {None}
      BY <1>3 DEF Orderly, Sound
    <2>3. [ahead EXCEPT !.waitFor = engines[r]] \in Rounds
      BY <1>3, <2>2 DEF Rounds
    <2> QED BY <1>3, <2>1, <2>3, EvictIsSafe, LoopMoves DEF Visit, disk
  <1>5. CASE ~Condemned(k, r, slot[2])
    BY <1>2, <1>3, <1>5, NobodyMoves, LoopMoves DEF Visit, disk, registry
  <1> QED BY <1>4, <1>5

LEMMA LoopStep ==
  ASSUME Orderly, NEW k \in Loops, Sweeping(k)
  PROVE  Orderly'
  <1>1. loop[k] \in Rounds
    BY DEF Orderly, World
  <1>2. CASE VisitOver(k)
    <2>1. [loop[k] EXCEPT !.waitFor = None] \in Rounds
      BY <1>1 DEF Rounds
    <2> QED BY <1>2, <2>1, NobodyMoves, LoopMoves DEF VisitOver, disk, registry
  <1>3. CASE LoopEnds(k)
    <2>1. (IF k = "sweep" THEN AfterSweep ELSE [Resting EXCEPT !.stage = "off"]) \in Rounds
      BY DEF Rounds, AfterSweep, Resting
    <2> QED BY <1>3, <2>1, NobodyMoves, LoopMoves DEF LoopEnds, disk, registry
  <1> QED BY <1>2, <1>3, VisitStep DEF Sweeping

LEMMA LoopsStart ==
  ASSUME Orderly, StartSweep \/ Dispose
  PROVE  Orderly'
  BY SlotsAreHosts, NobodyMoves, LoopMoves DEF StartSweep, Dispose, Loops, disk, registry

LEMMA DaemonExitsStep ==
  ASSUME Orderly, DaemonExits
  PROVE  Orderly'
  <1>1. Sound(engines, host)'
    <2>1. Unborn \in Record
      BY DEF Unborn, Record, Lives
    <2>2. ASSUME NEW h \in Hosts PROVE host'[h] \in Record
      <3>1. host[h] \in Record /\ [host[h] EXCEPT !.life = "gone"] \in Record
        BY DEF Orderly, Sound, Record, Lives
      <3>2. host'[h] = Unborn \/ host'[h] = [host[h] EXCEPT !.life = "gone"]
        BY DEF DaemonExits
      <3> QED BY <2>1, <3>1, <3>2
    <2> QED BY <2>2 DEF DaemonExits, Sound
  <1>2. World'
    BY DEF DaemonExits, Orderly, World, disk
  <1>3. AllPlaced' /\ Apart'
    <2>1. \A c \in Clients : task'[c] = NoTask
      BY DEF DaemonExits
    <2>2. \A c \in Clients : Placed(task[c], c, host)'
      BY <2>1, NoTaskIsPlaced DEF Placed, Holding
    <2> QED BY <2>1, <2>2, NoTaskIsPlaced DEF AllPlaced, Apart
  <1> QED BY <1>1, <1>2, <1>3 DEF Orderly

LEMMA WorldMoves ==
  ASSUME Orderly, NEW r \in Repos,
         EditConfig(r) \/ RootVanishes(r) \/ BecomesInspectable(r)
  PROVE  Orderly'
  <1>1. World' /\ \A q \in Repos : config'[q] >= config[q]
    <2>1. CASE EditConfig(r)
      BY <2>1 DEF EditConfig, Orderly, World
    <2>2. CASE RootVanishes(r)
      BY <2>2 DEF RootVanishes, Orderly, World
    <2>3. CASE BecomesInspectable(r)
      <3>1. inspectable' \in [Repos -> BOOLEAN]
        BY <2>3 DEF BecomesInspectable, Orderly, World
      <3> QED BY <2>3, <3>1 DEF BecomesInspectable, Orderly, World
    <2> QED BY <2>1, <2>2, <2>3
  <1>2. UNCHANGED <<engines, host, task, setting>>
    BY DEF EditConfig, RootVanishes, BecomesInspectable, registry
  <1> QED BY <1>1, <1>2, NobodyMoves, OthersAct

LEMMA StutterStep ==
  ASSUME Orderly, UNCHANGED <<engines, host, task, loop, disk, setting>>
  PROVE  Orderly'
  <1>1. World' /\ \A q \in Repos : config'[q] >= config[q]
    BY DEF Orderly, World, disk
  <1> QED BY <1>1, NobodyMoves, OthersAct

LEMMA OrderlyStep ==
  ASSUME Orderly, [Next]_vars
  PROVE  Orderly'
  <1>1. ASSUME NEW c \in Clients, Request(c) PROVE Orderly'
    BY <1>1, EnterVanishedStep, EnterWarmStep, GateStep, EnterDriftedStep, EnterColdStep,
       RefuseStep, BuildFailsStep, BuiltStep, KeepGoverningStep, AnswerStep DEF Request
  <1>2. ASSUME NEW h \in Hosts, HostDisposed(h) \/ HostCrashes(h) \/ TtlPasses(h)
        PROVE  Orderly'
    BY <1>2, HostGoneStep, StutterStep DEF HostDisposed, HostCrashes, TtlPasses
  <1>3. CASE UNCHANGED vars
    BY <1>3, StutterStep DEF vars, registry
  <1> QED BY <1>1, <1>2, <1>3, AskStep, LoopStep, LoopsStart, DaemonExitsStep, WorldMoves DEF Next

THEOREM AlwaysOrderly == Spec => []Orderly
  BY OrderlyInit, OrderlyStep, PTL DEF Spec

-----------------------------------------------------------------------------
\* A request that is served holds an engine of its own repository, spawned from a
\* configuration no older than the one it came in under: the engine may have been
\* evicted since, never replaced under the request.
THEOREM ServedAsConfigured == Spec => []ServedByCurrentConfig
  <1>1. Orderly => ServedByCurrentConfig
    BY DEF Orderly, AllPlaced, Placed, Holding, Fits, ServedByCurrentConfig
  <1> QED BY <1>1, AlwaysOrderly, PTL

\* No operation that needs a TypeScript project reaches an engine that was not
\* verified to have one, though the gate is judged before the request waits.
THEOREM TheGateHolds == Spec => []GateHolds
  <1>1. Orderly => GateHolds
    BY DEF Orderly, AllPlaced, Placed, Holding, Fits, GateHolds
  <1> QED BY <1>1, AlwaysOrderly, PTL

\* What the registry names is alive, whichever order exits, the sweep, the
\* governor and respawns come in.
THEOREM TheRegistryIsLive == Spec => []RegisteredIsLive
  <1>1. Orderly => RegisteredIsLive
    BY DEF Orderly, Sound, RegisteredIsLive, Registered
  <1> QED BY <1>1, AlwaysOrderly, PTL

-----------------------------------------------------------------------------
\* The budget: a step that registers nothing new, and leaves a governing request
\* to it, keeps within it.
LEMMA FewerIsWithin ==
  ASSUME Orderly, Orderly', WithinBudget, Registered' \subseteq Registered,
         \A c \in Clients : task[c].then = "govern" => task'[c].then = "govern"
  PROVE  WithinBudget'
  <1>1. Registered \subseteq Hosts /\ IsFiniteSet(Hosts)
    BY FS_Interval, OrchestratorAssumption DEF Orderly, Sound, Registered, Hosts
  <1>2. IsFiniteSet(Registered)
    BY <1>1, FS_Subset
  <1>3. IsFiniteSet(Registered') /\ Cardinality(Registered') <= Cardinality(Registered)
    BY <1>2, FS_Subset
  <1>4. Cardinality(Registered') \in Nat /\ Cardinality(Registered) \in Nat
    BY <1>2, <1>3, FS_CardinalityType
  <1> QED BY <1>3, <1>4, OrchestratorAssumption DEF WithinBudget

\* The governor's verdict keeps within the budget whatever it was before.
LEMMA GovernIsWithin ==
  ASSUME Orderly, NEW c \in Clients, NEW reg, NEW hosts, NEW used, Govern(c, reg, hosts, used)
  PROVE  WithinBudget'
  <1> DEFINE registered == {reg[r] : r \in Repos} \ {None}
  <1>1. CASE OverBudget(registered)
    <2>1. PICK lru : Await(c, lru, "govern")
      BY <1>1 DEF Govern
    <2>2. task'[c].then = "govern"
      BY <2>1 DEF Await, Orderly, AllPlaced, Placed, Tasks, World
    <2> QED BY <2>2 DEF WithinBudget
  <1>2. CASE ~OverBudget(registered)
    BY <1>2 DEF Govern, OverBudget, WithinBudget, Registered
  <1> QED BY <1>1, <1>2

\* The steps of a request that neither bring an engine up nor govern.
Plain(c) == \/ EnterVanished(c) \/ EnterWarm(c) \/ Gate(c) \/ EnterDrifted(c) \/ EnterCold(c)
            \/ Refuse(c) \/ BuildFails(c) \/ Answer(c) \/ Ask(c)

LEMMA PlainIsOwn ==
  ASSUME Orderly, NEW c \in Clients, Plain(c)
  PROVE  /\ \A d \in Clients \ {c} : task'[d] = task[d]
         /\ task[c].then # "govern"
         /\ Registered' \subseteq Registered
  <1>1. Evict(task[c].repo) => Registered' \subseteq Registered
    BY DEF Evict, Registered, Dropped, Orderly, Sound
  <1>2. UNCHANGED engines => Registered' = Registered
    BY DEF Registered
  <1>3. Placed(task[c], c, host) /\ DOMAIN task = Clients
    BY DEF Orderly, AllPlaced, World
  <1>4. CASE EnterVanished(c)
    BY <1>1, <1>3, <1>4 DEF EnterVanished, Refused, Await, Placed
  <1>5. CASE EnterWarm(c)
    BY <1>2, <1>3, <1>5 DEF EnterWarm, Send, Placed
  <1>6. CASE Gate(c)
    BY <1>1, <1>2, <1>3, <1>6 DEF Gate, Refused, Spawn, Await, Placed, registry
  <1>7. CASE EnterDrifted(c)
    BY <1>1, <1>3, <1>7 DEF EnterDrifted, Await, Placed
  <1>8. CASE EnterCold(c)
    BY <1>2, <1>3, <1>8 DEF EnterCold, Cold, Awaited, Spawn, Refused, Placed
  <1>9. CASE Refuse(c)
    BY <1>2, <1>3, <1>9 DEF Refuse, Cold, Awaited, Refused, Placed, registry
  <1>10. CASE BuildFails(c) \/ Answer(c) \/ Ask(c)
    BY <1>2, <1>3, <1>10 DEF BuildFails, Answer, Ask, Refused, Finish, Placed, registry
  <1> QED BY <1>4, <1>5, <1>6, <1>7, <1>8, <1>9, <1>10 DEF Plain

LEMMA WithinStep ==
  ASSUME Orderly, Orderly', WithinBudget, [Next]_vars
  PROVE  WithinBudget'
  <1>1. ASSUME NEW c \in Clients, Plain(c) PROVE WithinBudget'
    <2>1. \A d \in Clients : task[d].then = "govern" => task'[d].then = "govern"
      BY <1>1, PlainIsOwn
    <2> QED BY <1>1, <2>1, PlainIsOwn, FewerIsWithin
  <1>2. ASSUME NEW c \in Clients, Built(c) \/ KeepGoverning(c) PROVE WithinBudget'
    BY <1>2, GovernIsWithin DEF Built, KeepGoverning
  <1>3. ASSUME UNCHANGED task, Registered' \subseteq Registered PROVE WithinBudget'
    BY <1>3, FewerIsWithin
  <1>4. ASSUME NEW h \in Hosts, HostDisposed(h) \/ HostCrashes(h) \/ TtlPasses(h)
        PROVE  WithinBudget'
    <2>1. UNCHANGED task /\ Registered' \subseteq Registered
      BY <1>4 DEF HostDisposed, HostCrashes, HostGone, TtlPasses, EvictIfCurrent, Registered
    <2> QED BY <1>3, <2>1
  <1>5. ASSUME NEW k \in Loops, Sweeping(k) PROVE WithinBudget'
    <2>1. ASSUME NEW r, Evict(r) PROVE Registered' \subseteq Registered
      BY <2>1 DEF Evict, Dropped, Registered, Orderly, Sound
    <2>2. UNCHANGED engines => Registered' = Registered
      BY DEF Registered
    <2>3. CASE Visit(k)
      <3>1. UNCHANGED task /\ ((\E r : Evict(r)) \/ UNCHANGED engines)
        BY <2>3 DEF Visit, registry
      <3> QED BY <1>3, <2>1, <2>2, <3>1
    <2>4. CASE VisitOver(k) \/ LoopEnds(k)
      BY <1>3, <2>2, <2>4 DEF VisitOver, LoopEnds, registry
    <2> QED BY <1>5, <2>3, <2>4 DEF Sweeping
  <1>6. CASE DaemonExits
    <2>1. Registered' = {}
      BY <1>6 DEF DaemonExits, Registered
    <2> QED BY <2>1, FS_EmptySet, OrchestratorAssumption DEF WithinBudget
  <1>7. CASE StartSweep \/ Dispose \/ UNCHANGED vars
             \/ \E r \in Repos : EditConfig(r) \/ RootVanishes(r) \/ BecomesInspectable(r)
    <2>1. UNCHANGED <<task, engines>>
      BY <1>7 DEF StartSweep, Dispose, vars, EditConfig, RootVanishes, BecomesInspectable, registry
    <2> QED BY <1>3, <2>1 DEF Registered
  <1> QED BY <1>1, <1>2, <1>4, <1>5, <1>6, <1>7 DEF Next, Request, Plain

\* More engines than the budget are registered only while a request that brought
\* one up is evicting, however many requests bring engines up at a time.
THEOREM TheBudgetHolds == Spec => []WithinBudget
  <1>1. Init => WithinBudget
    <2>1. Init => Registered = {}
      BY DEF Init, Registered
    <2> QED BY <2>1, FS_EmptySet, OrchestratorAssumption DEF WithinBudget
  <1> QED BY <1>1, WithinStep, AlwaysOrderly, PTL DEF Spec

-----------------------------------------------------------------------------
(* No engine is lost as long as no two requests want one repository.  The  *)
(* slot that an engine takes is empty, because nobody else could have      *)
(* filled it since the request emptied it or found it so (Vacant).         *)

\* The repositories that a request is about, now and later.
Wanted(t) == IF t.stage = "idle" THEN {} ELSE {t.repo} \cup ToSet(t.rest)
Exclusive == \A c, d \in Clients : c # d => Wanted(task[c]) \cap Wanted(task[d]) = {}

Spawning(t) == t.stage = "building" \/ (t.stage = "awaiting" /\ t.then = "spawn")
Vacant == \A c \in Clients : Spawning(task[c]) => engines[task[c].repo] = None

KeptBy(reg, hosts) == \A h \in Hosts : hosts[h].life = "live" => \E r \in Repos : reg[r] = h

Tidy == ~setting.shared => Exclusive /\ Vacant /\ KeptBy(engines, host)

\* A registry that only loses engines that are no longer live.
Loses(reg, hosts, reg2, hosts2) ==
    /\ \A r \in Repos : reg2[r] # reg[r] => reg2[r] = None /\ hosts2[reg[r]].life # "live"
    /\ \A h \in Hosts : hosts2[h].life = "live" => hosts[h].life = "live"

LEMMA KeptWhileLosing ==
  ASSUME NEW reg, NEW hosts, NEW reg2, NEW hosts2, KeptBy(reg, hosts),
         Loses(reg, hosts, reg2, hosts2)
  PROVE  KeptBy(reg2, hosts2)
  BY DEF KeptBy, Loses

LEMMA EvictLoses ==
  ASSUME Orderly, NEW r \in Repos, Evict(r)
  PROVE  Loses(engines, host, engines', host') /\ engines'[r] = None
  <1>1. CASE engines[r] = None
    BY <1>1 DEF Evict, Dropped, Loses, Orderly, Sound
  <1>2. CASE engines[r] # None
    BY <1>2 DEF Evict, Dropped, Disposing, Loses, Orderly, Sound, Record
  <1> QED BY <1>1, <1>2

LEMMA NothingIsLost ==
  ASSUME UNCHANGED <<engines, host>>
  PROVE  Loses(engines, host, engines', host')
  BY DEF Loses

\* The groups that are left are among those that were asked for.
LEMMA RestIsWanted ==
  ASSUME NEW s \in Seq(Repos), s # <<>>
  PROVE  Head(s) \in ToSet(s) /\ ToSet(Tail(s)) \subseteq ToSet(s)
  <1>1. Head(s) \in ToSet(s)
    BY DEF ToSet
  <1>2. ASSUME NEW x \in ToSet(Tail(s)) PROVE x \in ToSet(s)
    <2>1. PICK i \in DOMAIN Tail(s) : x = Tail(s)[i]
      BY DEF ToSet
    <2>2. i + 1 \in DOMAIN s /\ x = s[i + 1]
      BY <2>1
    <2> QED BY <2>2 DEF ToSet
  <1> QED BY <1>1, <1>2

LEMMA GroupWants ==
  ASSUME Orderly, NEW repos \in Seq(Repos), repos # <<>>, NEW sql \in BOOLEAN
  PROVE  Wanted(Group(repos, sql)) \subseteq ToSet(repos) /\ ~Spawning(Group(repos, sql))
  <1>1. Group(repos, sql).repo = Head(repos) /\ Group(repos, sql).rest = Tail(repos)
        /\ Group(repos, sql).stage = "enter"
    BY DEF Group, NoTask
  <1> QED BY <1>1, RestIsWanted DEF Wanted, Spawning

LEMMA NextWants ==
  ASSUME Orderly, NEW c \in Clients, NEW t \in {NoTask, NextGroup(c)}, task[c].stage # "idle"
  PROVE  Wanted(t) \subseteq Wanted(task[c]) /\ ~Spawning(t)
  <1>1. task[c].rest \in Seq(Repos) /\ task[c].sql \in BOOLEAN
    BY DEF Orderly, AllPlaced, Placed, Tasks
  <1>2. Wanted(NoTask) = {} /\ ~Spawning(NoTask)
    BY NoTaskIsPlaced DEF Wanted, Spawning
  <1>3. CASE t = Group(task[c].rest, task[c].sql) /\ task[c].rest # <<>>
    <2>1. Wanted(t) \subseteq ToSet(task[c].rest) /\ ~Spawning(t)
      BY <1>1, <1>3, GroupWants
    <2> QED BY <2>1 DEF Wanted
  <1> QED BY <1>2, <1>3 DEF NextGroup

\* A step of one request keeps the order, if it wants no more than before and empties
\* the slot of what it is about to spawn.
LEMMA OneStepsTidily ==
  ASSUME Orderly, Tidy, NEW c \in Clients, UNCHANGED setting,
         Loses(engines, host, engines', host'),
         \A d \in Clients \ {c} : task'[d] = task[d],
         Wanted(task'[c]) \subseteq Wanted(task[c]),
         ~setting.shared /\ Spawning(task'[c]) => engines'[task'[c].repo] = None
  PROVE  Tidy'
  <1> SUFFICES ASSUME ~setting.shared PROVE Exclusive' /\ Vacant' /\ KeptBy(engines, host)'
    BY DEF Tidy
  <1>1. Exclusive'
    BY DEF Tidy, Exclusive
  <1>2. \A d \in Clients : Spawning(task[d]) => task[d].repo \in Repos
    BY DEF Spawning, Orderly, AllPlaced, Placed
  <1>3. Vacant'
    BY <1>2 DEF Tidy, Vacant, Loses
  <1>4. KeptBy(engines, host)'
    BY KeptWhileLosing DEF Tidy, KeptBy
  <1> QED BY <1>1, <1>3, <1>4

LEMMA OverIsTidy ==
  ASSUME Orderly, Tidy, NEW c \in Clients, Finish(c) \/ Refused(c), task[c].stage # "idle",
         UNCHANGED setting, Loses(engines, host, engines', host')
  PROVE  Tidy'
  <1>1. PICK t \in {NoTask, NextGroup(c)} : task' = [task EXCEPT ![c] = t]
    BY DEF Finish, Refused
  <1>2. Wanted(t) \subseteq Wanted(task[c]) /\ ~Spawning(t)
    BY <1>1, NextWants
  <1>3. task'[c] = t /\ \A d \in Clients \ {c} : task'[d] = task[d]
    BY <1>1 DEF Orderly, World
  <1> QED BY <1>2, <1>3, OneStepsTidily

\* A request that goes on with the same repositories.
LEMMA SameWants ==
  ASSUME NEW c \in Clients, task[c].stage # "idle", task'[c].repo = task[c].repo,
         task'[c].rest = task[c].rest
  PROVE  Wanted(task'[c]) \subseteq Wanted(task[c])
  BY DEF Wanted

LEMMA WaitIsTidy ==
  ASSUME Orderly, Tidy, NEW c \in Clients, NEW r \in Repos, r = task[c].repo, Evict(r), NEW h,
         NEW next, Await(c, h, next), task[c].stage # "idle", UNCHANGED setting
  PROVE  Tidy'
  <1>1. task[c] \in Tasks /\ DOMAIN task = Clients
    BY DEF Orderly, AllPlaced, Placed, World
  <1>2. /\ task'[c].repo = task[c].repo /\ task'[c].rest = task[c].rest
        /\ \A d \in Clients \ {c} : task'[d] = task[d]
    BY <1>1 DEF Await, Tasks
  <1> QED BY <1>2, SameWants, EvictLoses, OneStepsTidily

LEMMA SpawnIsTidy ==
  ASSUME Orderly, Tidy, NEW c \in Clients, Spawn(c), task[c].stage # "idle", UNCHANGED setting,
         ~setting.shared => engines[task[c].repo] = None
  PROVE  Tidy'
  <1> DEFINE r == task[c].repo
  <1>1. task[c] \in Tasks /\ DOMAIN task = Clients /\ UNCHANGED engines
    BY DEF Orderly, AllPlaced, Placed, World, Spawn
  <1>2. CASE ~inspectable[r] /\ c \notin Independent
    BY <1>2, NothingIsLost, OverIsTidy DEF Spawn
  <1>3. CASE inspectable[r] \/ c \in Independent
    <2>1. PICK h \in Hosts :
            /\ host' = [host EXCEPT ![h] = [life |-> "starting", repo |-> r, fp |-> config[r],
                                            verified |-> inspectable[r]]]
            /\ task' = [task EXCEPT ![c].stage = "building", ![c].host = h,
                                    ![c].waitFor = None, ![c].then = "idle"]
      BY <1>3 DEF Spawn
    <2>2. Loses(engines, host, engines', host')
      BY <1>1, <2>1 DEF Loses, Orderly, Sound
    <2>3. /\ task'[c].repo = r /\ task'[c].rest = task[c].rest
          /\ \A d \in Clients \ {c} : task'[d] = task[d]
      BY <1>1, <2>1 DEF Tasks
    <2> QED BY <1>1, <2>2, <2>3, SameWants, OneStepsTidily
  <1> QED BY <1>2, <1>3

LEMMA PlainIsTidy ==
  ASSUME Orderly, Tidy, NEW c \in Clients, Plain(c), ~Ask(c)
  PROVE  Tidy'
  <1>1. /\ Placed(task[c], c, host) /\ task[c] \in Tasks /\ DOMAIN task = Clients
        /\ task[c].stage # "idle" => task[c].repo \in Repos
    BY DEF Orderly, AllPlaced, Placed, World
  <1>2. CASE EnterVanished(c)
    BY <1>1, <1>2, EvictLoses, OverIsTidy, WaitIsTidy DEF EnterVanished
  <1>3. CASE EnterWarm(c)
    <2>1. /\ task'[c].repo = task[c].repo /\ task'[c].rest = task[c].rest
          /\ task'[c].stage \in {"sent", "gating"} /\ task[c].stage = "enter"
          /\ \A d \in Clients \ {c} : task'[d] = task[d]
          /\ UNCHANGED <<engines, host, setting>>
      BY <1>1, <1>3 DEF EnterWarm, Send, Tasks
    <2> QED BY <2>1, SameWants, NothingIsLost, OneStepsTidily DEF Spawning
  <1>4. CASE Gate(c)
    <2>1. task[c].stage = "gating" /\ UNCHANGED setting
      BY <1>4 DEF Gate
    <2>2. CASE ~inspectable[task[c].repo]
      BY <1>4, <2>1, <2>2, NothingIsLost, OverIsTidy DEF Gate, registry
    <2>3. CASE inspectable[task[c].repo] /\ engines[task[c].repo] = None
      BY <1>4, <2>1, <2>3, SpawnIsTidy DEF Gate
    <2>4. CASE inspectable[task[c].repo] /\ engines[task[c].repo] # None
      BY <1>1, <1>4, <2>1, <2>4, WaitIsTidy DEF Gate
    <2> QED BY <2>2, <2>3, <2>4
  <1>5. CASE EnterDrifted(c)
    BY <1>1, <1>5, WaitIsTidy DEF EnterDrifted
  <1>6. CASE EnterCold(c)
    <2>1. task[c].stage # "idle" /\ UNCHANGED setting /\ Spawn(c)
      BY <1>6 DEF EnterCold, Cold, Awaited
    <2>2. ~setting.shared => engines[task[c].repo] = None
      BY <1>6 DEF EnterCold, Cold, Awaited, Tidy, Vacant, Spawning
    <2> QED BY <2>1, <2>2, SpawnIsTidy
  <1>7. CASE Refuse(c) \/ Answer(c)
    <2>1. task[c].stage # "idle" /\ UNCHANGED <<engines, host, setting>> /\ (Finish(c) \/ Refused(c))
      BY <1>7 DEF Refuse, Answer, Cold, Awaited, registry
    <2> QED BY <2>1, NothingIsLost, OverIsTidy
  <1>8. CASE BuildFails(c)
    <2>1. Loses(engines, host, engines', host')
      BY <1>8 DEF BuildFails, Loses, Orderly, Sound, Record
    <2> QED BY <1>8, <2>1, OverIsTidy DEF BuildFails
  <1> QED BY <1>2, <1>3, <1>4, <1>5, <1>6, <1>7, <1>8 DEF Plain

LEMMA AskIsTidy ==
  ASSUME Orderly, Tidy, NEW c \in Clients, Ask(c)
  PROVE  Tidy'
  <1> SUFFICES ASSUME ~setting.shared PROVE Exclusive' /\ Vacant' /\ KeptBy(engines, host)'
    BY DEF Tidy, Ask
  <1>1. PICK repos \in Routes, sql \in BOOLEAN :
          /\ \A r \in ToSet(repos) : Free(r)
          /\ task' = [task EXCEPT ![c] = Group(repos, sql)]
    BY DEF Ask
  <1>2. repos \in Seq(Repos) /\ repos # <<>>
    <2>1. setting.asks \subseteq Repos
      BY OrchestratorAssumption DEF Orderly, World
    <2>2. CASE \E r \in setting.asks : repos = <<r>>
      BY <2>1, <2>2
    <2>3. CASE \E r, q \in setting.asks : repos = <<r, q>>
      BY <2>1, <2>3
    <2> QED BY <2>2, <2>3 DEF Routes
  <1>3. Wanted(Group(repos, sql)) \subseteq ToSet(repos) /\ ~Spawning(Group(repos, sql))
    BY <1>2, GroupWants
  <1>4. \A r \in ToSet(repos), d \in Clients : r \notin Wanted(task[d])
    BY <1>1 DEF Free, Wanted
  <1>5. task'[c] = Group(repos, sql) /\ \A d \in Clients \ {c} : task'[d] = task[d]
    BY <1>1 DEF Orderly, World
  <1>6. UNCHANGED <<engines, host>>
    BY DEF Ask, registry
  <1>7. Exclusive'
    BY <1>3, <1>4, <1>5 DEF Tidy, Exclusive
  <1>8. Vacant' /\ KeptBy(engines, host)'
    BY <1>3, <1>5, <1>6 DEF Tidy, Vacant, KeptBy
  <1> QED BY <1>7, <1>8

\* The governor: from a registry that has lost nothing to one that has lost nothing.
LEMMA GovernIsTidy ==
  ASSUME Orderly, NEW c \in Clients, NEW reg, NEW hosts, NEW used, Govern(c, reg, hosts, used),
         Sound(reg, hosts), task[c].stage # "idle"
  PROVE  /\ Loses(reg, hosts, engines', host')
         /\ \A d \in Clients \ {c} : task'[d] = task[d]
         /\ Wanted(task'[c]) \subseteq Wanted(task[c]) /\ ~Spawning(task'[c])
  <1> DEFINE registered == {reg[r] : r \in Repos} \ {None}
  <1>1. task[c] \in Tasks /\ DOMAIN task = Clients
    BY DEF Orderly, AllPlaced, Placed, World
  <1>2. CASE OverBudget(registered)
    <2>1. PICK lru \in registered : /\ engines' = Dropped(reg, hosts[lru].repo)
                                    /\ host' = Disposing(hosts, lru)
                                    /\ Await(c, lru, "govern")
      BY <1>2 DEF Govern
    <2>2. PICK r \in Repos : reg[r] = lru
      BY <2>1
    <2>3. Loses(reg, hosts, engines', host')
      BY <2>1, <2>2 DEF Loses, Dropped, Disposing, Sound, Record
    <2>4. /\ task'[c].repo = task[c].repo /\ task'[c].rest = task[c].rest
          /\ task'[c].stage = "awaiting" /\ task'[c].then = "govern"
          /\ \A d \in Clients \ {c} : task'[d] = task[d]
      BY <1>1, <2>1 DEF Await, Tasks
    <2> QED BY <2>3, <2>4, SameWants DEF Spawning
  <1>3. CASE ~OverBudget(registered)
    <2>1. /\ engines' = reg /\ host' = hosts
          /\ task' = [task EXCEPT ![c].stage = "sent", ![c].waitFor = None, ![c].then = "idle"]
      BY <1>3 DEF Govern
    <2>2. /\ task'[c].repo = task[c].repo /\ task'[c].rest = task[c].rest
          /\ task'[c].stage = "sent" /\ \A d \in Clients \ {c} : task'[d] = task[d]
      BY <1>1, <2>1 DEF Tasks
    <2>3. Loses(reg, hosts, engines', host')
      BY <2>1 DEF Loses
    <2> QED BY <2>2, <2>3, SameWants DEF Spawning
  <1> QED BY <1>2, <1>3

LEMMA BuiltIsTidy ==
  ASSUME Orderly, Tidy, NEW c \in Clients, Built(c)
  PROVE  Tidy'
  <1> DEFINE h == task[c].host
             r == task[c].repo
             reg == [engines EXCEPT ![r] = h]
             hosts == [host EXCEPT ![h].life = "live"]
  <1>1. /\ h \in Hosts /\ r \in Repos /\ host[h].life = "starting" /\ host[h].repo = r
        /\ task[c].stage = "building" /\ Govern(c, reg, hosts, Used(h)) /\ UNCHANGED setting
    BY DEF Built, Orderly, AllPlaced, Placed, Fits, Holding
  <1>2. Sound(reg, hosts)
    BY <1>1 DEF Orderly, Sound, Record, Lives
  <1>3. /\ Loses(reg, hosts, engines', host')
        /\ \A d \in Clients \ {c} : task'[d] = task[d]
        /\ Wanted(task'[c]) \subseteq Wanted(task[c]) /\ ~Spawning(task'[c])
    BY <1>1, <1>2, GovernIsTidy
  <1> SUFFICES ASSUME ~setting.shared PROVE Exclusive' /\ Vacant' /\ KeptBy(engines, host)'
    BY <1>1 DEF Tidy
  <1>4. Exclusive'
    BY <1>3 DEF Tidy, Exclusive
  <1>5. engines[r] = None
    BY <1>1 DEF Tidy, Vacant, Spawning
  <1>6. KeptBy(reg, hosts)
    <2> SUFFICES ASSUME NEW g \in Hosts, hosts[g].life = "live"
                 PROVE  \E q \in Repos : reg[q] = g
      BY DEF KeptBy
    <2>1. CASE g = h
      BY <1>1, <2>1 DEF Orderly, Sound
    <2>2. CASE g # h
      <3>1. PICK q \in Repos : engines[q] = g
        BY <1>1, <2>2 DEF Tidy, KeptBy, Orderly, Sound
      <3>2. q # r
        BY <1>5, <3>1, OrchestratorAssumption DEF Hosts
      <3> QED BY <3>1, <3>2 DEF Orderly, Sound
    <2> QED BY <2>1, <2>2
  <1>7. KeptBy(engines', host')
    BY <1>3, <1>6, KeptWhileLosing
  <1>8. Vacant'
    <2> SUFFICES ASSUME NEW d \in Clients, Spawning(task'[d]) PROVE engines'[task'[d].repo] = None
      BY DEF Vacant
    <2>1. d # c /\ task'[d] = task[d] /\ task[d].stage # "idle" /\ task[d].repo \in Repos
      BY <1>3 DEF Spawning, Orderly, AllPlaced, Placed
    <2>2. task[d].repo # r
      BY <1>1, <2>1 DEF Tidy, Exclusive, Wanted
    <2>3. reg[task[d].repo] = None
      BY <2>1, <2>2 DEF Tidy, Vacant, Orderly, Sound
    <2> QED BY <1>3, <2>1, <2>3 DEF Loses
  <1> QED BY <1>4, <1>7, <1>8 DEF KeptBy

LEMMA KeepGoverningIsTidy ==
  ASSUME Orderly, Tidy, NEW c \in Clients, KeepGoverning(c)
  PROVE  Tidy'
  <1>1. task[c].stage # "idle" /\ Govern(c, engines, host, recency) /\ UNCHANGED setting
    BY DEF KeepGoverning, Awaited
  <1> QED BY <1>1, GovernIsTidy, OneStepsTidily DEF Orderly

\* What no request takes part in.
LEMMA OthersStepTidily ==
  ASSUME Orderly, Tidy, UNCHANGED <<task, setting>>, Loses(engines, host, engines', host')
  PROVE  Tidy'
  <1>1. \A d \in Clients : Spawning(task[d]) => task[d].repo \in Repos
    BY DEF Spawning, Orderly, AllPlaced, Placed
  <1>2. KeptBy(engines, host) => KeptBy(engines', host')
    BY KeptWhileLosing
  <1> QED BY <1>1, <1>2 DEF Tidy, Exclusive, Vacant, Loses, KeptBy

LEMMA TidyStep ==
  ASSUME Orderly, Tidy, [Next]_vars
  PROVE  Tidy'
  <1>1. ASSUME NEW h \in Hosts, HostDisposed(h) \/ HostCrashes(h) \/ TtlPasses(h)
        PROVE  Tidy'
    <2>1. CASE HostGone(h)
      <3>1. Loses(engines, host, engines', host')
        BY <2>1 DEF HostGone, EvictIfCurrent, Loses, Orderly, Sound, Record
      <3> QED BY <2>1, <3>1, OthersStepTidily DEF HostGone
    <2>2. CASE TtlPasses(h)
      BY <2>2, NothingIsLost, OthersStepTidily DEF TtlPasses
    <2> QED BY <1>1, <2>1, <2>2 DEF HostDisposed, HostCrashes
  <1>2. ASSUME NEW k \in Loops, Sweeping(k) PROVE Tidy'
    <2>1. UNCHANGED <<task, setting>>
      BY <1>2 DEF Sweeping, Visit, VisitOver, LoopEnds
    <2>2. CASE Visit(k)
      <3>1. (\E r \in Repos : Evict(r)) \/ UNCHANGED <<engines, host>>
        <4>1. \A slot \in loop[k].left : slot[1] \in Repos
          BY DEF Orderly, World, Rounds
        <4> QED BY <2>2, <4>1 DEF Visit, registry
      <3> QED BY <2>1, <3>1, EvictLoses, NothingIsLost, OthersStepTidily
    <2>3. CASE VisitOver(k) \/ LoopEnds(k)
      BY <2>1, <2>3, NothingIsLost, OthersStepTidily DEF VisitOver, LoopEnds, registry
    <2> QED BY <1>2, <2>2, <2>3 DEF Sweeping
  <1>3. CASE DaemonExits
    <2>1. /\ \A c \in Clients : Wanted(task'[c]) = {} /\ ~Spawning(task'[c])
          /\ UNCHANGED setting
      BY <1>3, NoTaskIsPlaced DEF DaemonExits, Wanted, Spawning
    <2>2. \A h \in Hosts : host'[h].life # "live"
      BY <1>3 DEF DaemonExits, Unborn, Orderly, Sound, Record
    <2> QED BY <2>1, <2>2 DEF Tidy, Exclusive, Vacant, KeptBy
  <1>4. CASE StartSweep \/ Dispose \/ UNCHANGED vars
             \/ \E r \in Repos : EditConfig(r) \/ RootVanishes(r) \/ BecomesInspectable(r)
    <2>1. UNCHANGED <<task, setting, engines, host>>
      BY <1>4 DEF StartSweep, Dispose, vars, EditConfig, RootVanishes, BecomesInspectable, registry
    <2> QED BY <2>1, NothingIsLost, OthersStepTidily
  <1> QED BY <1>1, <1>2, <1>3, <1>4, AskIsTidy, PlainIsTidy, BuiltIsTidy, KeepGoverningIsTidy
      DEF Next, Request, Plain

\* As long as no two requests ask about one repository at a time, a live engine is in
\* the registry, where the idle TTL, the path check, the governor and the disposal
\* find it.
THEOREM NoEngineIsLost == Spec => []NoOrphanEngine
  <1>1. Init => Tidy
    <2> SUFFICES ASSUME Init PROVE Tidy
      OBVIOUS
    <2>1. \A c \in Clients : Wanted(task[c]) = {} /\ ~Spawning(task[c])
      BY NoTaskIsPlaced DEF Init, Wanted, Spawning
    <2> QED BY <2>1 DEF Init, Tidy, Exclusive, Vacant, KeptBy, Unborn
  <1>2. Orderly /\ Tidy => NoOrphanEngine
    BY OrchestratorAssumption DEF Tidy, KeptBy, NoOrphanEngine, Registered, Hosts
  <1> QED BY <1>1, <1>2, TidyStep, AlwaysOrderly, PTL DEF Spec
=============================================================================
