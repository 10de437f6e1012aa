-------------------------- MODULE ProcessHost_proofs --------------------------
(***************************************************************************)
(* Theorems about ProcessHost, for every bound on the number of calls.     *)
(*                                                                         *)
(* The inductive invariant Ledger adds to the types                        *)
(*   - Accounts: which ids are waiting, which are disposals, and that an   *)
(*     id has an answer exactly when it is a call that is done;            *)
(*   - the timers: whatever waits has one (WaitIsBounded), and none that   *)
(*     could kill is left of a call that is over (NoStaleKill);            *)
(*   - DeadHoldsNothing: only a dead host resolves disposals, and all;     *)
(*   - KillIsOut: a belt runs only for a child that is gone or about to be *)
(*     killed, and an exit event comes only from a child that is gone.     *)
(***************************************************************************)
EXTENDS ProcessHost, TLAPS

Done == Calls \ pending

Accounts ==
  /\ pending \cap Disposals = {}
  /\ pending \cup Disposals \subseteq 1..(nextId - 1)
  /\ \A id \in Ids : settles[id] = IF id \in Done THEN 1 ELSE 0
  /\ \A id \in Ids : (answer[id] # "none") <=> (id \in Done)

NoStaleKill == armed \subseteq pending /\ disposeTimers \subseteq Disposals

DeadHoldsNothing ==
  /\ dead => pending = {} /\ waiters = {} /\ armed = {}
  /\ resolved # {} => dead

KillIsOut ==
  /\ belts # {} => child = "gone" \/ killed
  /\ exitEvent # "none" => child = "gone"

Ledger ==
  /\ TypeOK
  /\ Accounts
  /\ WaitIsBounded
  /\ NoStaleKill
  /\ DeadHoldsNothing
  /\ KillIsOut
  /\ NoAbandonedChild

-----------------------------------------------------------------------------
(* Types.                                                                  *)

(* The members of the two channels.                                        *)
LEMMA ChannelMembers ==
  /\ [kind |-> "ready"] \in Frames
  /\ [kind |-> "fatal"] \in Frames
  /\ [kind |-> "corrupt"] \in Frames
  /\ \A id \in Ids : [kind |-> "reply", id |-> id] \in Frames
  /\ \A id \in Ids : [id |-> id, kind |-> "call"] \in Envelopes
  /\ \A id \in Ids : [id |-> id, kind |-> "dispose"] \in Envelopes
  /\ \A e \in Envelopes : e.id \in Ids
BY DEF Frames, Envelopes

(* A process that ends leaves well-typed variables, but for its pipe.      *)
LEMMA TerminateTypes ==
  ASSUME NEW cause \in ExitCauses, Terminate(cause), toParent' \in Seq(Frames)
  PROVE  ChildTypeOK'
<1>1. child' \in {"building", "serving", "disposing", "gone"}
  BY DEF Terminate
<1>2. stuck' \in {"no", "loop", "dstate"}
  BY DEF Terminate
<1>3. killed' \in BOOLEAN
  BY DEF Terminate
<1>4. toChild' \in Seq(Envelopes) /\ queue' \in Seq(Ids)
  BY DEF Terminate
<1>5. exitEvent' \in ExitCauses \cup {"none"}
  BY DEF Terminate
<1> QED
  BY <1>1, <1>2, <1>3, <1>4, <1>5 DEF ChildTypeOK

(* A step of the child keeps the channel and the child well typed.         *)
LEMMA ChildKeepsTypes ==
  ASSUME ChildTypeOK, ChildStep
  PROVE  ChildTypeOK'
<1> USE DEF Running
<1>1. CASE ChildReady
  BY <1>1, ChannelMembers DEF ChildReady, ChildTypeOK
<1>2. CASE ChildFatal
  BY <1>2, ChannelMembers, TerminateTypes DEF ChildFatal, ChildTypeOK, ExitCauses
<1>3. CASE ChildTakeCall
  <2>1. Head(toChild) \in Envelopes /\ Tail(toChild) \in Seq(Envelopes)
    BY <1>3 DEF ChildTakeCall, ChildTypeOK
  <2> QED
    BY <1>3, <2>1, ChannelMembers DEF ChildTakeCall, ChildTypeOK
<1>4. CASE ChildTakeDispose
  <2>1. Head(toChild) \in Envelopes /\ Tail(toChild) \in Seq(Envelopes)
    BY <1>4 DEF ChildTakeDispose, ChildTypeOK
  <2> QED
    BY <1>4, <2>1, ChannelMembers DEF ChildTakeDispose, ChildTypeOK
<1>5. CASE ChildReply
  <2>1. Head(queue) \in Ids /\ Tail(queue) \in Seq(Ids)
    BY <1>5 DEF ChildReply, ChildTypeOK
  <2> QED
    BY <1>5, <2>1, ChannelMembers DEF ChildReply, ChildTypeOK
<1>6. CASE ChildExit
  BY <1>6, TerminateTypes DEF ChildExit, ChildTypeOK, ExitCauses
<1>7. CASE ChildCrash
  BY <1>7, TerminateTypes DEF ChildCrash, ChildTypeOK, ExitCauses
<1>8. CASE ChildGetsStuck
  BY <1>8 DEF ChildGetsStuck, ChildTypeOK
<1>9. CASE ChildComesBack
  BY <1>9 DEF ChildComesBack, ChildTypeOK
<1>10. CASE ChildReaped
  BY <1>10, TerminateTypes DEF ChildReaped, ChildTypeOK, ExitCauses
<1> QED
  BY <1>1, <1>2, <1>3, <1>4, <1>5, <1>6, <1>7, <1>8, <1>9, <1>10 DEF ChildStep

(* markDead on a well-typed host, for the part of the state it writes.     *)
LEMMA MarkDeadTypes ==
  ASSUME HostTypeOK, NEW cause \in ExitCauses, MarkDead(cause),
         UNCHANGED <<nextId, disposeTimers, deadlineTripped>>,
         belts' \in SUBSET Ids
  PROVE  HostTypeOK'
<1>1. DeadReason(cause) \in Answers
  BY DEF DeadReason, Answers, Reasons
<1>2. CASE dead
  BY <1>2 DEF HostTypeOK, MarkDead
<1>3. CASE ~dead
  <2>1. answer' \in [Ids -> Answers]
    BY <1>1, <1>3 DEF HostTypeOK, MarkDead, Settle
  <2>2. settles' \in [Ids -> Nat]
    BY <1>3 DEF HostTypeOK, MarkDead, Settle
  <2> QED
    BY <1>3, <2>1, <2>2 DEF HostTypeOK, MarkDead, CancelTimers
<1> QED
  BY <1>2, <1>3

(* Every step keeps the types.                                             *)
LEMMA StepKeepsTypes ==
  ASSUME TypeOK, [Next]_vars
  PROVE  TypeOK'
<1> USE MaxIdAssumption DEF TypeOK, Kill, Ids
<1>1. CASE ChildNext
  <2>1. ChildTypeOK'
    BY <1>1, ChildKeepsTypes DEF ChildNext
  <2>2. HostTypeOK'
    BY <1>1 DEF ChildNext, HostTypeOK, hostVars
  <2> QED
    BY <2>1, <2>2
<1>2. CASE OnStartupFrame
  <2>1. toParent' \in Seq(Frames)
    BY <1>2 DEF OnStartupFrame, ChildTypeOK
  <2> QED
    BY <1>2, <2>1 DEF OnStartupFrame, FailStartup, ChildTypeOK, HostTypeOK
<1>3. CASE StartupDeadline
  BY <1>3 DEF StartupDeadline, FailStartup, ChildTypeOK, HostTypeOK
<1>4. CASE Call
  <2>1. nextId \in Ids /\ nextId' \in 1..(MaxId + 1)
    BY <1>4 DEF Call, HostTypeOK
  <2>2. CASE CallAlive
    BY <1>4, <2>1, <2>2, ChannelMembers
       DEF Call, CallAlive, Send, ChildTypeOK, HostTypeOK
  <2>3. CASE CallDead
    <3>1. answer' \in [Ids -> Answers] /\ settles' \in [Ids -> Nat]
      BY <2>3 DEF CallDead, Settle, HostTypeOK, Answers, Reasons
    <3> QED
      BY <1>4, <2>1, <2>3, <3>1 DEF Call, CallDead, ChildTypeOK, HostTypeOK
  <2> QED
    BY <1>4, <2>2, <2>3 DEF Call
<1>5. CASE Dispose
  <2>1. nextId \in Ids /\ nextId' \in 1..(MaxId + 1)
    BY <1>5 DEF Dispose, HostTypeOK
  <2>2. CASE DisposeAlive
    BY <1>5, <2>1, <2>2, ChannelMembers
       DEF Dispose, DisposeAlive, Send, ChildTypeOK, HostTypeOK
  <2>3. CASE DisposeDead
    BY <1>5, <2>1, <2>3 DEF Dispose, DisposeDead, ChildTypeOK, HostTypeOK
  <2> QED
    BY <1>5, <2>2, <2>3 DEF Dispose
<1>6. CASE OnReply
  <2>1. toParent' \in Seq(Frames)
    BY <1>6 DEF OnReply, ChildTypeOK
  <2>2. answer' \in [Ids -> Answers] /\ settles' \in [Ids -> Nat]
    BY <1>6 DEF OnReply, Settle, HostTypeOK, Answers
  <2> QED
    BY <1>6, <2>1, <2>2 DEF OnReply, CancelTimers, ChildTypeOK, HostTypeOK
<1>7. CASE OnExit
  <2>1. exitEvent \in ExitCauses
    BY <1>7 DEF OnExit, ChildTypeOK
  <2>2. HostTypeOK'
    BY <1>7, <2>1, MarkDeadTypes DEF OnExit, HostTypeOK
  <2> QED
    BY <1>7, <2>2 DEF OnExit, ChildTypeOK
<1>8. CASE Timer
  <2> SUFFICES ASSUME NEW id \in Ids,
                      RequestDeadline(id) \/ DisposeDeadline(id) \/ Belt(id)
               PROVE  TypeOK'
    BY <1>8 DEF Timer
  <2>1. CASE RequestDeadline(id)
    BY <2>1 DEF RequestDeadline, StartBelt, ChildTypeOK, HostTypeOK
  <2>2. CASE DisposeDeadline(id)
    BY <2>2 DEF DisposeDeadline, StartBelt, ChildTypeOK, HostTypeOK
  <2>3. CASE Belt(id)
    <3>1. HostTypeOK'
      BY <2>3, MarkDeadTypes DEF Belt, HostTypeOK, ExitCauses
    <3> QED
      BY <2>3, <3>1 DEF Belt, childVars, ChildTypeOK
  <2> QED
    BY <2>1, <2>2, <2>3
<1>9. CASE UNCHANGED vars
  BY <1>9 DEF vars, childVars, hostVars, ChildTypeOK, HostTypeOK
<1> QED
  BY <1>1, <1>2, <1>3, <1>4, <1>5, <1>6, <1>7, <1>8, <1>9 DEF Next

-----------------------------------------------------------------------------
(* The inductive invariant.                                                *)

LEMMA LedgerInit == Init => Ledger
<1> SUFFICES ASSUME Init PROVE Ledger
  OBVIOUS
<1> USE MaxIdAssumption DEF Init, ChildInit, HostInit
<1>1. TypeOK
  <2>1. toChild \in Seq(Envelopes) /\ queue \in Seq(Ids) /\ toParent \in Seq(Frames)
    OBVIOUS
  <2>2. ChildTypeOK
    BY <2>1 DEF ChildTypeOK
  <2>3. 1 \in 1..(MaxId + 1) /\ "none" \in Answers
    BY DEF Answers
  <2>4. HostTypeOK
    BY <2>3 DEF HostTypeOK
  <2> QED
    BY <2>2, <2>4 DEF TypeOK
<1>2. Accounts
  BY DEF Accounts, Done, Calls, Disposals
<1> QED
  BY <1>1, <1>2 DEF Ledger, WaitIsBounded, NoStaleKill, Disposals, DeadHoldsNothing,
                    KillIsOut, NoAbandonedChild

(* A step of the child does not undo a kill, except by dying.              *)
LEMMA ChildKeepsKill ==
  ASSUME ChildStep, child = "gone" \/ killed
  PROVE  child' = "gone" \/ killed'
BY DEF ChildStep, ChildReady, ChildFatal, ChildTakeCall, ChildTakeDispose, ChildReply,
       ChildExit, ChildCrash, ChildGetsStuck, ChildComesBack, ChildReaped, Terminate,
       Running

LEMMA ChildExitsOnce ==
  ASSUME ChildStep, exitEvent # "none" => child = "gone"
  PROVE  exitEvent' # "none" => child' = "gone"
BY DEF ChildStep, ChildReady, ChildFatal, ChildTakeCall, ChildTakeDispose, ChildReply,
       ChildExit, ChildCrash, ChildGetsStuck, ChildComesBack, ChildReaped, Terminate,
       Running

(* The accounts after a set of waiting calls is settled.                   *)
LEMMA SettleKeepsAccounts ==
  ASSUME HostTypeOK, Accounts, NEW S \in SUBSET pending, NEW with \in Answers \ {"none"},
         Settle(S, with), pending' = pending \ S,
         nextId' = nextId, Disposals' = Disposals
  PROVE  Accounts'
<1>1. Done' = Done \cup S /\ S \cap Done = {} /\ S \subseteq Ids
  BY DEF Done, Calls, Accounts, HostTypeOK
<1>2. \A id \in Ids : settles'[id] = IF id \in Done' THEN 1 ELSE 0
  BY <1>1 DEF Settle, Accounts
<1>3. \A id \in Ids : (answer'[id] # "none") <=> (id \in Done')
  BY <1>1 DEF Settle, Accounts
<1> QED
  BY <1>2, <1>3 DEF Accounts

(* markDead keeps every part of the ledger, provided the child is gone or  *)
(* a SIGKILL is out.                                                       *)
LEMMA MarkDeadKeepsLedger ==
  ASSUME Ledger, TypeOK', NEW cause, MarkDead(cause),
         child = "gone" \/ killed,
         UNCHANGED <<child, killed, nextId, disposeTimers>>,
         belts' \subseteq belts,
         exitEvent' \in {"none", exitEvent},
         dead => belts' = belts \/ pending = {}
  PROVE  Ledger'
<1> USE DEF Ledger
<1>1. CASE dead
  <2>1. Accounts'
    BY <1>1 DEF MarkDead, Accounts, Done, Calls, Disposals
  <2> QED
    BY <1>1, <2>1 DEF MarkDead, WaitIsBounded, NoStaleKill, Disposals, DeadHoldsNothing, KillIsOut,
                      NoAbandonedChild
<1>2. CASE ~dead
  <2>1. DeadReason(cause) \in Answers \ {"none"}
    BY DEF DeadReason, Answers, Reasons
  <2>2. Disposals' = Disposals
    BY <1>2 DEF MarkDead, Disposals
  <2>3. Accounts'
    BY <1>2, <2>1, <2>2, SettleKeepsAccounts DEF MarkDead, TypeOK
  <2>4. armed' = {} /\ pending' = {} /\ waiters' = {}
    BY <1>2 DEF MarkDead, CancelTimers, NoStaleKill, Disposals
  <2> QED
    BY <1>2, <2>3, <2>4 DEF MarkDead, WaitIsBounded, NoStaleKill, Disposals, DeadHoldsNothing,
                            KillIsOut, NoAbandonedChild
<1> QED
  BY <1>1, <1>2

LEMMA LedgerStep ==
  ASSUME Ledger, [Next]_vars
  PROVE  Ledger'
<1>0. TypeOK' /\ TypeOK
  BY StepKeepsTypes DEF Ledger
<1> USE DEF Ledger
<1>1. CASE ChildNext
  <2>1. UNCHANGED hostVars /\ ChildStep
    BY <1>1 DEF ChildNext
  <2>2. Accounts'
    BY <2>1 DEF hostVars, Accounts, Done, Calls, Disposals
  <2>3. KillIsOut' /\ NoAbandonedChild'
    BY <2>1, ChildKeepsKill, ChildExitsOnce DEF hostVars, KillIsOut, NoAbandonedChild
  <2> QED
    BY <1>0, <2>1, <2>2, <2>3 DEF hostVars, WaitIsBounded, NoStaleKill, Disposals, DeadHoldsNothing
<1>2. CASE OnStartupFrame
  <2>1. Accounts'
    BY <1>2 DEF OnStartupFrame, Accounts, Done, Calls, Disposals
  <2> QED
    BY <1>0, <1>2, <2>1 DEF OnStartupFrame, FailStartup, Kill, WaitIsBounded, NoStaleKill, Disposals,
                    DeadHoldsNothing, KillIsOut, NoAbandonedChild
<1>3. CASE StartupDeadline
  <2>1. Accounts'
    BY <1>3 DEF StartupDeadline, Accounts, Done, Calls, Disposals
  <2> QED
    BY <1>0, <1>3, <2>1 DEF StartupDeadline, FailStartup, Kill, WaitIsBounded, NoStaleKill, Disposals,
                    DeadHoldsNothing, KillIsOut, NoAbandonedChild
<1>4. CASE Call
  <2>1. nextId \in Ids /\ nextId \notin pending /\ nextId \notin Disposals
        /\ nextId \notin Done
    BY <1>4 DEF Call, TypeOK, HostTypeOK, Ids, Accounts, Done, Calls
  <2>2. nextId' = nextId + 1 /\ Disposals' = Disposals
        /\ 1..(nextId' - 1) = 1..(nextId - 1) \cup {nextId}
    BY <1>4, <2>1 DEF Call, Disposals, Ids, TypeOK, HostTypeOK
  <2>3. Calls' = Calls \cup {nextId}
    BY <2>1, <2>2 DEF Calls
  <2>4. CASE CallAlive
    <3>1. Done' = Done
      BY <2>1, <2>3, <2>4 DEF Done, CallAlive
    <3>2. Accounts'
      BY <2>1, <2>2, <2>4, <3>1 DEF CallAlive, Accounts
    <3> QED
      BY <1>0, <1>4, <2>4, <3>2 DEF Call, CallAlive, HostAlive, WaitIsBounded,
         NoStaleKill, Disposals, DeadHoldsNothing, KillIsOut, NoAbandonedChild
  <2>5. CASE CallDead
    <3>1. Done' = Done \cup {nextId}
      BY <2>1, <2>3, <2>5 DEF Done, CallDead
    <3>2. \A id \in Ids : settles'[id] = IF id \in Done' THEN 1 ELSE 0
      BY <2>1, <2>5, <3>1 DEF CallDead, Settle, Accounts
    <3>3. \A id \in Ids : (answer'[id] # "none") <=> (id \in Done')
      BY <2>1, <2>5, <3>1 DEF CallDead, Settle, Accounts
    <3>4. Accounts'
      BY <2>2, <2>5, <3>2, <3>3 DEF CallDead, Accounts
    <3> QED
      BY <1>0, <1>4, <2>5, <3>4 DEF Call, CallDead, WaitIsBounded,
         NoStaleKill, Disposals, DeadHoldsNothing, KillIsOut, NoAbandonedChild
  <2> QED
    BY <1>4, <2>4, <2>5 DEF Call
<1>5. CASE Dispose
  <2>1. nextId \in Ids /\ nextId \notin pending /\ nextId \notin Disposals
        /\ nextId \notin Done
    BY <1>5 DEF Dispose, TypeOK, HostTypeOK, Ids, Accounts, Done, Calls
  <2>2. nextId' = nextId + 1 /\ pending' = pending
        /\ 1..(nextId' - 1) = 1..(nextId - 1) \cup {nextId}
    BY <1>5, <2>1 DEF Dispose, Ids, TypeOK, HostTypeOK
  <2>3. Disposals' = Disposals \cup {nextId}
    BY <1>5 DEF Dispose, DisposeAlive, DisposeDead, Disposals
  <2>4. Done' = Done
    BY <2>1, <2>2, <2>3 DEF Done, Calls
  <2>5. Accounts'
    BY <1>5, <2>1, <2>2, <2>3, <2>4 DEF Dispose, Accounts
  <2>6. CASE DisposeAlive
    BY <1>0, <1>5, <2>5, <2>6 DEF Dispose, DisposeAlive, HostAlive, WaitIsBounded,
       NoStaleKill, Disposals, DeadHoldsNothing, KillIsOut, NoAbandonedChild
  <2>7. CASE DisposeDead
    BY <1>0, <1>5, <2>5, <2>7 DEF Dispose, DisposeDead, WaitIsBounded,
       NoStaleKill, Disposals, DeadHoldsNothing, KillIsOut, NoAbandonedChild
  <2> QED
    BY <1>5, <2>6, <2>7 DEF Dispose
<1>6. CASE OnReply
  <2> DEFINE hit == Hit(Head(toParent))
  <2>1. hit \in SUBSET pending /\ "reply" \in Answers \ {"none"}
    BY DEF Hit, Answers
  <2>2. Disposals' = Disposals
    BY <1>6 DEF OnReply, Disposals
  <2>3. Accounts'
    BY <1>0, <1>6, <2>1, <2>2, SettleKeepsAccounts DEF OnReply, TypeOK
  <2> QED
    BY <1>0, <1>6, <2>1, <2>3 DEF OnReply, CancelTimers, WaitIsBounded, NoStaleKill, Disposals,
       DeadHoldsNothing, KillIsOut, NoAbandonedChild
<1>7. CASE OnExit
  BY <1>0, <1>7, MarkDeadKeepsLedger DEF OnExit, KillIsOut
<1>8. CASE Timer
  <2> SUFFICES ASSUME NEW id \in Ids,
                      RequestDeadline(id) \/ DisposeDeadline(id) \/ Belt(id)
               PROVE  Ledger'
    BY <1>8 DEF Timer
  <2>1. CASE RequestDeadline(id)
    <3>1. Accounts'
      BY <2>1 DEF RequestDeadline, Accounts, Done, Calls, Disposals
    <3> QED
      BY <1>0, <2>1, <3>1 DEF RequestDeadline, Kill, StartBelt, WaitIsBounded, NoStaleKill, Disposals,
         DeadHoldsNothing, KillIsOut, NoAbandonedChild
  <2>2. CASE DisposeDeadline(id)
    <3>1. Accounts'
      BY <2>2 DEF DisposeDeadline, Accounts, Done, Calls, Disposals
    <3> QED
      BY <1>0, <2>2, <3>1 DEF DisposeDeadline, Kill, StartBelt, WaitIsBounded, NoStaleKill, Disposals,
         DeadHoldsNothing, KillIsOut, NoAbandonedChild
  <2>3. CASE Belt(id)
    BY <1>0, <2>3, MarkDeadKeepsLedger
       DEF Belt, childVars, KillIsOut, DeadHoldsNothing
  <2> QED
    BY <2>1, <2>2, <2>3
<1>9. CASE UNCHANGED vars
  BY <1>0, <1>9 DEF vars, childVars, hostVars, Accounts, Done, Calls, Disposals,
     WaitIsBounded, NoStaleKill, Disposals, DeadHoldsNothing, KillIsOut, NoAbandonedChild
<1> QED
  BY <1>1, <1>2, <1>3, <1>4, <1>5, <1>6, <1>7, <1>8, <1>9 DEF Next

-----------------------------------------------------------------------------
(* The theorems.                                                           *)

THEOREM LedgerInvariant == Spec => []Ledger
<1>1. Init => Ledger
  BY LedgerInit
<1>2. Ledger /\ [Next]_vars => Ledger'
  BY LedgerStep
<1> QED
  BY <1>1, <1>2, PTL DEF Spec

(* The state of the host and of its child is always well typed.            *)
THEOREM TypeCorrect == Spec => []TypeOK
<1>1. Ledger => TypeOK
  BY DEF Ledger
<1> QED
  BY <1>1, LedgerInvariant, PTL

(* Replies, deadlines, belts and exits in any order settle every call      *)
(* exactly once (the header of process-host.ts).                           *)
THEOREM EachCallSettledOnce == Spec => []SettledExactlyOnce
<1>1. Ledger => SettledExactlyOnce
  <2> SUFFICES ASSUME Ledger, NEW id \in Calls
               PROVE  /\ settles[id] = IF id \in pending THEN 0 ELSE 1
                      /\ (answer[id] = "none") <=> (id \in pending)
    BY DEF SettledExactlyOnce
  <2>1. id \in Ids /\ (id \in Done <=> id \notin pending)
    BY MaxIdAssumption DEF Ledger, TypeOK, HostTypeOK, Ids, Calls, Done
  <2> QED
    BY <2>1 DEF Ledger, Accounts
<1> QED
  BY <1>1, LedgerInvariant, PTL

(* Nothing waits on the child without a timer of the daemon's own.         *)
THEOREM EveryWaitIsBounded == Spec => []WaitIsBounded
<1>1. Ledger => WaitIsBounded
  BY DEF Ledger
<1> QED
  BY <1>1, LedgerInvariant, PTL

(* A host that gave up has killed its child.                               *)
THEOREM ChildIsNeverAbandoned == Spec => []NoAbandonedChild
<1>1. Ledger => NoAbandonedChild
  BY DEF Ledger
<1> QED
  BY <1>1, LedgerInvariant, PTL

(* The daemon kills an engine only for a handshake that failed, a call that *)
(* is still unanswered or a disposal that is still unfinished.             *)
THEOREM EveryKillHasACause == Spec => KillsHaveCause
<1>1. Ledger /\ [Next]_vars => [~killed /\ killed' => KillIsDue]_vars
  <2> SUFFICES ASSUME Ledger, [Next]_vars, ~killed, killed'
               PROVE  KillIsDue
    OBVIOUS
  <2>1. CASE ChildNext
    BY <2>1 DEF ChildNext, ChildStep, ChildReady, ChildFatal, ChildTakeCall, ChildTakeDispose,
       ChildReply, ChildExit, ChildCrash, ChildGetsStuck, ChildComesBack, ChildReaped,
       Terminate, Ledger, KillIsOut
  <2>2. CASE OnStartupFrame \/ StartupDeadline
    BY <2>2 DEF OnStartupFrame, StartupDeadline, StartupTimerDue, FailStartup, KillIsDue
  <2>3. CASE Call \/ Dispose \/ OnReply \/ OnExit \/ UNCHANGED vars
    BY <2>3 DEF Call, Dispose, OnReply, OnExit, vars, childVars
  <2>4. ASSUME NEW id \in Ids, RequestDeadline(id)
        PROVE  KillIsDue
    BY <2>4 DEF RequestDeadline, KillIsDue, Ledger, NoStaleKill
  <2>5. ASSUME NEW id \in Ids, DisposeDeadline(id)
        PROVE  KillIsDue
    <3>1. id \in disposeTimers \ disposeTimers' /\ ~dead
      BY <2>5 DEF DisposeDeadline
    <3>2. id \in waiters
      BY <3>1 DEF Ledger, NoStaleKill, Disposals, DeadHoldsNothing, Disposals
    <3> QED
      BY <3>1, <3>2 DEF KillIsDue
  <2>6. ASSUME NEW id \in Ids, Belt(id)
        PROVE  KillIsDue
    BY <2>6 DEF Belt, childVars
  <2> QED
    BY <2>1, <2>2, <2>3, <2>4, <2>5, <2>6 DEF Next, Timer
<1> QED
  BY <1>1, LedgerInvariant, PTL DEF Spec, KillsHaveCause

-----------------------------------------------------------------------------
(* The refinement of ReplyOrFailure.                                       *)

LEMMA StatusInit == Init => Promise!Init
BY DEF Init, HostInit, Promise!Init, callStatus

(* Settling the waiting calls of S with a failure.                         *)
LEMMA StatusOfSettled ==
  ASSUME Ledger, Ledger', NEW S \in SUBSET pending, NEW with \in Answers \ {"none"},
         Settle(S, with), pending' = pending \ S
  PROVE  callStatus' = [id \in Ids |->
           IF id \in S THEN IF with = "reply" THEN "answered" ELSE "failed"
                       ELSE callStatus[id]]
BY DEF Settle, callStatus

(* Which steps of the contract the steps of the host are.                  *)
LEMMA Simulation ==
  ASSUME Ledger, Ledger', [Next]_vars
  PROVE  [Promise!Next]_(Promise!vars)
<1> USE DEF Promise!vars
<1>0. TypeOK /\ TypeOK'
  BY DEF Ledger
<1>1. ASSUME UNCHANGED <<pending, answer, dead>>
      PROVE  UNCHANGED Promise!vars
  BY <1>1 DEF callStatus
<1>2. ASSUME NEW cause \in ExitCauses, MarkDead(cause)
      PROVE  [Promise!Next]_(Promise!vars)
  <2>1. CASE dead
    BY <1>1, <1>2, <2>1 DEF MarkDead
  <2>2. CASE ~dead
    <3>1. DeadReason(cause) \in Answers \ {"none", "reply"}
      BY DEF DeadReason, Answers, Reasons
    <3>2. callStatus' = [id \in Ids |-> IF id \in pending THEN "failed" ELSE callStatus[id]]
      BY <1>2, <2>2, <3>1, StatusOfSettled DEF MarkDead
    <3>3. \A id \in Ids : callStatus[id] = "waiting" <=> id \in pending
      BY DEF callStatus
    <3>4. Promise!GiveUp
      BY <1>2, <2>2, <3>2, <3>3 DEF MarkDead, Promise!GiveUp
    <3> QED
      BY <3>4 DEF Promise!Next
  <2> QED
    BY <2>1, <2>2
<1>3. CASE ChildNext
  BY <1>1, <1>3 DEF ChildNext, hostVars
<1>4. CASE OnStartupFrame
  BY <1>1, <1>4 DEF OnStartupFrame
<1>5. CASE StartupDeadline
  BY <1>1, <1>5 DEF StartupDeadline
<1>6. CASE Call
  <2>1. nextId \in Ids /\ nextId \notin pending /\ answer[nextId] = "none"
    BY <1>0, <1>6 DEF Call, TypeOK, HostTypeOK, Ids, Ledger, Accounts, Done, Calls
  <2>2. callStatus[nextId] = "unused" /\ dead' = dead
    BY <1>6, <2>1 DEF callStatus, Call
  <2>3. CASE CallAlive
    <3>1. callStatus' = [callStatus EXCEPT ![nextId] = "waiting"]
      BY <2>1, <2>3 DEF CallAlive, callStatus
    <3>2. Promise!Issue(nextId)
      BY <2>2, <2>3, <3>1 DEF CallAlive, HostAlive, Promise!Issue
    <3> QED
      BY <2>1, <3>2 DEF Promise!Next
  <2>4. CASE CallDead
    <3>1. pending' = pending /\ answer' = [answer EXCEPT ![nextId] = "crash"]
      BY <1>0, <2>1, <2>4 DEF CallDead, Settle, TypeOK, HostTypeOK
    <3>2. callStatus' = [callStatus EXCEPT ![nextId] = "failed"]
      BY <1>0, <2>1, <3>1 DEF callStatus, TypeOK, HostTypeOK
    <3>3. Promise!Refuse(nextId)
      BY <2>2, <2>4, <3>2 DEF CallDead, Promise!Refuse
    <3> QED
      BY <2>1, <3>3 DEF Promise!Next
  <2> QED
    BY <1>6, <2>3, <2>4 DEF Call
<1>7. CASE Dispose
  BY <1>1, <1>7 DEF Dispose
<1>8. CASE OnReply
  <2> DEFINE hit == Hit(Head(toParent))
  <2>1. CASE hit = {}
    <3>1. answer' = answer
      BY <1>0, <1>8, <2>1 DEF OnReply, Settle, TypeOK, HostTypeOK
    <3> QED
      BY <1>1, <1>8, <2>1, <3>1 DEF OnReply
  <2>2. ASSUME NEW id \in Ids, hit = {id}
        PROVE  Promise!Next
    <3>1. id \in pending /\ ~dead
      BY <2>2 DEF Hit, Ledger, DeadHoldsNothing
    <3>2. callStatus' = [callStatus EXCEPT ![id] = "answered"]
      <4>1. pending' = pending \ {id} /\ Settle({id}, "reply")
        BY <1>8, <2>2 DEF OnReply
      <4>2. callStatus' = [i \in Ids |-> IF i \in {id} THEN "answered" ELSE callStatus[i]]
        BY <3>1, <4>1, StatusOfSettled DEF Answers
      <4>3. callStatus \in [Ids -> {"waiting", "unused", "answered", "failed"}]
        BY DEF callStatus
      <4> QED
        BY <4>2, <4>3
    <3>3. callStatus[id] = "waiting" /\ dead' = dead
      BY <1>8, <3>1 DEF callStatus, OnReply
    <3> QED
      BY <3>1, <3>2, <3>3 DEF Promise!Next, Promise!Answer
  <2>3. hit = {} \/ \E id \in Ids : hit = {id}
    <3>1. ASSUME NEW id \in hit  PROVE  id \in Ids /\ hit = {id}
      <4>1. Head(toParent) = [kind |-> "reply", id |-> id] /\ id \in pending
        BY <3>1 DEF Hit
      <4>2. Head(toParent).id = id
        BY <4>1
      <4>3. \A i \in hit : Head(toParent).id = i
        BY DEF Hit
      <4> QED
        BY <1>0, <4>1, <4>2, <4>3 DEF TypeOK, HostTypeOK
    <3> QED
      BY <3>1
  <2> QED
    BY <2>1, <2>2, <2>3
<1>9. CASE OnExit
  BY <1>0, <1>2, <1>9 DEF OnExit, TypeOK, ChildTypeOK
<1>10. CASE Timer
  <2> SUFFICES ASSUME NEW id \in Ids,
                      RequestDeadline(id) \/ DisposeDeadline(id) \/ Belt(id)
               PROVE  [Promise!Next]_(Promise!vars)
    BY <1>10 DEF Timer
  <2>1. CASE RequestDeadline(id)
    BY <1>1, <2>1 DEF RequestDeadline
  <2>2. CASE DisposeDeadline(id)
    BY <1>1, <2>2 DEF DisposeDeadline
  <2>3. CASE Belt(id)
    BY <1>2, <2>3 DEF Belt, ExitCauses
  <2> QED
    BY <2>1, <2>2, <2>3
<1>11. CASE UNCHANGED vars
  BY <1>1, <1>11 DEF vars, hostVars
<1> QED
  BY <1>3, <1>4, <1>5, <1>6, <1>7, <1>8, <1>9, <1>10, <1>11 DEF Next

(* The safety half of KeepsPromise: to its callers the host is the host of *)
(* ReplyOrFailure.                                                         *)
THEOREM HostKeepsPromise == Spec => Promise!Safety
<1>1. Init => Promise!Init
  BY StatusInit
<1>2. Ledger /\ Ledger' /\ [Next]_vars => [Promise!Next]_(Promise!vars)
  BY Simulation
<1> QED
  BY <1>1, <1>2, LedgerInvariant, PTL DEF Spec, Promise!Safety

(* No reply, exit or belt replaces an answer a caller already has.         *)
THEOREM AnswersNeverChange == Spec => AnswersAreFinal
<1>1. Ledger /\ [Next]_vars =>
        [\A id \in Ids : answer[id] # "none" => answer'[id] = answer[id]]_vars
  <2> SUFFICES ASSUME Ledger, [Next]_vars, NEW id \in Ids, answer[id] # "none"
               PROVE  answer'[id] = answer[id]
    OBVIOUS
  <2>1. id \in Done
    BY DEF Ledger, Accounts
  <2>2. id \notin pending /\ id # nextId
    BY <2>1 DEF Done, Calls, Ledger, TypeOK, HostTypeOK, Ids
  <2>3. CASE ChildNext \/ OnStartupFrame \/ StartupDeadline \/ Dispose
             \/ UNCHANGED vars
    BY <2>3 DEF ChildNext, OnStartupFrame, StartupDeadline, Dispose, vars, hostVars
  <2>4. CASE Call
    BY <2>2, <2>4 DEF Call, CallAlive, CallDead, Settle
  <2>5. CASE OnReply
    BY <2>2, <2>5 DEF OnReply, Hit, Settle
  <2>6. CASE OnExit
    BY <2>2, <2>6 DEF OnExit, MarkDead, Settle
  <2>7. CASE Timer
    BY <2>2, <2>7 DEF Timer, RequestDeadline, DisposeDeadline, Belt, MarkDead, Settle
  <2> QED
    BY <2>3, <2>4, <2>5, <2>6, <2>7 DEF Next
<1> QED
  BY <1>1, LedgerInvariant, PTL DEF Spec, AnswersAreFinal

=============================================================================
