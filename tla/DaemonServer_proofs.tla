------------------------- MODULE DaemonServer_proofs -------------------------
(***************************************************************************)
(* Theorems about DaemonServer, for every finite set of connections and    *)
(* requests.                                                               *)
(*                                                                         *)
(* The inductive invariant Books: the hold count is what it should be      *)
(* (HoldsAreBalanced), the deadline runs only at zero, the breadcrumbs on  *)
(* disk are the live handles and belong to running dispatches, there are   *)
(* none once teardown began, and no request is dispatched twice.           *)
(***************************************************************************)
EXTENDS DaemonServer, FiniteSetTheorems, TLAPS

Books ==
  /\ TypeOK
  /\ HoldsAreBalanced
  /\ DeadlineOnlyWhenFree
  /\ CrumbMeansInFlight
  /\ crumbs = live
  /\ running \subseteq done
  /\ CleanExitLeavesNoCrumb
  /\ phase \in {"disposing", "exited"} => ~pidfile

-----------------------------------------------------------------------------
(* What adding and removing one holder does to the count of holders.       *)
LEMMA OneMore ==
  ASSUME NEW S, NEW x, IsFiniteSet(S), x \notin S
  PROVE  Cardinality(S \cup {x}) = Cardinality(S) + 1
BY FS_AddElement

LEMMA OneLess ==
  ASSUME NEW S, NEW x, IsFiniteSet(S), x \in S
  PROVE  /\ Cardinality(S \ {x}) = Cardinality(S) - 1
         /\ Cardinality(S) \in Nat /\ Cardinality(S) > 0
<1>1. Cardinality(S \ {x}) = Cardinality(S) - 1 /\ IsFiniteSet(S \ {x})
  BY FS_RemoveElement
<1>2. Cardinality(S) \in Nat /\ Cardinality(S \ {x}) \in Nat
  BY <1>1, FS_CardinalityType
<1> QED
  BY <1>1, <1>2

(* The holders are finitely many.                                          *)
LEMMA FiniteHolders ==
  ASSUME TypeOK
  PROVE  /\ IsFiniteSet(Holding) /\ IsFiniteSet(running)
         /\ Cardinality(Holding) \in Nat /\ Cardinality(running) \in Nat
<1>1. Holding \subseteq Conns /\ running \subseteq Reqs
  BY DEF Holding, TypeOK
<1>2. IsFiniteSet(Holding) /\ IsFiniteSet(running)
  BY <1>1, DaemonAssumption, FS_Subset
<1> QED
  BY <1>2, FS_CardinalityType

LEMMA BooksInit == Init => Books
<1> SUFFICES ASSUME Init PROVE Books
  OBVIOUS
<1> USE DEF Init
<1>1. Holding = {} /\ running = {}
  BY DEF Holding
<1>2. HoldsAreBalanced
  BY <1>1, FS_EmptySet DEF HoldsAreBalanced
<1>3. TypeOK
  BY DEF TypeOK, IdleTypeOK
<1> QED
  BY <1>2, <1>3 DEF Books, DeadlineOnlyWhenFree, CrumbMeansInFlight, CleanExitLeavesNoCrumb

-----------------------------------------------------------------------------
(* The types of the idle deadline.                                         *)
LEMMA EnterTypes == ASSUME IdleTypeOK, Enter PROVE IdleTypeOK'
<1>1. holds' \in Nat
  BY DEF IdleTypeOK, Enter
<1>2. armed' \in BOOLEAN /\ fired' \in BOOLEAN
  BY Zenon DEF IdleTypeOK, Enter
<1> QED
  BY <1>1, <1>2 DEF IdleTypeOK

LEMMA LeaveTypes == ASSUME IdleTypeOK, Leave PROVE IdleTypeOK'
<1>1. holds' \in Nat
  BY DEF IdleTypeOK, Leave
<1>2. fired' \in BOOLEAN
  BY Zenon DEF IdleTypeOK, Leave
<1>3. armed' \in BOOLEAN
  BY Zenon DEF IdleTypeOK, Leave
<1> QED
  BY <1>1, <1>2, <1>3 DEF IdleTypeOK

(* shutdown destroys connections, which stay holders until they close, and *)
(* leaves no breadcrumb.                                                   *)
LEMMA ShutdownKeepsHolders ==
  ASSUME TypeOK, Shutdown
  PROVE  /\ Holding' = Holding
         /\ conn' \in [Conns -> {"new", "open", "destroyed", "closed"}]
BY DEF Shutdown, Holding, TypeOK

LEMMA ShutdownClearsCrumbs ==
  ASSUME Books, Shutdown
  PROVE  /\ crumbs' = live' /\ crumbs' \subseteq crumbs
         /\ phase' \in {"closing", "disposing", "exited", "crashed"}
         /\ phase' \in {"closing", "disposing", "exited"} => crumbs' = {}
         /\ phase' \in {"disposing", "exited"} => phase' = phase
BY DEF Shutdown, Cleared, Books, CleanExitLeavesNoCrumb, TypeOK

(* No step that leaves the holders alone, and no release or acquisition    *)
(* that goes with one holder, unbalances the count.                        *)
LEMMA SameHolders ==
  ASSUME HoldsAreBalanced, UNCHANGED <<holds, running>>, Holding' = Holding,
         phase' = "exited" \/ phase # "exited"
  PROVE  HoldsAreBalanced'
BY DEF HoldsAreBalanced

LEMMA BooksStep ==
  ASSUME Books, [Next]_vars
  PROVE  Books'
<1> USE DEF Books
<1>0. /\ IsFiniteSet(Holding) /\ IsFiniteSet(running)
      /\ Cardinality(Holding) \in Nat /\ Cardinality(running) \in Nat
  BY FiniteHolders
<1>1. ASSUME NEW c \in Conns, Connect(c)
      PROVE  Books'
  <2>1. Holding' = Holding \cup {c} /\ c \notin Holding /\ running' = running
    BY <1>1 DEF Connect, Holding, TypeOK
  <2>2. HoldsAreBalanced'
    BY <1>0, <1>1, <2>1, OneMore DEF Connect, Enter, HoldsAreBalanced
  <2>3. TypeOK'
    BY <1>1, EnterTypes DEF Connect, TypeOK
  <2> QED
    BY <1>1, <2>2, <2>3 DEF Connect, Enter, DeadlineOnlyWhenFree, CrumbMeansInFlight,
       CleanExitLeavesNoCrumb
<1>2. ASSUME NEW c \in Conns, Close(c)
      PROVE  Books'
  <2>1. Holding' = Holding \ {c} /\ c \in Holding /\ running' = running
    BY <1>2 DEF Close, Holding, TypeOK
  <2>2. holds = Cardinality(Holding) + Cardinality(running) /\ phase # "exited"
    BY <1>2 DEF Close, Turn, Up, HoldsAreBalanced
  <2>3. holds > 0 /\ Cardinality(Holding \ {c}) = Cardinality(Holding) - 1
    BY <1>0, <2>1, <2>2, OneLess
  <2>4. HoldsAreBalanced'
    BY <1>0, <1>2, <2>1, <2>2, <2>3 DEF Close, Leave, HoldsAreBalanced, TypeOK, IdleTypeOK
  <2>5. TypeOK'
    BY <1>2, LeaveTypes DEF Close, TypeOK
  <2> QED
    BY <1>2, <2>4, <2>5 DEF Close, Leave, DeadlineOnlyWhenFree, CrumbMeansInFlight,
       CleanExitLeavesNoCrumb
<1>3. ASSUME NEW c \in Conns, NEW r \in Reqs, StartDispatch(c, r)
      PROVE  Books'
  <2>1. running' = running \cup {r} /\ Holding' = Holding /\ phase' = phase
        /\ phase = "serving"
    BY <1>3 DEF StartDispatch, Holding, Refuses
  <2>2. r \notin running
    BY <1>3 DEF StartDispatch, Receive
  <2>3. HoldsAreBalanced'
    BY <1>0, <1>3, <2>1, <2>2, OneMore
       DEF StartDispatch, HoldDispatch, Enter, HoldsAreBalanced
  <2>4. TypeOK'
    BY <1>3, EnterTypes DEF StartDispatch, Receive, HoldDispatch, TypeOK
  <2> QED
    BY <1>3, <2>1, <2>3, <2>4 DEF StartDispatch, Receive, HoldDispatch, Enter, DeadlineOnlyWhenFree,
       CrumbMeansInFlight, CleanExitLeavesNoCrumb
<1>4. ASSUME NEW c \in Conns, NEW r \in Reqs, ReplyAtOnce(c, r)
      PROVE  Books'
  <2>1. UNCHANGED <<holds, running, phase>> /\ Holding' = Holding
    BY <1>4 DEF ReplyAtOnce, EnterAndLeave, Holding
  <2>2. TypeOK'
    BY <1>4 DEF ReplyAtOnce, Receive, EnterAndLeave, ArmIf, TypeOK, IdleTypeOK
  <2> QED
    BY <1>4, <2>1, <2>2, SameHolders DEF ReplyAtOnce, Receive, EnterAndLeave, ArmIf,
       DeadlineOnlyWhenFree, CrumbMeansInFlight, CleanExitLeavesNoCrumb
<1>5. ASSUME NEW c \in Conns, NEW r \in Reqs, ShutdownMessage(c, r)
      PROVE  Books'
  <2>1. UNCHANGED <<holds, running>> /\ Holding' = Holding
    BY <1>5, ShutdownKeepsHolders DEF ShutdownMessage, EnterAndLeave
  <2>2. TypeOK'
    BY <1>5, ShutdownKeepsHolders, ShutdownClearsCrumbs
       DEF ShutdownMessage, Receive, EnterAndLeave, ArmIf, TypeOK, IdleTypeOK
  <2> QED
    BY <1>5, <2>1, <2>2, SameHolders, ShutdownClearsCrumbs
       DEF ShutdownMessage, Receive, Up, EnterAndLeave, ArmIf,
       DeadlineOnlyWhenFree, CrumbMeansInFlight, CleanExitLeavesNoCrumb
<1>6. ASSUME NEW r \in Reqs, FinishDispatch(r)
      PROVE  Books'
  <2>1. running' = running \ {r} /\ r \in running /\ Holding' = Holding
    BY <1>6 DEF FinishDispatch, Holding
  <2>2. holds = Cardinality(Holding) + Cardinality(running) /\ phase # "exited"
    BY <1>6 DEF FinishDispatch, Turn, Up, HoldsAreBalanced
  <2>3. holds > 0 /\ Cardinality(running \ {r}) = Cardinality(running) - 1
    BY <1>0, <2>1, <2>2, OneLess
  <2>4. HoldsAreBalanced'
    BY <1>0, <1>6, <2>1, <2>2, <2>3
       DEF FinishDispatch, ReleaseDispatch, Leave, HoldsAreBalanced, TypeOK, IdleTypeOK
  <2>5. TypeOK'
    BY <1>6, LeaveTypes DEF FinishDispatch, ReleaseDispatch, ClearCrumb, TypeOK
  <2> QED
    BY <1>6, <2>4, <2>5 DEF FinishDispatch, ReleaseDispatch, ClearCrumb, Leave,
       DeadlineOnlyWhenFree, CrumbMeansInFlight, CleanExitLeavesNoCrumb
<1>7. CASE IdleTimer
  <2>1. UNCHANGED <<holds, running>> /\ Holding' = Holding
    BY <1>7, ShutdownKeepsHolders DEF IdleTimer, Holding
  <2>2. TypeOK'
    BY <1>7, ShutdownKeepsHolders, ShutdownClearsCrumbs
       DEF IdleTimer, TypeOK, IdleTypeOK
  <2> QED
    BY <1>7, <2>1, <2>2, SameHolders, ShutdownClearsCrumbs
       DEF IdleTimer, Turn, Up, DeadlineOnlyWhenFree, CrumbMeansInFlight,
       CleanExitLeavesNoCrumb
<1>8. CASE Signal
  <2>1. UNCHANGED <<holds, running>> /\ Holding' = Holding
    BY <1>8, ShutdownKeepsHolders DEF Signal, Stop
  <2>2. TypeOK'
    BY <1>8, ShutdownKeepsHolders, ShutdownClearsCrumbs
       DEF Signal, Stop, TypeOK, IdleTypeOK
  <2> QED
    BY <1>8, <2>1, <2>2, SameHolders, ShutdownClearsCrumbs
       DEF Signal, Stop, Turn, Up, DeadlineOnlyWhenFree, CrumbMeansInFlight,
       CleanExitLeavesNoCrumb
<1>9. CASE ListenerClosed
  <2>1. Holding' = Holding
    BY <1>9 DEF ListenerClosed, Holding
  <2> QED
    BY <1>9, <2>1, SameHolders DEF ListenerClosed, AfterClose, Turn, Up, idleVars, TypeOK,
       IdleTypeOK, DeadlineOnlyWhenFree, CrumbMeansInFlight, CleanExitLeavesNoCrumb
<1>10. CASE Exit
  BY <1>10 DEF Exit, idleVars, TypeOK, IdleTypeOK, HoldsAreBalanced, DeadlineOnlyWhenFree,
     CrumbMeansInFlight, CleanExitLeavesNoCrumb
<1>11. CASE Crash
  <2>1. Holding' = Holding
    BY <1>11 DEF Crash, Holding
  <2> QED
    BY <1>11, <2>1, SameHolders DEF Crash, Up, idleVars, TypeOK, IdleTypeOK,
       DeadlineOnlyWhenFree, CrumbMeansInFlight, CleanExitLeavesNoCrumb
<1>12. CASE UNCHANGED vars
  <2>1. Holding' = Holding
    BY <1>12 DEF vars, serverVars, Holding
  <2> QED
    BY <1>12, <2>1 DEF vars, serverVars, idleVars, TypeOK, IdleTypeOK, HoldsAreBalanced,
       DeadlineOnlyWhenFree, CrumbMeansInFlight, CleanExitLeavesNoCrumb
<1> QED
  BY <1>1, <1>2, <1>3, <1>4, <1>5, <1>6, <1>7, <1>8, <1>9, <1>10, <1>11, <1>12 DEF Next

-----------------------------------------------------------------------------
(* The theorems.                                                           *)

THEOREM BooksInvariant == Spec => []Books
BY BooksInit, BooksStep, PTL DEF Spec

(* The hold count never loses or gains a holder, so that the deadline can  *)
(* neither strike under a client nor be blocked for ever by a stray count. *)
THEOREM HoldCountIsExact == Spec => []HoldsAreBalanced
<1>1. Books => HoldsAreBalanced
  BY DEF Books
<1> QED
  BY <1>1, BooksInvariant, PTL

(* No exit that runs shutdown, whatever was in flight, leaves a breadcrumb *)
(* to be promoted as a fatal, or the pidfile; a breadcrumb on disk is that *)
(* of a call in flight.                                                    *)
THEOREM FilesAreTrue == Spec => []FilesTellTheTruth
<1>1. Books => FilesTellTheTruth
  BY DEF Books, LingeringPidfileMeansUnclean, FilesTellTheTruth
<1> QED
  BY <1>1, BooksInvariant, PTL

(* The state of the front door is always well typed, and its deadline is   *)
(* down while anybody holds.                                               *)
THEOREM DoorTypes == Spec => [](TypeOK /\ DeadlineOnlyWhenFree)
<1>1. Books => TypeOK /\ DeadlineOnlyWhenFree
  BY DEF Books
<1> QED
  BY <1>1, BooksInvariant, PTL

(* The idle deadline never strikes a daemon with a client connected or a   *)
(* dispatch in flight.                                                     *)
THEOREM IdleExitSparesCalls == Spec => IdleExitOnlyWhenIdle
<1>1. Books /\ [Next]_vars => [fired' # fired => running = {} /\ Holding = {}]_vars
  <2> SUFFICES ASSUME Books, [Next]_vars, fired' # fired
               PROVE  running = {} /\ Holding = {}
    OBVIOUS
  <2>1. IdleTimer /\ TimerFires
    BY DEF Next, Connect, Close, StartDispatch, ReplyAtOnce, ShutdownMessage,
       FinishDispatch, IdleTimer, Signal, ListenerClosed, Exit, Crash, Enter, Leave,
       HoldDispatch, ReleaseDispatch, EnterAndLeave, Stop, vars, idleVars
  <2>2. holds = 0 /\ holds = Cardinality(Holding) + Cardinality(running)
    BY <2>1 DEF TimerFires, IdleTimer, Turn, Up, Books, HoldsAreBalanced
  <2>3. Cardinality(Holding) = 0 /\ Cardinality(running) = 0
    BY <2>2, FiniteHolders DEF Books
  <2> QED
    BY <2>3, FiniteHolders, FS_EmptySet DEF Books
<1> QED
  BY <1>1, BooksInvariant, PTL DEF Spec, IdleExitOnlyWhenIdle

=============================================================================
