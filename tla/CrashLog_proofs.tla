-------------------------- MODULE CrashLog_proofs --------------------------
(***************************************************************************)
(* CrashLog, for what has died, and Watchdog, for what it kills.           *)
(*                                                                         *)
(* Why the log of fatals is true and complete, for any number of serving   *)
(* processes, calls and promotions.  A breadcrumb leaves its plain name    *)
(* once and for all, so one promoter at most takes it from there (Takes);  *)
(* only the dead are called crashed, and what a dead process was doing     *)
(* does not change any more; and a promoter removes a breadcrumb only      *)
(* after its record (Unlinks).                                             *)
(*                                                                         *)
(* Why a kill of the watchdog is never unfounded, for any number of ops.   *)
(* A tick reads the flag before the start.  Whenever the flag is set, the  *)
(* start in the slot is that of an op that has not ended, or whose end is  *)
(* being published right now; and from the tick on, the slot is only ever  *)
(* given ops that are alive, none of which had ended before the tick.      *)
(***************************************************************************)
EXTENDS CrashLog, Watchdog, TLAPS

States == {"unborn", "starting", "serving", "closing", "dead"}
Jobs == [step : {"none", "rename", "record", "unlink"}, call : Calls \cup {0},
         name : Names, kind : Kinds]

Shape ==
    /\ state \in [Processes -> States]
    /\ todo \in [Processes -> SUBSET (Calls \X Names)]
    /\ cur \in [Processes -> Jobs]
    /\ file \in [Calls -> Names] /\ owner \in [Calls -> Processes \cup {Nobody}]
    /\ phase \in [Calls -> Phases] /\ stamped \subseteq Calls
    /\ log \subseteq [call : Calls, kind : Kinds, by : Names]

Logged(k) == \E r \in log : r.call = k /\ r.kind # "ok"
PlainLogged(k) == \E r \in log : r.call = k /\ r.kind # "ok" /\ r.by = Plain
Unremoved(k) == state[owner[k]] = "dead" /\ phase[k] # "cleared"

\* The life of a call and its breadcrumb.
Callings ==
    \A k \in Calls :
        /\ phase[k] = "unused" => file[k] = NoFile /\ k \notin stamped
        /\ phase[k] # "unused" =>
              owner[k] \in Processes /\ state[owner[k]] \in {"serving", "closing", "dead"}
        /\ phase[k] = "cleared" => file[k] = NoFile

Listed(n) == phase[n[1]] # "unused" /\ n[2] # NoFile
Known == \A p \in Processes : \A n \in todo[p] : Listed(n)

\* Whatever a promoter is at, it is about a call that was made, and it calls a crash only
\* a call whose owner died before it had removed the breadcrumb.
AtWork(p) == cur[p].step # "none"
Founded ==
    \A p \in Processes : AtWork(p) =>
        /\ cur[p].call \in Calls /\ phase[cur[p].call] # "unused" /\ cur[p].kind # "ok"
        /\ cur[p].name # NoFile
        /\ cur[p].kind = "crash" => Unremoved(cur[p].call)

\* Between its rename and its record, a promoter that took the plain name is the
\* only one that ever did.
Holds(p, k) == cur[p].step = "record" /\ cur[p].name = Plain /\ cur[p].call = k
Takes ==
    \A p \in Processes : \A k \in Calls : Holds(p, k) =>
        /\ file[k] # Plain /\ ~PlainLogged(k)
        /\ \A q \in Processes \ {p} : ~Holds(q, k)

Unlinks ==
    \A p \in Processes : cur[p].step = "unlink" =>
        cur[p].call \in dropped \/ Logged(cur[p].call)

OnRecord ==
    \A k \in Calls : /\ Logged(k) => phase[k] # "unused"
                     /\ PlainLogged(k) => file[k] # Plain

\* NoFatalLost holds of live owners too, and until the call is cleared.
Kept == \A k \in Calls : k \in stamped \ dropped /\ phase[k] \in {"running", "recorded"} =>
            file[k] # NoFile \/ Logged(k)

Inv == /\ Shape /\ Callings /\ Known /\ Founded /\ Takes /\ Unlinks /\ OnRecord /\ Kept
       /\ FatalsAreTrue

LEMMA InvInit == Init => Inv
  <1> SUFFICES ASSUME Init PROVE Inv
    OBVIOUS
  <1>1. NoCur \in Jobs
    BY DEF NoCur, Jobs, Names, Kinds
  <1>2. Shape
    BY <1>1 DEF Init, Shape, States, Phases, Names
  <1>3. \A p \in Processes : cur[p].step = "none"
    BY DEF Init, NoCur
  <1>4. Callings /\ Known /\ Founded /\ Takes /\ Unlinks /\ OnRecord /\ Kept
    BY <1>3 DEF Init, Callings, Known, Listed, Founded, AtWork, Takes, Holds, Unlinks, OnRecord, Kept,
                Logged, PlainLogged
  <1>5. FatalsAreTrue
    BY DEF Init, FatalsAreTrue, CrashIsProven, CountedOnce
  <1> QED BY <1>2, <1>4, <1>5 DEF Inv

-----------------------------------------------------------------------------
\* Steps that touch neither breadcrumbs nor records, nor any job under way: they
\* may move processes on, but not back from the dead.
Onward == \A p \in Processes : /\ state[p] = "dead" => state'[p] = "dead"
                               /\ state[p] \in {"serving", "closing"} =>
                                     state'[p] \in {"serving", "closing", "dead"}

LEMMA QuietStep ==
  ASSUME Inv, Shape', Onward, UNCHANGED <<file, owner, phase, log, stamped, dropped>>,
         \A p \in Processes : cur'[p] = cur[p] \/ cur'[p].step = "none",
         \A p \in Processes : \A n \in todo'[p] : Listed(n)
  PROVE  Inv'
  <1>1. Callings'
    BY DEF Inv, Callings, Onward, Shape
  <1>2. Founded'
    BY DEF Inv, Founded, AtWork, Unremoved, Onward, Shape, Callings
  <1>3. \A p \in Processes, k \in Calls : Holds(p, k)' => Holds(p, k) /\ cur'[p] = cur[p]
    BY DEF Holds
  <1>4. Takes'
    BY <1>3 DEF Inv, Takes, PlainLogged
  <1>5. Unlinks'
    BY DEF Inv, Unlinks, Logged
  <1>6. OnRecord' /\ Kept' /\ Known'
    BY DEF Inv, OnRecord, Kept, Known, Listed, Logged, PlainLogged
  <1>7. FatalsAreTrue'
    BY DEF Inv, FatalsAreTrue, CrashIsProven, CountedOnce, Onward, Shape, OnRecord, Logged, Callings
  <1> QED BY <1>1, <1>2, <1>4, <1>5, <1>6, <1>7 DEF Inv

LEMMA StartStep ==
  ASSUME Inv, NEW p \in Processes, Start(p)
  PROVE  Inv'
  <1>1. Shape' /\ Onward
    BY DEF Start, Inv, Shape, States, calls, Onward
  <1>2. \A q \in Processes : \A n \in todo'[q] : Listed(n)
    BY DEF Start, Inv, Known, Listed, Callings, Shape
  <1> QED BY <1>1, <1>2, QuietStep DEF Start, calls

LEMMA ExamineStep ==
  ASSUME Inv, NEW p \in Processes, Examine(p)
  PROVE  Inv'
  <1>1. PICK n \in todo[p] :
          /\ todo' = [todo EXCEPT ![p] = @ \ {n}]
          /\ \/ UNCHANGED cur
             \/ /\ OwnerAllows(n[1]) /\ file[n[1]] = n[2]
                /\ cur' = [cur EXCEPT ![p] = [step |-> "rename", call |-> n[1], name |-> n[2],
                                              kind |-> Verdict(n[1])]]
    BY DEF Examine, Proceed
  <1>2. /\ n[1] \in Calls /\ n[2] \in Names /\ Listed(n)
        /\ UNCHANGED <<state, file, owner, phase, log, stamped, dropped>>
        /\ todo' \in [Processes -> SUBSET (Calls \X Names)]
    BY <1>1 DEF Inv, Shape, Known, Listed, Examine, calls
  <1>3. \A q \in Processes : \A m \in todo'[q] : Listed(m)
    BY <1>1 DEF Inv, Known, Listed, Shape
  <1>4. Onward
    BY <1>2 DEF Onward
  <1>5. CASE UNCHANGED cur
    <2>1. Shape'
      BY <1>2, <1>5 DEF Inv, Shape
    <2> QED BY <1>2, <1>3, <1>4, <1>5, <2>1, QuietStep
  <1>6. CASE /\ file[n[1]] = n[2]
             /\ cur' = [cur EXCEPT ![p] = [step |-> "rename", call |-> n[1], name |-> n[2],
                                           kind |-> Verdict(n[1])]]
    <2> DEFINE job == [step |-> "rename", call |-> n[1], name |-> n[2], kind |-> Verdict(n[1])]
    <2>1. Verdict(n[1]) \in {"crash", "abandoned"}
      BY DEF Verdict
    <2>2. job \in Jobs
      BY <1>2, <2>1 DEF Jobs, Kinds
    <2>3. Shape'
      BY <1>2, <1>6, <2>2 DEF Inv, Shape
    <2>4. Verdict(n[1]) = "crash" => Unremoved(n[1])
      BY <1>2, <1>6 DEF Listed, Verdict, IsAlive, Runs, Unremoved, Inv, Callings
    <2>5. cur' = [cur EXCEPT ![p] = job]
      BY <1>6
    <2> HIDE DEF job
    <2>6. /\ job.step = "rename" /\ job.call = n[1] /\ job.kind = Verdict(n[1])
          /\ job.name # NoFile
      BY <1>2 DEF job, Listed
    <2>7. \A q \in Processes : cur'[q] = IF q = p THEN job ELSE cur[q]
      BY <2>5 DEF Inv, Shape
    <2>8. Founded'
      BY <1>2, <2>1, <2>4, <2>6, <2>7 DEF Inv, Listed, Founded, AtWork, Unremoved
    <2>9. \A q \in Processes, k \in Calls : Holds(q, k)' => Holds(q, k) /\ cur'[q] = cur[q]
      BY <2>6, <2>7 DEF Holds
    <2>10. Takes'
      BY <1>2, <2>9 DEF Inv, Takes, PlainLogged
    <2>11. Unlinks'
      BY <1>2, <2>6, <2>7 DEF Inv, Unlinks, Logged
    <2>12. Callings' /\ Known' /\ OnRecord' /\ Kept'
      BY <1>2, <1>3 DEF Inv, Callings, Known, Listed, OnRecord, Kept, Logged, PlainLogged
    <2>13. FatalsAreTrue'
      BY <1>2 DEF Inv, FatalsAreTrue, CrashIsProven, CountedOnce
    <2> QED BY <2>3, <2>8, <2>10, <2>11, <2>12, <2>13 DEF Inv
  <1> QED BY <1>1, <1>5, <1>6

\* A rename takes the breadcrumb from everybody else who may have meant to.
LEMMA RenameStep ==
  ASSUME Inv, NEW p \in Processes, Rename(p)
  PROVE  Inv'
  <1> DEFINE k == cur[p].call
  <1>1. /\ cur[p] \in Jobs /\ k \in Calls /\ phase[k] # "unused" /\ cur[p].kind # "ok"
        /\ cur[p].name # NoFile
        /\ cur[p].kind = "crash" => Unremoved(k)
        /\ UNCHANGED <<state, todo, owner, phase, log, stamped, dropped>>
    BY DEF Rename, Inv, Shape, Founded, AtWork
  <1>2. Onward /\ \A q \in Processes : \A n \in todo'[q] : Listed(n)
    BY <1>1 DEF Onward, Inv, Known, Listed
  <1>3. CASE ~Taken(p)
    <2>1. cur' = [cur EXCEPT ![p] = NoCur] /\ file' = file /\ NoCur \in Jobs /\ NoCur.step = "none"
      BY <1>3 DEF Rename, Proceed, NoCur, Jobs, Names, Kinds
    <2>2. Shape'
      BY <1>1, <2>1 DEF Inv, Shape
    <2>3. \A q \in Processes : cur'[q] = cur[q] \/ cur'[q].step = "none"
      BY <2>1 DEF Inv, Shape
    <2> QED BY <1>1, <1>2, <2>1, <2>2, <2>3, QuietStep
  <1>4. CASE Taken(p)
    <2> DEFINE job == [cur[p] EXCEPT !.step = "record"]
    <2>1. cur' = [cur EXCEPT ![p] = job] /\ file' = [file EXCEPT ![k] = p] /\ file[k] = cur[p].name
      BY <1>4 DEF Rename, Proceed, Taken
    <2>2. job \in Jobs /\ job.step = "record" /\ job.call = k /\ job.kind = cur[p].kind
          /\ job.name = cur[p].name
      BY <1>1 DEF Jobs
    <2> HIDE DEF job
    <2>3. Shape'
      BY <1>1, <2>1, <2>2 DEF Inv, Shape, Names
    <2>4. /\ \A q \in Processes : cur'[q] = IF q = p THEN job ELSE cur[q]
          /\ \A j \in Calls : file'[j] = IF j = k THEN p ELSE file[j]
          /\ p # Plain /\ p # NoFile
      BY <1>1, <2>1, CrashLogAssumption DEF Inv, Shape
    <2>5. Callings' /\ Known'
      BY <1>1, <2>1, <2>4 DEF Inv, Callings, Known, Listed
    <2>6. Founded'
      BY <1>1, <2>2, <2>4 DEF Inv, Founded, AtWork, Unremoved
    <2>7. Takes'
      <3> SUFFICES ASSUME NEW q \in Processes, NEW j \in Calls, Holds(q, j)'
                   PROVE  /\ file'[j] # Plain /\ ~PlainLogged(j)
                          /\ \A r \in Processes \ {q} : ~Holds(r, j)'
        BY <1>1 DEF Takes, PlainLogged
      <3>1. CASE q = p
        <4>1. j = k /\ file[k] = Plain
          BY <2>1, <2>2, <2>4, <3>1 DEF Holds
        <4>2. ~PlainLogged(k)
          BY <1>1, <4>1 DEF Inv, OnRecord
        <4>3. \A r \in Processes \ {p} : ~Holds(r, k)
          BY <1>1, <4>1 DEF Inv, Takes
        <4> QED BY <2>4, <3>1, <4>1, <4>2, <4>3 DEF Holds
      <3>2. CASE q # p
        <4>1. Holds(q, j) /\ cur'[q] = cur[q]
          BY <2>4, <3>2 DEF Holds
        <4>2. /\ file[j] # Plain /\ ~PlainLogged(j)
              /\ \A r \in Processes \ {q} : ~Holds(r, j)
          BY <4>1 DEF Inv, Takes
        <4>3. ~Holds(p, j)'
          BY <2>1, <2>2, <2>4, <4>2 DEF Holds
        <4> QED BY <2>4, <4>1, <4>2, <4>3 DEF Holds
      <3> QED BY <3>1, <3>2
    <2>8. Unlinks'
      BY <1>1, <2>2, <2>4 DEF Inv, Unlinks, Logged
    <2>9. OnRecord' /\ Kept'
      BY <1>1, <2>4 DEF Inv, OnRecord, Kept, Logged, PlainLogged
    <2>10. FatalsAreTrue'
      BY <1>1 DEF Inv, FatalsAreTrue, CrashIsProven, CountedOnce
    <2> QED BY <2>3, <2>5, <2>6, <2>7, <2>8, <2>9, <2>10 DEF Inv
  <1> QED BY <1>3, <1>4

\* The record: what was taken from the plain name is not on file yet.
LEMMA PromoteStep ==
  ASSUME Inv, NEW p \in Processes, Promote(p)
  PROVE  Inv'
  <1> DEFINE k == cur[p].call
             job == [cur[p] EXCEPT !.step = "unlink"]
             entry == Entry(k, cur[p].kind, cur[p].name)
  <1>1. /\ cur[p] \in Jobs /\ k \in Calls /\ phase[k] # "unused" /\ cur[p].kind # "ok"
        /\ cur[p].name # NoFile
        /\ cur[p].kind = "crash" => Unremoved(k)
        /\ cur[p].step = "record"
        /\ UNCHANGED <<state, todo, file, owner, phase, stamped>>
    BY DEF Promote, Inv, Shape, Founded, AtWork
  <1>2. /\ cur' = [cur EXCEPT ![p] = job]
        /\ \/ log' = log \cup {entry} /\ dropped' = dropped
           \/ log' = log /\ dropped' = dropped \cup {k}
    BY DEF Promote, Proceed, Write
  <1>3. /\ job \in Jobs /\ job.step = "unlink" /\ job.call = k /\ job.kind = cur[p].kind
        /\ job.name = cur[p].name
    BY <1>1 DEF Jobs
  <1>4. entry \in [call : Calls, kind : Kinds, by : Names] /\ entry.call = k
        /\ entry.kind = cur[p].kind /\ entry.by = cur[p].name
    BY <1>1 DEF Jobs, Entry
  <1> HIDE DEF job, entry
  <1>5. Shape'
    BY <1>1, <1>2, <1>3, <1>4 DEF Inv, Shape
  <1>6. \A q \in Processes : cur'[q] = IF q = p THEN job ELSE cur[q]
    BY <1>2 DEF Inv, Shape
  <1>7. /\ \A j \in Calls : Logged(j) => Logged(j)'
        /\ \A j \in Calls : Logged(j)' => Logged(j) \/ j = k
        /\ \A j \in Calls : PlainLogged(j)' => PlainLogged(j) \/ (j = k /\ cur[p].name = Plain)
        /\ \A j \in Calls : j = k => Logged(j)' \/ j \in dropped'
    <2>1. CASE log' = log \cup {entry} /\ dropped' = dropped
      <3>1. \A r : r \in log' <=> r \in log \/ r = entry
        BY <2>1
      <3>2. \A j \in Calls : Logged(j)' <=> Logged(j) \/ j = k
        BY <1>1, <1>4, <3>1 DEF Logged
      <3>3. \A j \in Calls : PlainLogged(j)' => PlainLogged(j) \/ (j = k /\ cur[p].name = Plain)
        BY <1>4, <3>1 DEF PlainLogged
      <3> QED BY <1>1, <3>2, <3>3
    <2>2. CASE log' = log /\ dropped' = dropped \cup {k}
      BY <2>2 DEF Logged, PlainLogged
    <2> QED BY <1>2, <2>1, <2>2
  <1>8. Callings' /\ Known'
    BY <1>1 DEF Inv, Callings, Known, Listed
  <1>9. Founded'
    BY <1>1, <1>3, <1>6 DEF Inv, Founded, AtWork, Unremoved
  <1>10. Takes'
    <2> SUFFICES ASSUME NEW q \in Processes, NEW j \in Calls, Holds(q, j)'
                 PROVE  /\ file[j] # Plain /\ ~PlainLogged(j)'
                        /\ \A r \in Processes \ {q} : ~Holds(r, j)'
      BY <1>1 DEF Takes
    <2>1. q # p /\ Holds(q, j) /\ cur'[q] = cur[q]
      BY <1>3, <1>6 DEF Holds
    <2>2. /\ file[j] # Plain /\ ~PlainLogged(j)
          /\ \A r \in Processes \ {q} : ~Holds(r, j)
      BY <2>1 DEF Inv, Takes
    <2>3. ~(j = k /\ cur[p].name = Plain)
      BY <1>1, <2>1, <2>2 DEF Holds
    <2>4. \A r \in Processes \ {q} : ~Holds(r, j)'
      BY <1>3, <1>6, <2>2 DEF Holds
    <2> QED BY <1>7, <2>1, <2>2, <2>3, <2>4
  <1>11. Unlinks'
    <2> SUFFICES ASSUME NEW q \in Processes, cur'[q].step = "unlink"
                 PROVE  \E j \in Calls : j = cur'[q].call /\ (j \in dropped' \/ Logged(j)')
      BY DEF Unlinks, Logged
    <2>1. CASE q = p
      BY <1>1, <1>3, <1>6, <1>7, <2>1
    <2>2. CASE q # p
      <3>1. cur'[q] = cur[q] /\ cur[q].call \in Calls
            /\ (cur[q].call \in dropped \/ Logged(cur[q].call))
        BY <1>6, <2>2 DEF Inv, Unlinks, Founded, AtWork
      <3> QED BY <1>2, <1>7, <3>1
    <2> QED BY <2>1, <2>2
  <1>12. OnRecord'
    <2>1. cur[p].name = Plain => file[k] # Plain
      BY <1>1 DEF Inv, Takes, Holds
    <2> QED BY <1>1, <1>7, <2>1 DEF Inv, OnRecord
  <1>13. Kept'
    BY <1>1, <1>2, <1>7 DEF Inv, Kept
  <1>14. FatalsAreTrue'
    <2>1. CASE log' = log
      BY <1>1, <2>1 DEF Inv, FatalsAreTrue, CrashIsProven, CountedOnce
    <2>2. CASE log' = log \cup {entry}
      <3>1. entry.kind = "crash" => state[owner[k]] = "dead" /\ phase[k] # "cleared"
        BY <1>1, <1>4 DEF Unremoved
      <3>2. CrashIsProven'
        BY <1>1, <1>4, <2>2, <3>1 DEF Inv, FatalsAreTrue, CrashIsProven
      <3>3. \A r \in log : r.call = k /\ r.kind # "ok" /\ r.by = Plain => entry.by # Plain
        BY <1>1, <1>4 DEF Inv, Takes, Holds, PlainLogged
      <3>4. CountedOnce'
        BY <1>4, <2>2, <3>3 DEF Inv, FatalsAreTrue, CountedOnce
      <3> QED BY <3>2, <3>4 DEF FatalsAreTrue
    <2> QED BY <1>2, <2>1, <2>2
  <1> QED BY <1>5, <1>8, <1>9, <1>10, <1>11, <1>12, <1>13, <1>14 DEF Inv

\* The unlink: only what is on record, or could not be, is removed.
LEMMA UnlinkStep ==
  ASSUME Inv, NEW p \in Processes, Unlink(p)
  PROVE  Inv'
  <1> DEFINE k == cur[p].call
  <1>1. /\ k \in Calls /\ phase[k] # "unused" /\ (k \in dropped \/ Logged(k))
        /\ UNCHANGED <<state, todo, owner, phase, log, stamped, dropped>>
        /\ cur' = [cur EXCEPT ![p] = NoCur] /\ NoCur \in Jobs /\ NoCur.step = "none"
    BY DEF Unlink, Proceed, Inv, Founded, AtWork, Unlinks, NoCur, Jobs, Names, Kinds
  <1>2. /\ \A q \in Processes : cur'[q] = IF q = p THEN NoCur ELSE cur[q]
        /\ \A j \in Calls : file'[j] = file[j] \/ (j = k /\ file'[j] = NoFile)
        /\ Plain # NoFile
    BY <1>1 DEF Unlink, Inv, Shape, Plain, NoFile
  <1>3. Shape'
    BY <1>1 DEF Unlink, Inv, Shape, Names
  <1>4. Callings' /\ Known'
    BY <1>1, <1>2 DEF Inv, Callings, Known, Listed
  <1>5. Founded'
    BY <1>1, <1>2 DEF Inv, Founded, AtWork, Unremoved
  <1>6. \A q \in Processes, j \in Calls : Holds(q, j)' => Holds(q, j) /\ cur'[q] = cur[q]
    BY <1>1, <1>2 DEF Holds
  <1>7. Takes'
    BY <1>1, <1>2, <1>6 DEF Inv, Takes, PlainLogged
  <1>8. Unlinks'
    BY <1>1, <1>2 DEF Inv, Unlinks, Logged
  <1>9. OnRecord'
    BY <1>1, <1>2 DEF Inv, OnRecord, Logged, PlainLogged
  <1>10. Kept'
    BY <1>1, <1>2 DEF Inv, Kept, Logged
  <1>11. FatalsAreTrue'
    BY <1>1 DEF Inv, FatalsAreTrue, CrashIsProven, CountedOnce
  <1> QED BY <1>3, <1>4, <1>5, <1>7, <1>8, <1>9, <1>10, <1>11 DEF Inv

LEMMA ServeStep ==
  ASSUME Inv, NEW p \in Processes, Serve(p)
  PROVE  Inv'
  <1>1. Shape' /\ Onward
    BY DEF Serve, Scanning, Inv, Shape, States, calls, Onward
  <1>2. \A q \in Processes : \A n \in todo'[q] : Listed(n)
    BY DEF Serve, Inv, Known, Listed, Shape
  <1> QED BY <1>1, <1>2, QuietStep DEF Serve, calls

\* A step of the world, or the end of a process.
LEMMA WorldStep ==
  ASSUME Inv, NEW p \in Processes, Close(p) \/ Dies(p) \/ PidIsReused(p) \/ DiskFills(p)
  PROVE  Inv'
  <1>1. NoCur \in Jobs /\ NoCur.step = "none"
    BY DEF NoCur, Jobs, Names, Kinds
  <1>2. Shape' /\ Onward
    <2>1. CASE Close(p)
      BY <2>1 DEF Close, Inv, Shape, States, calls, Onward
    <2>2. CASE Dies(p)
      BY <1>1, <2>2 DEF Dies, Inv, Shape, States, calls, Onward
    <2>3. CASE PidIsReused(p) \/ DiskFills(p)
      BY <2>3 DEF PidIsReused, DiskFills, Inv, Shape, calls, Onward
    <2> QED BY <2>1, <2>2, <2>3
  <1>3. \A q \in Processes : todo'[q] \subseteq todo[q]
    BY DEF Close, Dies, PidIsReused, DiskFills, Inv, Shape
  <1>4. \A q \in Processes : cur'[q] = cur[q] \/ cur'[q].step = "none"
    BY <1>1 DEF Close, Dies, PidIsReused, DiskFills, Inv, Shape
  <1>5. \A q \in Processes : \A n \in todo'[q] : Listed(n)
    BY <1>3 DEF Inv, Known, Listed
  <1> QED BY <1>2, <1>4, <1>5, QuietStep DEF Close, Dies, PidIsReused, DiskFills, calls

LEMMA BeginStep ==
  ASSUME Inv, NEW p \in Processes, Begin(p)
  PROVE  Inv'
  <1>1. PICK k \in Calls :
          /\ phase[k] = "unused" /\ phase' = [phase EXCEPT ![k] = "running"]
          /\ owner' = [owner EXCEPT ![k] = p]
          /\ \/ file' = [file EXCEPT ![k] = Plain] /\ stamped' = stamped \cup {k}
             \/ UNCHANGED <<file, stamped>>
    BY DEF Begin, Moves
  <1>2. state[p] = "serving" /\ UNCHANGED <<state, todo, cur, log, dropped>>
    BY DEF Begin, procs
  <1>3. Shape'
    BY <1>1, <1>2 DEF Inv, Shape, Names, Phases
  <1>4. /\ \A j \in Calls \ {k} : /\ phase'[j] = phase[j] /\ owner'[j] = owner[j]
                                  /\ file'[j] = file[j] /\ (j \in stamped' <=> j \in stamped)
        /\ phase'[k] = "running" /\ owner'[k] = p
        /\ file'[k] = Plain \/ k \notin stamped'
        /\ Plain # NoFile
    BY <1>1 DEF Inv, Shape, Callings, Plain, NoFile
  <1>5. ~Logged(k) /\ ~PlainLogged(k)
    BY <1>1 DEF Inv, OnRecord, Logged, PlainLogged
  <1>6. Callings'
    BY <1>2, <1>4 DEF Inv, Callings
  <1>7. Known'
    BY <1>1, <1>2, <1>4 DEF Inv, Known, Listed, Shape
  <1>8. Founded'
    BY <1>1, <1>2, <1>4 DEF Inv, Founded, AtWork, Unremoved
  <1>9. Takes'
    <2>1. \A q \in Processes : ~Holds(q, k)
      BY <1>1 DEF Inv, Holds, Founded, AtWork
    <2> QED BY <1>2, <1>4, <2>1 DEF Inv, Takes, Holds, PlainLogged
  <1>10. Unlinks' /\ OnRecord' /\ Kept'
    BY <1>2, <1>4, <1>5 DEF Inv, Unlinks, OnRecord, Kept, Logged, PlainLogged
  <1>11. FatalsAreTrue'
    <2>1. \A r \in log : r.kind = "crash" => r.call \in Calls /\ r.call # k
      BY <1>5 DEF Inv, Shape, Logged
    <2> QED BY <1>2, <1>4, <2>1 DEF Inv, FatalsAreTrue, CrashIsProven, CountedOnce
  <1> QED BY <1>3, <1>6, <1>7, <1>8, <1>9, <1>10, <1>11 DEF Inv

\* A live owner records its call, or clears it: nobody calls it a crash.
LEMMA OwnerStep ==
  ASSUME Inv, NEW p \in Processes, NEW k \in Calls, Record(p, k) \/ Clear(p, k)
  PROVE  Inv'
  <1>1. /\ owner[k] = p /\ state[p] # "dead" /\ phase[k] \in {"running", "recorded"}
        /\ UNCHANGED <<state, todo, cur, owner, stamped, dropped>>
    BY DEF Record, Clear, Of, Runs, procs
  <1>2. \A j \in Calls \ {k} : phase'[j] = phase[j] /\ file'[j] = file[j]
    BY DEF Record, Clear, Moves, Inv, Shape
  <1>3. \/ phase'[k] = "recorded" /\ file'[k] = file[k]
        \/ phase'[k] = "cleared" /\ file'[k] = NoFile
        \/ phase'[k] = "left" /\ file'[k] = file[k]
    BY DEF Record, Clear, Moves, Inv, Shape, Plain, NoFile
  <1>4. file'[k] = Plain => file[k] = Plain
    BY <1>3 DEF Plain, NoFile
  <1>5. \/ log' = log \/ log' = log \cup {Entry(k, "ok", p)}
    BY DEF Record, Clear, Write
  <1>6. Entry(k, "ok", p) \in [call : Calls, kind : Kinds, by : Names]
        /\ Entry(k, "ok", p).kind = "ok"
    BY DEF Entry, Kinds, Names
  <1>7. Shape'
    BY <1>1, <1>5, <1>6 DEF Record, Clear, Moves, Inv, Shape, Phases, Names
  <1>8. \A j \in Calls : (Logged(j)' <=> Logged(j)) /\ (PlainLogged(j)' <=> PlainLogged(j))
    <2>1. \A r : r.kind # "ok" => (r \in log' <=> r \in log)
      BY <1>5, <1>6
    <2> QED BY <2>1 DEF Logged, PlainLogged
  <1>9. Callings' /\ Known'
    BY <1>1, <1>2, <1>3 DEF Inv, Callings, Known, Listed, Shape
  <1>10. Founded'
    BY <1>1, <1>2, <1>3 DEF Inv, Founded, AtWork, Unremoved
  <1>11. Takes'
    BY <1>1, <1>2, <1>3, <1>4, <1>8 DEF Inv, Takes, Holds
  <1>12. Unlinks'
    BY <1>1, <1>8 DEF Inv, Unlinks, Founded, AtWork
  <1>13. OnRecord'
    BY <1>2, <1>3, <1>4, <1>8 DEF Inv, OnRecord
  <1>14. Kept'
    BY <1>1, <1>2, <1>3, <1>8 DEF Inv, Kept
  <1>15. FatalsAreTrue'
    <2>1. \A r \in log : r.kind = "crash" => r.call \in Calls /\ r.call # k
      BY <1>1 DEF Inv, FatalsAreTrue, CrashIsProven, Shape
    <2>2. \A r \in log' : r.kind # "ok" => r \in log
      BY <1>5, <1>6
    <2>3. CrashIsProven'
      BY <1>1, <1>2, <2>1, <2>2 DEF Inv, FatalsAreTrue, CrashIsProven
    <2>4. CountedOnce'
      BY <2>2 DEF Inv, FatalsAreTrue, CountedOnce
    <2> QED BY <2>3, <2>4 DEF FatalsAreTrue
  <1> QED BY <1>7, <1>9, <1>10, <1>11, <1>12, <1>13, <1>14, <1>15 DEF Inv

LEMMA StillStep ==
  ASSUME Inv, UNCHANGED <<state, todo, cur, file, owner, phase, log, stamped, dropped>>
  PROVE  Inv'
  <1>1. Shape' /\ Onward /\ \A q \in Processes : \A n \in todo'[q] : Listed(n)
    BY DEF Inv, Shape, Onward, Known, Listed
  <1> QED BY <1>1, QuietStep

LEMMA InvStep ==
  ASSUME Inv, [Next]_vars
  PROVE  Inv'
  <1>1. CASE UNCHANGED vars \/ \E k \in Calls : Ages(k)
    BY <1>1, StillStep DEF vars, procs, calls, Ages
  <1> QED BY <1>1, StartStep, ExamineStep, RenameStep, PromoteStep, UnlinkStep, ServeStep,
             BeginStep, WorldStep, OwnerStep DEF Next

THEOREM AlwaysInv == Spec => []Inv
  BY InvInit, InvStep, PTL DEF Spec

-----------------------------------------------------------------------------
\* A call on record as a crash has a dead owner that had not removed the call's breadcrumb: it had not
\* finished with the call, or it had and died before the unlink or could not unlink (inflight.ts,
\* call-telemetry.ts). However many starts race over such a call, it is recorded as one thing.
THEOREM CrashesHaveBreadcrumbs == Spec => []FatalsAreTrue
  <1>1. Inv => FatalsAreTrue
    BY DEF Inv
  <1> QED BY <1>1, AlwaysInv, PTL

\* A call that died in flight is on record or still on disk, wherever its promoters
\* have died.
THEOREM NoCrashIsForgotten == Spec => []NoFatalLost
  <1>1. Inv => NoFatalLost
    BY DEF Inv, Kept, NoFatalLost, Logged, Shape
  <1> QED BY <1>1, AlwaysInv, PTL

-----------------------------------------------------------------------------
(* Watchdog.                                                               *)

\* The ops whose end is not published yet.
Open == live \cup leaving

Rewriting == \/ stores \in {writeBusy, <<"startMs", "busy">>}
             \/ stores = <<"busy">> /\ startMs = crumb

\* The stores that are left, and what the slot says meanwhile.
SlotIsCurrent ==
    /\ begun \in Nat /\ live \subseteq 1..begun /\ leaving \subseteq 1..begun
    /\ busy \in BOOLEAN
    /\ \/ stores = <<>> /\ leaving = {}
       \/ stores = writeIdle
       \/ Rewriting /\ crumb \in live
    /\ busy => startMs \in Open

\* What the worker has read, and what it may still read.
ReadingIsCurrent ==
    /\ settled \subseteq 1..begun /\ settled \cap Open = {}
    /\ at = "startMs" /\ snap.busy => startMs \notin settled
    /\ at \in {"text", "decide"} /\ snap.busy => snap.startMs \notin settled
    /\ snap \in [busy : BOOLEAN, startMs : Nat, text : Nat]
    /\ startMs \in Nat /\ text \in Nat
    /\ record.reason # "none" => at = "kill"

Lawful == SlotIsCurrent /\ ReadingIsCurrent /\ ReapedForCause

LEMMA LawfulInit == WatchInit => Lawful
  <1> SUFFICES ASSUME WatchInit PROVE Lawful
    OBVIOUS
  <1>1. SlotIsCurrent
    BY DEF WatchInit, SlotIsCurrent, Open
  <1>2. snap \in [busy : BOOLEAN, startMs : Nat, text : Nat]
    BY DEF WatchInit, NoSnap, None
  <1>3. ReadingIsCurrent
    BY <1>2 DEF WatchInit, ReadingIsCurrent, Open, NoRecord, None
  <1>4. ReapedForCause
    BY DEF WatchInit, ReapedForCause, NoRecord
  <1> QED BY <1>1, <1>3, <1>4 DEF Lawful

\* What the main thread does while the worker stands still keeps what the worker relies on.
LEMMA WorkerStands ==
  ASSUME Lawful, SlotIsCurrent', UNCHANGED worker, begun' \in Nat, begun <= begun',
         Open' \subseteq Open \cup (1..begun' \ 1..begun),
         startMs' = startMs \/ startMs' \in Open', startMs' \in Nat, text' \in Nat,
         aware' = aware, parent' = parent
  PROVE  Lawful'
  <1>1. settled \subseteq 1..begun' /\ settled \cap Open' = {}
    BY DEF Lawful, SlotIsCurrent, ReadingIsCurrent
  <1>2. startMs' = startMs \/ startMs' \notin settled
    BY <1>1
  <1> QED BY <1>1, <1>2 DEF Lawful, ReadingIsCurrent, ReapedForCause, worker

LEMMA NothingLeft == SlotIsCurrent /\ stores = <<>> => leaving = {}
  <1>1. <<"idle">> # <<>> /\ <<"busy">> # <<>> /\ <<"startMs", "busy">> # <<>> /\ writeBusy # <<>>
    BY DEF writeBusy
  <1> QED BY <1>1 DEF SlotIsCurrent, Rewriting, writeIdle

LEMMA LawfulStep == Lawful /\ [WatchNext]_watchVars => Lawful'
  <1> SUFFICES ASSUME Lawful, [WatchNext]_watchVars PROVE Lawful'
    OBVIOUS
  <1>1. CASE BeginOp
    <2>1. leaving = {} /\ begun \in Nat /\ live \subseteq 1..begun /\ (busy => startMs \in live)
      BY <1>1, NothingLeft DEF BeginOp, Free, Lawful, SlotIsCurrent, Open
    <2>2. live' \subseteq 1..begun' /\ begun' = begun + 1 /\ live' = live \cup {begun + 1} /\ leaving' = {}
      BY <1>1, <2>1 DEF BeginOp
    <2>3. stores' = writeIdle \/ (Rewriting /\ crumb \in live)'
      BY <1>1 DEF BeginOp, Publish, Candidate, Rewriting, writeBusy
    <2>4. SlotIsCurrent'
      BY <1>1, <2>1, <2>2, <2>3 DEF BeginOp, SlotIsCurrent, Open, Lawful, writeIdle
    <2> QED BY <1>1, <2>1, <2>2, <2>4, WorkerStands DEF BeginOp, Lawful, ReadingIsCurrent, Open
  <1>2. CASE Finish
    <2>1. leaving = {} /\ begun \in Nat /\ live \subseteq 1..begun /\ (busy => startMs \in live)
      BY <1>2, NothingLeft DEF Finish, Free, Lawful, SlotIsCurrent, Open
    <2>2. PICK o \in live : live' = live \ {o} /\ leaving' = {o} /\ Publish(live')
      BY <1>2 DEF Finish
    <2>3. stores' = writeIdle \/ (Rewriting /\ crumb \in live)'
      BY <2>2 DEF Publish, Candidate, Rewriting, writeBusy
    <2>4. UNCHANGED <<begun, busy, startMs, text, worker, aware, parent>>
      BY <1>2 DEF Finish
    <2>5. SlotIsCurrent'
      BY <2>1, <2>2, <2>3, <2>4 DEF SlotIsCurrent, Open, Lawful, writeIdle
    <2> QED BY <2>1, <2>2, <2>4, <2>5, WorkerStands DEF Lawful, ReadingIsCurrent, Open
  <1>3. CASE Store
    <2>1. UNCHANGED <<begun, live, worker, aware, parent>>
      BY <1>3 DEF Store
    <2>2. /\ busy' = (stores[1] = "busy" \/ (busy /\ stores[1] # "idle"))
          /\ startMs' = IF stores[1] = "startMs" THEN crumb ELSE startMs
          /\ text' = IF stores[1] = "text" THEN crumb ELSE text
      BY <1>3 DEF Store
    <2>3. stores' = Tail(stores) /\ leaving' = IF Len(stores) = 1 THEN {} ELSE leaving
      BY <1>3 DEF Store
    <2>4. crumb' = crumb
      BY <1>3 DEF Store
    <2> DEFINE SlotKept == SlotIsCurrent' /\ (startMs' = startMs \/ startMs' \in live') /\ startMs' \in Nat /\ text' \in Nat
    <2>7. SlotKept
      <3>1. CASE stores = writeIdle
        <4>1. stores' = <<>> /\ leaving' = {}
          BY <2>3, <3>1 DEF writeIdle
        <4>2. busy' = FALSE /\ startMs' = startMs /\ text' = text
          BY <2>2, <3>1 DEF writeIdle
        <4> QED BY <2>1, <4>1, <4>2 DEF SlotIsCurrent, Open, Lawful, ReadingIsCurrent
      <3>2. CASE stores = writeBusy /\ crumb \in live
        <4>1. stores' = <<"startMs", "busy">> /\ leaving' = leaving
          BY <2>3, <3>2 DEF writeBusy
        <4>2. busy' = busy /\ startMs' = startMs /\ text' = crumb
          BY <2>2, <3>2 DEF writeBusy, Lawful, SlotIsCurrent
        <4> QED BY <2>1, <2>4, <3>2, <4>1, <4>2 DEF SlotIsCurrent, Open, Lawful, Rewriting, ReadingIsCurrent
      <3>3. CASE stores = <<"startMs", "busy">> /\ crumb \in live
        <4>1. stores' = <<"busy">> /\ leaving' = leaving
          BY <2>3, <3>3
        <4>2. busy' = busy /\ startMs' = crumb /\ text' = text
          BY <2>2, <3>3 DEF Lawful, SlotIsCurrent
        <4> QED BY <2>1, <2>4, <3>3, <4>1, <4>2 DEF SlotIsCurrent, Open, Lawful, Rewriting, ReadingIsCurrent
      <3>4. CASE stores = <<"busy">> /\ startMs = crumb /\ crumb \in live
        <4>1. stores' = <<>> /\ leaving' = {}
          BY <2>3, <3>4
        <4>2. busy' = TRUE /\ startMs' = startMs /\ text' = text
          BY <2>2, <3>4
        <4> QED BY <2>1, <2>4, <3>4, <4>1, <4>2 DEF SlotIsCurrent, Open, Lawful, ReadingIsCurrent
      <3> QED BY <1>3, <3>1, <3>2, <3>3, <3>4 DEF Store, Lawful, SlotIsCurrent, Rewriting
    <2>5. Open' \subseteq Open
      BY <2>1, <2>3 DEF Open
    <2> QED BY <2>1, <2>7, <2>5, WorkerStands DEF Lawful, SlotIsCurrent, Open
  <1>4. CASE GetsStuck \/ AskedToStop \/ OrphanPoll \/ Exit
    <2>1. UNCHANGED <<begun, live, stores, crumb, busy, startMs, text, leaving, worker, aware, parent>>
      BY <1>4 DEF GetsStuck, AskedToStop, OrphanPoll, Exit, main
    <2> QED BY <2>1 DEF Lawful, SlotIsCurrent, ReadingIsCurrent, ReapedForCause, Open, Rewriting, worker
  <1>5. CASE Tick
    <2>1. UNCHANGED <<begun, live, stores, crumb, busy, startMs, text, leaving, snap, record, aware, parent>>
      BY <1>5 DEF Tick, Goes, main
    <2>2. SlotIsCurrent'
      BY <2>1 DEF Lawful, SlotIsCurrent, Open, Rewriting
    <2>3. at = "asleep" /\ at' = "busy" /\ settled' = 1..begun \ Open
      BY <1>5 DEF Tick, Goes, Open
    <2> QED BY <2>1, <2>2, <2>3 DEF Lawful, ReadingIsCurrent, ReapedForCause, Open
  <1>6. CASE LoadBusy \/ LoadStart \/ LoadText
    <2>1. UNCHANGED <<begun, live, stores, crumb, busy, startMs, text, leaving, then, settled, record, aware, parent>>
      BY <1>6 DEF LoadBusy, LoadStart, LoadText, Goes, main
    <2>2. SlotIsCurrent'
      BY <2>1 DEF Lawful, SlotIsCurrent, Open, Rewriting
    <2>3. record.reason = "none"
      BY <1>6 DEF LoadBusy, LoadStart, LoadText, Lawful, ReadingIsCurrent
    <2>4. ReapedForCause'
      BY <2>1, <2>3 DEF ReapedForCause
    <2>5. ReadingIsCurrent'
      <3>1. CASE LoadBusy
        BY <2>1, <2>3, <3>1 DEF LoadBusy, Goes, Lawful, ReadingIsCurrent, SlotIsCurrent, Open
      <3>2. CASE LoadStart
        BY <2>1, <2>3, <3>2 DEF LoadStart, Goes, Lawful, ReadingIsCurrent, Open
      <3>3. CASE LoadText
        BY <2>1, <2>3, <3>3 DEF LoadText, Goes, Lawful, ReadingIsCurrent, Open
      <3> QED BY <1>6, <3>1, <3>2, <3>3
    <2> QED BY <2>2, <2>4, <2>5 DEF Lawful
  <1>7. CASE Decide
    <2>1. UNCHANGED <<begun, live, stores, crumb, busy, startMs, text, leaving, aware, parent>>
      BY <1>7 DEF Decide, Reaps, Sleeps, Goes, main
    <2>2. SlotIsCurrent'
      BY <2>1 DEF Lawful, SlotIsCurrent, Open, Rewriting
    <2>3. record.reason = "none"
      BY <1>7 DEF Decide, Lawful, ReadingIsCurrent
    <2>4. CASE Sleeps
      BY <2>1, <2>2, <2>3, <2>4 DEF Sleeps, Goes, NoSnap, None, Lawful, ReadingIsCurrent, ReapedForCause
    <2>5. CASE isWedged /\ Reaps("wedge", snap.text)
      BY <1>7, <2>1, <2>2, <2>5 DEF Decide, isWedged, Reaps, Goes, Lawful, ReadingIsCurrent, ReapedForCause, Open
    <2>6. CASE \E op : Orphaned /\ Reaps("orphan", op)
      BY <1>7, <2>1, <2>2, <2>6 DEF Orphaned, isOrphaned, Reaps, Goes, Lawful, ReadingIsCurrent, ReapedForCause, Open
    <2> QED BY <1>7, <2>4, <2>5, <2>6 DEF Decide
  <1>8. CASE KillProcess \/ Elapse \/ ParentChanges
    <2>1. UNCHANGED <<begun, live, stores, crumb, busy, startMs, text, leaving, at, snap, then, settled, record, aware>>
      BY <1>8 DEF KillProcess, Elapse, ParentChanges, main, worker
    <2>2. parent # "alive" => parent' # "alive"
      BY <1>8 DEF KillProcess, Elapse, ParentChanges
    <2> QED BY <2>1, <2>2 DEF Lawful, SlotIsCurrent, ReadingIsCurrent, ReapedForCause, Open, Rewriting
  <1>9. CASE UNCHANGED watchVars
    BY <1>9 DEF watchVars, main, worker, Lawful, SlotIsCurrent, ReadingIsCurrent, ReapedForCause, Open, Rewriting
  <1> QED BY <1>1, <1>2, <1>3, <1>4, <1>5, <1>6, <1>7, <1>8, <1>9 DEF WatchNext, WorkerStep

\* The watchdog kills a process as wedged only for an op that has not returned, or is returning
\* right now, and that had lasted the threshold; as an orphan only when the parent is gone: for any
\* number of ops and every interleaving of the stores of beacon-sab.ts with its loads.
THEOREM KillsAreFounded == WatchSpec => []ReapedForCause
  <1>1. Lawful => ReapedForCause
    BY DEF Lawful
  <1> QED BY <1>1, LawfulInit, LawfulStep, PTL DEF WatchSpec
=============================================================================
