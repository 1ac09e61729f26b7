------------------------ MODULE RequestLedgerProofs ------------------------
(***************************************************************************)
(* Proofs about the request-key ledger, for any number of processes, keys  *)
(* and fingerprints, any capacity and any set of faults.                   *)
(*                                                                         *)
(* LiveRunsRemembered is not inductive: AdmitKey acts on what was read     *)
(* under the lock, so the invariant says that a held lock keeps view and   *)
(* file equal, and an entry may be reclaimed for its age, so it says that  *)
(* no entry of a run being executed is old.                                *)
(***************************************************************************)
EXTENDS RequestLedger, TLAPS

\* A process between the re-reading and the unlocking holds the lock.
HoldsLock == \A p \in Proc : pc[p] \in {"decide", "record", "recordRefusal"} => lock = p

\* Nobody writes the file beside the holder of the lock.
ViewIsFile == lock # None => view = file

\* An entry that exists belongs to a run.
EntriesHaveRuns == \A k \in Key : file[k].state # "absent" => file[k].run # NoRun

\* What the ledger knows of the run p executes.
Remembered(p) ==
  /\ req[p].key \in Key /\ run[p] # NoRun
  /\ LET e == file[req[p].key] IN
       e.state = "in_progress" /\ e.owner = p /\ e.run = run[p] /\ ~e.old

\* A process that waits for an answer has a request.
HasRequest == \A p \in Proc :
  pc[p] \in {"begin", "decide", "executing", "complete", "record", "refused",
             "recordRefusal"} => req[p] \in Request

Inv == /\ TypeOK
       /\ HoldsLock
       /\ ViewIsFile
       /\ EntriesHaveRuns
       /\ HasRequest
       /\ \A p \in Proc : Executing(p) => Remembered(p)

USE NoneAssumption, CapacityAssumption, MaxRunsAssumption

\* Closing orphans yields entries.
LEMMA CloseOrphansType ==
  ASSUME NEW e \in [Key -> Entry]
  PROVE  CloseOrphans(e) \in [Key -> Entry]
BY DEF CloseOrphans, Entry, Results

\* It keeps the runs, and leaves the entries of live processes alone.
LEMMA CloseOrphansKeeps ==
  ASSUME NEW e \in [Key -> Entry], NEW k \in Key
  PROVE  /\ CloseOrphans(e)[k].run = e[k].run
         /\ CloseOrphans(e)[k].state = "absent" => e[k].state = "absent"
         /\ CloseOrphans(e)[k].state # "absent" => e[k].state # "absent"
         /\ e[k].state # "in_progress" \/ Alive(e[k].owner) => CloseOrphans(e)[k] = e[k]
BY DEF CloseOrphans, Entry

\* A key that is not in the ledger has a well-formed entry, too.
LEMMA AbsentType == Absent \in Entry /\ NoEntries \in [Key -> Entry]
BY DEF Absent, NoEntries, Entry, Results, Run, NoRun

\* The two ways in which an entry is updated in place.
LEMMA UpdatedType ==
  ASSUME NEW e \in Entry, NEW r \in Results
  PROVE  /\ [e EXCEPT !.old = TRUE] \in Entry
         /\ [e EXCEPT !.old = TRUE].run = e.run
         /\ [e EXCEPT !.old = TRUE].state = e.state
         /\ [e EXCEPT !.state = "complete", !.result = r] \in Entry
         /\ [e EXCEPT !.state = "complete", !.result = r].run = e.run
BY DEF Entry

\* The initial state satisfies the invariant.
LEMMA InitInv == Init => Inv
<1> SUFFICES ASSUME Init PROVE Inv
  OBVIOUS
<1>1. TypeOK
  BY AbsentType DEF Init, TypeOK, Steps, Run, NoRun
<1>2. HoldsLock /\ ViewIsFile /\ HasRequest
  BY DEF Init, HoldsLock, ViewIsFile, HasRequest
<1>3. EntriesHaveRuns
  BY DEF Init, EntriesHaveRuns, NoEntries, Absent
<1>4. \A p \in Proc : ~Executing(p)
  BY DEF Init, Executing
<1> QED
  BY <1>1, <1>2, <1>3, <1>4 DEF Inv

\* Making room leaves every entry alone but one, and that one is complete or
\* in progress for too long.
LEMMA RoomKeeps ==
  ASSUME NEW e \in [Key -> Entry], NEW e2, MakesRoom(e, e2)
  PROVE  /\ e2 \in [Key -> Entry]
         /\ \A k \in Key : \/ e2[k] = e[k]
                           \/ /\ e2[k] = Absent
                              /\ e[k].state = "complete" \/ (e[k].state = "in_progress" /\ e[k].old)
<1>1. CASE e2 = e
  BY <1>1
<1>2. CASE \E k \in Key : IsOldest(e, k, Evictable(e)) /\ e2 = [e EXCEPT ![k] = Absent]
  <2>1. PICK k \in Key : k \in Evictable(e) /\ e2 = [e EXCEPT ![k] = Absent]
    BY <1>2 DEF IsOldest
  <2>2. e[k].state = "complete" \/ (e[k].state = "in_progress" /\ e[k].old)
    <3>1. k \in InState(e, "complete") \/ k \in Abandoned(e)
      BY <2>1 DEF Evictable
    <3>2. k \in InState(e, "complete") => e[k].state = "complete"
      BY DEF InState
    <3>3. k \in Abandoned(e) => e[k].state = "in_progress" /\ e[k].old
      BY Zenon DEF Abandoned, InState
    <3> QED BY <3>1, <3>2, <3>3
  <2> QED BY <2>1, <2>2, AbsentType
<1> QED BY <1>1, <1>2 DEF MakesRoom

\* A new entry is an entry of the next run.
LEMMA NewEntryType ==
  ASSUME TypeOK, NEW p \in Proc, req[p] \in Request, runs < MaxRuns
  PROVE  NewEntry(p) \in Entry /\ runs + 1 \in Run
BY DEF TypeOK, NewEntry, Entry, Results, Request, Run

\* Every step preserves the invariant.
LEMMA NextInv == Inv /\ [Next]_vars => Inv'
<1> SUFFICES ASSUME Inv, [Next]_vars PROVE Inv'
  OBVIOUS
<1> USE DEF Inv
<1>1. ASSUME NEW p \in Proc, PresentKey(p) PROVE Inv'
  <2> USE <1>1 DEF PresentKey, GoTo
  <2>1. TypeOK' BY DEF TypeOK, Steps
  <2>2. HoldsLock' /\ ViewIsFile' /\ EntriesHaveRuns'
    BY DEF TypeOK, HoldsLock, ViewIsFile, EntriesHaveRuns
  <2>3. HasRequest' BY DEF TypeOK, HasRequest
  <2>4. \A q \in Proc : Executing(q)' => Remembered(q)'
    BY DEF TypeOK, Executing, Remembered
  <2> QED BY <2>1, <2>2, <2>3, <2>4
<1>2. ASSUME NEW p \in Proc, KnownKey(p) PROVE Inv'
  <2> USE <1>2 DEF KnownKey, GoTo, Refuse, Unlock
  <2>1. TypeOK' BY AbsentType DEF TypeOK, Steps, HasRequest, Request
  <2>2. HoldsLock' /\ ViewIsFile' /\ EntriesHaveRuns'
    BY DEF TypeOK, HoldsLock, ViewIsFile, EntriesHaveRuns
  <2>3. HasRequest' BY DEF TypeOK, HasRequest
  <2>4. \A q \in Proc : Executing(q)' => Remembered(q)'
    BY DEF TypeOK, Executing, Remembered
  <2> QED BY <2>1, <2>2, <2>3, <2>4
<1>3. ASSUME NEW p \in Proc, RefuseKey(p) PROVE Inv'
  <2> USE <1>3 DEF RefuseKey, GoTo, Refuse, Unlock
  <2>1. TypeOK' BY AbsentType DEF TypeOK, Steps
  <2>2. HoldsLock' /\ ViewIsFile' /\ EntriesHaveRuns'
    BY DEF TypeOK, HoldsLock, ViewIsFile, EntriesHaveRuns
  <2>3. HasRequest' BY DEF TypeOK, HasRequest
  <2>4. \A q \in Proc : Executing(q)' => Remembered(q)'
    BY DEF TypeOK, Executing, Remembered
  <2> QED BY <2>1, <2>2, <2>3, <2>4
<1>4. ASSUME NEW p \in Proc, Execute(p) PROVE Inv'
  <2> USE <1>4 DEF Execute, GoTo
  <2>1. TypeOK' BY DEF TypeOK, Steps
  <2>2. HoldsLock' /\ ViewIsFile' /\ EntriesHaveRuns'
    BY DEF TypeOK, HoldsLock, ViewIsFile, EntriesHaveRuns
  <2>3. HasRequest' BY DEF TypeOK, HasRequest
  <2>4. \A q \in Proc : Executing(q)' => Remembered(q)'
    BY DEF TypeOK, Executing, Remembered
  <2> QED BY <2>1, <2>2, <2>3, <2>4
<1>5. ASSUME NEW p \in Proc, Leave(p) PROVE Inv'
  <2> USE <1>5 DEF Leave, Forget, GoTo
  <2>1. TypeOK' BY AbsentType DEF TypeOK, Steps
  <2>2. HoldsLock' /\ ViewIsFile' /\ EntriesHaveRuns'
    BY DEF TypeOK, HoldsLock, ViewIsFile, EntriesHaveRuns
  <2>3. HasRequest' BY DEF TypeOK, HasRequest
  <2>4. \A q \in Proc : Executing(q)' => Remembered(q)'
    BY DEF TypeOK, Executing, Remembered
  <2> QED BY <2>1, <2>2, <2>3, <2>4
<1>6. ASSUME NEW p \in Proc, Crash(p) PROVE Inv'
  <2> USE <1>6 DEF Crash, Forget, GoTo, Unlock
  <2>1. TypeOK' BY AbsentType DEF TypeOK, Steps
  <2>2. HoldsLock' /\ ViewIsFile' /\ EntriesHaveRuns'
    BY DEF TypeOK, HoldsLock, ViewIsFile, EntriesHaveRuns
  <2>3. HasRequest' BY DEF TypeOK, HasRequest
  <2>4. \A q \in Proc : Executing(q)' => Remembered(q)'
    BY DEF TypeOK, Executing, Remembered
  <2> QED BY <2>1, <2>2, <2>3, <2>4
<1>7. ASSUME NEW p \in Proc, ReusePid(p) PROVE Inv'
  <2> USE <1>7 DEF ReusePid, GoTo
  <2>1. TypeOK' BY DEF TypeOK, Steps
  <2>2. HoldsLock' /\ ViewIsFile' /\ EntriesHaveRuns'
    BY DEF TypeOK, HoldsLock, ViewIsFile, EntriesHaveRuns
  <2>3. HasRequest' BY DEF TypeOK, HasRequest
  <2>4. \A q \in Proc : Executing(q)' => Remembered(q)'
    BY DEF TypeOK, Executing, Remembered
  <2> QED BY <2>1, <2>2, <2>3, <2>4
<1>8. ASSUME NEW k \in Key, Age(k) PROVE Inv'
  <2> USE <1>8 DEF Age
  <2>0. /\ [file[k] EXCEPT !.old = TRUE] \in Entry
        /\ [file[k] EXCEPT !.old = TRUE].run = file[k].run
        /\ [file[k] EXCEPT !.old = TRUE].state = file[k].state
    BY UpdatedType DEF TypeOK, Results
  <2>1. TypeOK'
    <3>1. file' \in [Key -> Entry] BY <2>0 DEF TypeOK
    <3> QED BY <3>1 DEF TypeOK
  <2>2. HoldsLock' /\ ViewIsFile' /\ HasRequest'
    BY DEF TypeOK, HoldsLock, ViewIsFile, HasRequest
  <2>3. EntriesHaveRuns' BY <2>0 DEF TypeOK, EntriesHaveRuns
  <2>4. \A q \in Proc : Executing(q)' => Remembered(q)'
    BY DEF TypeOK, Entry, Executing, Remembered
  <2> QED BY <2>1, <2>2, <2>3, <2>4
<1>9. ASSUME NEW p \in Proc, Initialize(p) PROVE Inv'
  <2>1. file' = file \/ file' = CloseOrphans(file)
    BY <1>9 DEF Initialize, Reload, PersistOK, PersistFails
  <2>2. TypeOK'
    <3>1. file' \in [Key -> Entry]
      BY <2>1, CloseOrphansType DEF TypeOK
    <3>2. view' \in [Key -> Entry] /\ lock' \in Proc \cup {None}
      BY <1>9, CloseOrphansType DEF Initialize, Reload, TypeOK
    <3>3. loaded' \in [Proc -> BOOLEAN] /\ pc' \in [Proc -> Steps]
      BY <1>9 DEF Initialize, Reload, GoTo, TypeOK, Steps
    <3> QED BY <1>9, <3>1, <3>2, <3>3 DEF Initialize, Reload, TypeOK
  <2>3. HoldsLock' /\ ViewIsFile' /\ HasRequest'
    BY <1>9 DEF Initialize, Reload, PersistOK, GoTo, TypeOK, HoldsLock, ViewIsFile, HasRequest
  <2>4. EntriesHaveRuns'
    BY <2>1, CloseOrphansKeeps DEF EntriesHaveRuns, TypeOK
  <2>5. \A q \in Proc : Executing(q) => file'[req[q].key] = file[req[q].key]
    BY <2>1, CloseOrphansKeeps DEF Executing, Remembered, Alive, TypeOK
  <2>6. \A q \in Proc : Executing(q)' => Remembered(q)'
    BY <1>9, <2>5 DEF Initialize, Reload, GoTo, TypeOK, Executing, Remembered
  <2> QED BY <2>2, <2>3, <2>4, <2>6
<1>10. ASSUME NEW p \in Proc, Record(p) PROVE Inv'
  <2> USE <1>10 DEF Record, Complete
  <2>k. PICK k \in Key : k = req[p].key
    BY DEF HasRequest, Request
  <2>0. view = file
    BY DEF ViewIsFile, TypeOK
  <2>1. file' = file \/ file' = Completed(file, k, "own")
    BY <2>k, <2>0 DEF PersistOK, PersistFails
  <2>2. \A j \in Key \ {k} : file'[j] = file[j]
    BY <2>1 DEF Completed, TypeOK
  <2>3. TypeOK'
    <3>1. file' \in [Key -> Entry]
      <4>1. [file[k] EXCEPT !.state = "complete", !.result = "own"] \in Entry
        BY UpdatedType DEF TypeOK, Results
      <4> QED BY <2>1, <4>1 DEF TypeOK, Completed
    <3> QED BY <3>1, AbsentType DEF TypeOK, GoTo, Forget, Unlock, Steps
  <2>4. HoldsLock' /\ ViewIsFile' /\ HasRequest'
    BY DEF GoTo, Forget, Unlock, TypeOK, HoldsLock, ViewIsFile, HasRequest
  <2>5. EntriesHaveRuns'
    <3>1. \A j \in Key : file'[j].run = file[j].run
      <4>1. [file[k] EXCEPT !.state = "complete", !.result = "own"].run = file[k].run
        BY UpdatedType DEF TypeOK, Results
      <4> QED BY <2>1, <2>2, <4>1 DEF Completed, TypeOK
    <3>2. \A j \in Key : file'[j].state = "absent" \/ file[j].state # "absent"
      BY <2>1, <2>2, <2>k, <1>10, <2>0 DEF Completed, TypeOK, Entry, Executing, Remembered
    <3> QED BY <3>1, <3>2 DEF EntriesHaveRuns
  <2>6. \A q \in Proc : Executing(q)' => Remembered(q)'
    <3> SUFFICES ASSUME NEW q \in Proc, Executing(q)' PROVE Remembered(q)'
      OBVIOUS
    <3>1. q # p /\ Executing(q) /\ req'[q] = req[q] /\ run'[q] = run[q]
      BY DEF GoTo, Forget, TypeOK, Executing
    <3>2. req[q].key \in Key \ {k}
      BY <3>1, <2>k DEF Executing, Remembered
    <3> QED BY <3>1, <3>2, <2>2 DEF Remembered
  <2> QED BY <2>3, <2>4, <2>5, <2>6
<1>11. ASSUME NEW p \in Proc, AdmitKey(p) PROVE Inv'
  <2>k. PICK k \in Key : k = req[p].key
    BY <1>11 DEF AdmitKey, HasRequest, Request
  <2>0. view = file /\ file[k].state = "absent" /\ runs < MaxRuns /\ req[p] \in Request
    BY <1>11, <2>k DEF AdmitKey, ViewIsFile, TypeOK, HasRequest
  <2>r. PICK room : /\ MakesRoom(file, room)
                    /\ file' = file \/ file' = [room EXCEPT ![k] = NewEntry(p)]
                    /\ pc'[p] = "executing" => file' = [room EXCEPT ![k] = NewEntry(p)]
    BY <1>11, <2>k, <2>0 DEF AdmitKey, PersistOK, PersistFails, GoTo, Refuse, TypeOK
  <2>1. room \in [Key -> Entry] /\ NewEntry(p) \in Entry /\ runs + 1 \in Run
    BY <2>0, <2>r, RoomKeeps, NewEntryType DEF TypeOK
  <2>2. TypeOK'
    <3>1. file' \in [Key -> Entry] BY <2>r, <2>1 DEF TypeOK
    <3>2. /\ pc' \in [Proc -> Steps] /\ run' \in [Proc -> Run \cup {NoRun}]
          /\ outcome' \in [Run -> {"none", "running", "done", "lost"}]
      BY <1>11, <2>1 DEF AdmitKey, GoTo, Refuse, TypeOK, Steps
    <3>3. runs' \in 0 .. MaxRuns
      BY <1>11, <2>0 DEF AdmitKey, TypeOK
    <3> QED BY <1>11, <3>1, <3>2, <3>3, AbsentType DEF AdmitKey, Unlock, TypeOK
  <2>3. HoldsLock' /\ ViewIsFile' /\ HasRequest'
    BY <1>11 DEF AdmitKey, GoTo, Refuse, Unlock, TypeOK, HoldsLock, ViewIsFile, HasRequest
  <2>4. EntriesHaveRuns'
    <3>1. \A j \in Key : room[j].state # "absent" => room[j].run # NoRun
      BY <2>r, RoomKeeps DEF EntriesHaveRuns, Absent, TypeOK
    <3>2. NewEntry(p).run # NoRun
      BY <2>1 DEF NewEntry, Run, NoRun
    <3> QED BY <2>r, <2>1, <3>1, <3>2 DEF EntriesHaveRuns
  <2>5. ASSUME NEW q \in Proc \ {p}, Executing(q)
        PROVE  file'[req[q].key] = file[req[q].key]
    <3>1. req[q].key \in Key \ {k}
      BY <2>5, <2>0 DEF Remembered
    <3>2. room[req[q].key] = file[req[q].key]
      BY <2>5, <2>r, <3>1, RoomKeeps DEF Remembered, TypeOK
    <3> QED BY <2>r, <2>1, <3>1, <3>2
  <2>6. \A q \in Proc \ {p} : Executing(q)' => Remembered(q)'
    BY <1>11, <2>5 DEF AdmitKey, GoTo, Refuse, TypeOK, Executing, Remembered
  <2>7. Executing(p)' => Remembered(p)'
    <3> SUFFICES ASSUME Executing(p)' PROVE Remembered(p)'
      OBVIOUS
    <3>1. pc'[p] = "executing" /\ run'[p] = runs + 1 /\ req' = req
      BY <1>11 DEF AdmitKey, GoTo, Refuse, TypeOK, Executing
    <3>2. file'[k] = NewEntry(p)
      BY <3>1, <2>r, <2>1
    <3> QED BY <3>1, <3>2, <2>k, <2>1 DEF Remembered, NewEntry, Run, NoRun
  <2> QED BY <2>2, <2>3, <2>4, <2>6, <2>7
<1>12. CASE UNCHANGED vars
  BY <1>12 DEF vars, TypeOK, HoldsLock, ViewIsFile, EntriesHaveRuns, HasRequest,
     Executing, Remembered
<1> QED
  BY <1>1, <1>2, <1>3, <1>4, <1>5, <1>6, <1>7, <1>8, <1>9, <1>10, <1>11, <1>12
  DEF Next, Ledger

-----------------------------------------------------------------------------
(* Replays.  What a client is told rests on what the entries say of runs   *)
(* that other processes carried out, so the invariant follows every entry, *)
(* and the runs behind the entries are followed in turn.                   *)

\* What a completed entry says happened to its run.
Truthful(e) ==
  /\ e.run \in 1 .. runs
  /\ e.result \in {"own", "indeterminate"}
  /\ e.result = "own" => outcome[e.run] = "done"
  /\ e.result = "indeterminate" => outcome[e.run] # "running"

\* Completed entries tell the truth.
CompletedTrue == \A k \in Key : file[k].state = "complete" => Truthful(file[k])

\* An entry in progress whose run goes on belongs to the process it runs in.
PendingOwned == \A k \in Key : file[k].state = "in_progress" =>
  /\ file[k].run \in 1 .. runs
  /\ outcome[file[k].run] = "running" =>
       /\ file[k].owner \in Proc
       /\ pc[file[k].owner] = "executing" /\ run[file[k].owner] = file[k].run

\* A process knows where its run is, no two processes execute one run, and
\* nothing is known of runs to come.
RunsFollowed ==
  /\ \A p \in Proc : Executing(p) =>
       /\ run[p] \in 1 .. runs
       /\ outcome[run[p]] = IF pc[p] = "executing" THEN "running" ELSE "done"
  /\ \A p, q \in Proc : Executing(p) /\ Executing(q) /\ run[p] = run[q] => p = q
  /\ \A r \in Run : r > runs => outcome[r] = "none"

\* A replayed entry answers the request and tells the truth.
ReplaysTrue == \A p \in Proc : pc[p] = "replayed" =>
  got[p].print = req[p].print /\ Truthful(got[p])

Told == CompletedTrue /\ PendingOwned /\ RunsFollowed /\ ReplaysTrue

\* Nothing is in the ledger at first.
LEMMA InitTold == Init => Told
<1> SUFFICES ASSUME Init PROVE Told
  OBVIOUS
<1>1. \A k \in Key : file[k].state = "absent"
  BY DEF Init, NoEntries, Absent
<1>2. \A p \in Proc : pc[p] = "idle"
  BY DEF Init
<1>3. \A r \in Run : outcome[r] = "none"
  BY DEF Init
<1> QED BY <1>1, <1>2, <1>3 DEF Told, CompletedTrue, PendingOwned, RunsFollowed, ReplaysTrue, Executing

\* A run that is over stays over.
LEMMA TruthKept ==
  ASSUME TypeOK, NEW e \in Entry, Truthful(e), runs' \in Nat, runs <= runs',
         \A r \in 1 .. runs : outcome'[r] = outcome[r]
  PROVE  Truthful(e)'
BY DEF TypeOK, Truthful

\* Ending a run keeps what the entries say of it and of all the others.
LEMMA TruthKeptAtEnd ==
  ASSUME TypeOK, NEW e \in Entry, Truthful(e), UNCHANGED runs,
         NEW r \in Run, outcome[r] = "running", NEW o \in {"done", "lost"},
         outcome' = [outcome EXCEPT ![r] = o]
  PROVE  Truthful(e)'
BY DEF TypeOK, Truthful, Run

\* What closing an entry makes of it.
LEMMA ClosedEntry ==
  ASSUME NEW e \in Entry, NEW r \in Results
  PROVE  LET c == [e EXCEPT !.state = "complete", !.result = r]
         IN  c.state = "complete" /\ c.result = r /\ c.run = e.run
BY DEF Entry

\* Every step keeps the entries truthful.
LEMMA NextTold == Inv /\ Told /\ [Next]_vars => Told'
<1> SUFFICES ASSUME Inv, Told, [Next]_vars PROVE Told'
  OBVIOUS
<1> USE DEF Inv, Told
<1>t. TypeOK /\ runs \in Nat
  BY DEF TypeOK
<1>1. ASSUME NEW p \in Proc, PresentKey(p) PROVE Told'
  <2> USE <1>1 DEF PresentKey, GoTo
  <2>1. CompletedTrue' BY DEF CompletedTrue, Truthful
  <2>2. PendingOwned' BY <1>t DEF PendingOwned, TypeOK
  <2>3. RunsFollowed' BY DEF RunsFollowed, Executing, TypeOK
  <2>4. ReplaysTrue' BY DEF ReplaysTrue, Truthful, TypeOK
  <2> QED BY <2>1, <2>2, <2>3, <2>4
<1>2. ASSUME NEW p \in Proc, KnownKey(p) PROVE Told'
  <2> USE <1>2 DEF KnownKey, GoTo, Refuse
  <2>1. CompletedTrue' BY DEF CompletedTrue, Truthful
  <2>2. PendingOwned' BY <1>t DEF PendingOwned, TypeOK
  <2>3. RunsFollowed' BY DEF RunsFollowed, Executing, TypeOK
  <2>4. \A q \in Proc : pc'[q] = "replayed" => got'[q].print = req'[q].print /\ Truthful(got'[q])
    <3>1. \A q \in Proc \ {p} : pc'[q] = pc[q] /\ got'[q] = got[q]
      BY DEF TypeOK
    <3>2. req[p].key \in Key /\ view = file
      BY DEF HasRequest, Request, ViewIsFile, TypeOK
    <3>3. pc'[p] = "replayed" =>
            got'[p] = file[req[p].key] /\ got'[p].print = req[p].print /\ got'[p].state = "complete"
      BY <3>2 DEF TypeOK
    <3> QED BY <3>1, <3>2, <3>3 DEF ReplaysTrue, CompletedTrue
  <2>5. ReplaysTrue' BY <2>4 DEF ReplaysTrue, Truthful
  <2> QED BY <2>1, <2>2, <2>3, <2>5
<1>3. ASSUME NEW p \in Proc, RefuseKey(p) PROVE Told'
  <2> USE <1>3 DEF RefuseKey, GoTo, Refuse
  <2>1. CompletedTrue' BY DEF CompletedTrue, Truthful
  <2>2. PendingOwned' BY <1>t DEF PendingOwned, TypeOK
  <2>3. RunsFollowed' BY DEF RunsFollowed, Executing, TypeOK
  <2>4. ReplaysTrue' BY DEF ReplaysTrue, Truthful, TypeOK
  <2> QED BY <2>1, <2>2, <2>3, <2>4
<1>4. ASSUME NEW p \in Proc, Execute(p) PROVE Told'
  <2> USE <1>4 DEF Execute, GoTo
  <2>0. run[p] \in Run /\ run[p] \in 1 .. runs /\ outcome[run[p]] = "running"
    BY DEF RunsFollowed, Executing, TypeOK, Run
  <2>1. CompletedTrue'
    BY <1>t, <2>0, TruthKeptAtEnd DEF CompletedTrue, TypeOK
  <2>2. PendingOwned' BY <1>t, <2>0 DEF PendingOwned, TypeOK, Run
  <2>3. RunsFollowed'
    <3>1. \A q \in Proc : Executing(q)' <=> Executing(q)
      BY DEF Executing, TypeOK
    <3>2. \A q \in Proc \ {p} : Executing(q) => run[q] # run[p] /\ run[q] \in Run
      BY <2>0 DEF RunsFollowed, Executing, TypeOK, Run
    <3>3. \A q \in Proc : Executing(q) =>
            outcome'[run[q]] = IF pc'[q] = "executing" THEN "running" ELSE "done"
      BY <2>0, <3>2 DEF RunsFollowed, TypeOK
    <3>4. \A r \in Run : r > runs => outcome'[r] = "none"
      BY <1>t, <2>0 DEF RunsFollowed, TypeOK, Run
    <3> QED BY <3>1, <3>3, <3>4 DEF RunsFollowed
  <2>4. ReplaysTrue'
    BY <1>t, <2>0, TruthKeptAtEnd DEF ReplaysTrue, TypeOK
  <2> QED BY <2>1, <2>2, <2>3, <2>4
<1>5. ASSUME NEW p \in Proc, Leave(p) PROVE Told'
  <2> USE <1>5 DEF Leave, Forget, GoTo
  <2>1. CompletedTrue' BY DEF CompletedTrue, Truthful
  <2>2. PendingOwned' BY <1>t DEF PendingOwned, TypeOK
  <2>3. RunsFollowed' BY DEF RunsFollowed, Executing, TypeOK
  <2>4. ReplaysTrue' BY DEF ReplaysTrue, Truthful, TypeOK
  <2> QED BY <2>1, <2>2, <2>3, <2>4
<1>6. ASSUME NEW p \in Proc, Crash(p) PROVE Told'
  <2> USE <1>6 DEF Crash, Forget, GoTo
  <2>0. \/ outcome' = outcome /\ pc[p] # "executing"
        \/ /\ pc[p] = "executing" /\ run[p] \in Run /\ outcome[run[p]] = "running"
           /\ outcome' = [outcome EXCEPT ![run[p]] = "lost"]
    BY DEF RunsFollowed, Executing, TypeOK, Run
  <2>e. \A e \in Entry : Truthful(e) => Truthful(e)'
    <3>1. CASE outcome' = outcome
      BY <1>t, <3>1 DEF Truthful
    <3>2. CASE outcome' # outcome
      BY <1>t, <3>2, <2>0, TruthKeptAtEnd
    <3> QED BY <3>1, <3>2
  <2>1. CompletedTrue' BY <2>e DEF CompletedTrue, TypeOK
  <2>2. PendingOwned'
    BY <1>t, <2>0 DEF PendingOwned, TypeOK, Run
  <2>3. RunsFollowed'
    <3>1. \A q \in Proc : Executing(q)' => q # p /\ Executing(q) /\ run'[q] = run[q] /\ pc'[q] = pc[q]
      BY DEF Executing, TypeOK
    <3>2. \A q \in Proc \ {p} : Executing(q) => outcome'[run[q]] = outcome[run[q]]
      BY <2>0 DEF RunsFollowed, Executing, TypeOK, Run
    <3>3. \A r \in Run : r > runs => outcome'[r] = "none"
      BY <1>t, <2>0 DEF RunsFollowed, TypeOK, Run
    <3> QED BY <3>1, <3>2, <3>3 DEF RunsFollowed
  <2>4. ReplaysTrue'
    <3>1. \A q \in Proc : pc'[q] = "replayed" =>
            q # p /\ pc[q] = "replayed" /\ got'[q] = got[q] /\ req'[q] = req[q]
      BY DEF TypeOK
    <3> QED BY <3>1, <2>e DEF ReplaysTrue, TypeOK
  <2> QED BY <2>1, <2>2, <2>3, <2>4
<1>7. ASSUME NEW p \in Proc, ReusePid(p) PROVE Told'
  <2> USE <1>7 DEF ReusePid, GoTo, Alive
  <2>1. CompletedTrue' BY DEF CompletedTrue, Truthful
  <2>2. PendingOwned' BY <1>t DEF PendingOwned, TypeOK
  <2>3. RunsFollowed' BY DEF RunsFollowed, Executing, TypeOK
  <2>4. ReplaysTrue' BY DEF ReplaysTrue, Truthful, TypeOK
  <2> QED BY <2>1, <2>2, <2>3, <2>4
<1>8. ASSUME NEW k \in Key, Age(k) PROVE Told'
  <2> USE <1>8 DEF Age
  <2>0. \A j \in Key : /\ file'[j].state = file[j].state /\ file'[j].run = file[j].run
                       /\ file'[j].owner = file[j].owner /\ file'[j].result = file[j].result
    BY DEF TypeOK, Entry
  <2>1. CompletedTrue' BY <2>0 DEF CompletedTrue, Truthful
  <2>2. PendingOwned' BY <2>0 DEF PendingOwned
  <2>3. RunsFollowed' BY DEF RunsFollowed, Executing
  <2>4. ReplaysTrue' BY DEF ReplaysTrue, Truthful
  <2> QED BY <2>1, <2>2, <2>3, <2>4
<1>9. ASSUME NEW p \in Proc, Initialize(p) PROVE Told'
  <2>1. /\ file' = file \/ file' = CloseOrphans(file)
        /\ UNCHANGED <<runs, outcome, run, got, req>>
    BY <1>9 DEF Initialize, Reload, PersistOK, PersistFails
  <2>2. \A q \in Proc : /\ pc'[q] \in {pc[q], "decide", "refused", "record", "unrecorded"}
                        /\ Executing(q)' => Executing(q)
                        /\ pc[q] = "executing" <=> pc'[q] = "executing"
    BY <1>9 DEF Initialize, Reload, GoTo, TypeOK, Executing
  <2>3. \A k \in Key : \/ file'[k] = file[k]
                       \/ /\ file[k].state = "in_progress" /\ ~Alive(file[k].owner)
                          /\ file'[k].state = "complete" /\ file'[k].result = "indeterminate"
                          /\ file'[k].run = file[k].run
    <3> SUFFICES ASSUME NEW k \in Key, file'[k] # file[k]
                 PROVE  /\ file[k].state = "in_progress" /\ ~Alive(file[k].owner)
                        /\ file'[k].state = "complete" /\ file'[k].result = "indeterminate"
                        /\ file'[k].run = file[k].run
      OBVIOUS
    <3>1. /\ file[k].state = "in_progress" /\ ~Alive(file[k].owner) /\ file[k] \in Entry
          /\ file'[k] = [file[k] EXCEPT !.state = "complete", !.result = "indeterminate"]
      BY <2>1 DEF CloseOrphans, TypeOK
    <3> QED BY <3>1, ClosedEntry DEF Results
  <2>4. CompletedTrue'
    <3> SUFFICES ASSUME NEW k \in Key, file'[k].state = "complete" PROVE Truthful(file'[k])
      BY <2>1 DEF CompletedTrue, Truthful
    <3>1. CASE file'[k] = file[k]
      BY <3>1 DEF CompletedTrue
    <3>2. CASE /\ file[k].state = "in_progress" /\ ~Alive(file[k].owner)
               /\ file'[k].result = "indeterminate" /\ file'[k].run = file[k].run
      BY <3>2 DEF PendingOwned, Alive, Truthful
    <3> QED BY <3>1, <3>2, <2>3
  <2>5. PendingOwned'
    BY <2>1, <2>2, <2>3 DEF PendingOwned
  <2>6. RunsFollowed' BY <2>1, <2>2 DEF RunsFollowed
  <2>7. ReplaysTrue' BY <2>1, <2>2 DEF ReplaysTrue, Truthful
  <2> QED BY <2>4, <2>5, <2>6, <2>7
<1>10. ASSUME NEW p \in Proc, Record(p) PROVE Told'
  <2> USE <1>10 DEF Record, Complete
  <2>k. PICK k \in Key : k = req[p].key
    BY DEF HasRequest, Request
  <2>0. view = file /\ Executing(p) /\ Remembered(p)
    BY DEF ViewIsFile, TypeOK, Executing
  <2>1. file' = file \/ file' = Completed(file, k, "own")
    BY <2>k, <2>0 DEF PersistOK, PersistFails
  <2>2. /\ \A j \in Key \ {k} : file'[j] = file[j]
        /\ \/ file'[k] = file[k]
           \/ file'[k].state = "complete" /\ file'[k].result = "own" /\ file'[k].run = run[p]
    <3>1. /\ file[k] \in Entry /\ file[k].run = run[p]
          /\ \A j \in Key \ {k} : file'[j] = file[j]
          /\ \/ file'[k] = file[k]
             \/ file'[k] = [file[k] EXCEPT !.state = "complete", !.result = "own"]
      BY <2>1, <2>0, <2>k DEF Completed, TypeOK, Remembered
    <3>2. [file[k] EXCEPT !.state = "complete", !.result = "own"].run = run[p]
      BY <3>1, ClosedEntry DEF Results
    <3> HIDE <1>10 DEF Record, Complete
    <3> QED BY <3>1, <3>2 DEF Entry
  <2>3. run[p] \in 1 .. runs /\ outcome[run[p]] = "done" /\ UNCHANGED <<runs, outcome>>
    BY <2>0 DEF RunsFollowed
  <2>4. CompletedTrue'
    <3> SUFFICES ASSUME NEW j \in Key, file'[j].state = "complete" PROVE Truthful(file'[j])
      BY <2>3 DEF CompletedTrue, Truthful
    <3>1. CASE file'[j] = file[j]
      BY <3>1 DEF CompletedTrue
    <3>2. CASE file'[j].result = "own" /\ file'[j].run = run[p]
      BY <3>2, <2>3 DEF Truthful
    <3> QED BY <3>1, <3>2, <2>2
  <2>p. /\ \A q \in Proc \ {p} : pc'[q] = pc[q] /\ run'[q] = run[q] /\ got'[q] = got[q] /\ req'[q] = req[q]
        /\ pc'[p] = "idle"
    <3>1. GoTo(p, "idle") /\ Forget(p)
      OBVIOUS
    <3> HIDE <1>10 DEF Record, Complete
    <3> QED BY <3>1 DEF GoTo, Forget, TypeOK
  <2>5. PendingOwned'
    <3> SUFFICES ASSUME NEW j \in Key, file'[j].state = "in_progress",
                        outcome[file'[j].run] = "running"
                 PROVE  /\ file'[j].owner \in Proc
                        /\ pc'[file'[j].owner] = "executing"
                        /\ run'[file'[j].owner] = file'[j].run
      BY <2>2, <2>3 DEF PendingOwned
    <3>1. file'[j] = file[j]
      BY <2>2
    <3> QED BY <3>1, <2>p DEF PendingOwned
  <2>6. RunsFollowed' BY <2>3, <2>p DEF RunsFollowed, Executing
  <2>7. ReplaysTrue' BY <2>3, <2>p DEF ReplaysTrue, Truthful
  <2> QED BY <2>4, <2>5, <2>6, <2>7
<1>11. ASSUME NEW p \in Proc, AdmitKey(p) PROVE Told'
  <2>k. PICK k \in Key : k = req[p].key
    BY <1>11 DEF AdmitKey, HasRequest, Request
  <2>0. view = file /\ runs < MaxRuns /\ req[p] \in Request /\ runs' = runs + 1
        /\ pc[p] = "decide" /\ UNCHANGED <<req, got>>
    BY <1>11, <2>k DEF AdmitKey, ViewIsFile, TypeOK, HasRequest
  <2>r. PICK room : /\ MakesRoom(file, room)
                    /\ file' = file \/ file' = [room EXCEPT ![k] = NewEntry(p)]
                    /\ \/ /\ file' = [room EXCEPT ![k] = NewEntry(p)]
                          /\ pc' = [pc EXCEPT ![p] = "executing"]
                          /\ run' = [run EXCEPT ![p] = runs + 1]
                          /\ outcome' = [outcome EXCEPT ![runs + 1] = "running"]
                       \/ pc' = [pc EXCEPT ![p] = "refused"] /\ UNCHANGED <<run, outcome>>
    BY <1>11, <2>k, <2>0 DEF AdmitKey, PersistOK, PersistFails, GoTo, Refuse
  <2>1. room \in [Key -> Entry] /\ NewEntry(p) \in Entry /\ runs + 1 \in Run
    BY <2>0, <2>r, RoomKeeps, NewEntryType DEF TypeOK
  <2>2. \A r \in 1 .. runs : outcome'[r] = outcome[r]
    BY <1>t, <2>r, <2>1 DEF TypeOK, Run
  <2>e. \A e \in Entry : Truthful(e) => Truthful(e)'
    BY <1>t, <2>0, <2>2, TruthKept
  <2>f. \A j \in Key : \/ file'[j] = file[j] \/ file'[j] = Absent
                       \/ file'[j] = NewEntry(p)
    BY <2>r, <2>1, RoomKeeps DEF TypeOK
  <2>3. CompletedTrue'
    <3>1. Absent.state # "complete" /\ NewEntry(p).state # "complete"
      BY DEF Absent, NewEntry
    <3> QED BY <2>f, <2>e, <3>1 DEF CompletedTrue, TypeOK
  <2>4. PendingOwned'
    <3> SUFFICES ASSUME NEW j \in Key, file'[j].state = "in_progress"
                 PROVE  /\ file'[j].run \in 1 .. runs'
                        /\ outcome'[file'[j].run] = "running" =>
                             /\ file'[j].owner \in Proc
                             /\ pc'[file'[j].owner] = "executing"
                             /\ run'[file'[j].owner] = file'[j].run
      BY DEF PendingOwned
    <3>1. CASE file'[j] = file[j]
      BY <3>1, <1>t, <2>0, <2>2, <2>r DEF PendingOwned, TypeOK
    <3>2. CASE file'[j] = Absent
      BY <3>2 DEF Absent
    <3>3. CASE file'[j] = NewEntry(p)
      <4>1. file'[j].run = runs + 1 /\ file'[j].owner = p
        BY <3>3 DEF NewEntry
      <4>2. runs + 1 \in 1 .. runs'
        BY <1>t, <2>0
      <4>3. outcome[runs + 1] = "none"
        BY <1>t, <2>1 DEF RunsFollowed
      <4>4. outcome'[runs + 1] = "running" => pc'[p] = "executing" /\ run'[p] = runs + 1
        BY <2>r, <4>3 DEF TypeOK
      <4> QED BY <4>1, <4>2, <4>4
    <3> QED BY <3>1, <3>2, <3>3, <2>f
  <2>5. RunsFollowed'
    <3>1. \A r \in Run : r > runs' => outcome'[r] = "none"
      BY <1>t, <2>0, <2>1, <2>r DEF RunsFollowed, TypeOK, Run
    <3>2. \A q \in Proc : Executing(q)' =>
            \/ Executing(q) /\ run'[q] = run[q] /\ pc'[q] = pc[q] /\ run[q] \in 1 .. runs
            \/ q = p /\ run'[q] = runs + 1 /\ pc'[q] = "executing" /\ outcome'[runs + 1] = "running"
      BY <2>0, <2>1, <2>r DEF RunsFollowed, Executing, TypeOK
    <3> QED BY <1>t, <2>0, <2>2, <3>1, <3>2 DEF RunsFollowed
  <2>6. ReplaysTrue'
    <3>1. \A q \in Proc : pc'[q] = "replayed" => pc[q] = "replayed"
      BY <2>r DEF TypeOK
    <3> QED BY <3>1, <2>0, <2>e DEF ReplaysTrue, TypeOK
  <2> QED BY <2>3, <2>4, <2>5, <2>6
<1>12. CASE UNCHANGED vars
  BY <1>12 DEF vars, CompletedTrue, PendingOwned, RunsFollowed, ReplaysTrue, Truthful, Executing
<1> QED
  BY <1>1, <1>2, <1>3, <1>4, <1>5, <1>6, <1>7, <1>8, <1>9, <1>10, <1>11, <1>12
  DEF Next, Ledger

-----------------------------------------------------------------------------
(* The theorems.                                                           *)

\* The invariant holds in every reachable state.
THEOREM LedgerInvariant == Spec => []Inv
BY InitInv, NextInv, PTL DEF Spec

\* Every variable of the ledger keeps its type, whatever fails.
THEOREM TypeCorrect == Spec => []TypeOK
<1>1. Inv => TypeOK
  BY DEF Inv
<1> QED BY <1>1, LedgerInvariant, PTL

\* No eviction, clean-up, restart or other client makes the ledger forget a
\* run that is being executed.
THEOREM NoRunForgotten == Spec => []LiveRunsRemembered
<1>1. Inv => LiveRunsRemembered
  BY DEF Inv, LiveRunsRemembered, Remembered
<1> QED BY <1>1, LedgerInvariant, PTL

\* Two processes never execute the same request key at the same time.
THEOREM OneRunPerKey == Spec => []MutualExclusion
<1>1. Inv => MutualExclusion
  BY DEF Inv, MutualExclusion, Remembered
<1> QED BY <1>1, LedgerInvariant, PTL

\* A result that was recorded is never replaced by another one.
THEOREM RecordedResultsFinal == Spec => ResultsAreFinal
<1> DEFINE Final == \A k \in Key : file[k].state = "complete" =>
                       file'[k] = file[k] \/ file'[k].run # file[k].run
<1>1. ASSUME Inv, Next PROVE Final
  <2> SUFFICES ASSUME NEW k \in Key, file[k].state = "complete"
               PROVE  file'[k] = file[k] \/ file'[k].run # file[k].run
    OBVIOUS
  <2> USE <1>1
  <2>1. ASSUME NEW p \in Proc, Initialize(p) PROVE file'[k] = file[k]
    BY <2>1, CloseOrphansKeeps DEF Inv, TypeOK, Initialize, Reload, PersistOK, PersistFails
  <2>2. ASSUME NEW p \in Proc, Record(p) PROVE file'[k] = file[k]
    <3>1. view = file
      BY <2>2 DEF Inv, TypeOK, ViewIsFile, Record, Complete
    <3>2. file' = file \/ /\ file[req[p].key].state = "in_progress"
                          /\ file' = Completed(file, req[p].key, "own")
      BY <2>2, <3>1 DEF Record, Complete, PersistOK, PersistFails
    <3> QED BY <3>2 DEF Completed, Inv, TypeOK
  <2>3. ASSUME NEW p \in Proc, AdmitKey(p)
        PROVE  file'[k] = file[k] \/ file'[k].run # file[k].run
    <3>1. view = file /\ req[p].key # k
      BY <2>3 DEF Inv, TypeOK, ViewIsFile, AdmitKey
    <3>2. PICK room : /\ MakesRoom(file, room)
                      /\ file' = file \/ file' = [room EXCEPT ![req[p].key] = NewEntry(p)]
      BY <2>3, <3>1 DEF AdmitKey, PersistOK, PersistFails
    <3>3. room \in [Key -> Entry] /\ (room[k] = file[k] \/ room[k] = Absent)
      BY <3>2, RoomKeeps DEF Inv, TypeOK
    <3>4. Absent.run = NoRun /\ file[k].run # NoRun
      BY DEF Inv, EntriesHaveRuns, Absent
    <3> QED BY <3>1, <3>2, <3>3, <3>4
  <2>4. ASSUME NEW j \in Key, Age(j) PROVE file'[k] = file[k]
    BY <2>4 DEF Age, Inv, TypeOK
  <2> QED
    BY <2>1, <2>2, <2>3, <2>4
    DEF Next, Ledger, PresentKey, KnownKey, RefuseKey, Execute, Leave, Crash, ReusePid
<1>2. Inv /\ [Next]_vars => [Final]_vars
  BY <1>1
<1> QED BY <1>2, LedgerInvariant, PTL DEF Spec, ResultsAreFinal

\* "replayed byte-for-byte": a client is only given the answer of a run of its
\* very request that ended, and only told of an unknown outcome when the run is
\* over, whatever crashed, was evicted or was closed in between.
THEOREM ReplaysFaithful == Spec => []ReplayFaithful
<1>1. Told => ReplayFaithful
  BY DEF Told, ReplaysTrue, Truthful, ReplayFaithful
<1> QED BY <1>1, InitInv, NextInv, InitTold, NextTold, PTL DEF Spec

=============================================================================
