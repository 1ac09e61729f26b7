--------------------------- MODULE RequestLedger ---------------------------
(***************************************************************************)
(* The request-key ledger of internal/ops: a client that repeats a request *)
(* under the same key gets the first execution's answer instead of a       *)
(* second execution.                                                       *)
(*                                                                         *)
(* The ledger is one JSON file shared by all phelix processes.  begin and  *)
(* complete each run under a blocking file lock, and re-read the file once *)
(* they have it; Initialize is the locking and the re-reading, Decide and  *)
(* Record what is then decided on that view, written and unlocked.         *)
(*                                                                         *)
(* A run is one execution of a mutation.  Runs are numbered in the order   *)
(* in which the ledger admits them, so the number also stands for the      *)
(* position of the entry in the file (order, oldest first).                *)
(***************************************************************************)
EXTENDS Naturals, FiniteSets

CONSTANTS
  Proc,         \* phelix processes: CLI invocations and long-lived hosts
  Key,          \* request keys
  Fingerprint,  \* of what is requested
  None,         \* no process, no key, no fingerprint
  Capacity,     \* ledgerCapacity
  Faults,       \* subset of FaultKinds
  MaxRuns       \* bound: how many runs are ever admitted

FaultKinds == {"read",     \* the file cannot be read
               "persist",  \* the new file is not put in place
               "sync",     \* the new file is in place, syncing its directory fails
               "crash",    \* a process dies
               "reuse"}    \* a new process gets the PID of a dead one

ASSUME NoneAssumption == None \notin Proc \cup Key \cup Fingerprint
ASSUME CapacityAssumption == Capacity \in Nat \ {0}
ASSUME MaxRunsAssumption == MaxRuns \in Nat
ASSUME LedgerFaultsAssumption == Faults \subseteq FaultKinds

VARIABLES
  file,      \* the ledger file, by key
  lock,      \* who holds the file lock
  view,      \* the entries the lock holder has read
  pc,        \* what each process is doing
  req,       \* the request it was started with
  run,       \* the run it executes
  loaded,    \* whether it has loaded the ledger before
  got,       \* the entry it replayed
  runs,      \* number of the last run admitted
  outcome    \* history: what really became of each run

vars == <<file, lock, view, pc, req, run, loaded, got, runs, outcome>>

Run == 1 .. MaxRuns
NoRun == 0

Results == {"none", "own", "indeterminate", "refusal"}

Entry == [state: {"absent", "in_progress", "complete"},
          print: Fingerprint \cup {None}, owner: Proc \cup {None},
          run: Run \cup {NoRun}, result: Results, old: BOOLEAN]

Absent == [state |-> "absent", print |-> None, owner |-> None, run |-> NoRun,
           result |-> "none", old |-> FALSE]

NoEntries == [k \in Key |-> Absent]

Request == [key: Key, print: Fingerprint]

NoRequest == [key |-> None, print |-> None]

Steps == {"idle", "begin", "decide", "executing", "complete", "record",
          "replayed", "refused", "recordRefusal",
          "unrecorded", "dead"}

-----------------------------------------------------------------------------
(* Operations on the entries.                                              *)

Present(e) == {k \in Key : e[k].state # "absent"}

InState(e, s) == {k \in Key : e[k].state = s}

Alive(p) == pc[p] # "dead"

\* Mutations: whoever owns them, entries in progress are closed; whatever their
\* state, entries of dead processes are closed.
CloseOrphansOfTheLiving(e) ==
  [k \in Key |-> IF e[k].state = "in_progress"
                   THEN [e[k] EXCEPT !.state = "complete", !.result = "indeterminate"]
                   ELSE e[k]]

CloseCompleted(e) ==
  [k \in Key |-> IF e[k].state # "absent" /\ ~Alive(e[k].owner)
                   THEN [e[k] EXCEPT !.state = "complete", !.result = "indeterminate"]
                   ELSE e[k]]

\* closeOrphanedInProgressLocked: only entries of dead processes are closed.
CloseOrphans(e) ==
  [k \in Key |-> IF e[k].state = "in_progress" /\ ~Alive(e[k].owner)
                   THEN [e[k] EXCEPT !.state = "complete", !.result = "indeterminate"]
                   ELSE e[k]]

\* Mutation: entries are reclaimed however young they are.
AbandonedAtAnyAge(e) == InState(e, "in_progress")

\* closeOneAbandonedLocked: entries that the next iteration would evict.
Abandoned(e) == {k \in InState(e, "in_progress") : e[k].old}

\* What makeRoomLocked may drop: completed entries, else abandoned ones.
Evictable(e) == IF InState(e, "complete") # {} THEN InState(e, "complete")
                ELSE Abandoned(e)

IsOldest(e, k, S) == k \in S /\ \A j \in S : e[k].run <= e[j].run

\* makeRoomLocked: e2 is e with room for one more entry.
MakesRoom(e, e2) ==
  \/ Cardinality(Present(e)) < Capacity /\ e2 = e
  \/ /\ Cardinality(Present(e)) >= Capacity
     /\ \E k \in Key : /\ IsOldest(e, k, Evictable(e))
                       /\ e2 = [e EXCEPT ![k] = Absent]

NoRoom(e) == Cardinality(Present(e)) >= Capacity /\ Evictable(e) = {}

\* persistLocked: temporary file, fsync, rename, directory fsync.
PersistOK(e) == file' = e

PersistFails(e) == \/ "persist" \in Faults /\ file' = file
                   \/ "sync" \in Faults /\ file' = e

GoTo(p, s) == pc' = [pc EXCEPT ![p] = s]

Unlock == lock' = None /\ view' = NoEntries

\* The command is over and its process has nothing to do with the ledger.
Forget(p) == /\ req' = [req EXCEPT ![p] = NoRequest]
             /\ run' = [run EXCEPT ![p] = NoRun]
             /\ got' = [got EXCEPT ![p] = Absent]

-----------------------------------------------------------------------------
(* The steps of a process.                                                 *)

\* A client presents a request; nothing keeps it from using a key again.
PresentKey(p) ==
  /\ pc[p] = "idle" /\ runs < MaxRuns
  /\ \E r \in Request : req' = [req EXCEPT ![p] = r]
  /\ GoTo(p, "begin")
  /\ UNCHANGED <<file, lock, view, run, loaded, got, runs, outcome>>

\* begin returns an error.
Refuse(p) == GoTo(p, "refused")

\* acquireFileLockLocked and initializeLocked: p holds the lock and has read
\* the file, or it has failed and holds nothing.
Reload(p, to, otherwise) ==
  LET read == IF loaded[p] THEN file ELSE CloseOrphans(file) IN
  /\ lock = None
  /\ \/ /\ PersistOK(read) /\ view' = read
        /\ loaded' = [loaded EXCEPT ![p] = TRUE]
        /\ lock' = p /\ GoTo(p, to)
     \/ /\ read # file /\ PersistFails(read)
        /\ GoTo(p, otherwise) /\ UNCHANGED <<view, lock, loaded>>
     \/ /\ "read" \in Faults
        /\ GoTo(p, otherwise) /\ UNCHANGED <<file, view, lock, loaded>>
  /\ UNCHANGED <<req, run, got, runs, outcome>>

Initialize(p) == \/ pc[p] = "begin" /\ Reload(p, "decide", "refused")
                 \/ pc[p] = "complete" /\ Reload(p, "record", "unrecorded")

\* Mutation: the entry does not record the process that owns it.
OwnerlessEntry(p) == [state |-> "in_progress", print |-> req[p].print, owner |-> 0,
                      run |-> runs + 1, result |-> "none", old |-> FALSE]

NewEntry(p) == [state |-> "in_progress", print |-> req[p].print, owner |-> p,
                run |-> runs + 1, result |-> "none", old |-> FALSE]

\* Mutation: a replay does not look at the fingerprint.
KnownKeyUnchecked(p) ==
  LET e == view[req[p].key] IN
  /\ pc[p] = "decide" /\ lock = p
  /\ e.state = "complete"
  /\ GoTo(p, "replayed") /\ got' = [got EXCEPT ![p] = e]
  /\ Unlock
  /\ UNCHANGED <<file, req, run, loaded, runs, outcome>>

\* beginLocked, the key is known: conflict, in progress, or replay.
KnownKey(p) ==
  LET e == view[req[p].key] IN
  /\ pc[p] = "decide" /\ lock = p
  /\ e.state # "absent"
  /\ \/ /\ e.print = req[p].print /\ e.state = "complete"
        /\ GoTo(p, "replayed") /\ got' = [got EXCEPT ![p] = e]
     \/ /\ e.print # req[p].print \/ e.state = "in_progress"
        /\ Refuse(p) /\ UNCHANGED got
  /\ Unlock
  /\ UNCHANGED <<file, req, run, loaded, runs, outcome>>

\* beginLocked, the key is new: it is recorded before it is executed.
AdmitKey(p) ==
  LET k == req[p].key IN
  /\ pc[p] = "decide" /\ lock = p
  /\ view[k].state = "absent" /\ runs < MaxRuns
  /\ \E room \in {[view EXCEPT ![j] = Absent] : j \in Key} \cup {view} :
       /\ MakesRoom(view, room)
       /\ \/ /\ PersistOK([room EXCEPT ![k] = NewEntry(p)])
             /\ GoTo(p, "executing")
             /\ run' = [run EXCEPT ![p] = runs + 1]
             /\ outcome' = [outcome EXCEPT ![runs + 1] = "running"]
          \/ /\ PersistFails([room EXCEPT ![k] = NewEntry(p)])
             /\ Refuse(p) /\ UNCHANGED <<run, outcome>>
  /\ runs' = runs + 1
  /\ Unlock
  /\ UNCHANGED <<req, loaded, got>>

\* The ledger is full of operations in progress (or the bound is reached).
RefuseKey(p) ==
  /\ pc[p] = "decide" /\ lock = p
  /\ view[req[p].key].state = "absent"
  /\ NoRoom(view) \/ runs = MaxRuns
  /\ Refuse(p) /\ Unlock
  /\ UNCHANGED <<file, req, run, loaded, got, runs, outcome>>

\* The mutation ends, well or badly, and its envelope is to be recorded.
Execute(p) ==
  /\ pc[p] = "executing"
  /\ GoTo(p, "complete")
  /\ outcome' = [outcome EXCEPT ![run[p]] = "done"]
  /\ UNCHANGED <<file, lock, view, req, run, loaded, got, runs>>

Completed(e, k, result) ==
  [e EXCEPT ![k] = [@ EXCEPT !.state = "complete", !.result = result]]

\* completeLocked: any in-progress entry of the key will do.
Complete(p, result) ==
  LET k == req[p].key IN
  /\ lock = p
  /\ \/ view[k].state = "in_progress" /\ PersistOK(Completed(view, k, result))
     \/ view[k].state = "in_progress" /\ PersistFails(Completed(view, k, result))
     \/ view[k].state # "in_progress" /\ UNCHANGED file
  /\ GoTo(p, "idle") /\ Forget(p) /\ Unlock
  /\ UNCHANGED <<loaded, runs, outcome>>

Record(p) == pc[p] = "record" /\ Complete(p, "own")

\* The client has its answer; the process is free for another request.
Leave(p) ==
  /\ pc[p] \in {"replayed", "refused", "unrecorded"}
  /\ GoTo(p, "idle") /\ Forget(p)
  /\ UNCHANGED <<file, lock, view, loaded, runs, outcome>>

-----------------------------------------------------------------------------
(* The environment.                                                        *)

\* A process dies; the system drops its lock.
Crash(p) ==
  /\ "crash" \in Faults /\ Alive(p)
  /\ GoTo(p, "dead") /\ Forget(p)
  /\ loaded' = [loaded EXCEPT ![p] = FALSE]
  /\ IF lock = p THEN Unlock ELSE UNCHANGED <<lock, view>>
  /\ outcome' = IF pc[p] = "executing"
                  THEN [outcome EXCEPT ![run[p]] = "lost"] ELSE outcome
  /\ UNCHANGED <<file, runs>>

\* A process with the PID of a dead one starts.
ReusePid(p) ==
  /\ "reuse" \in Faults /\ ~Alive(p)
  /\ GoTo(p, "idle")
  /\ UNCHANGED <<file, lock, view, req, run, loaded, got, runs, outcome>>

Executing(p) == pc[p] \in {"executing", "complete", "record"}

\* An entry gets older than abandonedInProgressAge.  "A deploy/rollback
\* finishes well inside this bound": its run is not being executed any more.
Age(k) ==
  /\ lock = None
  /\ file[k].state = "in_progress" /\ ~file[k].old
  /\ ~(Executing(file[k].owner) /\ run[file[k].owner] = file[k].run)
  /\ file' = [file EXCEPT ![k].old = TRUE]
  /\ UNCHANGED <<lock, view, pc, req, run, loaded, got, runs, outcome>>

-----------------------------------------------------------------------------
(* The specification of the ledger with clients that respect its answers.  *)

Init ==
  /\ file = NoEntries /\ view = NoEntries
  /\ lock = None
  /\ pc = [p \in Proc |-> "idle"]
  /\ req = [p \in Proc |-> NoRequest]
  /\ run = [p \in Proc |-> NoRun]
  /\ loaded = [p \in Proc |-> FALSE]
  /\ got = [p \in Proc |-> Absent]
  /\ runs = 0
  /\ outcome = [r \in Run |-> "none"]

Ledger(p) == \/ PresentKey(p) \/ Initialize(p) \/ KnownKey(p) \/ AdmitKey(p)
             \/ RefuseKey(p) \/ Execute(p) \/ Record(p)

Next == \/ \E p \in Proc : Ledger(p) \/ Leave(p) \/ Crash(p) \/ ReusePid(p)
        \/ \E k \in Key : Age(k)

Spec == Init /\ [][Next]_vars

-----------------------------------------------------------------------------
(* Properties.                                                             *)

\* Every variable stays within the values the code can give it.
TypeOK ==
  /\ file \in [Key -> Entry] /\ view \in [Key -> Entry]
  /\ lock \in Proc \cup {None}
  /\ pc \in [Proc -> Steps]
  /\ req \in [Proc -> Request \cup {NoRequest}]
  /\ run \in [Proc -> Run \cup {NoRun}]
  /\ loaded \in [Proc -> BOOLEAN]
  /\ got \in [Proc -> Entry]
  /\ runs \in 0 .. MaxRuns
  /\ outcome \in [Run -> {"none", "running", "done", "lost"}]

\* The same key is never executed by two processes at the same time.
MutualExclusion ==
  \A p, q \in Proc :
    Executing(p) /\ Executing(q) /\ req[p].key = req[q].key => p = q

\* While a run executes, the ledger file keeps it in progress under its owner:
\* no eviction, clean-up or other process's completion loses track of it.
LiveRunsRemembered ==
  \A p \in Proc : Executing(p) =>
    LET e == file[req[p].key] IN
    e.state = "in_progress" /\ e.owner = p /\ e.run = run[p]

\* "replayed byte-for-byte": whoever is told that its request was executed is
\* given the answer of a run of that very request which did end, and whoever
\* is told that the outcome is unknown is told so of a run that is over.
ReplayFaithful ==
  \A p \in Proc : pc[p] = "replayed" =>
    /\ got[p].print = req[p].print
    /\ got[p].result \in {"own", "indeterminate"}
    /\ got[p].result = "own" => outcome[got[p].run] = "done"
    /\ got[p].result = "indeterminate" => outcome[got[p].run] # "running"

\* A recorded result never changes; at most its entry is evicted.
ResultsAreFinal ==
  [][ \A k \in Key : file[k].state = "complete" =>
        file'[k] = file[k] \/ file'[k].run # file[k].run ]_vars

=============================================================================
