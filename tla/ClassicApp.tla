----------------------------- MODULE ClassicApp -----------------------------
(***************************************************************************)
(* A classic application with secrets: one process, replaced in place by   *)
(* rebuild, rollback and restart, each of which must keep five records in  *)
(* step that no single write covers: the secret store of the application   *)
(* (internal/secrets/store.go), deploy.json, apps.json, versions.json and  *)
(* the binary with its backup.                                             *)
(*                                                                         *)
(* A rebuild or restart opens a secret transaction: the store notes the    *)
(* candidate bindings as pending, the new process is launched with them    *)
(* and tagged with the transaction, deploy.json is stamped when it is      *)
(* accepted, and ReconcileSecretTxn derives from that stamp, now or after  *)
(* a crash, whether the pending bindings are committed or discarded.       *)
(*                                                                         *)
(* A process is numbered by the order of its launch; the number stands for *)
(* its PID and start time.  The deploy lock admits one command at a time   *)
(* and vanishes with its holder: pc = "idle" says that nobody holds it.    *)
(***************************************************************************)
EXTENDS Naturals, FiniteSets

CONSTANTS
  Imports,    \* the binding sets phelix.yaml may declare
  Kinds,      \* the commands
  Faults,     \* which kinds of fault the environment may produce
  Journaled,  \* whether deploy.json may exist, or be missing, at first
  MaxFaults,  \* bound: how many faults one command meets
  MaxPid,     \* bound: launched processes
  MaxTxn,     \* bound: secret transactions
  MaxVer,     \* bound: recorded versions
  MaxVal      \* bound: versions of the bound secret's value

Commands == {"rebuild", "rollback", "restart", "set", "apply",
             "stop", "start", "restore", "settle"}

FaultKinds ==
  { "read",     \* the secret store or deploy.json cannot be read
    "write",    \* a file is not replaced
    "sync",     \* a file is replaced, and the directory fsync reports a failure
    "launch",   \* a process is not created, exits, or never listens and is stopped
    "stop",     \* the stop of a process cannot be confirmed
    "build",    \* a build fails, or its version cannot be recorded
    "promote",  \* PromoteVersion fails
    "die",      \* the application dies
    "stale" }   \* a command resolved the application before another one ran

ASSUME KindsAssumption == Kinds \subseteq Commands
ASSUME FaultsAssumption == Faults \subseteq FaultKinds
ASSUME JournaledAssumption == Journaled \subseteq BOOLEAN
ASSUME BoundsAssumption ==
  /\ MaxFaults \in Nat /\ MaxTxn \in Nat
  /\ {MaxPid, MaxVer, MaxVal} \subseteq Nat \ {0}

Proc == 1 .. MaxPid
Pid == 0 .. MaxPid
Txn == 0 .. MaxTxn
Version == 0 .. MaxVer
Value == 1 .. MaxVal

VARIABLES
  alive,      \* the application's processes
  born,       \* what each was launched with: binary, credentials, transaction
  count,      \* how many processes, transactions and versions there were
  store,      \* the secret store
  journal,    \* deploy.json
  apps,       \* the application's record in apps.json
  bin,        \* the version of the binary, and of its backup
  current,    \* the version versions.json marks current
  early,      \* a view of the application some command took before it had the lock
  pc,         \* the step the command holding the deploy lock is at
  mem,        \* its in-memory application record
  loc,        \* its local variables
  budget,     \* how many more faults it may meet
  committed,  \* history: the transactions that were committed
  doubled,    \* history: the recorded processes that ran when a restoration began
  before      \* history: the process that served, alone, when the command began

machine == <<alive, born>>
hist == <<committed, doubled, before>>
vars == <<alive, born, count, store, journal, apps, bin, current, early,
          pc, mem, loc, budget, committed, doubled, before>>

AppRec == [pid: Pid, status: {"running", "stopped", "failed"}, auto: BOOLEAN]

Stopped == [pid |-> 0, status |-> "stopped", auto |-> FALSE]

\* The outcome of the last apply; "other" is accepted, failed, skipped or not
\* requested: what the running process has is then not claimed.
Outcome == {"succeeded", "other"}

Store == [bind: Imports, val: Value, pend: Txn, pbind: Imports, apply: Outcome]

Journal == [exists: BOOLEAN, txn: Txn, cleanup: BOOLEAN, slot: Pid]

\* classicSecretJournal, without a stamp.
Unstamped(p) == [exists |-> TRUE, txn |-> 0, cleanup |-> FALSE, slot |-> p]

\* The same with the transaction's Stamp.
Stamped(p, t) == [exists |-> TRUE, txn |-> t, cleanup |-> TRUE, slot |-> p]

\* What a command knows of the application before it takes the lock.
Info == [rec: AppRec, cur: Version]

\* LoadState: a dead process is not running, whatever apps.json says.
View(a) ==
  [pid    |-> IF a.status = "running" /\ a.pid \notin alive THEN 0 ELSE a.pid,
   status |-> IF a.pid \in alive THEN "running"
              ELSE IF a.status = "running" THEN "stopped" ELSE a.status,
   auto   |-> a.auto \/ a.status = "running"]

Fresh == [rec |-> View(apps), cur |-> current]

NoInfo == [rec |-> Stopped, cur |-> 0]

NoLocals == [kind |-> "settle", info |-> NoInfo, imports |-> store.bind, target |-> 0,
             txn |-> 0, prev |-> 0, ok |-> TRUE, ret |-> "done", bad |-> "failed"]

Restarting == {"restart", "set", "apply"}

First1 == [ver |-> 1, bind |-> CHOOSE b \in Imports : TRUE, val |-> 1, tag |-> 0]

NoFault == budget' = budget

Fault(kind) == kind \in Faults /\ budget > 0 /\ budget' = budget - 1

\* secrets.mutate: reload under the store lock, change, replace the file.
Mutate(s) == store' = s /\ NoFault

MutateFails(s) == \/ Fault("write") /\ store' = store
                  \/ Fault("sync") /\ store' = s

\* deploy.Store.
Write(j) == journal' = j /\ NoFault

WriteFails(j) == \/ Fault("write") /\ journal' = journal
                 \/ Fault("sync") /\ journal' = j

\* SaveState.
Save == apps' = mem /\ NoFault

SaveFails == \/ Fault("write") /\ apps' = apps
             \/ Fault("sync") /\ apps' = mem

Goto(l) == pc' = l /\ UNCHANGED loc

GotoFailing(l) == pc' = l /\ loc' = [loc EXCEPT !.ok = FALSE]

-----------------------------------------------------------------------------
(* ReconcileSecretTxn, called by every command, by FinishSecretTxn and by  *)
(* a failed rebuild.  It goes on at loc.ret, or at loc.bad after an error. *)

Settle(ret, bad) ==
  pc' = "reconcile" /\ loc' = [loc EXCEPT !.ret = ret, !.bad = bad]

Reconcile ==
  /\ pc = "reconcile"
  /\ \/ /\ NoFault
        /\ Goto(CASE store.pend # 0 /\ journal.txn = store.pend -> "commit"
                  [] store.pend # 0 /\ journal.txn # store.pend -> "reclaim"
                  [] store.pend = 0 /\ journal.cleanup -> "reclaimAccepted"
                  [] OTHER -> loc.ret)
     \/ Fault("read") /\ GotoFailing(loc.bad)
     \/ Fault("read") /\ store.pend = 0 /\ Goto(loc.ret)
  /\ UNCHANGED <<machine, count, store, journal, apps, bin, current, early, mem, hist>>

\* The bindings of the pending transaction become the active ones.
CommitTxn ==
  LET s == [store EXCEPT !.bind = store.pbind, !.apply = "other", !.pend = 0]
  IN  /\ pc = "commit"
      /\ \/ Mutate(s) /\ Goto("reclaimAccepted")
         \/ MutateFails(s) /\ GotoFailing(loc.bad)
      /\ committed' = IF store' = s THEN committed \cup {store.pend} ELSE committed
      /\ UNCHANGED <<machine, count, journal, apps, bin, current, early, mem, doubled, before>>

\* reclaimSecretLaunches: the processes tagged with t, except the recorded one.
Unrecorded(t) == {p \in alive : born[p].tag = t /\ p # journal.slot}

Kill(S) == alive' = alive \ S /\ NoFault

ReclaimAccepted ==
  /\ pc = "reclaimAccepted"
  /\ \/ Kill(Unrecorded(journal.txn)) /\ Goto("storeClean")
     \/ Fault("stop") /\ UNCHANGED alive /\ GotoFailing(loc.bad)
  /\ UNCHANGED <<born, count, store, journal, apps, bin, current, early, mem, hist>>

StoreClean ==
  LET j == [journal EXCEPT !.cleanup = FALSE]
  IN  /\ pc = "storeClean"
      /\ \/ Write(j) /\ Goto(loc.ret)
         \/ WriteFails(j) /\ GotoFailing(loc.bad)
      /\ UNCHANGED <<machine, count, store, apps, bin, current, early, mem, hist>>

\* Mutation: the pending transaction is dropped before its launches are gone.
ReclaimMutant ==
  /\ pc = "reclaim"
  /\ NoFault /\ UNCHANGED alive /\ Goto("discard")
  /\ UNCHANGED <<born, count, store, journal, apps, bin, current, early, mem, hist>>

Reclaim ==
  /\ pc = "reclaim"
  /\ \/ Kill(Unrecorded(store.pend)) /\ Goto("discard")
     \/ Fault("stop") /\ UNCHANGED alive /\ GotoFailing(loc.bad)
  /\ UNCHANGED <<born, count, store, journal, apps, bin, current, early, mem, hist>>

DiscardTxn ==
  LET s == [store EXCEPT !.pend = 0, !.pbind = store.bind]
  IN  /\ pc = "discard"
      /\ \/ Mutate(s) /\ Goto(loc.ret)
         \/ MutateFails(s) /\ GotoFailing(loc.bad)
      /\ UNCHANGED <<machine, count, journal, apps, bin, current, early, mem, hist>>

-----------------------------------------------------------------------------
(* Commands.                                                               *)

First(k) ==
  CASE k \in {"rebuild", "restart"} -> "begin"
    [] k = "set" -> "set"
    [] k = "apply" -> "replace"
    [] k = "rollback" -> "check"
    [] k = "stop" -> "stop"
    [] k \in {"start", "restore"} -> "start"
    [] k = "settle" -> "done"

\* There is room for what the command may launch, open and record.
Room(k) ==
  /\ k \notin {"stop", "settle"} => count.pid + 2 <= MaxPid
  /\ k \in {"rebuild"} \cup Restarting => count.txn < MaxTxn
  /\ k = "rebuild" => count.ver < MaxVer
  /\ k = "set" => store.val < MaxVal

\* The process apps.json records, if it is alive, runs the binary and was not
\* launched by a transaction whose outcome is open.
Serving == {p \in alive \cap {apps.pid} : /\ born[p].ver = bin.at
                                          /\ born[p].tag \in {0} \cup committed}

\* The commands that still use what they knew when they have the lock.
Reuses == {"rebuild", "rollback", "set", "apply", "restore"}

\* A command that is resolved now may find room to begin.
Usable == \E k \in Kinds \cap Reuses : Room(k)

\* A command resolves its application before it asks for the deploy lock, while
\* another one runs.  Bound: one such view at a time, for the next command.
Resolve ==
  /\ pc # "idle" /\ "stale" \in Faults /\ early = NoInfo /\ Usable
  /\ early' = Fresh
  /\ UNCHANGED <<machine, count, store, journal, apps, bin, current, pc, mem, loc, budget, hist>>

Begin(k) ==
  /\ pc = "idle" /\ Room(k)
  /\ \E info \in {Fresh, early} \ {NoInfo}, imports \in Imports, target \in 0 .. count.ver :
       /\ \/ info = Fresh /\ NoFault
          \/ info = early /\ k \in Reuses /\ Fault("stale")
       /\ k \in {"rebuild", "apply"} \/ imports = store.bind
       /\ IF k = "rollback" THEN target \notin {0, info.cur} ELSE target = 0
       /\ k = "restore" => info.rec.auto /\ info.rec.status # "running"
       /\ before' = IF /\ info = Fresh /\ k \notin {"stop", "settle"}
                         /\ alive # {} /\ Serving = alive
                      THEN apps.pid ELSE 0
       /\ doubled' = IF k = "restore" THEN doubled \cup (alive \cap {apps.pid}) ELSE doubled
       /\ early' = NoInfo /\ mem' = info.rec
       /\ pc' = "reconcile"
       /\ loc' = [NoLocals EXCEPT !.kind = k, !.info = info, !.imports = imports,
                                  !.target = target, !.ret = First(k),
                                  !.bad = IF k = "restart" THEN "record" ELSE "failed"]
  /\ UNCHANGED <<machine, count, store, journal, apps, bin, current, committed>>

\* A process that is gone, and a backup left behind, concern no later command.
Leave ==
  /\ pc' = "idle" /\ mem' = Stopped /\ loc' = NoLocals /\ budget' = MaxFaults /\ before' = 0
  /\ born' = [p \in Proc |-> IF p \in alive THEN born[p] ELSE First1]
  /\ bin' = [bin EXCEPT !.backup = 0]
  /\ UNCHANGED <<alive, count, store, journal, apps, current, early, committed, doubled>>

Return == pc \in {"done", "failed"} /\ Leave

\* The command is killed between two steps; its files and processes stay.
Crash == pc # "idle" /\ Leave

-----------------------------------------------------------------------------
(* The transaction, and what a command saves before it touches the process.*)

\* BeginSecretTxn, its reconciliation done: the candidate bindings are noted.
BeginTxn ==
  LET t == count.txn + 1
      b == IF loc.kind = "rebuild" THEN loc.imports ELSE store.bind
      s == [store EXCEPT !.pend = t, !.pbind = b]
  IN  /\ pc = "begin"
      /\ count' = [count EXCEPT !.txn = t]
      /\ \/ /\ Mutate(s)
            /\ IF loc.kind = "rebuild"
                 THEN pc' = "capture" /\ mem' = mem
                 ELSE pc' = "stopOld" /\ mem' = View(apps)
            /\ loc' = [loc EXCEPT !.txn = t,
                         !.prev = IF loc.kind # "rebuild" /\ View(apps).status = "running"
                                    THEN View(apps).pid ELSE 0]
         \/ /\ MutateFails(s) /\ UNCHANGED mem
            /\ GotoFailing(IF loc.kind = "rebuild" THEN "failed" ELSE "record")
      /\ UNCHANGED <<machine, journal, apps, bin, current, early, hist>>

\* Rollback: the current version it resolved against must still be current.
Check ==
  /\ pc = "check" /\ NoFault
  /\ IF loc.info.cur = current THEN Goto("copy") ELSE GotoFailing("failed")
  /\ UNCHANGED <<machine, count, store, journal, apps, bin, current, early, mem, hist>>

\* replaceBinaryForRollback.
CopyBinary ==
  /\ pc = "copy"
  /\ \/ /\ NoFault /\ Goto("capture")
        /\ bin' = [at |-> loc.target, backup |-> bin.at]
     \/ Fault("write") /\ GotoFailing("failed") /\ UNCHANGED bin
  /\ UNCHANGED <<machine, count, store, journal, apps, current, early, mem, hist>>

\* classicRuntimeSecrets: the credentials of the running process are read from
\* its environment; that of a process that is gone cannot be read.
Capture ==
  LET p == loc.info.rec.pid
      next == IF loc.kind = "rebuild" THEN "backup" ELSE "stop"
  IN  /\ pc = "capture" /\ NoFault
      /\ \/ loc.info.rec.status # "running" /\ Goto(next)
         \/ /\ loc.info.rec.status = "running" /\ p \in alive
            /\ pc' = next /\ loc' = [loc EXCEPT !.prev = p]
         \/ /\ loc.info.rec.status = "running" /\ p \notin alive
            /\ GotoFailing(IF loc.kind = "rebuild" THEN "finish" ELSE "restoreBinary")
      /\ UNCHANGED <<machine, count, store, journal, apps, bin, current, early, mem, hist>>

BackupBinary ==
  /\ pc = "backup"
  /\ \/ NoFault /\ Goto("build") /\ bin' = [bin EXCEPT !.backup = bin.at]
     \/ Fault("write") /\ GotoFailing("finish") /\ UNCHANGED bin
  /\ UNCHANGED <<machine, count, store, journal, apps, current, early, mem, hist>>

\* rebuildApp replaces the binary; RecordFreshBuild may fail with a warning.
Build ==
  LET v == count.ver + 1
  IN  /\ pc = "build"
      /\ \/ /\ count' = [count EXCEPT !.ver = v] /\ bin' = [bin EXCEPT !.at = v]
            /\ \/ NoFault /\ pc' = "stop" /\ loc' = [loc EXCEPT !.target = v]
               \/ Fault("build") /\ Goto("stop")
         \/ Fault("build") /\ GotoFailing("undo") /\ UNCHANGED <<count, bin>>
      /\ UNCHANGED <<machine, store, journal, apps, current, early, mem, hist>>

-----------------------------------------------------------------------------
(* AppManager: stop and start, each with the save of apps.json.            *)

\* Where a failed step of the first attempt leads.
OnError ==
  CASE loc.kind = "rebuild" -> "undo"
    [] loc.kind = "rollback" -> "compensate"
    [] loc.kind \in Restarting -> "withdraw"
    [] OTHER -> "failed"

\* StopApplication, the state reloaded.
StopApplication(from, saved, bad) ==
  /\ pc = from
  /\ \/ /\ Kill({View(apps).pid}) /\ Goto(saved) /\ mem' = Stopped
     \/ /\ View(apps).status = "running" /\ Fault("stop")
        /\ mem' = View(apps) /\ UNCHANGED alive /\ GotoFailing(bad)
  /\ UNCHANGED <<born, count, store, journal, apps, bin, current, early, hist>>

SaveStopped(from, next, bad) ==
  /\ pc = from
  /\ \/ Save /\ Goto(next)
     \/ SaveFails /\ GotoFailing(bad)
  /\ UNCHANGED <<machine, count, store, journal, bin, current, early, mem, committed, doubled>>

StopBad == IF loc.kind = "rollback" THEN "restoreBinary" ELSE OnError

\* stopExistingApp leaves an application alone that was not running when the
\* command resolved it.
SkipStop ==
  /\ pc = "stop" /\ loc.kind # "stop" /\ loc.info.rec.status # "running"
  /\ NoFault /\ Goto("start")
  /\ UNCHANGED <<machine, count, store, journal, apps, bin, current, early, mem, hist>>

StopExisting ==
  /\ loc.kind = "stop" \/ loc.info.rec.status = "running"
  /\ StopApplication("stop", "saveStopped", StopBad)

\* A rollback that cannot save the stop restores the binary, not the process.
SaveExisting ==
  /\ SaveStopped("saveStopped", IF loc.kind = "stop" THEN "done" ELSE "start", StopBad)
  /\ before' = IF pc' = "restoreBinary" THEN 0 ELSE before

\* RestartApplicationWithSecrets stops the process without saving that.
StopOld ==
  /\ pc = "stopOld"
  /\ \/ Kill({mem.pid}) /\ Goto("start")
     \/ mem.pid \in alive /\ Fault("stop") /\ UNCHANGED alive /\ GotoFailing("finish")
  /\ UNCHANGED <<born, count, store, journal, apps, bin, current, early, mem, hist>>

Up(p) == [pid |-> p, status |-> "running", auto |-> TRUE]
Down == [pid |-> 0, status |-> "failed", auto |-> TRUE]

Reloads == loc.kind \in {"rebuild", "rollback", "start"}

\* Starts through StartApplicationWithSecrets, which reloads apps.json.
Starting == pc = "startPrior" \/ (pc = "start" /\ Reloads)

\* The record a start that creates no process leaves in memory.
Loaded == IF Starting THEN View(apps) ELSE mem

\* startApplicationProcessWithSecrets.  The check is that somebody listens on
\* the port: when an unrecorded process does, the new one may exit and the start
\* is a success all the same.  A process that never listens and whose stop is
\* not confirmed (two faults) stays.
Launch(bind, val, tag, next, bad) ==
  LET p == count.pid + 1
  IN  /\ p \in Proc /\ count' = [count EXCEPT !.pid = p]
      /\ born' = [born EXCEPT ![p] = [ver |-> bin.at, bind |-> bind, val |-> val, tag |-> tag]]
      /\ \/ /\ NoFault /\ mem' = Up(p) /\ Goto(next)
            /\ alive' \in {alive, alive \cup {p}} \ {{}}
         \/ /\ Fault("launch") /\ mem' \in {Loaded, Down} /\ UNCHANGED alive
            /\ GotoFailing(bad)
         \/ /\ {"launch", "stop"} \subseteq Faults /\ budget > 1 /\ budget' = budget - 2
            /\ mem' = Up(p) /\ alive' = alive \cup {p}
            /\ GotoFailing(bad)
      /\ UNCHANGED <<store, journal, apps, bin, current, early, hist>>

AlreadyRunning ==
  /\ Starting /\ View(apps).status = "running"
  /\ mem' = View(apps) /\ NoFault
  /\ GotoFailing(IF pc = "start" THEN OnError ELSE "finish")
  /\ UNCHANGED <<machine, count, store, journal, apps, bin, current, early, hist>>

\* With the pinned values of the transaction, or the committed bindings.
Start ==
  /\ pc = "start" /\ ~(Starting /\ View(apps).status = "running")
  /\ Launch(IF loc.txn = 0 THEN store.bind ELSE store.pbind, store.val, loc.txn,
            "saveStarted", OnError)

AfterStart ==
  CASE loc.txn # 0 -> "accept"
    [] loc.txn = 0 /\ loc.kind = "rollback" -> "refresh"
    [] OTHER -> "done"

SaveStarted ==
  /\ pc = "saveStarted"
  /\ \/ Save /\ Goto(AfterStart)
     \/ SaveFails /\ GotoFailing(IF loc.kind \in Restarting THEN "withdraw" ELSE "stopNew")
  /\ UNCHANGED <<machine, count, store, journal, bin, current, early, mem, hist>>

\* stopNewlyStarted.
StopNew(from, next, bad) ==
  /\ pc = from
  /\ \/ Kill({mem.pid}) /\ mem' = Down /\ Goto(next)
     \/ /\ mem.pid \in alive /\ Fault("stop")
        /\ UNCHANGED <<alive, mem>> /\ GotoFailing(bad)
  /\ UNCHANGED <<born, count, store, journal, apps, bin, current, early, hist>>

StopNewlyStarted == StopNew("stopNew", OnError, OnError)

-----------------------------------------------------------------------------
(* Acceptance and the end of a transaction.                                *)

\* acceptClassicSecrets, or the restart's persist callback: the stamp.
Accept ==
  LET j == Stamped(mem.pid, loc.txn)
  IN  /\ pc = "accept"
      /\ \/ Write(j) /\ Goto(IF loc.kind = "rebuild" THEN "promote" ELSE "finish")
         \/ WriteFails(j) /\ GotoFailing(IF loc.kind = "rebuild" THEN "undo" ELSE "unaccept")
      /\ UNCHANGED <<machine, count, store, apps, bin, current, early, mem, hist>>

\* refreshClassicSecretJournal: an existing journal follows the new process.
Refresh(from, next, bad) ==
  LET j == Unstamped(mem.pid)
  IN  /\ pc = from
      /\ \/ ~journal.exists /\ NoFault /\ UNCHANGED journal /\ Goto(next)
         \/ journal.exists /\ Write(j) /\ Goto(next)
         \/ journal.exists /\ WriteFails(j) /\ GotoFailing(bad)
      /\ UNCHANGED <<machine, count, store, apps, bin, current, early, mem, hist>>

RefreshJournal == Refresh("refresh", "promote", "compensate")

\* A failed promotion is a warning in a rebuild, and undoes a rollback.
Promote ==
  /\ pc = "promote"
  /\ \/ /\ NoFault
        /\ current' = IF loc.target = 0 THEN current ELSE loc.target
        /\ Goto(IF loc.kind = "rebuild" THEN "finish" ELSE "discardBackup")
     \/ /\ loc.target # 0 /\ Fault("promote") /\ UNCHANGED current
        /\ IF loc.kind = "rebuild" THEN Goto("finish") ELSE GotoFailing("compensate")
  /\ UNCHANGED <<machine, count, store, journal, apps, bin, early, mem, hist>>

DiscardBackup ==
  /\ pc = "discardBackup" /\ NoFault
  /\ bin' = [bin EXCEPT !.backup = 0]
  /\ Goto(IF loc.ok THEN "done" ELSE "finish")
  /\ UNCHANGED <<machine, count, store, journal, apps, current, early, mem, hist>>

\* FinishSecretTxn: settle, then note that the running process has what the
\* store holds.
Finish ==
  /\ pc = "finish" /\ NoFault
  /\ CASE loc.kind = "rebuild" /\ loc.ok -> Settle("recordApplied", "undo")
       [] loc.kind = "rebuild" /\ ~loc.ok -> Settle("failed", "failed")
       [] loc.kind \in Restarting /\ loc.ok -> Settle("recordApplied", "record")
       [] loc.kind \in Restarting /\ ~loc.ok -> Settle("record", "record")
       [] OTHER -> Goto("failed")
  /\ UNCHANGED <<machine, count, store, journal, apps, bin, current, early, mem, hist>>

RecordApplied ==
  LET s == [store EXCEPT !.apply = "succeeded"]
  IN  /\ pc = "recordApplied"
      /\ \/ Mutate(s) /\ Goto(IF loc.kind = "rebuild" THEN "discardBackup" ELSE "record")
         \/ MutateFails(s) /\ GotoFailing(IF loc.kind = "rebuild" THEN "undo" ELSE "record")
      /\ UNCHANGED <<machine, count, journal, apps, bin, current, early, mem, hist>>

\* recordApply of restart, secrets set and secrets apply.
Record ==
  LET s == [store EXCEPT !.apply = IF loc.ok THEN "succeeded" ELSE "other"]
  IN  /\ pc = "record"
      /\ \/ Mutate(s) /\ Goto("done")
         \/ MutateFails(s) /\ GotoFailing("failed")
      /\ UNCHANGED <<machine, count, journal, apps, bin, current, early, mem, hist>>

-----------------------------------------------------------------------------
(* Failure: a rebuild and a rollback restore the binary and, with the      *)
(* credentials it had, the process; a restart restores the process.        *)

\* The rebuild's deferred function settles first, and stops when the journal
\* shows the new process to be accepted.
Undo ==
  /\ pc = "undo" /\ NoFault /\ Settle("decide", "finish")
  /\ UNCHANGED <<machine, count, store, journal, apps, bin, current, early, mem, hist>>

\* Mutation: the restoration does not ask whether the new process was accepted.
DecideMutant ==
  /\ pc = "decide" /\ NoFault /\ Goto("compensate")
  /\ UNCHANGED <<machine, count, store, journal, apps, bin, current, early, mem, hist>>

Decide ==
  /\ pc = "decide"
  /\ \/ NoFault /\ Goto(IF journal.txn = loc.txn THEN "discardBackup" ELSE "compensate")
     \/ Fault("read") /\ GotoFailing("finish")
  /\ UNCHANGED <<machine, count, store, journal, apps, bin, current, early, mem, hist>>

StillServing == mem.status = "running" /\ mem.pid = loc.info.rec.pid

Compensate ==
  /\ pc = "compensate" /\ NoFault
  /\ Goto(IF mem.status = "running" /\ ~StillServing THEN "stopFailed" ELSE "restorePrior")
  /\ UNCHANGED <<machine, count, store, journal, apps, bin, current, early, mem, hist>>

StopFailed == StopApplication("stopFailed", "saveFailed", "finish")

SaveFailed ==
  SaveStopped("saveFailed", "restorePrior", "finish") /\ UNCHANGED before

RestorePrior ==
  /\ pc = "restorePrior"
  /\ \/ /\ NoFault /\ bin' = [at |-> bin.backup, backup |-> 0]
        /\ Goto(IF StillServing \/ loc.info.rec.status # "running" THEN "finish" ELSE "startPrior")
     \/ Fault("write") /\ UNCHANGED bin /\ GotoFailing("finish")
  /\ UNCHANGED <<machine, count, store, journal, apps, current, early, mem, hist>>

\* backup.Restore alone, when a rollback fails before the old process is gone.
RestoreBinary ==
  /\ pc = "restoreBinary"
  /\ \/ NoFault /\ bin' = [at |-> bin.backup, backup |-> 0]
     \/ Fault("write") /\ UNCHANGED bin
  /\ Goto("failed")
  /\ UNCHANGED <<machine, count, store, journal, apps, current, early, mem, hist>>

StartPrior ==
  /\ pc = "startPrior" /\ View(apps).status # "running"
  /\ Launch(born[loc.prev].bind, born[loc.prev].val, 0, "savePrior", "finish")

SavePrior ==
  /\ pc = "savePrior"
  /\ \/ Save /\ Goto("refreshPrior")
     \/ SaveFails /\ GotoFailing("stopPrior")
  /\ UNCHANGED <<machine, count, store, journal, bin, current, early, mem, hist>>

StopPrior == StopNew("stopPrior", "finish", "finish")

RefreshPrior == Refresh("refreshPrior", "finish", "finish")

\* The restart's persist(nil, false): no process is accepted.
Unaccept ==
  /\ pc = "unaccept"
  /\ \/ Write(Unstamped(0)) /\ Goto("withdraw")
     \/ WriteFails(Unstamped(0)) /\ GotoFailing("finish")
  /\ UNCHANGED <<machine, count, store, apps, bin, current, early, mem, hist>>

Withdraw ==
  StopNew("withdraw", IF loc.prev # 0 THEN "relaunch" ELSE "saveRelaunch", "finish")

Relaunch ==
  /\ pc = "relaunch"
  /\ Launch(born[loc.prev].bind, born[loc.prev].val, 0, "unstamp", "saveRelaunch")

Unstamp ==
  /\ pc = "unstamp" /\ Goto("saveRelaunch")
  /\ Write(Unstamped(mem.pid)) \/ WriteFails(Unstamped(mem.pid))
  /\ UNCHANGED <<machine, count, store, apps, bin, current, early, mem, hist>>

SaveRelaunch ==
  /\ pc = "saveRelaunch" /\ Goto("finish")
  /\ Save \/ SaveFails
  /\ UNCHANGED <<machine, count, store, journal, bin, current, early, mem, hist>>

-----------------------------------------------------------------------------
(* secrets set and secrets apply change the store, then restart.           *)

\* A restart follows when it is wanted and the application was running.
Follow == IF loc.info.rec.status = "running" THEN {"begin", "done"} ELSE {"recordSkipped", "done"}

Change(s) ==
  /\ \/ Mutate(s) /\ pc' \in Follow /\ UNCHANGED loc
     \/ MutateFails(s) /\ GotoFailing("failed")
  /\ UNCHANGED <<machine, count, journal, apps, bin, current, early, mem, hist>>

\* Mutation: the new value leaves the outcome of the last apply in place.
SetValueMutant == pc = "set" /\ Change([store EXCEPT !.val = @ + 1])

SetValue ==
  /\ pc = "set"
  /\ Change([store EXCEPT !.val = @ + 1, !.apply = "other"])

ReplaceBindings ==
  /\ pc = "replace"
  /\ Change([store EXCEPT !.bind = loc.imports, !.pbind = loc.imports, !.apply = "other"])

RecordSkipped ==
  LET s == [store EXCEPT !.apply = "other"]
  IN  /\ pc = "recordSkipped"
      /\ \/ Mutate(s) /\ Goto("done")
         \/ MutateFails(s) /\ GotoFailing("failed")
      /\ UNCHANGED <<machine, count, journal, apps, bin, current, early, mem, hist>>

-----------------------------------------------------------------------------
(* The environment.                                                        *)

Die ==
  /\ "die" \in Faults /\ alive # {}
  /\ IF pc = "idle" THEN UNCHANGED budget ELSE Fault("die")
  /\ \E p \in alive : alive' = alive \ {p} /\ before' = 0
  /\ UNCHANGED <<born, count, store, journal, apps, bin, current, early, pc, mem, loc,
                 committed, doubled>>

-----------------------------------------------------------------------------
(* An application deployed before: version 1 runs, its bindings committed. *)

Init ==
  /\ alive = {1} /\ born = [p \in Proc |-> First1]
  /\ count = [pid |-> 1, txn |-> 0, ver |-> 1]
  /\ store = [bind |-> First1.bind, val |-> 1, pend |-> 0, pbind |-> First1.bind,
              apply |-> "succeeded"]
  /\ \E exists \in Journaled :
       journal = IF exists THEN Unstamped(1) ELSE [Unstamped(0) EXCEPT !.exists = FALSE]
  /\ apps = Up(1) /\ bin = [at |-> 1, backup |-> 0] /\ current = 1 /\ early = NoInfo
  /\ pc = "idle" /\ mem = Stopped /\ loc = NoLocals /\ budget = MaxFaults
  /\ committed = {} /\ doubled = {} /\ before = 0

Settling == Reconcile \/ CommitTxn \/ ReclaimAccepted \/ StoreClean \/ Reclaim \/ DiscardTxn

Preparing == BeginTxn \/ Check \/ CopyBinary \/ Capture \/ BackupBinary \/ Build

Replacing == SkipStop \/ StopExisting \/ SaveExisting \/ StopOld \/ AlreadyRunning
               \/ Start \/ SaveStarted \/ StopNewlyStarted

Accepting == Accept \/ RefreshJournal \/ Promote \/ DiscardBackup
               \/ Finish \/ RecordApplied \/ Record

Restoring == Undo \/ Decide \/ Compensate \/ StopFailed \/ SaveFailed \/ RestorePrior
               \/ RestoreBinary \/ StartPrior \/ SavePrior \/ StopPrior \/ RefreshPrior
               \/ Unaccept \/ Withdraw \/ Relaunch \/ Unstamp \/ SaveRelaunch

Changing == SetValue \/ ReplaceBindings \/ RecordSkipped

Next ==
  \/ Resolve \/ (\E k \in Kinds : Begin(k)) \/ Return
  \/ Settling \/ Preparing \/ Replacing \/ Accepting \/ Restoring \/ Changing
  \/ Crash \/ Die

Spec == Init /\ [][Next]_vars

-----------------------------------------------------------------------------
(* Properties.                                                             *)

\* Every live process that a transaction launched is accounted for: the
\* transaction is open, so that the next reconciliation finds the process by
\* its tag, or it was committed and the process is the recorded one.  None
\* outlives a discarded transaction (reclaimSecretLaunches, DiscardTxn).  Only
\* RestoreAutoStartApps, which launches on a record read before the lock, puts
\* another process in the place of one that runs.
LaunchesAccounted ==
  \A p \in alive \ doubled : born[p].tag # 0 =>
    \/ store.pend = born[p].tag
    \/ journal.cleanup /\ journal.txn = born[p].tag
    \/ born[p].tag \in committed /\ p = apps.pid

\* "succeeded" in the store's last apply is the truth: the running process has
\* the bindings and the values the store holds (RecordApply).
HonestApply ==
  pc = "idle" /\ store.pend = 0 /\ store.apply = "succeeded" /\ apps.pid \in alive =>
    born[apps.pid].bind = store.bind /\ born[apps.pid].val = store.val

\* A command that reports a failure leaves the application running, on the
\* binary that is in place, and either as it was or with an accepted
\* transaction (compensateClassicRollback, RestartApplicationWithSecrets).  Not
\* covered: a second fault, and an application beside which an unrecorded process
\* ran, since a start takes whoever listens on the port for the process it launched.
FailureRestores ==
  before # 0 /\ pc \in {"done", "failed"} /\ (loc.ok => pc = "failed") /\ budget + 1 >= MaxFaults =>
    /\ apps.pid \in alive /\ born[apps.pid].ver = bin.at
    /\ \/ born[apps.pid].tag \in committed \cup ({journal.txn} \ {0})
       \/ /\ born[apps.pid].ver = born[before].ver
          /\ loc.txn \notin committed
          /\ born[apps.pid].bind = born[before].bind
          /\ born[apps.pid].val = born[before].val

=============================================================================
