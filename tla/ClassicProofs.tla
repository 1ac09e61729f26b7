--------------------------- MODULE ClassicProofs ---------------------------
(***************************************************************************)
(* Proofs about ClassicApp, for any bounds, commands, faults and bindings: *)
(* every live process a transaction launched is accounted for; what the    *)
(* secret store says of the running process is the truth; and a command    *)
(* that fails leaves the application served.                               *)
(*                                                                         *)
(* The inductive invariant of the first has two parts.  Ledger relates the *)
(* five records whichever step the command is at: which transactions the   *)
(* stamp in deploy.json may name, and which processes they have.  Flow     *)
(* says, step by step, what the command has established: that its own      *)
(* transaction is open and not stamped until its process is accepted, and  *)
(* that apps.json is never overwritten while the process it records runs.  *)
(*                                                                         *)
(* Quiet collects the actions that change none of this but the step; an    *)
(* action that changes a record has a lemma of its own.                    *)
(*                                                                         *)
(* Honesty, the invariant of the second, rests on the first.  It follows   *)
(* the credentials: those of every process that a record names or that a   *)
(* command holds and may yet record, those a restoration would launch the  *)
(* prior process with, and those an accepted transaction leaves in force.  *)
(*                                                                         *)
(* Recovery, the invariant of the third, rests on both: Course says, step  *)
(* by step, where a command that met one fault at most has the process,    *)
(* the binary and the record that served, or those that replace them.      *)
(***************************************************************************)
EXTENDS ClassicApp, TLAPS

-----------------------------------------------------------------------------
(* The inductive invariant.                                                *)

\* Numbers are given out in order, and nobody holds one that was not.
Numbered ==
  /\ count.pid \in Nat /\ count.txn \in Nat
  /\ alive \subseteq Proc \cap 1 .. count.pid
  /\ store.pend \in 0 .. count.txn /\ journal.txn \in 0 .. count.txn
  /\ loc.txn \in 0 .. count.txn
  /\ apps.pid \in 0 .. count.pid /\ mem.pid \in 0 .. count.pid
  /\ early.rec.pid \in 0 .. count.pid /\ journal.slot \in 0 .. count.pid
  /\ \A p \in alive : born[p].tag \in 0 .. count.txn

\* The records have the fields that are changed one by one.
Shaped ==
  /\ DOMAIN born = Proc /\ DOMAIN count = {"pid", "txn", "ver"}
  /\ DOMAIN journal = {"exists", "txn", "cleanup", "slot"}
  /\ DOMAIN store = {"bind", "val", "pend", "pbind", "apply"}
  /\ DOMAIN loc = {"kind", "info", "imports", "target", "txn", "prev", "ok", "ret", "bad"}

\* No process of transaction t runs.
Clear(t) == \A p \in alive : born[p].tag # t

\* The process apps.json records is gone; a restoration may not know that it runs.
Vacant == apps.pid \notin alive \/ (loc.kind = "restore" /\ apps.pid \in doubled)

\* What holds whichever step the command is at.
StampKept == store.pend # 0 /\ journal.txn = store.pend => journal.cleanup

CleanupJustified ==
  journal.cleanup => /\ journal.txn # 0
                     /\ journal.txn = store.pend \/ journal.txn \in committed

AcceptedIsRecorded ==
  \A p \in alive \ doubled : born[p].tag # 0 /\ born[p].tag = journal.txn => p = apps.pid

SlotIsStamped ==
  \A p \in alive : p = journal.slot /\ store.pend # 0 /\ born[p].tag = store.pend
                     => journal.txn = store.pend

Ledger ==
  StampKept /\ CleanupJustified /\ AcceptedIsRecorded /\ SlotIsStamped /\ LaunchesAccounted

\* The steps of ReconcileSecretTxn, and those it returns to.
SettleSteps == {"reconcile", "commit", "reclaimAccepted", "storeClean", "reclaim", "discard"}

Ends == {"recordApplied", "failed", "record", "decide"}

Bads == {"record", "failed", "undo", "finish"}

SettlingFlow ==
  /\ pc = "commit" => store.pend # 0 /\ journal.txn = store.pend
  /\ pc \in {"reclaim", "discard"} => store.pend # 0 /\ journal.txn # store.pend
  /\ pc = "discard" => Clear(store.pend)
  /\ pc \in {"reclaimAccepted", "storeClean"} => store.pend = 0 /\ journal.cleanup
  /\ pc \in SettleSteps =>
       /\ loc.bad \in Bads
       /\ \/ loc.ret \in Ends
          \/ loc.ret = First(loc.kind) /\ loc.kind \in Commands /\ loc.txn = 0
  /\ pc \in SettleSteps /\ loc.ret = "start" /\ loc.kind = "restore" => Vacant

\* Before its new process is accepted, the transaction of the command is open and
\* not stamped.
Opening == {"begin", "set", "replace"}

Working == {"check", "copy", "capture", "backup", "build", "stop", "saveStopped", "stopOld", "start"}

Unaccepted == store.pend = loc.txn /\ journal.txn # loc.txn

WorkingFlow ==
  /\ pc \in Opening => store.pend = 0 /\ loc.txn = 0
  /\ pc \in {"set", "replace"} => loc.kind \in Restarting
  /\ pc = "begin" => loc.kind \in Restarting \cup {"rebuild"}
  /\ pc \in Working /\ loc.txn # 0 => Unaccepted /\ Clear(loc.txn)
  /\ pc \in {"check", "copy", "capture", "backup", "build", "stop", "saveStopped"}
       => loc.kind \in {"rebuild", "rollback", "stop"}
  /\ pc = "stopOld" => loc.kind \in Restarting /\ (apps.pid \in alive => mem.pid = apps.pid)
  /\ pc \in {"saveStopped", "saveFailed"} => Vacant
  /\ pc = "start" => Reloads \/ Vacant

\* What is known of the process in memory.
Launched(t) == mem.pid \in alive => born[mem.pid].tag = t

AcceptingFlow ==
  /\ pc = "saveStarted" => Vacant
  /\ pc \in {"saveStarted", "accept"} =>
       /\ Launched(loc.txn)
       /\ loc.txn # 0 => /\ Unaccepted
                         /\ \A p \in alive : born[p].tag = loc.txn => p = mem.pid
  /\ pc = "accept" => loc.txn # 0 /\ apps.pid = mem.pid
  /\ pc = "stopNew" => loc.kind \notin Restarting
  /\ pc = "refresh" => Launched(0) /\ apps.pid = mem.pid

RestoringFlow ==
  /\ pc = "savePrior" => Launched(0) /\ Vacant
  /\ pc = "refreshPrior" => Launched(0) /\ apps.pid = mem.pid
  /\ pc = "unaccept" => store.pend = loc.txn /\ Launched(loc.txn) /\ apps.pid = mem.pid
  /\ pc = "withdraw" => Vacant \/ apps.pid = mem.pid
  /\ pc \in {"relaunch", "unstamp", "saveRelaunch"} => Vacant
  /\ pc = "unstamp" => Launched(0)

Flow == SettlingFlow /\ WorkingFlow /\ AcceptingFlow /\ RestoringFlow

ClassicInvariant == Numbered /\ Shaped /\ Ledger /\ Flow

\* The steps at which nothing more is known.
Free == {"idle", "done", "failed", "finish", "record", "recordApplied", "recordSkipped", "undo",
         "decide", "compensate", "stopFailed", "restorePrior", "restoreBinary", "startPrior",
         "stopPrior", "promote", "discardBackup"}

-----------------------------------------------------------------------------
(* What the steps have in common.                                          *)

\* Nothing is claimed of a free step.
LEMMA FreeFlow == ASSUME pc' \in Free PROVE Flow'
BY SMT DEF Free, Flow, SettlingFlow, WorkingFlow, AcceptingFlow, RestoringFlow, SettleSteps,
  Opening, Working

\* A live recorded process is what LoadState shows.
LEMMA ViewPid ==
  ASSUME ClassicInvariant
  PROVE  /\ View(apps).pid \in {0, apps.pid}
         /\ View(apps).pid \in 0 .. count.pid
         /\ apps.pid \in alive => View(apps).pid = apps.pid /\ View(apps).status = "running"
BY SMT DEF ClassicInvariant, Numbered, View

LEMMA InitClassic == Init => ClassicInvariant
<1> SUFFICES ASSUME Init PROVE ClassicInvariant
  OBVIOUS
<1>1. Flow
  BY SMT DEF Init, Flow, SettlingFlow, WorkingFlow, AcceptingFlow, RestoringFlow, SettleSteps,
    Opening, Working
<1>2. /\ count.pid = 1 /\ count.txn = 0 /\ alive = {1} /\ 1 \in Proc
      /\ \A p \in Proc : born[p].tag = 0
      /\ store.pend = 0 /\ apps.pid = 1 /\ mem.pid = 0 /\ loc.txn = 0 /\ early.rec.pid = 0
  BY BoundsAssumption, SMT DEF Init, Proc, First1, Up, Stopped, NoLocals, NoInfo
<1>3. journal.txn = 0 /\ ~journal.cleanup /\ journal.slot \in {0, 1}
  BY SMT DEF Init, Unstamped
<1>4. Shaped
  <2>1. DOMAIN journal = {"exists", "txn", "cleanup", "slot"}
    BY SMT DEF Init, Unstamped
  <2> QED
    BY <2>1, SMT DEF Init, Shaped, NoLocals, First1
<1> QED
  BY <1>1, <1>2, <1>3, <1>4, SMT DEF ClassicInvariant, Numbered, Ledger, StampKept,
    CleanupJustified, AcceptedIsRecorded, SlotIsStamped, LaunchesAccounted

\* The records the ledger is about stay; processes may end.
Kept ==
  /\ alive' \subseteq alive /\ UNCHANGED <<born, journal, apps, committed, doubled>>
  /\ count'.pid = count.pid /\ count'.txn = count.txn /\ DOMAIN count' = DOMAIN count
  /\ store'.pend = store.pend /\ DOMAIN store' = DOMAIN store

SameLocals ==
  /\ DOMAIN loc' = DOMAIN loc
  /\ loc'.kind = loc.kind /\ loc'.txn = loc.txn /\ loc'.ret = loc.ret /\ loc'.bad = loc.bad

\* What memory holds is numbered, too.
Memory ==
  /\ mem'.pid \in 0 .. count.pid /\ loc'.txn \in 0 .. count.txn
  /\ early'.rec.pid \in 0 .. count.pid /\ DOMAIN loc' = DOMAIN loc

LEMMA GotoKeepsLocals ==
  ASSUME Shaped, NEW l, Goto(l) \/ GotoFailing(l)
  PROVE  pc' = l /\ SameLocals
BY SMT DEF Shaped, Goto, GotoFailing, SameLocals

LEMMA SameMemory ==
  ASSUME ClassicInvariant, SameLocals, UNCHANGED <<mem, early>>
  PROVE  Memory
BY SMT DEF ClassicInvariant, Numbered, SameLocals, Memory

LEMMA KeptLedger ==
  ASSUME ClassicInvariant, Kept
  PROVE  Ledger'
BY SMT DEF ClassicInvariant, Numbered, Kept, Ledger, StampKept, CleanupJustified,
  AcceptedIsRecorded, SlotIsStamped, LaunchesAccounted

LEMMA KeptNumbers ==
  ASSUME ClassicInvariant, Kept, Memory
  PROVE  Numbered' /\ Shaped'
BY SMT DEF ClassicInvariant, Numbered, Shaped, Kept, Memory

LEMMA QuietFree ==
  ASSUME ClassicInvariant, Kept, Memory, pc' \in Free
  PROVE  ClassicInvariant'
BY KeptLedger, KeptNumbers, FreeFlow DEF ClassicInvariant

LEMMA QuietFlow ==
  ASSUME ClassicInvariant, Kept, Memory, Flow'
  PROVE  ClassicInvariant'
BY KeptLedger, KeptNumbers DEF ClassicInvariant

LEMMA OnErrorFree ==
  ASSUME loc.kind \notin Restarting
  PROVE  OnError \in Free
BY SMT DEF OnError, Free, Restarting

-----------------------------------------------------------------------------
(* The end of a command.                                                   *)

LEMMA RecordStep ==
  ASSUME ClassicInvariant, RecordApplied \/ Record \/ RecordSkipped
  PROVE  ClassicInvariant'
<1>1. store'.pend = store.pend /\ DOMAIN store' = DOMAIN store
  BY SMT DEF ClassicInvariant, Shaped, RecordApplied, Record, RecordSkipped, Mutate, MutateFails
<1>2. Kept /\ UNCHANGED <<mem, early>>
  BY <1>1 DEF RecordApplied, Record, RecordSkipped, Kept, machine, hist
<1>3. \E l \in Free : Goto(l) \/ GotoFailing(l)
  BY SMT DEF RecordApplied, Record, RecordSkipped, Free
<1>4. SameLocals /\ pc' \in Free
  BY <1>3, GotoKeepsLocals DEF ClassicInvariant
<1> QED
  BY <1>2, <1>4, SameMemory, QuietFree

LEMMA EndStep ==
  ASSUME ClassicInvariant,
         Promote \/ DiscardBackup \/ Decide \/ Compensate \/ RestorePrior \/ RestoreBinary
  PROVE  ClassicInvariant'
<1>1. Kept /\ UNCHANGED <<mem, early>>
  BY SMT DEF Promote, DiscardBackup, Decide, Compensate, RestorePrior, RestoreBinary, Kept, machine,
    hist
<1>2. \E l \in Free : Goto(l) \/ GotoFailing(l)
  BY SMT DEF Promote, DiscardBackup, Decide, Compensate, RestorePrior, RestoreBinary, Free
<1>3. SameLocals /\ pc' \in Free
  BY <1>2, GotoKeepsLocals DEF ClassicInvariant
<1> QED
  BY <1>1, <1>3, SameMemory, QuietFree

\* A process is stopped, on the way to a step that nothing is claimed of.
LEMMA StopFree ==
  ASSUME ClassicInvariant, NEW from, NEW next \in Free, NEW bad \in Free, StopNew(from, next, bad)
  PROVE  ClassicInvariant'
<1>1. Kept /\ UNCHANGED early
  BY SMT DEF StopNew, Kept, Kill, hist
<1>2. mem'.pid \in 0 .. count.pid
  BY SMT DEF ClassicInvariant, Numbered, StopNew, Down
<1>3. SameLocals /\ pc' \in Free
  BY GotoKeepsLocals DEF ClassicInvariant, StopNew
<1>4. Memory
  BY <1>1, <1>2, <1>3, SMT DEF ClassicInvariant, Numbered, SameLocals, Memory
<1> QED
  BY <1>1, <1>3, <1>4, QuietFree

LEMMA StopStartedStep ==
  ASSUME ClassicInvariant, StopPrior \/ StopNewlyStarted
  PROVE  ClassicInvariant'
<1>1. CASE StopPrior
  BY <1>1, StopFree, "finish" \in Free DEF StopPrior, Free
<1>2. CASE StopNewlyStarted
  <2>1. OnError \in Free
    BY <1>2, OnErrorFree DEF StopNewlyStarted, StopNew, ClassicInvariant, Flow, AcceptingFlow
  <2> QED
    BY <1>2, <2>1, StopFree DEF StopNewlyStarted
<1> QED
  BY <1>1, <1>2

\* A command returns or is killed.
LEMMA LeaveStep ==
  ASSUME ClassicInvariant, Leave
  PROVE  ClassicInvariant'
<1>1. UNCHANGED <<alive, count, store, journal, apps, committed, doubled, early>>
  BY DEF Leave
<1>2. /\ DOMAIN born' = Proc /\ mem'.pid = 0 /\ loc'.txn = 0 /\ DOMAIN loc' = DOMAIN loc
      /\ \A p \in alive : born'[p].tag = born[p].tag
  BY SMT DEF Leave, ClassicInvariant, Shaped, Numbered, Stopped, NoLocals
<1>3. Numbered' /\ Shaped'
  BY <1>1, <1>2, SMT DEF ClassicInvariant, Shaped, Numbered
<1>4. Ledger'
  BY <1>1, <1>2, SMT DEF ClassicInvariant, Ledger, StampKept, CleanupJustified,
    AcceptedIsRecorded, SlotIsStamped, LaunchesAccounted
<1>5. Flow'
  BY FreeFlow DEF Leave, Free
<1> QED
  BY <1>3, <1>4, <1>5 DEF ClassicInvariant

\* A process dies.
LEMMA DieStep ==
  ASSUME ClassicInvariant, Die
  PROVE  ClassicInvariant'
<1>1. Kept /\ UNCHANGED <<mem, early, loc, pc, store>>
  BY DEF Die, Kept
<1>2. Memory
  BY <1>1, SMT DEF ClassicInvariant, Numbered, Memory
<1>3. Flow'
  BY <1>1, SMT DEF ClassicInvariant, Flow, SettlingFlow, WorkingFlow, AcceptingFlow,
    RestoringFlow, SettleSteps, Opening, Working, Kept, Vacant, Clear, Launched, Unaccepted,
    Reloads
<1> QED
  BY <1>1, <1>2, <1>3, QuietFlow

\* Another command resolves the application.
LEMMA ResolveStep ==
  ASSUME ClassicInvariant, Resolve
  PROVE  ClassicInvariant'
<1>1. Kept /\ UNCHANGED <<mem, loc, pc, store>>
  BY DEF Resolve, Kept, machine, hist
<1>2. early'.rec.pid \in 0 .. count.pid
  BY ViewPid, SMT DEF Resolve, Fresh
<1>3. Memory
  BY <1>1, <1>2, SMT DEF ClassicInvariant, Numbered, Memory
<1>4. Flow'
  BY <1>1, SMT DEF ClassicInvariant, Flow, SettlingFlow, WorkingFlow, AcceptingFlow,
    RestoringFlow, SettleSteps, Opening, Working, Kept, Vacant, Clear, Launched, Unaccepted,
    Reloads
<1> QED
  BY <1>1, <1>3, <1>4, QuietFlow

-----------------------------------------------------------------------------
(* ReconcileSecretTxn, from the beginning of a command or later.           *)

LEMMA BeginStep ==
  ASSUME ClassicInvariant, NEW k \in Kinds, Begin(k)
  PROVE  ClassicInvariant'
<1>1. PICK info \in {Fresh, early} \ {NoInfo}, imports \in Imports, target \in 0 .. count.ver :
         /\ doubled' = IF k = "restore" THEN doubled \cup (alive \cap {apps.pid}) ELSE doubled
         /\ early' = NoInfo /\ mem' = info.rec
         /\ loc' = [NoLocals EXCEPT !.kind = k, !.info = info, !.imports = imports,
                                    !.target = target, !.ret = First(k),
                                    !.bad = IF k = "restart" THEN "record" ELSE "failed"]
  BY DEF Begin
<1>2. UNCHANGED <<alive, born, count, store, journal, apps, committed>> /\ pc' = "reconcile"
  BY DEF Begin, machine
<1>3. /\ DOMAIN loc' = DOMAIN loc
      /\ loc'.kind = k /\ loc'.txn = 0 /\ loc'.ret = First(k) /\ loc'.bad \in {"record", "failed"}
  BY <1>1, SMT DEF NoLocals, ClassicInvariant, Shaped
<1>4. info.rec.pid \in 0 .. count.pid
  BY <1>1, ViewPid, SMT DEF Fresh, ClassicInvariant, Numbered
<1>5. mem'.pid \in 0 .. count.pid /\ early'.rec.pid = 0
  BY <1>1, <1>4, SMT DEF NoInfo, Stopped
<1>6. Numbered' /\ Shaped'
  BY <1>2, <1>3, <1>5, SMT DEF ClassicInvariant, Numbered, Shaped
<1>7. doubled \subseteq doubled' /\ (k = "restore" => Vacant')
  BY <1>1, <1>2, SMT DEF Vacant
<1>8. Ledger'
  BY <1>2, <1>7, SMT DEF ClassicInvariant, Ledger, StampKept, CleanupJustified,
    AcceptedIsRecorded, SlotIsStamped, LaunchesAccounted
<1>9. loc'.kind \in Commands /\ loc'.ret = First(loc'.kind)
  BY <1>3, KindsAssumption
<1>10. Flow'
  BY <1>2, <1>3, <1>7, <1>9, SMT DEF Flow, SettlingFlow, WorkingFlow, AcceptingFlow, RestoringFlow,
    SettleSteps, Opening, Working, Bads
<1> QED
  BY <1>6, <1>8, <1>10 DEF ClassicInvariant

\* FinishSecretTxn and the restoration of a rebuild settle again.
LEMMA SettleStep ==
  ASSUME ClassicInvariant, Finish \/ Undo
  PROVE  ClassicInvariant'
<1>1. Kept /\ UNCHANGED <<mem, early>>
  BY DEF Finish, Undo, Kept, machine, hist
<1>2. \/ Goto("failed")
      \/ \E ret \in Ends, bad \in Bads : Settle(ret, bad)
  BY SMT DEF Finish, Undo, Ends, Bads
<1>3. CASE Goto("failed")
  BY <1>1, <1>3, GotoKeepsLocals, SameMemory, QuietFree, "failed" \in Free
    DEF ClassicInvariant, Free
<1>4. CASE \E ret \in Ends, bad \in Bads : Settle(ret, bad)
  <2>1. /\ pc' = "reconcile" /\ loc'.ret \in Ends /\ loc'.bad \in Bads
        /\ loc'.txn = loc.txn /\ DOMAIN loc' = DOMAIN loc
    BY <1>4, SMT DEF Settle, ClassicInvariant, Shaped
  <2>2. Memory
    BY <1>1, <2>1, SMT DEF ClassicInvariant, Numbered, Memory
  <2>3. Flow'
    BY <2>1, SMT DEF Flow, SettlingFlow, WorkingFlow, AcceptingFlow, RestoringFlow,
      SettleSteps, Opening, Working, Ends
  <2> QED
    BY <1>1, <2>2, <2>3, QuietFlow
<1> QED
  BY <1>2, <1>3, <1>4

\* After an error a reconciliation goes on at a free step.
LEMMA BadFree ==
  ASSUME ClassicInvariant, pc \in SettleSteps
  PROVE  loc.bad \in Free
BY SMT DEF ClassicInvariant, Flow, SettlingFlow, Bads, Free

\* With no transaction open a reconciliation returns to the command.
LEMMA ReturnFlow ==
  ASSUME ClassicInvariant, pc \in SettleSteps, pc' = loc.ret, SameLocals,
         store'.pend = 0, UNCHANGED <<apps, doubled>>, alive' \subseteq alive
  PROVE  Flow'
<1>1. CASE loc.ret \in Ends
  BY <1>1, FreeFlow, SMT DEF Ends, Free
<1>2. CASE loc.ret = First(loc.kind) /\ loc.kind \in Commands /\ loc.txn = 0
  <2>1. Flow' \/ loc.ret # "start"
    BY <1>2, SMT DEF First, Commands, Restarting, SameLocals, ClassicInvariant, Flow, SettlingFlow,
      WorkingFlow, AcceptingFlow, RestoringFlow, SettleSteps, Opening, Working, Vacant, Reloads
  <2>2. Flow' \/ loc.ret = "start"
    BY <1>2, SMT DEF First, Commands, Restarting, SameLocals, Flow, SettlingFlow,
      WorkingFlow, AcceptingFlow, RestoringFlow, SettleSteps, Opening, Working, Free
  <2> QED
    BY <2>1, <2>2
<1> QED
  BY <1>1, <1>2, SMT DEF ClassicInvariant, Flow, SettlingFlow

\* A reconciliation goes on.
LEMMA SettlingOn ==
  ASSUME ClassicInvariant, pc \in SettleSteps, pc' \in SettleSteps, SameLocals,
         UNCHANGED <<apps, doubled>>, alive' \subseteq alive,
         pc' = "commit" => store'.pend # 0 /\ journal'.txn = store'.pend,
         pc' \in {"reclaim", "discard"} => store'.pend # 0 /\ journal'.txn # store'.pend,
         pc' = "discard" => Clear(store.pend)',
         pc' \in {"reclaimAccepted", "storeClean"} => store'.pend = 0 /\ journal'.cleanup
  PROVE  Flow'
<1>1. /\ loc'.bad \in Bads
      /\ \/ loc'.ret \in Ends
         \/ loc'.ret = First(loc'.kind) /\ loc'.kind \in Commands /\ loc'.txn = 0
      /\ loc'.ret = "start" /\ loc'.kind = "restore" => Vacant'
  BY SMT DEF ClassicInvariant, Flow, SettlingFlow, SameLocals, Vacant
<1>2. SettlingFlow'
  BY <1>1, SMT DEF SettlingFlow
<1>3. WorkingFlow' /\ AcceptingFlow' /\ RestoringFlow'
  BY SMT DEF WorkingFlow, AcceptingFlow, RestoringFlow, SettleSteps, Opening, Working
<1> QED
  BY <1>2, <1>3 DEF Flow

LEMMA ReconcileStep ==
  ASSUME ClassicInvariant, Reconcile
  PROVE  ClassicInvariant'
<1>1. Kept /\ UNCHANGED <<mem, early, store>> /\ pc \in SettleSteps
  BY DEF Reconcile, Kept, machine, hist, SettleSteps
<1>2. \/ store.pend # 0 /\ journal.txn = store.pend /\ Goto("commit")
      \/ store.pend # 0 /\ journal.txn # store.pend /\ Goto("reclaim")
      \/ store.pend = 0 /\ journal.cleanup /\ Goto("reclaimAccepted")
      \/ store.pend = 0 /\ Goto(loc.ret)
      \/ GotoFailing(loc.bad)
  <2>1. Reconcile => store.pend \in Nat
    BY SMT DEF ClassicInvariant, Numbered
  <2> QED
    BY <2>1, SMT DEF Reconcile
<1>3. SameLocals /\ Memory
  BY <1>1, <1>2, GotoKeepsLocals, SameMemory DEF ClassicInvariant
<1>4. CASE GotoFailing(loc.bad)
  BY <1>1, <1>3, <1>4, BadFree, QuietFree, GotoKeepsLocals DEF ClassicInvariant
<1>5. CASE store.pend = 0 /\ Goto(loc.ret)
  <2>1. pc' = loc.ret
    BY <1>5 DEF Goto
  <2> QED
    BY <1>1, <1>3, <1>5, <2>1, ReturnFlow, QuietFlow DEF Kept
<1>6. ASSUME \/ store.pend # 0 /\ journal.txn = store.pend /\ Goto("commit")
             \/ store.pend # 0 /\ journal.txn # store.pend /\ Goto("reclaim")
             \/ store.pend = 0 /\ journal.cleanup /\ Goto("reclaimAccepted")
      PROVE  ClassicInvariant'
  <2>1. Flow'
    BY <1>1, <1>3, <1>6, SettlingOn, SMT DEF SettleSteps, Goto, Kept
  <2> QED
    BY <1>1, <1>3, <2>1, QuietFlow
<1> QED
  BY <1>2, <1>4, <1>5, <1>6

\* The transaction is committed, or the write failed.
LEMMA CommitStep ==
  ASSUME ClassicInvariant, CommitTxn
  PROVE  ClassicInvariant'
<1>1. UNCHANGED <<alive, born, count, journal, apps, mem, early, doubled>>
  BY DEF CommitTxn, machine
<1>2. /\ DOMAIN store' = DOMAIN store /\ committed \subseteq committed'
      /\ \/ store'.pend = store.pend /\ GotoFailing(loc.bad)
         \/ /\ store'.pend = 0 /\ store.pend \in committed'
            /\ (Goto("reclaimAccepted") \/ GotoFailing(loc.bad))
  <2> DEFINE s == [store EXCEPT !.bind = store.pbind, !.apply = "other", !.pend = 0]
  <2>1. s.pend = 0 /\ DOMAIN s = DOMAIN store
    BY SMT DEF ClassicInvariant, Shaped
  <2>2. /\ committed' = IF store' = s THEN committed \cup {store.pend} ELSE committed
        /\ \/ store' = s /\ Goto("reclaimAccepted")
           \/ store' \in {store, s} /\ GotoFailing(loc.bad)
    BY DEF CommitTxn, Mutate, MutateFails
  <2> HIDE DEF s
  <2> QED
    BY <2>1, <2>2
<1>3. pc = "commit" /\ store.pend # 0 /\ journal.txn = store.pend
  BY DEF CommitTxn, ClassicInvariant, Flow, SettlingFlow
<1>4. SameLocals /\ ((pc' = "reclaimAccepted" /\ store'.pend = 0) \/ pc' = loc.bad)
  BY <1>2, GotoKeepsLocals DEF ClassicInvariant
<1>5. Numbered' /\ Shaped'
  BY <1>1, <1>2, <1>4, SMT DEF ClassicInvariant, Numbered, Shaped, SameLocals
<1>6. Ledger'
  BY <1>1, <1>2, <1>3, SMT DEF ClassicInvariant, Numbered, Ledger, StampKept, CleanupJustified,
    AcceptedIsRecorded, SlotIsStamped, LaunchesAccounted
<1>7. Flow'
  <2>1. CASE pc' = loc.bad
    BY <1>3, <2>1, BadFree, FreeFlow DEF SettleSteps
  <2>2. CASE pc' = "reclaimAccepted" /\ store'.pend = 0
    <3>1. journal.cleanup
      BY <1>3 DEF ClassicInvariant, Ledger, StampKept
    <3> QED
      BY <1>1, <1>3, <1>4, <2>2, <3>1, SettlingOn, SMT DEF SettleSteps
  <2> QED
    BY <1>4, <2>1, <2>2
<1> QED
  BY <1>5, <1>6, <1>7 DEF ClassicInvariant

\* The launches of a transaction are reclaimed, or a stop is not confirmed.
LEMMA ReclaimStep ==
  ASSUME ClassicInvariant, Reclaim \/ ReclaimAccepted
  PROVE  ClassicInvariant'
<1>1. Kept /\ UNCHANGED <<mem, early, store>> /\ pc \in SettleSteps
  BY DEF Reclaim, ReclaimAccepted, Kill, Kept, hist, SettleSteps
<1>2. \/ GotoFailing(loc.bad)
      \/ pc = "reclaim" /\ alive' = alive \ Unrecorded(store.pend) /\ Goto("discard")
      \/ pc = "reclaimAccepted" /\ Goto("storeClean")
  BY DEF Reclaim, ReclaimAccepted, Kill
<1>3. SameLocals /\ Memory
  BY <1>1, <1>2, GotoKeepsLocals, SameMemory DEF ClassicInvariant
<1>4. CASE GotoFailing(loc.bad)
  BY <1>1, <1>3, <1>4, BadFree, QuietFree, GotoKeepsLocals DEF ClassicInvariant
<1>5. CASE pc = "reclaim" /\ alive' = alive \ Unrecorded(store.pend) /\ Goto("discard")
  <2>1. \A p \in alive' : born[p].tag # store.pend
    BY <1>5, SMT DEF Unrecorded, ClassicInvariant, Flow, SettlingFlow, Ledger, SlotIsStamped
  <2>2. Flow'
    <3>1. Clear(store.pend)' /\ store.pend # 0 /\ journal.txn # store.pend
      BY <1>1, <1>5, <2>1 DEF Clear, Kept, ClassicInvariant, Flow, SettlingFlow
    <3> QED
      BY <1>1, <1>3, <1>5, <3>1, SettlingOn, SMT DEF SettleSteps, Goto, Kept
  <2> QED
    BY <1>1, <1>3, <2>2, QuietFlow
<1>6. CASE pc = "reclaimAccepted" /\ Goto("storeClean")
  <2>1. Flow'
    <3>1. store.pend = 0 /\ journal.cleanup
      BY <1>6 DEF ClassicInvariant, Flow, SettlingFlow
    <3> QED
      BY <1>1, <1>3, <1>6, <3>1, SettlingOn, SMT DEF SettleSteps, Goto, Kept
  <2> QED
    BY <1>1, <1>3, <2>1, QuietFlow
<1> QED
  BY <1>2, <1>4, <1>5, <1>6

\* The pending transaction, which has no process any more, is dropped.
LEMMA DiscardStep ==
  ASSUME ClassicInvariant, DiscardTxn
  PROVE  ClassicInvariant'
<1>1. UNCHANGED <<alive, born, count, journal, apps, mem, early, committed, doubled>>
  BY DEF DiscardTxn, machine, hist
<1>2. /\ DOMAIN store' = DOMAIN store /\ store'.pend \in {store.pend, 0}
      /\ (store'.pend = 0 /\ Goto(loc.ret)) \/ GotoFailing(loc.bad)
  <2> DEFINE s == [store EXCEPT !.pend = 0, !.pbind = store.bind]
  <2>1. s.pend = 0 /\ DOMAIN s = DOMAIN store
    BY SMT DEF ClassicInvariant, Shaped
  <2>2. \/ store' = s /\ Goto(loc.ret)
        \/ store' \in {store, s} /\ GotoFailing(loc.bad)
    BY DEF DiscardTxn, Mutate, MutateFails
  <2> HIDE DEF s
  <2> QED
    BY <2>1, <2>2
<1>3. pc = "discard" /\ store.pend # 0 /\ journal.txn # store.pend /\ Clear(store.pend)
  BY DEF DiscardTxn, ClassicInvariant, Flow, SettlingFlow
<1>4. SameLocals /\ ((pc' = loc.ret /\ store'.pend = 0) \/ pc' = loc.bad)
  BY <1>2, GotoKeepsLocals DEF ClassicInvariant
<1>5. Numbered' /\ Shaped'
  BY <1>1, <1>2, <1>4, SMT DEF ClassicInvariant, Numbered, Shaped, SameLocals
<1>6. Ledger'
  BY <1>1, <1>2, <1>3, SMT DEF ClassicInvariant, Numbered, Ledger, StampKept, CleanupJustified,
    AcceptedIsRecorded, SlotIsStamped, LaunchesAccounted, Clear
<1>7. Flow'
  <2>1. CASE pc' = loc.bad
    BY <1>3, <2>1, BadFree, FreeFlow DEF SettleSteps
  <2>2. CASE pc' = loc.ret /\ store'.pend = 0
    BY <1>1, <1>3, <1>4, <2>2, ReturnFlow DEF SettleSteps
  <2> QED
    BY <1>4, <2>1, <2>2
<1> QED
  BY <1>5, <1>6, <1>7 DEF ClassicInvariant

\* The stamp of a committed transaction needs no cleanup any more.
LEMMA CleanStep ==
  ASSUME ClassicInvariant, StoreClean
  PROVE  ClassicInvariant'
<1>1. UNCHANGED <<alive, born, count, store, apps, mem, early, committed, doubled>>
  BY DEF StoreClean, machine, hist
<1>2. /\ DOMAIN journal' = DOMAIN journal
      /\ journal'.txn = journal.txn /\ journal'.slot = journal.slot
      /\ journal'.cleanup \in {journal.cleanup, FALSE}
      /\ Goto(loc.ret) \/ GotoFailing(loc.bad)
  <2> DEFINE j == [journal EXCEPT !.cleanup = FALSE]
  <2>1. /\ j.txn = journal.txn /\ j.slot = journal.slot /\ j.cleanup = FALSE
        /\ DOMAIN j = DOMAIN journal
    BY SMT DEF ClassicInvariant, Shaped
  <2>2. \/ journal' = j /\ Goto(loc.ret)
        \/ journal' \in {journal, j} /\ GotoFailing(loc.bad)
    BY DEF StoreClean, Write, WriteFails
  <2> HIDE DEF j
  <2> QED
    BY <2>1, <2>2
<1>3. pc = "storeClean" /\ store.pend = 0 /\ journal.cleanup
  BY DEF StoreClean, ClassicInvariant, Flow, SettlingFlow
<1>4. SameLocals /\ (pc' = loc.ret \/ pc' = loc.bad)
  BY <1>2, GotoKeepsLocals DEF ClassicInvariant
<1>5. Numbered' /\ Shaped'
  BY <1>1, <1>2, <1>4, SMT DEF ClassicInvariant, Numbered, Shaped, SameLocals
<1>6. Ledger'
  BY <1>1, <1>2, <1>3, SMT DEF ClassicInvariant, Numbered, Ledger, StampKept, CleanupJustified,
    AcceptedIsRecorded, SlotIsStamped, LaunchesAccounted
<1>7. Flow'
  <2>1. CASE pc' = loc.bad
    BY <1>3, <2>1, BadFree, FreeFlow DEF SettleSteps
  <2>2. CASE pc' = loc.ret
    BY <1>1, <1>3, <1>4, <2>2, ReturnFlow DEF SettleSteps
  <2> QED
    BY <1>4, <2>1, <2>2
<1> QED
  BY <1>5, <1>6, <1>7 DEF ClassicInvariant

-----------------------------------------------------------------------------
(* The transaction is opened, and what the command saves is saved.         *)

LEMMA BeginTxnStep ==
  ASSUME ClassicInvariant, BeginTxn
  PROVE  ClassicInvariant'
<1> DEFINE t == count.txn + 1
<1>1. UNCHANGED <<alive, born, journal, apps, early, committed, doubled>>
  BY DEF BeginTxn, machine, hist
<1>2. count'.pid = count.pid /\ count'.txn = t /\ DOMAIN count' = DOMAIN count
  BY SMT DEF BeginTxn, ClassicInvariant, Shaped
<1>3. /\ store'.pend \in {store.pend, t} /\ DOMAIN store' = DOMAIN store
      /\ \/ /\ store'.pend = t /\ loc'.txn = t
            /\ loc'.kind = loc.kind /\ DOMAIN loc' = DOMAIN loc
            /\ \/ loc.kind = "rebuild" /\ pc' = "capture" /\ mem' = mem
               \/ loc.kind # "rebuild" /\ pc' = "stopOld" /\ mem' = View(apps)
         \/ mem' = mem /\ SameLocals /\ pc' \in {"failed", "record"}
  <2> DEFINE b == IF loc.kind = "rebuild" THEN loc.imports ELSE store.bind
             s == [store EXCEPT !.pend = t, !.pbind = b]
             o == IF loc.kind # "rebuild" /\ View(apps).status = "running" THEN View(apps).pid ELSE 0
             l == [loc EXCEPT !.txn = t, !.prev = o]
  <2>1. s.pend = t /\ DOMAIN s = DOMAIN store
    BY SMT DEF ClassicInvariant, Shaped
  <2>2. l.txn = t /\ l.kind = loc.kind /\ DOMAIN l = DOMAIN loc
    BY SMT DEF ClassicInvariant, Shaped
  <2>3. \/ /\ store' = s /\ loc' = l
           /\ \/ loc.kind = "rebuild" /\ pc' = "capture" /\ mem' = mem
              \/ loc.kind # "rebuild" /\ pc' = "stopOld" /\ mem' = View(apps)
        \/ /\ store' \in {store, s} /\ mem' = mem
           /\ (GotoFailing("failed") \/ GotoFailing("record"))
    BY DEF BeginTxn, Mutate, MutateFails
  <2>4. Shaped
    BY DEF ClassicInvariant
  <2> HIDE DEF s, l, t
  <2> QED
    BY <2>1, <2>2, <2>3, <2>4, GotoKeepsLocals
<1>4. pc = "begin" /\ store.pend = 0 /\ loc.txn = 0 /\ loc.kind \in Restarting \cup {"rebuild"}
  BY DEF BeginTxn, ClassicInvariant, Flow, WorkingFlow, Opening
<1>5. /\ t \in Nat /\ count.txn < t /\ journal.txn < t /\ t # 0
      /\ \A p \in alive : born[p].tag < t
  BY SMT DEF ClassicInvariant, Numbered
<1> HIDE DEF t
<1>6. Numbered' /\ Shaped'
  <2>1. mem'.pid \in 0 .. count.pid /\ loc'.txn \in {0, t} /\ DOMAIN loc' = DOMAIN loc
    BY <1>3, <1>4, ViewPid, SMT DEF ClassicInvariant, Numbered, SameLocals
  <2> QED
    BY <1>1, <1>2, <1>3, <1>4, <1>5, <2>1, SMT DEF ClassicInvariant, Numbered, Shaped
<1>7. Ledger'
  BY <1>1, <1>3, <1>4, <1>5, SMT DEF ClassicInvariant, Numbered, Ledger, StampKept, CleanupJustified,
    AcceptedIsRecorded, SlotIsStamped, LaunchesAccounted
<1>8. Flow'
  <2>1. CASE pc' \in {"failed", "record"}
    BY <2>1, FreeFlow DEF Free
  <2>2. ASSUME store'.pend = t, loc'.txn = t, loc'.kind = loc.kind, pc' \in {"capture", "stopOld"},
               pc' = "capture" => loc.kind = "rebuild",
               pc' = "stopOld" => loc.kind # "rebuild" /\ mem' = View(apps)
        PROVE  Flow'
    <3>1. (Unaccepted /\ Clear(loc.txn))'
      BY <1>1, <1>5, <2>2, SMT DEF Unaccepted, Clear
    <3>2. pc' = "stopOld" => (apps'.pid \in alive' => mem'.pid = apps'.pid)
      BY <1>1, <2>2, ViewPid
    <3>3. pc' = "stopOld" => loc'.kind \in Restarting
      BY <1>4, <2>2
    <3> QED
      BY <2>2, <3>1, <3>2, <3>3, SMT DEF Flow, SettlingFlow, WorkingFlow, AcceptingFlow,
        RestoringFlow, SettleSteps, Opening, Working
  <2> QED
    BY <1>3, <2>1, <2>2
<1> QED
  BY <1>6, <1>7, <1>8 DEF ClassicInvariant

\* The steps of a rebuild or a rollback before it stops the process.
Before == {"check", "copy", "capture", "backup", "build"}

LEMMA PrepareStep ==
  ASSUME ClassicInvariant, Check \/ CopyBinary \/ Capture \/ BackupBinary \/ Build
  PROVE  ClassicInvariant'
<1>1. Kept /\ UNCHANGED <<mem, early, store>> /\ pc \in Before
  BY SMT DEF Check, CopyBinary, Capture, BackupBinary, Build, Kept, machine, hist, Before,
    ClassicInvariant, Shaped
<1>2. SameLocals /\ pc' \in Before \cup {"stop"} \cup Free
  BY SMT DEF Check, CopyBinary, Capture, BackupBinary, Build, Goto, GotoFailing, SameLocals,
    Before, Free, ClassicInvariant, Shaped
<1>3. Memory
  BY <1>1, <1>2, SameMemory
<1>4. CASE pc' \in Free
  BY <1>1, <1>3, <1>4, QuietFree
<1>5. CASE pc' \in Before \cup {"stop"}
  <2>1. /\ loc'.kind \in {"rebuild", "rollback", "stop"}
        /\ loc'.txn # 0 => (Unaccepted /\ Clear(loc.txn))'
    BY <1>1, <1>2, SMT DEF ClassicInvariant, Flow, WorkingFlow, Working, Before, Unaccepted, Clear,
      Kept, SameLocals
  <2>2. Flow'
    BY <1>5, <2>1, SMT DEF Flow, SettlingFlow, WorkingFlow, AcceptingFlow, RestoringFlow,
      SettleSteps, Opening, Working, Before
  <2> QED
    BY <1>1, <1>3, <2>2, QuietFlow
<1> QED
  BY <1>2, <1>4, <1>5

-----------------------------------------------------------------------------
(* The process is stopped, another one is started, and that is saved.      *)

LEMMA StopApplicationEffect ==
  ASSUME ClassicInvariant, NEW from, NEW saved, NEW bad, StopApplication(from, saved, bad)
  PROVE  /\ pc = from /\ Kept /\ SameLocals /\ Memory /\ UNCHANGED store
         /\ (pc' = saved /\ Vacant') \/ pc' = bad
<1>1. Kept /\ UNCHANGED <<early, store>> /\ pc = from
  BY DEF StopApplication, Kept, Kill, hist
<1>2. mem'.pid \in 0 .. count.pid
  BY ViewPid, SMT DEF StopApplication, Stopped, ClassicInvariant, Numbered
<1>3. \/ alive' = alive \ {View(apps).pid} /\ Goto(saved)
      \/ GotoFailing(bad)
  BY DEF StopApplication, Kill
<1>4. SameLocals /\ (Goto(saved) => pc' = saved) /\ (GotoFailing(bad) => pc' = bad)
  BY <1>3, GotoKeepsLocals DEF ClassicInvariant
<1>5. Memory
  BY <1>1, <1>2, <1>4, SMT DEF ClassicInvariant, Numbered, SameLocals, Memory
<1>6. alive' = alive \ {View(apps).pid} => Vacant'
  BY <1>1, ViewPid, SMT DEF Vacant, Kept
<1> QED
  BY <1>1, <1>3, <1>4, <1>5, <1>6

\* SaveState, confirmed or not, when it hides no process.
LEMMA SaveRecord ==
  ASSUME ClassicInvariant, Vacant \/ apps.pid = mem.pid, apps' \in {apps, mem}, SameLocals,
         UNCHANGED <<alive, born, count, store, journal, early, mem, committed, doubled>>
  PROVE  Numbered' /\ Shaped' /\ Ledger' /\ (Vacant' \/ apps'.pid = mem.pid)
<1>1. Numbered' /\ Shaped'
  BY SMT DEF ClassicInvariant, Numbered, Shaped, SameLocals
<1>2. Ledger'
  BY SMT DEF ClassicInvariant, Ledger, StampKept, CleanupJustified, AcceptedIsRecorded,
    SlotIsStamped, LaunchesAccounted, Vacant
<1> QED
  BY <1>1, <1>2 DEF Vacant, SameLocals

\* What a stop leaves to do, with the transaction still open.
LEMMA StoppedStep ==
  ASSUME ClassicInvariant, SkipStop \/ StopExisting \/ StopOld
  PROVE  ClassicInvariant'
<1>1. CASE SkipStop
  <2>1. Kept /\ UNCHANGED <<mem, early, store>> /\ pc = "stop" /\ loc.kind # "stop"
    BY <1>1 DEF SkipStop, Kept, machine, hist
  <2>2. pc' = "start" /\ SameLocals /\ Memory
    BY <1>1, <2>1, GotoKeepsLocals, SameMemory DEF SkipStop, ClassicInvariant
  <2>3. Reloads' /\ (loc'.txn # 0 => (Unaccepted /\ Clear(loc.txn))')
    BY <2>1, <2>2, SMT DEF ClassicInvariant, Flow, WorkingFlow, Working, Unaccepted, Clear,
      Kept, SameLocals, Reloads
  <2>4. Flow'
    BY <2>2, <2>3, SMT DEF Flow, SettlingFlow, WorkingFlow, AcceptingFlow, RestoringFlow,
      SettleSteps, Opening, Working
  <2> QED
    BY <2>1, <2>2, <2>4, QuietFlow
<1>2. CASE StopExisting
  <2>1. /\ pc = "stop" /\ Kept /\ SameLocals /\ Memory /\ UNCHANGED store
        /\ (pc' = "saveStopped" /\ Vacant') \/ pc' = StopBad
    BY <1>2, StopApplicationEffect DEF StopExisting
  <2>2. loc.kind \in {"rebuild", "rollback", "stop"}
    BY <2>1 DEF ClassicInvariant, Flow, WorkingFlow
  <2>3. StopBad \in Free
    BY <2>2, SMT DEF StopBad, OnError, Free, Restarting
  <2>4. ASSUME pc' = "saveStopped", Vacant'
        PROVE  Flow'
    <3>1. loc'.txn # 0 => (Unaccepted /\ Clear(loc.txn))'
      BY <2>1, SMT DEF ClassicInvariant, Flow, WorkingFlow, Working, Unaccepted, Clear, Kept,
        SameLocals
    <3>2. loc'.kind \in {"rebuild", "rollback", "stop"}
      BY <2>1, <2>2 DEF SameLocals
    <3> QED
      BY <2>4, <3>1, <3>2, SMT DEF Flow, SettlingFlow, WorkingFlow, AcceptingFlow, RestoringFlow,
        SettleSteps, Opening, Working
  <2> QED
    BY <2>1, <2>3, <2>4, QuietFlow, QuietFree
<1>3. CASE StopOld
  <2>1. Kept /\ UNCHANGED <<mem, early, store>> /\ pc = "stopOld"
    BY <1>3 DEF StopOld, Kept, Kill, hist
  <2>2. \/ alive' = alive \ {mem.pid} /\ Goto("start")
        \/ GotoFailing("finish")
    BY <1>3 DEF StopOld, Kill
  <2>3. SameLocals /\ Memory /\ (Goto("start") => pc' = "start")
    BY <2>1, <2>2, GotoKeepsLocals, SameMemory DEF ClassicInvariant
  <2>4. CASE GotoFailing("finish")
    BY <2>1, <2>3, <2>4, GotoKeepsLocals, QuietFree, "finish" \in Free DEF ClassicInvariant, Free
  <2>5. CASE alive' = alive \ {mem.pid} /\ Goto("start")
    <3>1. Vacant' /\ (loc'.txn # 0 => (Unaccepted /\ Clear(loc.txn))')
      BY <2>1, <2>3, <2>5, SMT DEF ClassicInvariant, Flow, WorkingFlow, Working, Unaccepted, Clear,
        Kept, SameLocals, Vacant
    <3>2. Flow'
      BY <2>3, <2>5, <3>1, SMT DEF Flow, SettlingFlow, WorkingFlow, AcceptingFlow, RestoringFlow,
        SettleSteps, Opening, Working
    <3> QED
      BY <2>1, <2>3, <3>2, QuietFlow
  <2> QED
    BY <2>2, <2>4, <2>5
<1> QED
  BY <1>1, <1>2, <1>3

\* The stop is saved.
LEMMA SaveStoppedStep ==
  ASSUME ClassicInvariant, SaveExisting
  PROVE  ClassicInvariant'
<1>1. /\ UNCHANGED <<alive, born, count, store, journal, early, mem, committed, doubled>>
      /\ pc = "saveStopped"
      /\ \/ apps' = mem /\ Goto(IF loc.kind = "stop" THEN "done" ELSE "start")
         \/ apps' \in {apps, mem} /\ GotoFailing(StopBad)
  BY DEF SaveExisting, SaveStopped, Save, SaveFails, machine
<1>2. Vacant /\ loc.kind \in {"rebuild", "rollback", "stop"}
  BY <1>1 DEF ClassicInvariant, Flow, WorkingFlow
<1>3. SameLocals
  BY <1>1, GotoKeepsLocals DEF ClassicInvariant
<1>4. Numbered' /\ Shaped' /\ Ledger'
  BY <1>1, <1>2, <1>3, SaveRecord
<1>5. pc' = "start" \/ pc' \in Free
  BY <1>1, <1>2, SMT DEF Goto, GotoFailing, StopBad, OnError, Free, Restarting
<1>6. Flow'
  <2>1. CASE pc' \in Free
    BY <2>1, FreeFlow
  <2>2. CASE pc' = "start"
    <3>1. loc.kind \in {"rebuild", "rollback"}
      BY <1>1, <1>2, <2>2, SMT DEF Goto, GotoFailing, StopBad, OnError, Restarting
    <3>2. Reloads' /\ (loc'.txn # 0 => (Unaccepted /\ Clear(loc.txn))')
      BY <1>1, <1>3, <3>1, SMT DEF ClassicInvariant, Flow, WorkingFlow, Working, Unaccepted, Clear,
        SameLocals, Reloads
    <3> QED
      BY <2>2, <3>2, SMT DEF Flow, SettlingFlow, WorkingFlow, AcceptingFlow, RestoringFlow,
        SettleSteps, Opening, Working
  <2> QED
    BY <1>5, <2>1, <2>2
<1> QED
  BY <1>4, <1>6 DEF ClassicInvariant

-----------------------------------------------------------------------------
(* Launches.                                                               *)

\* One more process gets a number, and tag t; it may run.
Born(t) ==
  LET p == count.pid + 1
  IN  /\ p \in Proc /\ count'.pid = p /\ count'.txn = count.txn /\ DOMAIN count' = DOMAIN count
      /\ DOMAIN born' = Proc /\ born'[p].tag = t /\ (\A q \in Proc \ {p} : born'[q] = born[q])
      /\ alive' \subseteq alive \cup {p}
      /\ UNCHANGED <<store, journal, apps, early, committed, doubled>>

LEMMA LaunchEffect ==
  ASSUME ClassicInvariant, NEW bind, NEW val, NEW t, NEW next, NEW bad,
         Launch(bind, val, t, next, bad)
  PROVE  /\ Born(t) /\ SameLocals
         /\ mem'.pid \in 0 .. count.pid + 1
         /\ (pc' = next /\ mem'.pid = count.pid + 1) \/ pc' = bad
<1> DEFINE p == count.pid + 1
           b == [ver |-> bin.at, bind |-> bind, val |-> val, tag |-> t]
<1>1. /\ p \in Proc /\ count' = [count EXCEPT !.pid = p] /\ born' = [born EXCEPT ![p] = b]
      /\ UNCHANGED <<store, journal, apps, early, committed, doubled>>
      /\ \/ mem' = Up(p) /\ Goto(next) /\ alive' \in {alive, alive \cup {p}} \ {{}}
         \/ mem' \in {Loaded, Down} /\ alive' = alive /\ GotoFailing(bad)
         \/ mem' = Up(p) /\ alive' = alive \cup {p} /\ GotoFailing(bad)
  BY DEF Launch, hist
<1>2. count'.pid = p /\ count'.txn = count.txn /\ DOMAIN count' = DOMAIN count
  BY <1>1, SMT DEF ClassicInvariant, Shaped
<1>3. DOMAIN born' = Proc /\ born'[p] = b /\ (\A q \in Proc \ {p} : born'[q] = born[q])
  BY <1>1, SMT DEF ClassicInvariant, Shaped
<1>4. b.tag = t
  OBVIOUS
<1>5. alive' \subseteq alive \cup {p}
  BY <1>1
<1>6. Born(t)
  BY <1>1, <1>2, <1>3, <1>4, <1>5 DEF Born
<1>7. /\ p \in Nat /\ Up(p).pid = p /\ Down.pid = 0
      /\ Loaded.pid \in 0 .. count.pid
  BY ViewPid, SMT DEF Up, Down, Loaded, ClassicInvariant, Numbered
<1>8. SameLocals /\ (pc' = next \/ pc' = bad)
  BY <1>1, GotoKeepsLocals DEF ClassicInvariant
<1>9. (pc' = next /\ mem'.pid = p) \/ pc' = bad
  BY <1>1, <1>7, GotoKeepsLocals DEF ClassicInvariant
<1>10. mem'.pid \in 0 .. p
  BY <1>1, <1>7, SMT DEF ClassicInvariant, Numbered
<1> QED
  BY <1>6, <1>8, <1>9, <1>10

\* A launch without a tag, or one of the open transaction, is accounted for.
LEMMA LaunchLedger ==
  ASSUME ClassicInvariant, NEW t \in 0 .. count.txn, Born(t), SameLocals,
         t # 0 => store.pend = t /\ journal.txn # t, mem'.pid \in 0 .. count.pid + 1
  PROVE  Numbered' /\ Shaped' /\ Ledger'
<1> DEFINE p == count.pid + 1
<1>1. /\ p \in Proc /\ count'.pid = p /\ count'.txn = count.txn
      /\ DOMAIN count' = DOMAIN count
      /\ DOMAIN born' = Proc /\ born'[p].tag = t
      /\ \A q \in Proc \ {p} : born'[q] = born[q]
      /\ alive' \subseteq alive \cup {p}
      /\ UNCHANGED <<store, journal, apps, early, committed, doubled>>
  BY DEF Born
<1>2. p \in Nat /\ p \notin alive /\ p # apps.pid /\ p # journal.slot /\ alive \subseteq Proc
  BY SMT DEF ClassicInvariant, Numbered
<1>3. \A q \in alive' : q # p => q \in alive /\ born'[q] = born[q]
  BY <1>1, <1>2
<1>4. Numbered'
  <2>1. alive' \subseteq Proc \cap 1 .. p
    BY <1>1, SMT DEF ClassicInvariant, Numbered, Proc
  <2>2. \A q \in alive' : born'[q].tag \in 0 .. count.txn
    BY <1>1, <1>3 DEF ClassicInvariant, Numbered
  <2>3. 0 .. count.pid \subseteq 0 .. p /\ p \in Nat
    BY SMT DEF ClassicInvariant, Numbered
  <2>4. /\ apps.pid \in 0 .. p /\ early.rec.pid \in 0 .. p /\ journal.slot \in 0 .. p
        /\ mem'.pid \in 0 .. p /\ loc'.txn \in 0 .. count.txn
    BY <2>3 DEF ClassicInvariant, Numbered, SameLocals
  <2> HIDE DEF p
  <2> QED
    BY <1>1, <2>1, <2>2, <2>3, <2>4 DEF ClassicInvariant, Numbered
<1>5. Shaped'
  BY <1>1, SMT DEF ClassicInvariant, Shaped, SameLocals
<1> HIDE DEF p
<1>6. StampKept' /\ CleanupJustified'
  BY <1>1 DEF ClassicInvariant, Ledger, StampKept, CleanupJustified
<1>7. AcceptedIsRecorded'
  BY <1>1, <1>2, <1>3, SMT DEF ClassicInvariant, Ledger, AcceptedIsRecorded
<1>8. SlotIsStamped'
  <2> SUFFICES ASSUME NEW q \in alive', q = journal.slot, store.pend # 0,
                      born'[q].tag = store.pend
               PROVE  journal.txn = store.pend
    BY <1>1 DEF SlotIsStamped
  <2>1. q \in alive /\ born[q].tag = store.pend
    BY <1>2, <1>3
  <2> QED
    BY <2>1 DEF ClassicInvariant, Ledger, SlotIsStamped
<1>9. LaunchesAccounted'
  BY <1>1, <1>2, <1>3, SMT DEF ClassicInvariant, Ledger, LaunchesAccounted
<1> QED
  BY <1>4, <1>5, <1>6, <1>7, <1>8, <1>9 DEF Ledger

\* The new process leaves the recorded one where it was.
LEMMA LaunchVacant ==
  ASSUME ClassicInvariant, NEW t, Born(t), SameLocals, Vacant
  PROVE  Vacant'
BY SMT DEF ClassicInvariant, Numbered, Born, Vacant, SameLocals

\* A process in memory that was just launched has the tag of its launch.
LEMMA LaunchTag ==
  ASSUME ClassicInvariant, NEW t, Born(t), mem'.pid = count.pid + 1
  PROVE  Launched(t)'
BY DEF Born, Launched

LEMMA StartStep ==
  ASSUME ClassicInvariant, Start
  PROVE  ClassicInvariant'
<1>1. /\ pc = "start" /\ ~(Starting /\ View(apps).status = "running")
      /\ \E bind, val : Launch(bind, val, loc.txn, "saveStarted", OnError)
  BY DEF Start
<1>2. /\ Born(loc.txn) /\ SameLocals /\ mem'.pid \in 0 .. count.pid + 1
      /\ (pc' = "saveStarted" /\ mem'.pid = count.pid + 1) \/ pc' = OnError
  BY <1>1, LaunchEffect
<1>3. Vacant
  BY <1>1, ViewPid DEF ClassicInvariant, Flow, WorkingFlow, Starting, Vacant
<1>4. loc.txn \in 0 .. count.txn /\ (loc.txn # 0 => Unaccepted /\ Clear(loc.txn))
  BY <1>1, SMT DEF ClassicInvariant, Numbered, Flow, WorkingFlow, Working
<1>5. Numbered' /\ Shaped' /\ Ledger'
  BY <1>2, <1>4, LaunchLedger DEF Unaccepted
<1>6. Vacant'
  BY <1>2, <1>3, LaunchVacant
<1>7. Flow'
  <2>1. CASE pc' = OnError
    <3>1. pc' \in Free \cup {"withdraw"}
      BY <2>1, SMT DEF OnError, Free
    <3>2. pc' = "withdraw" => Flow'
      BY <1>6, SMT DEF Flow, SettlingFlow, WorkingFlow, AcceptingFlow, RestoringFlow,
        SettleSteps, Opening, Working
    <3> QED
      BY <3>1, <3>2, FreeFlow
  <2>2. CASE pc' = "saveStarted" /\ mem'.pid = count.pid + 1
    <3>1. Launched(loc.txn)'
      BY <1>2, <2>2, LaunchTag DEF Launched, SameLocals
    <3>2. loc'.txn # 0 => /\ Unaccepted'
                          /\ \A p \in alive' : born'[p].tag = loc'.txn => p = mem'.pid
      <4> DEFINE new == count.pid + 1
      <4>1. alive' \subseteq alive \cup {new} /\ alive \subseteq Proc /\ new \notin alive
        BY <1>2, SMT DEF Born, ClassicInvariant, Numbered
      <4>2. \A p \in alive : born'[p] = born[p]
        BY <1>2, <4>1 DEF Born
      <4>3. mem'.pid = new
        BY <2>2
      <4> HIDE DEF new
      <4> QED
        BY <1>2, <1>4, <4>1, <4>2, <4>3 DEF Unaccepted, Clear, SameLocals, Born
    <3> QED
      BY <1>6, <2>2, <3>1, <3>2, SMT DEF Flow, SettlingFlow, WorkingFlow, AcceptingFlow,
        RestoringFlow, SettleSteps, Opening, Working
  <2> QED
    BY <1>2, <2>1, <2>2
<1> QED
  BY <1>5, <1>7 DEF ClassicInvariant

\* A start that finds the application running fails.
LEMMA AlreadyRunningStep ==
  ASSUME ClassicInvariant, AlreadyRunning
  PROVE  ClassicInvariant'
<1>1. Kept /\ UNCHANGED <<early, store>> /\ mem' = View(apps)
  BY DEF AlreadyRunning, Kept, machine, hist
<1>2. \E l \in Free : GotoFailing(l)
  <2>1. pc = "start" => loc.kind \notin Restarting
    BY SMT DEF AlreadyRunning, Starting, Reloads, Restarting
  <2> QED
    BY <2>1, OnErrorFree, "finish" \in Free DEF AlreadyRunning, Free
<1>3. SameLocals /\ pc' \in Free
  BY <1>2, GotoKeepsLocals DEF ClassicInvariant
<1>4. Memory
  BY <1>1, <1>3, ViewPid, SMT DEF ClassicInvariant, Numbered, SameLocals, Memory
<1> QED
  BY <1>1, <1>3, <1>4, QuietFree

-----------------------------------------------------------------------------
(* Acceptance, and the way back.                                           *)

LEMMA SaveStartedStep ==
  ASSUME ClassicInvariant, SaveStarted
  PROVE  ClassicInvariant'
<1>1. /\ UNCHANGED <<alive, born, count, store, journal, early, mem, committed, doubled>>
      /\ pc = "saveStarted" /\ apps' \in {apps, mem}
      /\ \/ apps' = mem /\ Goto(AfterStart)
         \/ GotoFailing(IF loc.kind \in Restarting THEN "withdraw" ELSE "stopNew")
  BY DEF SaveStarted, Save, SaveFails, machine, hist
<1>2. /\ Vacant /\ Launched(loc.txn)
      /\ loc.txn # 0 => /\ Unaccepted
                        /\ \A p \in alive : born[p].tag = loc.txn => p = mem.pid
  BY <1>1 DEF ClassicInvariant, Flow, AcceptingFlow
<1>3. SameLocals
  BY <1>1, GotoKeepsLocals DEF ClassicInvariant
<1>4. Numbered' /\ Shaped' /\ Ledger' /\ (Vacant' \/ apps'.pid = mem.pid)
  BY <1>1, <1>2, <1>3, SaveRecord
<1>5. \/ apps'.pid = mem.pid /\ pc' = AfterStart
      \/ pc' = "withdraw"
      \/ pc' = "stopNew" /\ loc'.kind \notin Restarting
  BY <1>1, <1>3, SMT DEF Goto, GotoFailing, SameLocals
<1>6. Flow'
  <2>1. CASE apps'.pid = mem.pid /\ pc' = AfterStart
    <3>1. \/ pc' = "accept" /\ loc.txn # 0
          \/ pc' = "refresh" /\ loc.txn = 0
          \/ pc' \in Free
      <4>1. loc.txn # 0 => AfterStart = "accept"
        BY DEF AfterStart
      <4>2. loc.txn = 0 => AfterStart \in {"refresh", "done"}
        BY DEF AfterStart
      <4> QED
        BY <2>1, <4>1, <4>2 DEF Free
    <3>2. Launched(loc.txn)' /\ (loc'.txn # 0 => /\ Unaccepted'
                                                 /\ \A p \in alive' : born'[p].tag = loc'.txn => p = mem'.pid)
      BY <1>1, <1>2, <1>3, SMT DEF Launched, Unaccepted, SameLocals
    <3>3. pc' = "refresh" /\ loc.txn = 0 => Launched(0)'
      BY <1>1, <1>2, SMT DEF Launched
    <3>4. CASE pc' \in Free
      BY <3>4, FreeFlow
    <3>5. CASE pc' = "accept" /\ loc.txn # 0
      BY <1>1, <1>3, <2>1, <3>2, <3>5, SMT DEF Flow, SettlingFlow, WorkingFlow, AcceptingFlow,
        RestoringFlow, SettleSteps, Opening, Working, SameLocals
    <3>6. CASE pc' = "refresh" /\ loc.txn = 0
      BY <1>1, <2>1, <3>3, <3>6, SMT DEF Flow, SettlingFlow, WorkingFlow, AcceptingFlow,
        RestoringFlow, SettleSteps, Opening, Working
    <3> QED
      BY <3>1, <3>4, <3>5, <3>6
  <2>2. CASE pc' = "withdraw" \/ (pc' = "stopNew" /\ loc'.kind \notin Restarting)
    BY <1>1, <1>4, <2>2, SMT DEF Flow, SettlingFlow, WorkingFlow, AcceptingFlow,
      RestoringFlow, SettleSteps, Opening, Working
  <2> QED
    BY <1>5, <2>1, <2>2
<1> QED
  BY <1>4, <1>6 DEF ClassicInvariant

\* The stamp of the open transaction.
LEMMA AcceptStep ==
  ASSUME ClassicInvariant, Accept
  PROVE  ClassicInvariant'
<1>1. /\ UNCHANGED <<alive, born, count, store, apps, early, mem, committed, doubled>>
      /\ pc = "accept" /\ journal' \in {journal, Stamped(mem.pid, loc.txn)}
      /\ \E l \in Free \cup {"unaccept"} : Goto(l) \/ GotoFailing(l)
  BY SMT DEF Accept, Write, WriteFails, machine, hist, Free
<1>2. /\ loc.txn # 0 /\ Unaccepted /\ apps.pid = mem.pid /\ Launched(loc.txn)
      /\ \A p \in alive : born[p].tag = loc.txn => p = mem.pid
  BY <1>1 DEF ClassicInvariant, Flow, AcceptingFlow
<1>3. SameLocals /\ pc' \in Free \cup {"unaccept"}
  BY <1>1, GotoKeepsLocals DEF ClassicInvariant
<1>4. /\ DOMAIN journal' = DOMAIN journal
      /\ \/ journal' = journal
         \/ /\ journal'.txn = loc.txn /\ journal'.cleanup = TRUE
            /\ journal'.slot = mem.pid
  BY <1>1, SMT DEF Stamped, ClassicInvariant, Shaped
<1>5. Numbered' /\ Shaped'
  BY <1>1, <1>3, <1>4, SMT DEF ClassicInvariant, Numbered, Shaped, SameLocals
<1>6. Ledger'
  <2>1. CASE journal' = journal
    BY <1>1, <2>1, SMT DEF ClassicInvariant, Ledger, StampKept, CleanupJustified,
      AcceptedIsRecorded, SlotIsStamped, LaunchesAccounted
  <2>2. CASE journal'.txn = loc.txn /\ journal'.cleanup = TRUE /\ journal'.slot = mem.pid
    <3>1. StampKept' /\ CleanupJustified' /\ AcceptedIsRecorded' /\ SlotIsStamped'
      BY <1>1, <1>2, <2>2, SMT DEF StampKept, CleanupJustified, AcceptedIsRecorded, SlotIsStamped,
        Unaccepted
    <3>2. LaunchesAccounted'
      <4> SUFFICES ASSUME NEW p \in alive \ doubled, born[p].tag # 0
                   PROVE  \/ store.pend = born[p].tag
                          \/ born[p].tag = loc.txn
                          \/ born[p].tag \in committed /\ p = apps.pid
        BY <1>1, <2>2 DEF LaunchesAccounted
      <4>1. \/ store.pend = born[p].tag
            \/ journal.txn = born[p].tag
            \/ born[p].tag \in committed /\ p = apps.pid
        BY DEF ClassicInvariant, Ledger, LaunchesAccounted
      <4>2. journal.txn = born[p].tag => p = mem.pid
        BY <1>2 DEF ClassicInvariant, Ledger, AcceptedIsRecorded
      <4> QED
        BY <1>2, <4>1, <4>2 DEF Launched
    <3> QED
      BY <3>1, <3>2 DEF Ledger
  <2> QED
    BY <1>4, <2>1, <2>2
<1>7. Flow'
  <2>1. CASE pc' \in Free
    BY <2>1, FreeFlow
  <2>2. CASE pc' = "unaccept"
    <3>1. store'.pend = loc'.txn /\ Launched(loc.txn)' /\ apps'.pid = mem'.pid
      BY <1>1, <1>2, <1>3, SMT DEF Unaccepted, Launched, SameLocals
    <3> QED
      BY <2>2, <3>1, SMT DEF Flow, SettlingFlow, WorkingFlow, AcceptingFlow, RestoringFlow,
        SettleSteps, Opening, Working
  <2> QED
    BY <1>3, <2>1, <2>2
<1> QED
  BY <1>5, <1>6, <1>7 DEF ClassicInvariant

\* A journal without a stamp hides no process that the record in apps.json, or the
\* open transaction, does not account for.
LEMMA UnstampLedger ==
  ASSUME ClassicInvariant, NEW x \in 0 .. count.pid,
         journal' = Unstamped(x) \/ journal' = journal, SameLocals,
         x \in alive => born[x].tag = 0,
         \/ Vacant
         \/ apps.pid = mem.pid /\ Launched(0)
         \/ apps.pid = mem.pid /\ Launched(loc.txn) /\ store.pend = loc.txn,
         UNCHANGED <<alive, born, count, store, apps, early, mem, committed, doubled>>
  PROVE  Numbered' /\ Shaped' /\ Ledger'
<1>1. /\ DOMAIN journal' = DOMAIN journal
      /\ \/ journal' = journal
         \/ journal'.txn = 0 /\ journal'.cleanup = FALSE /\ journal'.slot = x
  BY SMT DEF Unstamped, ClassicInvariant, Shaped
<1>2. Numbered' /\ Shaped'
  BY <1>1, SMT DEF ClassicInvariant, Numbered, Shaped, SameLocals
<1>3. CASE journal' = journal
  BY <1>2, <1>3, SMT DEF ClassicInvariant, Ledger, StampKept, CleanupJustified,
    AcceptedIsRecorded, SlotIsStamped, LaunchesAccounted
<1>4. CASE journal'.txn = 0 /\ journal'.cleanup = FALSE /\ journal'.slot = x
  <2>1. StampKept' /\ CleanupJustified' /\ AcceptedIsRecorded' /\ SlotIsStamped'
    BY <1>4, SMT DEF StampKept, CleanupJustified, AcceptedIsRecorded, SlotIsStamped
  <2>2. LaunchesAccounted'
    <3> SUFFICES ASSUME NEW p \in alive \ doubled, born[p].tag # 0
                 PROVE  \/ store.pend = born[p].tag
                        \/ born[p].tag \in committed /\ p = apps.pid
      BY DEF LaunchesAccounted
    <3>1. \/ store.pend = born[p].tag
          \/ journal.txn = born[p].tag
          \/ born[p].tag \in committed /\ p = apps.pid
      BY DEF ClassicInvariant, Ledger, LaunchesAccounted
    <3>2. journal.txn = born[p].tag => p = apps.pid
      BY DEF ClassicInvariant, Ledger, AcceptedIsRecorded
    <3> QED
      BY <3>1, <3>2 DEF Launched, Vacant
  <2> QED
    BY <1>2, <2>1, <2>2 DEF Ledger
<1> QED
  BY <1>1, <1>2, <1>3, <1>4

\* The journal follows a process that was launched without a transaction.
LEMMA RefreshStep ==
  ASSUME ClassicInvariant, RefreshJournal \/ RefreshPrior
  PROVE  ClassicInvariant'
<1>1. /\ UNCHANGED <<alive, born, count, store, apps, early, mem, committed, doubled>>
      /\ journal' = Unstamped(mem.pid) \/ journal' = journal
      /\ pc \in {"refresh", "refreshPrior"}
  BY DEF RefreshJournal, RefreshPrior, Refresh, Write, WriteFails, machine, hist
<1>2. \E l \in Free : Goto(l) \/ GotoFailing(l)
  BY SMT DEF RefreshJournal, RefreshPrior, Refresh, Free
<1>3. SameLocals /\ pc' \in Free
  BY <1>2, GotoKeepsLocals DEF ClassicInvariant
<1>4. Launched(0) /\ apps.pid = mem.pid /\ mem.pid \in 0 .. count.pid
  BY <1>1 DEF ClassicInvariant, Numbered, Flow, AcceptingFlow, RestoringFlow
<1>5. Numbered' /\ Shaped' /\ Ledger'
  BY <1>1, <1>3, <1>4, UnstampLedger DEF Launched
<1> QED
  BY <1>3, <1>5, FreeFlow DEF ClassicInvariant

\* The restart takes its stamp back.
LEMMA UnacceptStep ==
  ASSUME ClassicInvariant, Unaccept
  PROVE  ClassicInvariant'
<1>1. /\ UNCHANGED <<alive, born, count, store, apps, early, mem, committed, doubled>>
      /\ journal' = Unstamped(0) \/ journal' = journal
      /\ pc = "unaccept"
      /\ Goto("withdraw") \/ GotoFailing("finish")
  BY DEF Unaccept, Write, WriteFails, machine, hist
<1>2. SameLocals /\ pc' \in {"withdraw", "finish"}
  BY <1>1, GotoKeepsLocals DEF ClassicInvariant
<1>3. store.pend = loc.txn /\ Launched(loc.txn) /\ apps.pid = mem.pid
  BY <1>1 DEF ClassicInvariant, Flow, RestoringFlow
<1>4. 0 \in 0 .. count.pid /\ 0 \notin alive
  BY SMT DEF ClassicInvariant, Numbered
<1>5. Numbered' /\ Shaped' /\ Ledger'
  BY <1>1, <1>2, <1>3, <1>4, UnstampLedger
<1>6. Flow'
  <2>1. CASE pc' = "finish"
    BY <2>1, FreeFlow DEF Free
  <2>2. CASE pc' = "withdraw"
    BY <1>1, <1>3, <2>2, SMT DEF Flow, SettlingFlow, WorkingFlow, AcceptingFlow, RestoringFlow,
      SettleSteps, Opening, Working
  <2> QED
    BY <1>2, <2>1, <2>2
<1> QED
  BY <1>5, <1>6 DEF ClassicInvariant

\* The process that was not accepted is stopped.
LEMMA WithdrawStep ==
  ASSUME ClassicInvariant, Withdraw
  PROVE  ClassicInvariant'
<1>1. /\ Kept /\ UNCHANGED <<early, store>> /\ pc = "withdraw" /\ mem' \in {mem, Down}
      /\ \/ /\ alive' = alive \ {mem.pid}
            /\ Goto(IF loc.prev # 0 THEN "relaunch" ELSE "saveRelaunch")
         \/ GotoFailing("finish")
  BY DEF Withdraw, StopNew, Kill, Kept, hist
<1>2. mem'.pid \in 0 .. count.pid
  BY <1>1, SMT DEF ClassicInvariant, Numbered, Down
<1>3. /\ SameLocals
      /\ \/ pc' \in {"relaunch", "saveRelaunch"} /\ alive' = alive \ {mem.pid}
         \/ pc' = "finish"
  BY <1>1, GotoKeepsLocals DEF ClassicInvariant
<1>4. Memory
  BY <1>1, <1>2, <1>3, SMT DEF ClassicInvariant, Numbered, SameLocals, Memory
<1>5. CASE pc' = "finish"
  BY <1>1, <1>4, <1>5, QuietFree DEF Free
<1>6. CASE pc' \in {"relaunch", "saveRelaunch"} /\ alive' = alive \ {mem.pid}
  <2>1. Vacant \/ apps.pid = mem.pid
    BY <1>1 DEF ClassicInvariant, Flow, RestoringFlow
  <2>2. Vacant'
    BY <1>1, <1>3, <1>6, <2>1, SMT DEF Kept, Vacant, SameLocals
  <2>3. Flow'
    BY <1>6, <2>2, SMT DEF Flow, SettlingFlow, WorkingFlow, AcceptingFlow, RestoringFlow,
      SettleSteps, Opening, Working
  <2> QED
    BY <1>1, <1>4, <2>3, QuietFlow
<1> QED
  BY <1>3, <1>5, <1>6

\* The prior process is launched again, without a transaction.
LEMMA RelaunchStep ==
  ASSUME ClassicInvariant, Relaunch \/ StartPrior
  PROVE  ClassicInvariant'
<1>1. \/ /\ pc = "relaunch"
         /\ \E bind, val : Launch(bind, val, 0, "unstamp", "saveRelaunch")
      \/ /\ pc = "startPrior" /\ View(apps).status # "running"
         /\ \E bind, val : Launch(bind, val, 0, "savePrior", "finish")
  BY DEF Relaunch, StartPrior
<1>2. /\ Born(0) /\ SameLocals /\ mem'.pid \in 0 .. count.pid + 1
      /\ \/ pc' \in {"unstamp", "savePrior"} /\ mem'.pid = count.pid + 1
         \/ pc' \in {"saveRelaunch", "finish"}
  BY <1>1, LaunchEffect
<1>3. Vacant
  BY <1>1, ViewPid DEF ClassicInvariant, Flow, RestoringFlow, Vacant
<1>4. 0 \in 0 .. count.txn
  BY SMT DEF ClassicInvariant, Numbered
<1>5. Numbered' /\ Shaped' /\ Ledger'
  BY <1>2, <1>4, LaunchLedger
<1>6. Vacant'
  BY <1>2, <1>3, LaunchVacant
<1>7. mem'.pid = count.pid + 1 => Launched(0)'
  BY <1>2, LaunchTag DEF Launched
<1>8. Flow'
  BY <1>2, <1>6, <1>7, SMT DEF Flow, SettlingFlow, WorkingFlow, AcceptingFlow, RestoringFlow,
    SettleSteps, Opening, Working
<1> QED
  BY <1>5, <1>8 DEF ClassicInvariant

\* The journal follows the process that was launched again.
LEMMA UnstampStep ==
  ASSUME ClassicInvariant, Unstamp
  PROVE  ClassicInvariant'
<1>1. /\ UNCHANGED <<alive, born, count, store, apps, early, mem, committed, doubled>>
      /\ journal' = Unstamped(mem.pid) \/ journal' = journal
      /\ pc = "unstamp" /\ Goto("saveRelaunch")
  BY DEF Unstamp, Write, WriteFails, machine, hist
<1>2. SameLocals /\ pc' = "saveRelaunch"
  BY <1>1, GotoKeepsLocals DEF ClassicInvariant
<1>3. Vacant /\ Launched(0) /\ mem.pid \in 0 .. count.pid
  BY <1>1 DEF ClassicInvariant, Numbered, Flow, RestoringFlow
<1>4. Numbered' /\ Shaped' /\ Ledger'
  BY <1>1, <1>2, <1>3, UnstampLedger DEF Launched
<1>5. Vacant'
  BY <1>1, <1>2, <1>3 DEF Vacant, SameLocals
<1>6. Flow'
  BY <1>2, <1>5, SMT DEF Flow, SettlingFlow, WorkingFlow, AcceptingFlow, RestoringFlow,
    SettleSteps, Opening, Working
<1> QED
  BY <1>4, <1>6 DEF ClassicInvariant

\* The record of the process that was launched again is saved.
LEMMA SaveRelaunchStep ==
  ASSUME ClassicInvariant, SaveRelaunch \/ SavePrior
  PROVE  ClassicInvariant'
<1>1. /\ UNCHANGED <<alive, born, count, store, journal, early, mem, committed, doubled>>
      /\ apps' \in {apps, mem}
      /\ \/ pc = "saveRelaunch" /\ Goto("finish")
         \/ /\ pc = "savePrior"
            /\ (apps' = mem /\ Goto("refreshPrior")) \/ GotoFailing("stopPrior")
  BY DEF SaveRelaunch, SavePrior, Save, SaveFails, machine, hist
<1>2. /\ SameLocals
      /\ \/ pc' \in {"finish", "stopPrior"}
         \/ pc = "savePrior" /\ apps' = mem /\ pc' = "refreshPrior"
  BY <1>1, GotoKeepsLocals DEF ClassicInvariant
<1>3. Vacant /\ (pc = "savePrior" => Launched(0))
  BY <1>1 DEF ClassicInvariant, Flow, RestoringFlow
<1>4. Numbered' /\ Shaped' /\ Ledger'
  BY <1>1, <1>2, <1>3, SaveRecord
<1>5. Flow'
  <2>1. CASE pc' \in {"finish", "stopPrior"}
    BY <2>1, FreeFlow DEF Free
  <2>2. CASE pc = "savePrior" /\ apps' = mem /\ pc' = "refreshPrior"
    <3>1. Launched(0)' /\ apps'.pid = mem'.pid
      BY <1>1, <1>3, <2>2 DEF Launched
    <3> QED
      BY <2>2, <3>1, SMT DEF Flow, SettlingFlow, WorkingFlow, AcceptingFlow, RestoringFlow,
        SettleSteps, Opening, Working
  <2> QED
    BY <1>2, <2>1, <2>2
<1> QED
  BY <1>4, <1>5 DEF ClassicInvariant

\* The failed attempt of a rebuild or rollback is stopped, and that is saved.
LEMMA StopFailedStep ==
  ASSUME ClassicInvariant, StopFailed \/ SaveFailed
  PROVE  ClassicInvariant'
<1>1. CASE StopFailed
  <2>1. /\ Kept /\ Memory
        /\ (pc' = "saveFailed" /\ Vacant') \/ pc' = "finish"
    BY <1>1, StopApplicationEffect DEF StopFailed
  <2>2. CASE pc' = "finish"
    BY <2>1, <2>2, QuietFree DEF Free
  <2>3. CASE pc' = "saveFailed" /\ Vacant'
    <3>1. Flow'
      BY <2>3, SMT DEF Flow, SettlingFlow, WorkingFlow, AcceptingFlow, RestoringFlow,
        SettleSteps, Opening, Working
    <3> QED
      BY <2>1, <3>1, QuietFlow
  <2> QED
    BY <2>1, <2>2, <2>3
<1>2. CASE SaveFailed
  <2>1. /\ UNCHANGED <<alive, born, count, store, journal, early, mem, committed, doubled>>
        /\ apps' \in {apps, mem} /\ pc = "saveFailed"
        /\ \E l \in {"restorePrior", "finish"} : Goto(l) \/ GotoFailing(l)
    BY <1>2 DEF SaveFailed, SaveStopped, Save, SaveFails, machine
  <2>2. SameLocals /\ pc' \in Free
    BY <2>1, GotoKeepsLocals DEF ClassicInvariant, Free
  <2>3. Vacant
    BY <2>1 DEF ClassicInvariant, Flow, WorkingFlow
  <2>4. Numbered' /\ Shaped' /\ Ledger'
    BY <2>1, <2>2, <2>3, SaveRecord
  <2> QED
    BY <2>2, <2>4, FreeFlow DEF ClassicInvariant
<1> QED
  BY <1>1, <1>2

\* The store changes, and a restart may follow.
LEMMA ChangeStep ==
  ASSUME ClassicInvariant, SetValue \/ ReplaceBindings
  PROVE  ClassicInvariant'
<1> DEFINE a == [store EXCEPT !.val = @ + 1, !.apply = "other"]
           b == [store EXCEPT !.bind = loc.imports, !.pbind = loc.imports, !.apply = "other"]
<1>1. /\ a.pend = store.pend /\ DOMAIN a = DOMAIN store
      /\ b.pend = store.pend /\ DOMAIN b = DOMAIN store
  BY SMT DEF ClassicInvariant, Shaped
<1>2. /\ pc \in {"set", "replace"} /\ store' \in {store, a, b}
      /\ (pc' \in Follow /\ UNCHANGED loc) \/ GotoFailing("failed")
      /\ UNCHANGED <<alive, born, count, journal, apps, early, mem, committed, doubled>>
  BY DEF SetValue, ReplaceBindings, Change, Mutate, MutateFails, machine, hist
<1> HIDE DEF a, b
<1>3. store'.pend = store.pend /\ DOMAIN store' = DOMAIN store
  BY <1>1, <1>2
<1>4. Kept
  BY <1>2, <1>3 DEF Kept
<1>5. SameLocals /\ pc' \in {"begin"} \cup Free
  <2>1. Follow \subseteq {"begin"} \cup Free
    BY SMT DEF Follow, Free
  <2> QED
    BY <1>2, <2>1, GotoKeepsLocals DEF ClassicInvariant, SameLocals, Free
<1>6. Memory
  BY <1>2, <1>5, SameMemory
<1>7. CASE pc' \in Free
  BY <1>4, <1>6, <1>7, QuietFree
<1>8. CASE pc' = "begin"
  <2>1. store'.pend = 0 /\ loc'.txn = 0 /\ loc'.kind \in Restarting
    BY <1>2, <1>3, <1>5 DEF ClassicInvariant, Flow, WorkingFlow, Opening, SameLocals
  <2>2. Flow'
    BY <1>8, <2>1, SMT DEF Flow, SettlingFlow, WorkingFlow, AcceptingFlow, RestoringFlow,
      SettleSteps, Opening, Working
  <2> QED
    BY <1>4, <1>6, <2>2, QuietFlow
<1> QED
  BY <1>5, <1>7, <1>8

-----------------------------------------------------------------------------
(* The theorems.                                                           *)

LEMMA NextKeeps ==
  ASSUME ClassicInvariant, [Next]_vars
  PROVE  ClassicInvariant'
<1>1. CASE Resolve \/ (\E k \in Kinds : Begin(k)) \/ Return \/ Crash \/ Die
  BY <1>1, ResolveStep, BeginStep, LeaveStep, DieStep DEF Return, Crash
<1>2. CASE Settling
  BY <1>2, ReconcileStep, CommitStep, ReclaimStep, CleanStep, DiscardStep DEF Settling
<1>3. CASE Preparing
  BY <1>3, BeginTxnStep, PrepareStep DEF Preparing
<1>4. CASE Replacing
  BY <1>4, StoppedStep, SaveStoppedStep, AlreadyRunningStep, StartStep, SaveStartedStep,
    StopStartedStep DEF Replacing
<1>5. CASE Accepting
  BY <1>5, AcceptStep, RefreshStep, EndStep, SettleStep, RecordStep DEF Accepting
<1>6. CASE Restoring
  BY <1>6, SettleStep, EndStep, StopFailedStep, RelaunchStep, SaveRelaunchStep, StopStartedStep,
    RefreshStep, UnacceptStep, WithdrawStep, UnstampStep DEF Restoring
<1>7. CASE Changing
  BY <1>7, ChangeStep, RecordStep DEF Changing
<1>8. CASE UNCHANGED vars
  <2>1. Numbered' /\ Shaped'
    BY <1>8, SMT DEF vars, ClassicInvariant, Numbered, Shaped
  <2>2. Ledger'
    BY <1>8, SMT DEF vars, ClassicInvariant, Ledger, StampKept, CleanupJustified,
      AcceptedIsRecorded, SlotIsStamped, LaunchesAccounted
  <2>3. Flow'
    BY <1>8, SMT DEF vars, ClassicInvariant, Flow, SettlingFlow, WorkingFlow, AcceptingFlow,
      RestoringFlow, Vacant, Clear, Launched, Unaccepted, Reloads
  <2> QED
    BY <2>1, <2>2, <2>3 DEF ClassicInvariant
<1> QED
  BY <1>1, <1>2, <1>3, <1>4, <1>5, <1>6, <1>7, <1>8 DEF Next

\* The stamp in deploy.json names only a transaction that is open or committed, the
\* accepted process of a transaction is the recorded one, and each command opens its
\* transaction, launches and stamps in that order, whatever fails, dies or is killed
\* between (BeginSecretTxn, ReconcileSecretTxn, acceptClassicSecrets).
THEOREM ClassicInvariantHolds == Spec => []ClassicInvariant
<1>1. Init => ClassicInvariant
  BY InitClassic
<1>2. ClassicInvariant /\ [Next]_vars => ClassicInvariant'
  BY NextKeeps
<1> QED
  BY <1>1, <1>2, PTL DEF Spec

\* No process that was launched with pending credentials is forgotten: while it lives
\* its transaction is open, or accepted and waiting for its cleanup, or committed with
\* apps.json recording the process (ReconcileSecretTxn, reclaimSecretLaunches).
THEOREM LaunchesStayAccounted == Spec => []LaunchesAccounted
<1>1. ClassicInvariant => LaunchesAccounted
  BY DEF ClassicInvariant, Ledger
<1> QED
  BY <1>1, ClassicInvariantHolds, PTL

-----------------------------------------------------------------------------
(* The credentials of the recorded process.                                *)

\* The last apply is said to have succeeded.
Claimed == store.apply = "succeeded"

\* Process p was launched with what the store holds.
HasCurrent(p) == born[p].bind = store.bind /\ born[p].val = store.val

\* Process p does not belie the claim, unless its transaction is open.
Honest(p) ==
  p \in alive /\ Claimed => HasCurrent(p) \/ (store.pend # 0 /\ born[p].tag = store.pend)

\* What the records name, or may come to name.
RecordsHonest ==
  /\ Honest(apps.pid) /\ Honest(early.rec.pid)
  /\ pc \in SettleSteps /\ loc.ret = First(loc.kind) => Honest(loc.info.rec.pid)
  /\ pc \in {"begin", "check", "copy", "capture"} => Honest(loc.info.rec.pid)
  /\ pc \in {"saveStarted", "saveStopped", "saveFailed", "savePrior", "relaunch", "unstamp", "saveRelaunch"}
       => Honest(mem.pid)

\* A view taken while the command runs shows the recorded process, or one that is gone.
EarlyFlow ==
  pc # "idle" /\ loc.kind # "restore" /\ early.rec.pid \in alive => early.rec.pid = apps.pid

\* The credentials that a restoration launches the prior process with.
Restorable ==
  /\ loc.kind \in {"rebuild", "rollback"} /\ loc.info.rec.status = "running" => loc.prev # 0
  /\ loc.prev # 0 /\ Claimed => HasCurrent(loc.prev)
  /\ loc.prev \in 0 .. count.pid

Reversible ==
  {"backup", "build", "stop", "saveStopped", "stopOld", "start", "saveStarted", "accept", "stopNew",
   "refresh", "compensate", "stopFailed", "saveFailed", "restorePrior", "startPrior", "unaccept",
   "withdraw", "relaunch"}

PriorFlow ==
  /\ pc \in SettleSteps /\ loc.ret = First(loc.kind) => loc.prev = 0
  /\ pc \in {"check", "copy", "capture"} => loc.prev = 0
  /\ pc \in {"relaunch", "startPrior"} => loc.prev # 0
  /\ pc \in Reversible => Restorable
  /\ pc = "promote" /\ loc.kind = "rollback" => Restorable
  /\ pc \in {"undo", "decide"} => Restorable \/ journal.txn = loc.txn
  /\ pc \in SettleSteps /\ loc.ret = "decide" => Restorable \/ journal.txn = loc.txn

\* Process p was launched with the bindings that the end of the transaction leaves.
Given(p) ==
  p \in alive => /\ born[p].val = store.val
                 /\ born[p].bind = IF store.pend = 0 THEN store.bind ELSE store.pbind

Accepted ==
  /\ journal.txn = loc.txn /\ store.pend \in {0, loc.txn} /\ loc.kind # "restore"
  /\ Given(apps.pid)

AcceptedFlow ==
  /\ pc \in Working => store.pend = loc.txn
  /\ pc \in {"saveStarted", "accept"} /\ loc.txn # 0 => Given(mem.pid)
  /\ pc = "promote" /\ loc.kind # "rollback" => Accepted /\ loc.kind = "rebuild"
  /\ pc = "finish" /\ loc.ok /\ loc.kind \in {"rebuild"} \cup Restarting => Accepted
  /\ pc \in SettleSteps /\ (loc.ret = "recordApplied" \/ loc.bad = "undo") => Accepted
  /\ pc = "recordApplied" => Accepted /\ store.pend = 0
  /\ pc = "record" /\ loc.ok => Claimed

\* A command on its way back has failed.
Failed ==
  {"undo", "decide", "stopNew", "compensate", "stopFailed", "saveFailed", "restorePrior", "startPrior",
   "savePrior", "refreshPrior", "stopPrior", "unaccept", "withdraw", "relaunch", "unstamp",
   "saveRelaunch"}

FailedFlow ==
  /\ pc \in Failed => ~loc.ok
  /\ pc \in SettleSteps /\ loc.ret \in {"failed", "record", "decide"} => ~loc.ok

\* Which command it is.
KindFlow ==
  /\ loc.kind \in Commands
  /\ loc.txn # 0 => loc.kind \in {"rebuild"} \cup Restarting
  /\ pc \in {"backup", "build", "undo", "decide"} => loc.kind = "rebuild"
  /\ pc \in SettleSteps /\ (loc.ret = "decide" \/ loc.bad = "undo") => loc.kind = "rebuild"
  /\ pc \in {"check", "copy", "refresh"} => loc.kind = "rollback"
  /\ pc \in {"capture", "compensate", "stopFailed", "saveFailed", "restorePrior", "startPrior"}
       => loc.kind \in {"rebuild", "rollback"}

Honesty == RecordsHonest /\ EarlyFlow /\ PriorFlow /\ AcceptedFlow /\ FailedFlow /\ KindFlow

\* What every step but those of its own leaves to a command.
Locals ==
  /\ loc'.kind = loc.kind /\ loc'.info = loc.info /\ loc'.txn = loc.txn /\ loc'.prev = loc.prev
  /\ loc'.ret = loc.ret /\ loc'.bad = loc.bad

LEMMA GotoLocals ==
  ASSUME Shaped, NEW l
  PROVE  /\ Goto(l) => pc' = l /\ Locals /\ loc'.ok = loc.ok
         /\ GotoFailing(l) => pc' = l /\ Locals /\ loc'.ok = FALSE
BY SMT DEF Shaped, Goto, GotoFailing, Locals

\* Steps that change neither credentials nor records.
Frozen ==
  /\ alive' \subseteq alive /\ journal'.txn = journal.txn /\ count'.pid = count.pid
  /\ UNCHANGED <<born, store, apps, early>>

LEMMA FrozenFacts ==
  ASSUME Frozen
  PROVE  /\ \A p : Honest(p) => Honest(p)'
         /\ \A p : Given(p) => Given(p)'
         /\ \A p : HasCurrent(p)' <=> HasCurrent(p)
         /\ Claimed' = Claimed
         /\ Locals /\ Restorable => Restorable'
         /\ Locals /\ Accepted => Accepted'
         /\ Locals /\ pc # "idle" /\ EarlyFlow => EarlyFlow'
BY DEF Frozen, Honest, Given, HasCurrent, Claimed, Locals, Restorable, Accepted, EarlyFlow

\* What a reconciliation goes on to.
LEMMA SettleLocals ==
  ASSUME ClassicInvariant, pc \in SettleSteps
  PROVE  /\ loc.bad \in Bads
         /\ \/ loc.ret \in Ends
            \/ /\ loc.ret = First(loc.kind) /\ loc.txn = 0
               /\ \/ loc.ret = "begin" /\ loc.kind \in {"rebuild", "restart"}
                  \/ loc.ret \in {"set", "replace", "done"}
                  \/ loc.ret = "check" /\ loc.kind = "rollback"
                  \/ loc.ret = "stop" /\ loc.kind = "stop"
                  \/ loc.ret = "start" /\ loc.kind \in {"start", "restore"}
<1>1. /\ loc.bad \in Bads
      /\ \/ loc.ret \in Ends
         \/ loc.ret = First(loc.kind) /\ loc.kind \in Commands /\ loc.txn = 0
  BY DEF ClassicInvariant, Flow, SettlingFlow
<1> QED
  BY <1>1, SMT DEF First, Commands

\* A reconciliation goes on, returns, or fails.
LEMMA SettlingHonest ==
  ASSUME ClassicInvariant, Honesty, pc \in SettleSteps, Locals,
         UNCHANGED <<apps, early, mem>>, journal'.txn = journal.txn, alive' \subseteq alive, count'.pid = count.pid,
         \A p : Honest(p) => Honest(p)',
         Restorable => Restorable', Accepted => Accepted',
         \/ pc' \in SettleSteps /\ loc'.ok = loc.ok
         \/ pc' = loc.ret /\ store'.pend = 0 /\ loc'.ok = loc.ok
         \/ pc' = loc.bad /\ loc'.ok = FALSE
  PROVE  Honesty'
<1>0. 0 \in 0 .. count.pid
  BY SMT DEF ClassicInvariant, Numbered
<1>1. EarlyFlow'
  BY SMT DEF Honesty, EarlyFlow, Locals, SettleSteps
<1>2. CASE pc' \in SettleSteps /\ loc'.ok = loc.ok
  BY <1>1, <1>2, SMT DEF Honesty, RecordsHonest, PriorFlow, AcceptedFlow, FailedFlow, KindFlow,
    SettleSteps, Working, Reversible, Failed, Locals
<1>3. CASE pc' = loc.ret /\ store'.pend = 0 /\ loc'.ok = loc.ok
  BY <1>0, <1>1, <1>3, SettleLocals, SMT DEF Honesty, RecordsHonest, PriorFlow, AcceptedFlow, FailedFlow, KindFlow,
    SettleSteps, Working, Reversible, Failed, Locals, Ends, Restorable
<1>4. CASE pc' = loc.bad /\ loc'.ok = FALSE
  BY <1>1, <1>4, SettleLocals, SMT DEF Honesty, RecordsHonest, PriorFlow, AcceptedFlow, FailedFlow, KindFlow,
    SettleSteps, Working, Reversible, Failed, Locals, Bads, Accepted
<1> QED
  BY <1>2, <1>3, <1>4

LEMMA ReconcileHonest ==
  ASSUME ClassicInvariant, Honesty, Reconcile \/ Reclaim \/ ReclaimAccepted \/ StoreClean
  PROVE  Honesty'
<1>1. Frozen /\ UNCHANGED mem /\ pc \in SettleSteps
  <2>1. [journal EXCEPT !.cleanup = FALSE].txn = journal.txn
    BY SMT DEF ClassicInvariant, Shaped
  <2> QED
    BY <2>1 DEF Reconcile, Reclaim, ReclaimAccepted, StoreClean, Kill, Write, WriteFails, Frozen,
      machine, SettleSteps
<1>2. \/ \E l \in SettleSteps : Goto(l)
      \/ store.pend = 0 /\ Goto(loc.ret)
      \/ GotoFailing(loc.bad)
  <2>1. store.pend \in Nat /\ (pc = "storeClean" => store.pend = 0)
    BY SMT DEF ClassicInvariant, Numbered, Flow, SettlingFlow
  <2> QED
    BY <2>1, SMT DEF Reconcile, Reclaim, ReclaimAccepted, StoreClean, SettleSteps
<1>3. /\ Locals
      /\ \/ pc' \in SettleSteps /\ loc'.ok = loc.ok
         \/ pc' = loc.ret /\ store.pend = 0 /\ loc'.ok = loc.ok
         \/ pc' = loc.bad /\ loc'.ok = FALSE
  BY <1>2, GotoLocals DEF ClassicInvariant
<1> QED
  BY <1>1, <1>3, FrozenFacts, SettlingHonest DEF Frozen

LEMMA CommitHonest ==
  ASSUME ClassicInvariant, Honesty, CommitTxn
  PROVE  Honesty'
<1>1. UNCHANGED <<alive, born, count, journal, apps, mem, early>> /\ pc = "commit" /\ pc \in SettleSteps
  BY DEF CommitTxn, machine, SettleSteps
<1>2. \/ store' = store /\ GotoFailing(loc.bad)
      \/ /\ store'.pend = 0 /\ store'.apply = "other"
         /\ store'.bind = store.pbind /\ store'.val = store.val
         /\ (Goto("reclaimAccepted") \/ GotoFailing(loc.bad))
  <2> DEFINE s == [store EXCEPT !.bind = store.pbind, !.apply = "other", !.pend = 0]
  <2>1. s.pend = 0 /\ s.apply = "other" /\ s.bind = store.pbind /\ s.val = store.val
    BY SMT DEF ClassicInvariant, Shaped
  <2>2. \/ store' = s /\ Goto("reclaimAccepted")
        \/ store' \in {store, s} /\ GotoFailing(loc.bad)
    BY DEF CommitTxn, Mutate, MutateFails
  <2> HIDE DEF s
  <2> QED
    BY <2>1, <2>2
<1>3. store.pend # 0 /\ journal.txn = store.pend
  BY <1>1 DEF ClassicInvariant, Flow, SettlingFlow
<1>4. /\ Locals
      /\ \/ pc' \in SettleSteps /\ loc'.ok = loc.ok
         \/ pc' = loc.bad /\ loc'.ok = FALSE
  BY <1>2, GotoLocals DEF ClassicInvariant, SettleSteps
<1>5. CASE store' = store
  <2>1. Frozen
    BY <1>1, <1>5 DEF Frozen
  <2> QED
    BY <1>1, <1>4, <2>1, FrozenFacts, SettlingHonest
<1>6. CASE /\ store'.pend = 0 /\ store'.apply = "other"
           /\ store'.bind = store.pbind /\ store'.val = store.val
  <2>1. \A p : Honest(p)'
    BY <1>6 DEF Honest, Claimed
  <2>2. Restorable => Restorable'
    BY <1>1, <1>4, <1>6 DEF Restorable, Claimed, Locals
  <2>3. Accepted => Accepted'
    BY <1>1, <1>3, <1>4, <1>6 DEF Accepted, Given, Locals
  <2> QED
    BY <1>1, <1>4, <2>1, <2>2, <2>3, SettlingHonest
<1> QED
  BY <1>2, <1>5, <1>6

LEMMA DiscardHonest ==
  ASSUME ClassicInvariant, Honesty, DiscardTxn
  PROVE  Honesty'
<1>1. UNCHANGED <<alive, born, count, journal, apps, mem, early>> /\ pc = "discard" /\ pc \in SettleSteps
  BY DEF DiscardTxn, machine, SettleSteps
<1>2. /\ store'.bind = store.bind /\ store'.val = store.val /\ store'.apply = store.apply
      /\ store'.pend \in {store.pend, 0}
      /\ (store'.pend = 0 /\ Goto(loc.ret)) \/ GotoFailing(loc.bad)
  <2> DEFINE s == [store EXCEPT !.pend = 0, !.pbind = store.bind]
  <2>1. s.pend = 0 /\ s.apply = store.apply /\ s.bind = store.bind /\ s.val = store.val
    BY SMT DEF ClassicInvariant, Shaped
  <2>2. \/ store' = s /\ Goto(loc.ret)
        \/ store' \in {store, s} /\ GotoFailing(loc.bad)
    BY DEF DiscardTxn, Mutate, MutateFails
  <2> HIDE DEF s
  <2> QED
    BY <2>1, <2>2
<1>3. store.pend # 0 /\ journal.txn # store.pend /\ Clear(store.pend)
  BY <1>1 DEF ClassicInvariant, Flow, SettlingFlow
<1>4. /\ Locals
      /\ \/ pc' = loc.ret /\ store'.pend = 0 /\ loc'.ok = loc.ok
         \/ pc' = loc.bad /\ loc'.ok = FALSE
  BY <1>2, GotoLocals DEF ClassicInvariant
<1>5. \A p : Honest(p) => Honest(p)'
  BY <1>1, <1>2, <1>3 DEF Honest, Claimed, HasCurrent, Clear
<1>6. Restorable => Restorable'
  BY <1>1, <1>2, <1>4 DEF Restorable, Claimed, HasCurrent, Locals
<1>7. ~Accepted
  BY <1>3 DEF Accepted
<1> QED
  BY <1>1, <1>4, <1>5, <1>6, <1>7, SettlingHonest

\* A command begins with what was recorded, now or earlier.
LEMMA BeginHonest ==
  ASSUME ClassicInvariant, Honesty, NEW k \in Kinds, Begin(k)
  PROVE  Honesty'
<1>1. PICK info \in {Fresh, early} \ {NoInfo}, imports \in Imports, target \in 0 .. count.ver :
         /\ early' = NoInfo
         /\ loc' = [NoLocals EXCEPT !.kind = k, !.info = info, !.imports = imports,
                                    !.target = target, !.ret = First(k),
                                    !.bad = IF k = "restart" THEN "record" ELSE "failed"]
  BY DEF Begin
<1>2. UNCHANGED <<alive, born, store, journal, apps>> /\ pc' = "reconcile"
  BY DEF Begin, machine
<1>3. /\ loc'.kind = k /\ loc'.info = info /\ loc'.txn = 0 /\ loc'.prev = 0 /\ loc'.ret = First(k)
      /\ loc'.bad \in {"record", "failed"}
  BY <1>1, SMT DEF NoLocals
<1>4. 0 \notin alive /\ k \in Commands
  BY KindsAssumption, SMT DEF ClassicInvariant, Numbered
<1>5. \A p : (Honest(p) => Honest(p)') /\ (p \notin alive => Honest(p)')
  BY <1>2 DEF Honest, Claimed, HasCurrent
<1>6. info.rec.pid \in {0, apps.pid, early.rec.pid}
  BY <1>1, ViewPid DEF Fresh
<1>7. Honest(loc.info.rec.pid)'
  BY <1>3, <1>4, <1>5, <1>6 DEF Honesty, RecordsHonest
<1>8. early'.rec.pid = 0 /\ Honest(early.rec.pid)'
  BY <1>1, <1>2, <1>4, SMT DEF NoInfo, Stopped, Honest
<1>9. First(k) \notin Ends
  BY <1>4, SMT DEF First, Commands, Ends
<1> QED
  BY <1>2, <1>3, <1>4, <1>5, <1>7, <1>8, <1>9, SMT DEF Honesty, RecordsHonest, EarlyFlow, PriorFlow,
    AcceptedFlow, FailedFlow, KindFlow, SettleSteps, Working, Reversible, Failed, Ends

\* Between two commands only the records count.
LEMMA LeaveHonest ==
  ASSUME ClassicInvariant, Honesty, Leave
  PROVE  Honesty'
<1>1. UNCHANGED <<alive, store, journal, apps, early>> /\ pc' = "idle"
  BY DEF Leave
<1>2. \A p \in alive : born'[p] = born[p]
  BY SMT DEF Leave, ClassicInvariant, Numbered
<1>3. \A p : Honest(p) => Honest(p)'
  BY <1>1, <1>2 DEF Honest, Claimed, HasCurrent
<1>4. loc'.kind \in Commands /\ loc'.txn = 0
  BY SMT DEF Leave, NoLocals, Commands
<1> QED
  BY <1>1, <1>3, <1>4, SMT DEF Honesty, RecordsHonest, EarlyFlow, PriorFlow, AcceptedFlow, FailedFlow, KindFlow,
    SettleSteps, Working, Reversible, Failed

LEMMA DieHonest ==
  ASSUME ClassicInvariant, Honesty, Die
  PROVE  Honesty'
<1>1. Frozen /\ Locals /\ UNCHANGED <<mem, pc, loc, journal>>
  BY DEF Die, Frozen, Locals
<1>2. EarlyFlow'
  BY <1>1, FrozenFacts, SMT DEF Honesty, EarlyFlow, Frozen
<1> QED
  BY <1>1, <1>2, FrozenFacts, SMT DEF Honesty, RecordsHonest, PriorFlow, AcceptedFlow, FailedFlow, KindFlow,
    Frozen

LEMMA ResolveHonest ==
  ASSUME ClassicInvariant, Honesty, Resolve
  PROVE  Honesty'
<1>1. UNCHANGED <<alive, born, count, store, journal, apps, mem, pc, loc>>
  BY DEF Resolve, machine
<1>2. early'.rec.pid \in {0, apps.pid} /\ 0 \notin alive
  BY ViewPid, SMT DEF Resolve, Fresh, ClassicInvariant, Numbered
<1>3. \A p : (Honest(p) => Honest(p)') /\ (p \notin alive => Honest(p)')
  BY <1>1 DEF Honest, Claimed, HasCurrent
<1>4. Restorable' = Restorable /\ Accepted' = Accepted /\ Claimed' = Claimed
  BY <1>1 DEF Restorable, Accepted, Claimed, HasCurrent, Given
<1>5. Honest(early.rec.pid)'
  BY <1>2, <1>3 DEF Honesty, RecordsHonest
<1>6. EarlyFlow'
  BY <1>1, <1>2 DEF EarlyFlow
<1>7. \A p : Given(p) => Given(p)'
  BY <1>1 DEF Given
<1> QED
  BY <1>1, <1>3, <1>4, <1>5, <1>6, <1>7, SMT DEF Honesty, RecordsHonest, PriorFlow, AcceptedFlow, FailedFlow, KindFlow

\* FinishSecretTxn and the restoration of a rebuild settle again.
LEMMA SettleHonest ==
  ASSUME ClassicInvariant, Honesty, Finish \/ Undo
  PROVE  Honesty'
<1>1. Frozen /\ UNCHANGED <<mem, journal>>
  BY DEF Finish, Undo, Frozen, machine
<1>2. \A ret, bad : Settle(ret, bad) =>
        /\ pc' = "reconcile" /\ loc'.ret = ret /\ loc'.bad = bad
        /\ loc'.kind = loc.kind /\ loc'.info = loc.info /\ loc'.txn = loc.txn
        /\ loc'.prev = loc.prev /\ loc'.ok = loc.ok
  BY SMT DEF Settle, ClassicInvariant, Shaped
<1>3. /\ loc'.kind = loc.kind /\ loc'.info = loc.info /\ loc'.txn = loc.txn /\ loc'.prev = loc.prev
      /\ \/ pc' = "failed"
         \/ /\ pc = "finish" /\ loc.ok /\ loc.kind \in {"rebuild"} \cup Restarting
            /\ pc' = "reconcile" /\ loc'.ret = "recordApplied"
            /\ (loc'.bad = "undo" /\ loc.kind = "rebuild") \/ loc'.bad = "record"
            /\ loc'.ok = loc.ok
         \/ /\ pc = "finish" /\ ~loc.ok /\ loc'.ok = loc.ok
            /\ pc' = "reconcile" /\ loc'.ret \in {"failed", "record"} /\ loc'.bad \in {"failed", "record"}
         \/ /\ pc = "undo" /\ pc' = "reconcile" /\ loc'.ret = "decide" /\ loc'.bad = "finish"
            /\ loc'.ok = loc.ok
  BY <1>2, SMT DEF Finish, Undo, Goto
<1>4. (Restorable => Restorable') /\ (Accepted => Accepted') /\ EarlyFlow'
  <2>1. pc # "idle" /\ Honesty
    BY DEF Finish, Undo
  <2> QED
    BY <1>1, <1>3, <2>1, SMT DEF Honesty, Restorable, Accepted, Given, HasCurrent, Claimed, EarlyFlow, Frozen
<1>5. First(loc.kind) \notin Ends
  BY SMT DEF Honesty, KindFlow, First, Commands, Ends
<1> QED
  BY <1>1, <1>3, <1>4, <1>5, FrozenFacts, SMT DEF Honesty, RecordsHonest, PriorFlow,
    AcceptedFlow, FailedFlow, KindFlow, SettleSteps, Working, Reversible, Failed, Frozen, Ends

\* The steps that prepare and that decide change neither credentials nor records.
LEMMA DecideHonest ==
  ASSUME ClassicInvariant, Honesty,
         Promote \/ DiscardBackup \/ Decide \/ Compensate \/ RestorePrior \/ RestoreBinary
  PROVE  Honesty'
<1>1. Frozen /\ UNCHANGED <<mem, journal>> /\ pc # "idle"
  BY DEF Promote, DiscardBackup, Decide, Compensate, RestorePrior, RestoreBinary, Frozen, machine
<1>2. /\ Locals
      /\ \/ pc = "promote" /\ pc' = "finish" /\ loc.kind = "rebuild"
         \/ pc' = "discardBackup"
         \/ pc = "promote" /\ pc' = "compensate" /\ loc.kind # "rebuild" /\ loc'.ok = FALSE
         \/ pc' \in {"done", "failed"}
         \/ pc' = "finish" /\ ~loc'.ok
         \/ pc = "decide" /\ pc' = "compensate" /\ journal.txn # loc.txn /\ loc'.ok = loc.ok
         \/ pc = "compensate" /\ pc' \in {"stopFailed", "restorePrior"} /\ loc'.ok = loc.ok
         \/ pc = "restorePrior" /\ pc' = "startPrior" /\ loc.info.rec.status = "running" /\ loc'.ok = loc.ok
  <2>1. pc = "restorePrior" => ~loc.ok
    BY DEF Honesty, FailedFlow, Failed
  <2>2. CASE Promote
    BY <2>2, SMT DEF Promote, Goto, GotoFailing, Locals, ClassicInvariant, Shaped
  <2>3. CASE DiscardBackup \/ RestoreBinary
    BY <2>3, SMT DEF DiscardBackup, RestoreBinary, Goto, GotoFailing, Locals
  <2>4. CASE Decide
    BY <2>4, SMT DEF Decide, Goto, GotoFailing, Locals, ClassicInvariant, Shaped
  <2>5. CASE Compensate
    BY <2>5, SMT DEF Compensate, Goto, Locals
  <2>6. CASE RestorePrior
    BY <2>1, <2>6, SMT DEF RestorePrior, Goto, GotoFailing, Locals, ClassicInvariant, Shaped
  <2> QED
    BY <2>2, <2>3, <2>4, <2>5, <2>6
<1>3. (Restorable => Restorable') /\ (Accepted => Accepted') /\ EarlyFlow'
  BY <1>1, <1>2, FrozenFacts DEF Honesty
<1>4. pc' = "startPrior" => loc'.prev # 0
  BY <1>2 DEF Honesty, PriorFlow, KindFlow, Reversible, Restorable, Locals
<1> QED
  BY <1>1, <1>2, <1>3, <1>4, FrozenFacts, SMT DEF Honesty, RecordsHonest, PriorFlow, AcceptedFlow,
    FailedFlow, KindFlow, SettleSteps, Working, Reversible, Failed, Frozen, Locals

LEMMA PrepareHonest ==
  ASSUME ClassicInvariant, Honesty, Check \/ CopyBinary \/ BackupBinary \/ Build \/ SkipStop \/ StopOld
  PROVE  Honesty'
<1>1. Frozen /\ UNCHANGED mem /\ pc # "idle"
  <2>1. Build => count'.pid = count.pid
    BY SMT DEF Build, ClassicInvariant, Shaped
  <2> QED
    BY <2>1 DEF Check, CopyBinary, BackupBinary, Build, SkipStop, StopOld, Kill, Frozen, machine
<1>2. /\ Locals
      /\ \/ pc = "check" /\ pc' = "copy"
         \/ pc = "copy" /\ pc' = "capture"
         \/ pc = "backup" /\ pc' = "build"
         \/ pc = "build" /\ pc' = "stop"
         \/ pc \in {"stop", "stopOld"} /\ pc' = "start"
         \/ pc = "build" /\ pc' = "undo" /\ loc'.ok = FALSE
         \/ pc' \in {"failed", "finish"} /\ loc'.ok = FALSE
  <2>1. CASE Build
    BY <2>1, SMT DEF Build, Goto, GotoFailing, Locals, ClassicInvariant, Shaped
  <2>2. CASE Check \/ CopyBinary \/ BackupBinary \/ SkipStop \/ StopOld
    BY <2>2, SMT DEF Check, CopyBinary, BackupBinary, SkipStop, StopOld, Goto, GotoFailing, Locals,
      ClassicInvariant, Shaped
  <2> QED
    BY <2>1, <2>2
<1>3. (Restorable => Restorable') /\ (Accepted => Accepted') /\ EarlyFlow'
  BY <1>1, <1>2, FrozenFacts DEF Honesty
<1> QED
  BY <1>1, <1>2, <1>3, FrozenFacts, SMT DEF Honesty, RecordsHonest, PriorFlow, AcceptedFlow,
    FailedFlow, KindFlow, SettleSteps, Working, Reversible, Failed, Frozen, Locals

\* The transaction is opened; a restart remembers which process it replaces.
LEMMA BeginTxnHonest ==
  ASSUME ClassicInvariant, Honesty, BeginTxn
  PROVE  Honesty'
<1> DEFINE t == count.txn + 1
           o == IF loc.kind # "rebuild" /\ View(apps).status = "running" THEN View(apps).pid ELSE 0
<1>1. UNCHANGED <<alive, born, journal, apps, early>> /\ pc = "begin" /\ count'.pid = count.pid
  BY SMT DEF BeginTxn, machine, ClassicInvariant, Shaped
<1>2. /\ store'.pend \in {store.pend, t} /\ store'.apply = store.apply
      /\ store'.bind = store.bind /\ store'.val = store.val
      /\ loc'.kind = loc.kind /\ loc'.info = loc.info
      /\ \/ /\ store'.pend = t /\ loc'.txn = t /\ loc'.prev = o
            /\ \/ loc.kind = "rebuild" /\ pc' = "capture"
               \/ loc.kind # "rebuild" /\ pc' = "stopOld"
         \/ pc' \in {"failed", "record"} /\ loc'.ok = FALSE
  <2> DEFINE b == IF loc.kind = "rebuild" THEN loc.imports ELSE store.bind
             s == [store EXCEPT !.pend = t, !.pbind = b]
             l == [loc EXCEPT !.txn = t, !.prev = o]
  <2>1. s.pend = t /\ s.apply = store.apply /\ s.bind = store.bind /\ s.val = store.val
    BY SMT DEF ClassicInvariant, Shaped
  <2>2. l.txn = t /\ l.prev = o /\ l.kind = loc.kind /\ l.info = loc.info
    BY SMT DEF ClassicInvariant, Shaped
  <2>3. \/ /\ store' = s /\ loc' = l
           /\ \/ loc.kind = "rebuild" /\ pc' = "capture"
              \/ loc.kind # "rebuild" /\ pc' = "stopOld"
        \/ /\ store' \in {store, s}
           /\ (GotoFailing("failed") \/ GotoFailing("record"))
    BY DEF BeginTxn, Mutate, MutateFails
  <2>4. Shaped
    BY DEF ClassicInvariant
  <2> HIDE DEF s, l, t, o
  <2> QED
    BY <2>1, <2>2, <2>3, <2>4, GotoLocals DEF Locals
<1>3. store.pend = 0 /\ loc.kind \in Restarting \cup {"rebuild"}
  BY <1>1 DEF ClassicInvariant, Flow, WorkingFlow, Opening
<1>4. Honest(loc.info.rec.pid) /\ Honest(apps.pid) /\ Honest(early.rec.pid)
  BY <1>1 DEF Honesty, RecordsHonest
<1>5. \A p : Honest(p) => Honest(p)'
  BY <1>1, <1>2, <1>3 DEF Honest, Claimed, HasCurrent
<1>6. (o # 0 => o \in alive /\ o = apps.pid) /\ o \in 0 .. count.pid
  BY ViewPid, SMT DEF View, ClassicInvariant, Numbered
<1>7. loc'.prev = o /\ (o # 0 => loc.kind \notin {"rebuild"}) => (pc' = "stopOld" => Restorable')
  BY <1>1, <1>2, <1>3, <1>4, <1>6, SMT DEF Restorable, Claimed, HasCurrent, Honest, Restarting
<1> HIDE DEF t
<1>8. EarlyFlow'
  BY <1>1, <1>2, SMT DEF Honesty, EarlyFlow
<1>9. loc.kind = "rebuild" => o = 0
  OBVIOUS
<1> HIDE DEF o
<1> QED
  BY <1>1, <1>2, <1>3, <1>4, <1>5, <1>7, <1>8, <1>9, SMT DEF Honesty, RecordsHonest, PriorFlow,
    AcceptedFlow, FailedFlow, KindFlow, SettleSteps, Working, Reversible, Failed, Restarting

\* What the running process has, a restoration can give back.
LEMMA CaptureHonest ==
  ASSUME ClassicInvariant, Honesty, Capture
  PROVE  Honesty'
<1> DEFINE p == loc.info.rec.pid
<1>1. Frozen /\ UNCHANGED <<mem, journal>> /\ pc = "capture"
  BY DEF Capture, Frozen, machine
<1>2. /\ loc'.kind = loc.kind /\ loc'.info = loc.info /\ loc'.txn = loc.txn
      /\ pc' = "backup" => loc.kind = "rebuild"
      /\ \/ pc' \in {"backup", "stop"} /\ loc.info.rec.status # "running" /\ loc'.prev = loc.prev
         \/ pc' \in {"backup", "stop"} /\ p \in alive /\ loc'.prev = p
         \/ pc' \in {"finish", "restoreBinary"} /\ ~loc'.ok
  BY SMT DEF Capture, Goto, GotoFailing, ClassicInvariant, Shaped
<1>3. loc.prev = 0 /\ Honest(p) /\ store.pend = loc.txn /\ loc.kind \in Commands
  BY <1>1 DEF Honesty, RecordsHonest, PriorFlow, AcceptedFlow, KindFlow, Working
<1>4. p \in alive /\ Claimed => HasCurrent(p)
  BY <1>1, <1>3 DEF Honest, ClassicInvariant, Flow, WorkingFlow, Working, Clear
<1>5. (p \in alive => p # 0 /\ p \in 0 .. count.pid) /\ 0 \in 0 .. count.pid
  BY SMT DEF ClassicInvariant, Numbered
<1>6. pc' \in {"backup", "stop"} => Restorable'
  BY <1>1, <1>2, <1>3, <1>4, <1>5, FrozenFacts DEF Restorable, Frozen
<1>7. EarlyFlow'
  BY <1>1, <1>2, SMT DEF Honesty, EarlyFlow, Frozen
<1> QED
  BY <1>1, <1>2, <1>3, <1>6, <1>7, FrozenFacts, SMT DEF Honesty, RecordsHonest, PriorFlow,
    AcceptedFlow, FailedFlow, KindFlow, SettleSteps, Working, Reversible, Failed, Frozen

\* Success is claimed when the transaction was accepted and has ended.
LEMMA ClaimHonest ==
  ASSUME ClassicInvariant, Honesty, RecordApplied \/ Record \/ RecordSkipped
  PROVE  Honesty'
<1>1. UNCHANGED <<alive, born, journal, apps, early, mem>> /\ pc # "idle"
  BY DEF RecordApplied, Record, RecordSkipped, machine
<1>2. /\ store'.pend = store.pend /\ store'.bind = store.bind /\ store'.val = store.val
      /\ \/ store'.apply = store.apply
         \/ store'.apply = "other"
         \/ pc = "recordApplied" /\ store'.apply = "succeeded"
         \/ pc = "record" /\ loc.ok /\ store'.apply = "succeeded"
      /\ pc = "recordApplied" /\ pc' = "record" => store'.apply = "succeeded" \/ GotoFailing("record")
  <2> DEFINE s(x) == [store EXCEPT !.apply = x]
  <2>1. \A x : /\ s(x).apply = x /\ s(x).pend = store.pend
               /\ s(x).bind = store.bind /\ s(x).val = store.val
    BY SMT DEF ClassicInvariant, Shaped
  <2>2. CASE RecordApplied
    <3>1. /\ pc = "recordApplied"
          /\ \/ store' = s("succeeded")
             \/ /\ store' = store
                /\ \/ GotoFailing("undo")
                   \/ GotoFailing("record")
      BY <2>2 DEF RecordApplied, Mutate, MutateFails
    <3> HIDE DEF s
    <3>2. GotoFailing("undo") => pc' # "record"
      BY DEF GotoFailing
    <3> QED
      BY <2>1, <3>1, <3>2
  <2>3. CASE Record
    <3>1. pc = "record" /\ store' \in {store, s(IF loc.ok THEN "succeeded" ELSE "other")}
      BY <2>3 DEF Record, Mutate, MutateFails
    <3> HIDE DEF s
    <3> QED
      BY <2>1, <3>1
  <2>4. CASE RecordSkipped
    <3>1. pc = "recordSkipped" /\ store' \in {store, s("other")}
      BY <2>4 DEF RecordSkipped, Mutate, MutateFails
    <3> HIDE DEF s
    <3> QED
      BY <2>1, <3>1
  <2> QED
    BY <2>2, <2>3, <2>4
<1>3. /\ Locals
      /\ pc' = "undo" => loc.kind = "rebuild"
      /\ \/ pc' \in {"done", "failed", "discardBackup"}
         \/ pc = "recordApplied" /\ pc' \in {"undo", "record"} /\ loc'.ok = FALSE
         \/ pc = "recordApplied" /\ pc' = "record" /\ loc'.ok = loc.ok
  BY SMT DEF RecordApplied, Record, RecordSkipped, Goto, GotoFailing, Locals, ClassicInvariant, Shaped
<1>4. pc = "recordApplied" => Accepted /\ store.pend = 0
  BY DEF Honesty, AcceptedFlow
<1>5. pc = "record" /\ loc.ok => Claimed
  BY DEF Honesty, AcceptedFlow
<1>6. EarlyFlow'
  BY <1>1, <1>3, SMT DEF Honesty, EarlyFlow, Locals
<1>7. Honest(apps.pid)' /\ Honest(early.rec.pid)'
  <2>1. CASE store'.apply = store.apply \/ store'.apply = "other" \/ (pc = "record" /\ loc.ok)
    BY <1>1, <1>2, <1>5, <2>1 DEF Honesty, RecordsHonest, Honest, Claimed, HasCurrent
  <2>2. CASE pc = "recordApplied"
    BY <1>1, <1>2, <1>4, <1>6, <2>2 DEF Honesty, EarlyFlow, Accepted, Given, Honest, HasCurrent, RecordsHonest
  <2> QED
    BY <1>2, <2>1, <2>2
<1>8. pc' = "record" => (loc'.ok => Claimed')
  BY <1>2, <1>3, SMT DEF Claimed, GotoFailing, ClassicInvariant, Shaped
<1>9. pc' = "undo" => journal'.txn = loc'.txn
  BY <1>1, <1>3, <1>4 DEF Accepted, Locals
<1> QED
  BY <1>3, <1>6, <1>7, <1>8, <1>9, SMT DEF Honesty, RecordsHonest, PriorFlow,
    AcceptedFlow, FailedFlow, KindFlow, SettleSteps, Working, Reversible, Failed, Locals

\* A change of the store withdraws the claim.
LEMMA ChangeHonest ==
  ASSUME ClassicInvariant, Honesty, SetValue \/ ReplaceBindings
  PROVE  Honesty'
<1> DEFINE a == [store EXCEPT !.val = @ + 1, !.apply = "other"]
           b == [store EXCEPT !.bind = loc.imports, !.pbind = loc.imports, !.apply = "other"]
<1>1. a.apply = "other" /\ b.apply = "other"
  BY SMT DEF ClassicInvariant, Shaped
<1>2. /\ pc \in {"set", "replace"} /\ store' \in {store, a, b}
      /\ \/ pc' \in Follow /\ UNCHANGED loc /\ store' # store
         \/ pc' \in Follow /\ UNCHANGED loc /\ store' \in {a, b}
         \/ GotoFailing("failed")
      /\ UNCHANGED <<alive, born, journal, apps, early, mem>>
  BY DEF SetValue, ReplaceBindings, Change, Mutate, MutateFails, machine
<1> HIDE DEF a, b
<1>3. \/ store' = store
      \/ store'.apply = "other"
  BY <1>1, <1>2
<1>4. /\ loc'.kind = loc.kind /\ loc'.txn = loc.txn
      /\ \/ pc' = "begin" /\ store'.apply = "other"
         \/ pc' \in {"recordSkipped", "done", "failed"}
  BY <1>1, <1>2, SMT DEF Follow, GotoFailing, ClassicInvariant, Shaped
<1>5. \A p : (Honest(p) => Honest(p)') /\ (store'.apply = "other" => Honest(p)')
  BY <1>2, <1>3 DEF Honest, Claimed, HasCurrent
<1>6. EarlyFlow'
  BY <1>2, <1>4, SMT DEF Honesty, EarlyFlow
<1> QED
  BY <1>2, <1>4, <1>5, <1>6, SMT DEF Honesty, RecordsHonest, PriorFlow,
    AcceptedFlow, FailedFlow, KindFlow, SettleSteps, Working, Reversible, Failed

\* A process is stopped, and forgotten.
LEMMA StopHonest ==
  ASSUME ClassicInvariant, Honesty,
         StopPrior \/ StopNewlyStarted \/ Withdraw \/ StopExisting \/ StopFailed \/ AlreadyRunning
  PROVE  Honesty'
<1>1. Frozen /\ UNCHANGED journal /\ pc # "idle"
  <2>1. alive' \subseteq alive /\ UNCHANGED <<born, count, store, journal, apps, early>>
    BY DEF StopPrior, StopNewlyStarted, Withdraw, StopExisting, StopFailed, AlreadyRunning, StopNew,
      StopApplication, Kill, machine
  <2>2. pc # "idle"
    BY SMT DEF StopPrior, StopNewlyStarted, Withdraw, StopExisting, StopFailed, AlreadyRunning,
      StopNew, StopApplication, Starting
  <2> QED
    BY <2>1, <2>2 DEF Frozen
<1>2. /\ Locals
      /\ \/ pc = "stopPrior" /\ pc' = "finish" /\ (loc'.ok = loc.ok \/ ~loc'.ok)
         \/ pc = "stopNew" /\ pc' = OnError /\ (loc'.ok = loc.ok \/ ~loc'.ok)
         \/ /\ pc = "withdraw" /\ mem'.pid = 0
            /\ (pc' = "relaunch" /\ loc.prev # 0) \/ pc' = "saveRelaunch"
            /\ loc'.ok = loc.ok
         \/ pc = "stop" /\ pc' = "saveStopped" /\ mem'.pid = 0
         \/ pc \in {"stop", "start"} /\ pc' \in {OnError, "restoreBinary"} /\ ~loc'.ok
         \/ pc = "stopFailed" /\ pc' = "saveFailed" /\ mem'.pid = 0 /\ loc'.ok = loc.ok
         \/ pc' = "finish" /\ ~loc'.ok
  <2>1. CASE StopPrior \/ StopNewlyStarted
    BY <2>1, SMT DEF StopPrior, StopNewlyStarted, StopNew, Goto, GotoFailing, Locals,
      ClassicInvariant, Shaped
  <2>2. CASE Withdraw
    BY <2>2, SMT DEF Withdraw, StopNew, Goto, GotoFailing, Locals, ClassicInvariant, Shaped, Down
  <2>3. CASE StopExisting
    BY <2>3, SMT DEF StopExisting, StopApplication, StopBad, Goto, GotoFailing, Locals,
      ClassicInvariant, Shaped, Stopped
  <2>4. CASE StopFailed
    BY <2>4, SMT DEF StopFailed, StopApplication, Goto, GotoFailing, Locals, ClassicInvariant,
      Shaped, Stopped
  <2>5. CASE AlreadyRunning
    <3>1. /\ pc \in {"start", "startPrior"}
          /\ GotoFailing(IF pc = "start" THEN OnError ELSE "finish")
      BY <2>5, SMT DEF AlreadyRunning, Starting
    <3>2. Locals /\ ~loc'.ok /\ pc' = (IF pc = "start" THEN OnError ELSE "finish")
      BY <3>1, GotoLocals DEF ClassicInvariant
    <3> QED
      BY <3>1, <3>2
  <2> QED
    BY <2>1, <2>2, <2>3, <2>4, <2>5
<1>3. \/ OnError = "undo" /\ loc.kind = "rebuild"
      \/ OnError = "compensate" /\ loc.kind = "rollback"
      \/ OnError \in {"withdraw", "failed"}
  BY SMT DEF OnError, Restarting
<1>4. 0 \notin alive'
  BY <1>1, SMT DEF ClassicInvariant, Numbered, Frozen
<1>5. Honest(0)'
  BY <1>4 DEF Honest
<1>6. (Restorable => Restorable') /\ (Accepted => Accepted') /\ EarlyFlow'
  BY <1>1, <1>2, FrozenFacts DEF Honesty
<1> QED
  BY <1>1, <1>2, <1>3, <1>5, <1>6, FrozenFacts, SMT DEF Honesty, RecordsHonest, PriorFlow,
    AcceptedFlow, FailedFlow, KindFlow, SettleSteps, Working, Reversible, Failed, Frozen, Locals

\* SaveState keeps the records honest if the process in memory is.
LEMMA SaveKeepsHonest ==
  ASSUME ClassicInvariant, Honesty, pc # "idle", Vacant \/ apps.pid = mem.pid, Honest(mem.pid), Locals,
         apps' \in {apps, mem}, UNCHANGED <<alive, born, store, early, mem>>
  PROVE  /\ Honest(apps.pid)' /\ Honest(early.rec.pid)' /\ Honest(mem.pid)' /\ EarlyFlow'
<1>1. \A p : Honest(p) => Honest(p)'
  BY DEF Honest, Claimed, HasCurrent
<1>2. Honest(apps.pid)' /\ Honest(early.rec.pid)' /\ Honest(mem.pid)'
  BY <1>1 DEF Honesty, RecordsHonest
<1>3. EarlyFlow'
  BY DEF Honesty, EarlyFlow, Vacant, Locals
<1> QED
  BY <1>2, <1>3

LEMMA SaveHonest ==
  ASSUME ClassicInvariant, Honesty,
         SaveExisting \/ SaveFailed \/ SaveStarted \/ SavePrior \/ SaveRelaunch
  PROVE  Honesty'
<1>1. /\ UNCHANGED <<alive, born, count, store, journal, early, mem>> /\ apps' \in {apps, mem}
      /\ pc \in {"saveStopped", "saveFailed", "saveStarted", "savePrior", "saveRelaunch"}
  BY DEF SaveExisting, SaveFailed, SaveStarted, SavePrior, SaveRelaunch, SaveStopped, Save,
    SaveFails, machine
<1>2. Locals
  BY GotoLocals DEF SaveExisting, SaveFailed, SaveStarted, SavePrior, SaveRelaunch, SaveStopped,
    ClassicInvariant
<1>3. \/ OnError = "undo" /\ loc.kind = "rebuild"
      \/ OnError = "compensate" /\ loc.kind = "rollback"
      \/ OnError = "withdraw"
      \/ OnError = "failed"
  BY SMT DEF OnError, Restarting
<1>4. /\ loc.txn # 0 => AfterStart = "accept"
      /\ loc.txn = 0 => (AfterStart = "refresh" /\ loc.kind = "rollback") \/ AfterStart = "done"
  BY DEF AfterStart
<1>5. \/ pc = "saveStopped" /\ pc' \in {"done", "start"}
      \/ pc = "saveStopped" /\ pc' \in {OnError, "restoreBinary"} /\ ~loc'.ok
      \/ pc = "saveFailed" /\ pc' = "restorePrior" /\ loc'.ok = loc.ok
      \/ pc' = "finish" /\ (~loc'.ok \/ (pc = "saveRelaunch" /\ loc'.ok = loc.ok))
      \/ pc = "saveStarted" /\ pc' = AfterStart
      \/ pc = "saveStarted" /\ pc' \in {"withdraw", "stopNew"} /\ ~loc'.ok
      \/ pc = "savePrior" /\ pc' = "refreshPrior" /\ loc'.ok = loc.ok
      \/ pc = "savePrior" /\ pc' = "stopPrior" /\ ~loc'.ok
  <2>1. CASE SaveExisting
    BY <2>1, SMT DEF SaveExisting, SaveStopped, StopBad, Goto, GotoFailing, ClassicInvariant, Shaped
  <2>2. CASE SaveFailed
    BY <2>2, SMT DEF SaveFailed, SaveStopped, Goto, GotoFailing, ClassicInvariant, Shaped
  <2>3. CASE SaveStarted \/ SavePrior \/ SaveRelaunch
    BY <2>3, SMT DEF SaveStarted, SavePrior, SaveRelaunch, Goto, GotoFailing, ClassicInvariant, Shaped
  <2> QED
    BY <2>1, <2>2, <2>3
<1>6. Vacant /\ Honest(mem.pid)
  BY <1>1 DEF ClassicInvariant, Flow, WorkingFlow, AcceptingFlow, RestoringFlow, Honesty, RecordsHonest
<1>7. /\ Honest(apps.pid)' /\ Honest(early.rec.pid)' /\ EarlyFlow'
  BY <1>1, <1>2, <1>6, SaveKeepsHonest
<1>8. (Restorable => Restorable') /\ (Given(mem.pid) => Given(mem.pid)')
  BY <1>1, <1>2 DEF Restorable, Given, HasCurrent, Claimed, Locals
<1> QED
  BY <1>1, <1>2, <1>3, <1>4, <1>5, <1>7, <1>8, SMT DEF Honesty, RecordsHonest, PriorFlow,
    AcceptedFlow, FailedFlow, KindFlow, SettleSteps, Working, Reversible, Failed, Locals

\* The stamp and its removal.
LEMMA JournalHonest ==
  ASSUME ClassicInvariant, Honesty, Accept \/ RefreshJournal \/ RefreshPrior \/ Unaccept \/ Unstamp
  PROVE  Honesty'
<1>1. UNCHANGED <<alive, born, count, store, apps, early, mem>> /\ pc # "idle"
  BY DEF Accept, RefreshJournal, RefreshPrior, Refresh, Unaccept, Unstamp, machine
<1>2. /\ Locals
      /\ \/ /\ pc = "accept" /\ journal'.txn = loc.txn /\ loc'.ok = loc.ok
            /\ (pc' = "promote" /\ loc.kind = "rebuild") \/ (pc' = "finish" /\ loc.kind # "rebuild")
         \/ pc = "accept" /\ pc' = "undo" /\ ~loc'.ok /\ loc.kind = "rebuild"
         \/ pc = "accept" /\ pc' = "unaccept" /\ ~loc'.ok
         \/ pc = "refresh" /\ pc' \in {"promote", "compensate"} /\ (pc' = "compensate" => ~loc'.ok)
         \/ pc = "refreshPrior" /\ pc' = "finish" /\ (~loc'.ok \/ loc'.ok = loc.ok)
         \/ pc = "unaccept" /\ pc' = "withdraw" /\ loc'.ok = loc.ok
         \/ pc' = "finish" /\ ~loc'.ok
         \/ pc = "unstamp" /\ pc' = "saveRelaunch" /\ loc'.ok = loc.ok
  <2>1. CASE Accept
    <3>1. Stamped(mem.pid, loc.txn).txn = loc.txn
      BY SMT DEF Stamped
    <3>2. /\ pc = "accept"
          /\ \/ /\ journal'.txn = loc.txn
                /\ Goto(IF loc.kind = "rebuild" THEN "promote" ELSE "finish")
             \/ GotoFailing(IF loc.kind = "rebuild" THEN "undo" ELSE "unaccept")
      BY <2>1, <3>1 DEF Accept, Write, WriteFails
    <3> QED
      BY <3>2, SMT DEF Goto, GotoFailing, Locals, ClassicInvariant, Shaped
  <2>2. CASE RefreshJournal
    BY <2>2, SMT DEF RefreshJournal, Refresh, Goto, GotoFailing, Locals, ClassicInvariant, Shaped
  <2>3. CASE RefreshPrior
    BY <2>3, SMT DEF RefreshPrior, Refresh, Goto, GotoFailing, Locals, ClassicInvariant, Shaped
  <2>4. CASE Unaccept \/ Unstamp
    BY <2>4, SMT DEF Unaccept, Unstamp, Goto, GotoFailing, Locals, ClassicInvariant, Shaped
  <2> QED
    BY <2>1, <2>2, <2>3, <2>4
<1>3. \A p : (Honest(p) => Honest(p)') /\ (Given(p) => Given(p)')
  BY <1>1 DEF Honest, Claimed, HasCurrent, Given
<1>4. (Restorable => Restorable') /\ EarlyFlow'
  BY <1>1, <1>2, SMT DEF Honesty, EarlyFlow, Restorable, HasCurrent, Claimed, Locals
<1>5. pc = "accept" => /\ loc.txn # 0 /\ store.pend = loc.txn /\ apps.pid = mem.pid
                       /\ loc.kind \in {"rebuild"} \cup Restarting
  BY DEF ClassicInvariant, Flow, AcceptingFlow, Unaccepted, Honesty, KindFlow
<1>6. pc = "accept" /\ journal'.txn = loc.txn => Accepted'
  BY <1>1, <1>2, <1>3, <1>5, SMT DEF Accepted, Honesty, AcceptedFlow, Locals, Restarting
<1> QED
  BY <1>1, <1>2, <1>3, <1>4, <1>5, <1>6, SMT DEF Honesty, RecordsHonest, PriorFlow,
    AcceptedFlow, FailedFlow, KindFlow, SettleSteps, Working, Reversible, Failed, Locals, Restarting

\* What a launch leaves as it was, and what the new process has.
Spawned(bind, val, t) ==
  LET new == count.pid + 1
  IN  /\ new \in Proc /\ count'.pid = new /\ alive' \subseteq alive \cup {new}
      /\ born'[new].bind = bind /\ born'[new].val = val /\ born'[new].tag = t
      /\ \A q \in Proc \ {new} : born'[q] = born[q]
      /\ UNCHANGED <<store, journal, apps, early>>
      /\ Locals

LEMMA LaunchCreds ==
  ASSUME ClassicInvariant, NEW bind, NEW val, NEW t, NEW next, NEW bad,
         Launch(bind, val, t, next, bad)
  PROVE  /\ Spawned(bind, val, t)
         /\ \/ pc' = next /\ loc'.ok = loc.ok /\ mem'.pid = count.pid + 1
            \/ pc' = bad /\ ~loc'.ok /\ mem'.pid \in {Loaded.pid, 0, count.pid + 1}
<1> DEFINE new == count.pid + 1
           b == [ver |-> bin.at, bind |-> bind, val |-> val, tag |-> t]
<1>1. /\ new \in Proc /\ count' = [count EXCEPT !.pid = new] /\ born' = [born EXCEPT ![new] = b]
      /\ UNCHANGED <<store, journal, apps, early>> /\ alive' \subseteq alive \cup {new}
      /\ \/ mem' = Up(new) /\ Goto(next)
         \/ mem' \in {Loaded, Down, Up(new)} /\ GotoFailing(bad)
  BY DEF Launch
<1>2. count'.pid = new
  BY <1>1, SMT DEF ClassicInvariant, Shaped
<1>3. born'[new] = b /\ (\A q \in Proc \ {new} : born'[q] = born[q])
  BY <1>1, SMT DEF ClassicInvariant, Shaped
<1>4. b.bind = bind /\ b.val = val /\ b.tag = t
  OBVIOUS
<1>5. Up(new).pid = new /\ Down.pid = 0
  BY DEF Up, Down
<1>6. /\ Locals
      /\ \/ pc' = next /\ loc'.ok = loc.ok /\ mem' = Up(new)
         \/ pc' = bad /\ loc'.ok = FALSE /\ mem' \in {Loaded, Down, Up(new)}
  BY <1>1, GotoLocals DEF ClassicInvariant
<1> HIDE DEF b, new
<1>7. Spawned(bind, val, t)
  BY <1>1, <1>2, <1>3, <1>4, <1>6 DEF Spawned, new
<1> QED
  BY <1>5, <1>6, <1>7 DEF new

\* A process that was there keeps its credentials, its honesty, and what can be restored.
LEMMA SpawnedKeeps ==
  ASSUME ClassicInvariant, NEW bind, NEW val, NEW t, Spawned(bind, val, t)
  PROVE  /\ \A q \in 0 .. count.pid : Honest(q) => Honest(q)'
         /\ Honesty => Honest(apps.pid)' /\ Honest(early.rec.pid)'
         /\ Restorable => Restorable'
         /\ pc # "idle" /\ EarlyFlow => EarlyFlow'
         /\ Honest(0)'
<1> DEFINE new == count.pid + 1
<1>1. /\ new \in Proc /\ count'.pid = new /\ alive' \subseteq alive \cup {new}
      /\ \A q \in Proc \ {new} : born'[q] = born[q]
      /\ UNCHANGED <<store, journal, apps, early>>
      /\ Locals
  BY DEF Spawned
<1>2. /\ 1 .. count.pid \subseteq Proc \ {new} /\ new \notin 0 .. count.pid
      /\ 0 .. count.pid \subseteq 0 .. new
      /\ alive \subseteq 1 .. count.pid /\ 0 \notin alive /\ new # 0
      /\ \A q \in 0 .. count.pid : q # 0 => q \in 1 .. count.pid
      /\ apps.pid \in 0 .. count.pid /\ early.rec.pid \in 0 .. count.pid
  <2>1. new \in Proc /\ count.pid \in Nat /\ alive \subseteq 1 .. count.pid
        /\ apps.pid \in 0 .. count.pid /\ early.rec.pid \in 0 .. count.pid
    BY <1>1 DEF ClassicInvariant, Numbered
  <2>2. \A q \in 1 .. count.pid : q \in Proc /\ q # new
    BY <2>1, BoundsAssumption, SMT DEF Proc
  <2>3. /\ new \notin 0 .. count.pid /\ new # 0 /\ 0 \notin 1 .. count.pid
        /\ \A q \in 0 .. count.pid : q # 0 => q \in 1 .. count.pid
        /\ \A q \in 0 .. count.pid : q \in 0 .. new
    BY <2>1, SMT
  <2> HIDE DEF new
  <2> QED
    BY <2>1, <2>2, <2>3
<1> HIDE DEF new
<1>3. \A q \in 0 .. count.pid : Honest(q) => Honest(q)'
  BY <1>1, <1>2 DEF Honest, Claimed, HasCurrent
<1>4. Restorable => Restorable'
  BY <1>1, <1>2 DEF Restorable, Claimed, HasCurrent, Locals
<1>5. pc # "idle" /\ EarlyFlow => EarlyFlow'
  BY <1>1, <1>2 DEF EarlyFlow, Locals
<1>6. Honest(0)'
  BY <1>1, <1>2 DEF Honest
<1>7. Honesty => Honest(apps.pid)' /\ Honest(early.rec.pid)'
  BY <1>1, <1>2, <1>3 DEF Honesty, RecordsHonest
<1> QED
  BY <1>3, <1>4, <1>5, <1>6, <1>7

\* A new process has the pending credentials, or without a transaction those in force.
LEMMA StartHonest ==
  ASSUME ClassicInvariant, Honesty, Start
  PROVE  Honesty'
<1> DEFINE b == IF loc.txn = 0 THEN store.bind ELSE store.pbind
           new == count.pid + 1
<1>1. pc = "start" /\ Launch(b, store.val, loc.txn, "saveStarted", OnError)
  BY DEF Start
<1>2. /\ Spawned(b, store.val, loc.txn)
      /\ \/ pc' = "saveStarted" /\ loc'.ok = loc.ok /\ mem'.pid = new
         \/ pc' = OnError /\ ~loc'.ok
  BY <1>1, LaunchCreds
<1>3. /\ Locals /\ store' = store
      /\ born'[new].bind = b /\ born'[new].val = store.val /\ born'[new].tag = loc.txn
  BY <1>2 DEF Spawned
<1>4. store.pend = loc.txn /\ Restorable /\ loc.kind \in Commands
  BY <1>1 DEF Honesty, AcceptedFlow, PriorFlow, KindFlow, Working, Reversible
<1> HIDE DEF b, new
<1>5. \A q : q = new => Honest(q)' /\ (loc.txn # 0 => Given(q)')
  BY <1>3, <1>4 DEF Honest, Given, HasCurrent, b
<1>6. mem'.pid = new => Honest(mem.pid)' /\ (loc.txn # 0 => Given(mem.pid)')
  BY <1>5 DEF Honest, Given, HasCurrent, Claimed
<1>7. /\ Honest(apps.pid)' /\ Honest(early.rec.pid)' /\ Restorable' /\ EarlyFlow'
  BY <1>1, <1>2, <1>4, SpawnedKeeps DEF Honesty
<1>8. \/ OnError = "undo" /\ loc.kind = "rebuild"
      \/ OnError = "compensate" /\ loc.kind = "rollback"
      \/ OnError \in {"withdraw", "failed"}
  BY SMT DEF OnError, Restarting
<1> QED
  BY <1>2, <1>3, <1>4, <1>6, <1>7, <1>8, SMT DEF Honesty, RecordsHonest, PriorFlow,
    AcceptedFlow, FailedFlow, KindFlow, SettleSteps, Working, Reversible, Failed, Locals

\* The prior process comes back with the credentials it had.
LEMMA RelaunchHonest ==
  ASSUME ClassicInvariant, Honesty, Relaunch \/ StartPrior
  PROVE  Honesty'
<1> DEFINE b == born[loc.prev].bind
           v == born[loc.prev].val
           new == count.pid + 1
<1>1. /\ \/ pc = "relaunch" /\ Launch(b, v, 0, "unstamp", "saveRelaunch")
         \/ pc = "startPrior" /\ Launch(b, v, 0, "savePrior", "finish")
  BY DEF Relaunch, StartPrior
<1>2. /\ Spawned(b, v, 0)
      /\ \/ pc = "relaunch" /\ pc' = "unstamp" /\ loc'.ok = loc.ok /\ mem'.pid = new
         \/ pc = "relaunch" /\ pc' = "saveRelaunch" /\ ~loc'.ok /\ mem'.pid \in {Loaded.pid, 0, new}
         \/ pc = "startPrior" /\ pc' = "savePrior" /\ loc'.ok = loc.ok /\ mem'.pid = new
         \/ pc = "startPrior" /\ pc' = "finish" /\ ~loc'.ok
  BY <1>1, LaunchCreds
<1>3. Locals /\ store' = store /\ born'[new].bind = b /\ born'[new].val = v
  BY <1>2 DEF Spawned
<1>4. /\ pc \in {"relaunch", "startPrior"} /\ loc.prev # 0 /\ Restorable /\ ~loc.ok
      /\ loc.kind \in Commands
  BY <1>1, <1>2 DEF Honesty, PriorFlow, FailedFlow, KindFlow, Reversible, Failed
<1> HIDE DEF b, v, new
<1>5. \A q : q = new => Honest(q)'
  BY <1>3, <1>4 DEF Honest, Restorable, HasCurrent, Claimed, b, v
<1>6. pc = "relaunch" => /\ Honest(mem.pid) /\ mem.pid \in 0 .. count.pid
                         /\ Loaded.pid = mem.pid
  BY SMT DEF Honesty, RecordsHonest, ClassicInvariant, Numbered, Loaded, Starting
<1>7. /\ Honest(apps.pid)' /\ Honest(early.rec.pid)' /\ Restorable' /\ EarlyFlow' /\ Honest(0)'
      /\ \A q \in 0 .. count.pid : Honest(q) => Honest(q)'
  BY <1>2, <1>4, SpawnedKeeps DEF Honesty
<1>8. pc' # "finish" => Honest(mem.pid)'
  <2>1. pc' # "finish" => mem'.pid = new \/ mem'.pid = 0 \/ (pc = "relaunch" /\ mem'.pid = mem.pid)
    BY <1>2, <1>6
  <2>2. \A q : Honest(q)' => (mem'.pid = q => Honest(mem.pid)')
    BY DEF Honest
  <2> QED
    BY <1>5, <1>6, <1>7, <2>1, <2>2
<1> QED
  BY <1>2, <1>3, <1>4, <1>7, <1>8, SMT DEF Honesty, RecordsHonest, PriorFlow,
    AcceptedFlow, FailedFlow, KindFlow, SettleSteps, Working, Reversible, Failed, Locals

\* Whatever the step, no record comes to belie the claim.
LEMMA NextHonest ==
  ASSUME ClassicInvariant, Honesty, [Next]_vars
  PROVE  Honesty'
<1>1. CASE Resolve \/ (\E k \in Kinds : Begin(k)) \/ Return \/ Crash \/ Die
  BY <1>1, ResolveHonest, BeginHonest, LeaveHonest, DieHonest DEF Return, Crash
<1>2. CASE Settling
  BY <1>2, ReconcileHonest, CommitHonest, DiscardHonest DEF Settling
<1>3. CASE Preparing
  BY <1>3, BeginTxnHonest, CaptureHonest, PrepareHonest DEF Preparing
<1>4. CASE Replacing
  BY <1>4, PrepareHonest, StopHonest, SaveHonest, StartHonest DEF Replacing
<1>5. CASE Accepting
  BY <1>5, JournalHonest, DecideHonest, SettleHonest, ClaimHonest DEF Accepting
<1>6. CASE Restoring
  BY <1>6, SettleHonest, DecideHonest, StopHonest, SaveHonest, RelaunchHonest, JournalHonest
    DEF Restoring
<1>7. CASE Changing
  BY <1>7, ChangeHonest, ClaimHonest DEF Changing
<1>8. CASE UNCHANGED vars
  <2>1. UNCHANGED <<alive, born, count, store, journal, apps, early, pc, mem, loc>>
    BY <1>8 DEF vars
  <2>2. \A p : (Honest(p) => Honest(p)') /\ (Given(p) => Given(p)')
    BY <2>1 DEF Honest, Given, HasCurrent, Claimed
  <2>3. (Restorable => Restorable') /\ (Accepted => Accepted') /\ (Claimed => Claimed') /\ EarlyFlow'
    BY <2>1, <2>2 DEF Honesty, Restorable, Accepted, Given, HasCurrent, Claimed, EarlyFlow
  <2> QED
    BY <2>1, <2>2, <2>3, SMT DEF Honesty, RecordsHonest, PriorFlow, AcceptedFlow, FailedFlow, KindFlow,
      SettleSteps, Working, Reversible, Failed
<1> QED
  BY <1>1, <1>2, <1>3, <1>4, <1>5, <1>6, <1>7, <1>8 DEF Next

\* The application that was deployed before runs with what the store holds.
LEMMA InitHonest == Init => Honesty
<1> SUFFICES ASSUME Init PROVE Honesty
  OBVIOUS
<1>1. 1 \in Proc
  BY BoundsAssumption, SMT DEF Proc
<1>2. /\ born[1] = First1 /\ store.bind = First1.bind /\ store.val = First1.val /\ apps.pid = 1
      /\ First1.val = 1
  BY <1>1, SMT DEF Init, Up, First1
<1>3. alive = {1} /\ early.rec.pid = 0 /\ pc = "idle" /\ loc.kind = "settle" /\ loc.txn = 0
  BY SMT DEF Init, NoInfo, Stopped, NoLocals
<1>4. Honest(apps.pid) /\ Honest(early.rec.pid)
  BY <1>2, <1>3 DEF Honest, HasCurrent
<1> QED
  BY <1>3, <1>4, SMT DEF Honesty, RecordsHonest, EarlyFlow, PriorFlow, AcceptedFlow, FailedFlow,
    KindFlow, SettleSteps, Working, Reversible, Failed, Commands

\* A process that a record names, or may come to name, has the credentials that the
\* store claims it has, and a restoration launches the prior process with those
\* (classicRuntimeSecrets, compensateClassicRollback, RestartApplicationWithSecrets).
THEOREM RecordsStayHonest == Spec => []Honesty
<1>1. Init => Honesty
  BY InitHonest
<1>2. ClassicInvariant /\ Honesty /\ [Next]_vars => Honesty'
  BY NextHonest
<1> QED
  BY <1>1, <1>2, ClassicInvariantHolds, PTL DEF Spec

\* When no command runs and no transaction is open, "succeeded" in the store is the
\* truth about the recorded process (FinishSecretTxn, RecordApply): it was launched with
\* the bindings and the values the store holds.
THEOREM ApplyStaysHonest == Spec => []HonestApply
<1>1. Honesty => HonestApply
  BY DEF Honesty, RecordsHonest, Honest, HasCurrent, Claimed, HonestApply
<1> QED
  BY <1>1, RecordsStayHonest, PTL

-----------------------------------------------------------------------------
(* What a command that fails leaves behind.                                *)

\* Every number is given out, no open transaction is committed, and a live process of the
\* stamped transaction is in the slot of deploy.json.
Tallied ==
  /\ committed \subseteq 1 .. count.txn /\ store.pend \notin committed
  /\ budget \in 0 .. MaxFaults /\ before \in 0 .. count.pid
  /\ \A p \in alive : born[p].tag # 0 /\ born[p].tag = journal.txn => p = journal.slot

\* A command found the application served, and has met at most one fault.
Tracked == before # 0 /\ budget + 1 >= MaxFaults

\* Nothing was done to the process yet; memory holds it; the binary, or its backup, is the
\* one it runs.
Untouched == alive = {before} /\ apps.pid = before

OldInMemory == mem.pid = before /\ mem.status = "running"

OldBinary == bin.at = born[before].ver

OldBackup == bin.backup = born[before].ver

\* Process p was launched as the one that served was.
Like(p) ==
  /\ born[p].ver = born[before].ver
  /\ born[p].bind = born[before].bind /\ born[p].val = born[before].val

\* The process in memory, a new one, is the only one: the candidate, or one like the old.
NewInMemory ==
  /\ alive = {mem.pid} /\ mem.status = "running" /\ mem.pid # before
  /\ born[mem.pid].ver = bin.at

Relaunched == alive = {mem.pid} /\ Like(mem.pid) /\ born[mem.pid].tag = 0

\* The command's transaction is not accepted, and will not be.
Withheld ==
  loc.txn \notin committed /\ (loc.txn # 0 => journal.txn # loc.txn /\ store.pend \in {0, loc.txn})

\* The two outcomes: what served is back, or the new process is accepted.
Back ==
  /\ alive = {apps.pid} /\ OldBinary /\ Like(apps.pid)
  /\ born[apps.pid].tag \in {0} \cup committed /\ loc.txn \notin committed

InForce ==
  /\ alive = {apps.pid} /\ born[apps.pid].ver = bin.at /\ born[apps.pid].tag = loc.txn
  /\ loc.txn # 0 /\ journal.txn = loc.txn /\ store.pend \in {0, loc.txn}

\* The restoration is still to come: what served does so still, or nobody does but the
\* new process, if it is in memory.
Reversing ==
  \/ Untouched /\ OldInMemory
  \/ /\ alive \subseteq {apps.pid} \ {before} /\ (mem.status = "running" => mem.pid # before)
     /\ mem.status # "running" => alive = {}

\* A rebuild that the reconciliation will find to be accepted, or to be undone.
Undecided == InForce \/ (Reversing /\ OldBackup /\ loc.prev = before /\ Withheld /\ loc.txn # 0)

\* Groups of steps, and of commands.
FirstSettle == pc \in SettleSteps /\ loc.ret = First(loc.kind)

Settles(ends) == pc \in SettleSteps /\ loc.ret \in ends

Entering == FirstSettle \/ pc \in {"begin", "set", "replace", "check", "copy"}

Replacements == {"rebuild", "rollback"}

StartOf(kinds) == pc = "start" /\ loc.kind \in kinds

PromoteOf(k) == pc = "promote" /\ loc.kind = k

\* Nothing has failed yet.
Ahead ==
  {"begin", "set", "replace", "check", "copy", "capture", "backup", "build", "stop", "saveStopped",
   "stopOld", "start", "saveStarted", "accept", "refresh", "promote"}

\* The steps of a replacement, and of a restart, that may still have to be undone.
Undoable ==
  \/ pc \in {"stop", "saveStopped", "stopNew", "refresh", "compensate", "stopFailed", "saveFailed",
             "restorePrior"}
  \/ pc \in {"start", "saveStarted", "accept"} /\ loc.kind \in Replacements
  \/ PromoteOf("rollback")

Recoverable ==
  \/ pc \in {"stopOld", "unaccept", "withdraw", "relaunch"}
  \/ pc \in {"start", "saveStarted", "accept"} /\ loc.kind \in Restarting

Bringing == {"startPrior", "savePrior", "refreshPrior", "unstamp", "saveRelaunch"}

\* What a command knows, which one it is, and that it met no fault while nothing failed.
KnownFlow ==
  /\ loc.info.rec.pid = before /\ loc.info.rec.status = "running"
  /\ loc.kind \in Replacements \cup Restarting \cup {"start"}
  /\ born[before].tag \in {0} \cup committed
  /\ ~loc.ok /\ loc.kind # "start" => budget # MaxFaults
  /\ pc \in Ahead \/ FirstSettle => loc.ok
  /\ pc \in {"restoreBinary", "failed"} => ~loc.ok

StepFlow ==
  /\ pc \notin {"idle", "recordSkipped", "stopPrior"}
  /\ pc \in {"stop", "saveStopped", "stopNew", "promote"} => loc.kind \in Replacements
  /\ pc = "restoreBinary" => loc.kind = "rollback"
  /\ pc \in {"stopOld", "unaccept", "withdraw", "relaunch", "unstamp", "saveRelaunch"}
       => loc.kind \in Restarting
  /\ loc.kind = "start" => FirstSettle \/ pc \in {"start", "failed"}
  /\ FirstSettle => loc.bad = IF loc.kind = "restart" THEN "record" ELSE "failed"
  /\ pc \in {"capture", "backup", "build", "stop", "saveStopped", "start", "saveStarted", "stopNew"}
       => loc.kind # "rebuild" \/ loc.txn # 0

\* Until the process is stopped nothing has changed but the binary.
UntouchedFlow ==
  /\ \/ Entering \/ pc \in {"capture", "backup", "build", "stop", "stopOld", "restoreBinary"}
     \/ StartOf({"start"})
    => Untouched
  /\ Entering \/ pc \in {"capture", "backup", "build", "stopOld"} => OldInMemory
  /\ Entering => loc.txn = 0
  /\ FirstSettle \/ pc = "check" => loc.info.cur = current

\* Then nobody serves, until a new process does.
GoneFlow ==
  /\ \/ pc \in {"saveStopped", "saveFailed", "startPrior", "relaunch"}
     \/ StartOf(Replacements \cup Restarting)
    => alive = {}
  /\ pc \in {"saveStopped", "saveFailed"} => mem.status # "running"

ReplacedFlow ==
  /\ pc \in {"saveStarted", "stopNew", "accept", "refresh"} \/ PromoteOf("rollback") => NewInMemory
  /\ pc \in {"accept", "refresh"} \/ PromoteOf("rollback") => apps.pid = mem.pid
  /\ pc = "unaccept" => alive = {mem.pid} /\ loc.txn \notin committed
  /\ pc = "withdraw" => alive \subseteq {mem.pid}
  /\ pc \in Bringing \ {"startPrior"} => Relaunched
  /\ pc = "refreshPrior" => apps.pid = mem.pid

ReversalFlow ==
  /\ pc \in {"undo", "decide"} \/ Settles({"decide"}) => Undecided
  /\ pc = "compensate" => Reversing
  /\ pc = "stopFailed" => alive \subseteq {apps.pid}
  /\ pc = "restorePrior" => (Untouched /\ OldInMemory) \/ (alive = {} /\ mem.status # "running")

\* The old binary is in place, or in the backup.
BinaryFlow ==
  /\ \/ Entering \/ Recoverable \/ StartOf({"start"})
     \/ pc \in {"backup", "build"} \cup Bringing
     \/ pc = "capture" /\ loc.kind = "rebuild"
    => OldBinary
  /\ \/ Undoable \/ pc \in {"build", "restoreBinary"}
     \/ pc = "capture" /\ loc.kind = "rollback"
    => OldBackup

\* The command knows which process it replaces, and has not accepted another.
PriorKept == Undoable \/ Recoverable \/ pc \in {"backup", "build", "startPrior"} => loc.prev = before

WithheldFlow ==
  /\ Undoable \/ (Recoverable /\ pc # "unaccept") => Withheld
  /\ pc \in {"capture", "backup", "build", "restoreBinary"} \cup Bringing => Withheld

EndingFlow ==
  /\ PromoteOf("rebuild") \/ pc = "recordApplied" \/ Settles({"recordApplied"}) => InForce
  /\ pc = "discardBackup" /\ ~loc.ok => InForce
  /\ pc = "finish" \/ Settles({"failed", "record"}) => InForce \/ (~loc.ok /\ Back /\ Withheld)
  /\ pc = "record" => InForce \/ (~loc.ok /\ Back)
  /\ pc = "failed" \/ (pc = "done" /\ ~loc.ok) => InForce \/ Back

Course ==
  /\ KnownFlow /\ StepFlow /\ UntouchedFlow /\ GoneFlow /\ ReplacedFlow /\ ReversalFlow /\ BinaryFlow
  /\ PriorKept /\ WithheldFlow /\ EndingFlow

Recovery == Tallied /\ (Tracked => Course)

\* The record of the binary has its two fields.
BinShaped == DOMAIN bin = {"at", "backup"}

-----------------------------------------------------------------------------
(* What the steps have in common.                                          *)

\* The one fault of a command that is tracked.
Hit == budget = MaxFaults /\ budget' # MaxFaults

\* A tracked command was tracked before the step, and a fault was its first.
LEMMA Pursuit ==
  ASSUME Recovery, Tracked', before' \in {0, before}, NoFault \/ \E k : Fault(k)
  PROVE  /\ Tracked /\ Course /\ before' = before /\ budget' \in 0 .. MaxFaults
         /\ NoFault \/ Hit
         /\ \A k : Fault(k) => Hit
<1>1. /\ budget \in 0 .. MaxFaults /\ MaxFaults \in Nat /\ before' # 0 /\ budget' + 1 >= MaxFaults
  BY BoundsAssumption DEF Recovery, Tallied, Tracked
<1>2. budget' = budget \/ (budget > 0 /\ budget' = budget - 1)
  BY DEF NoFault, Fault
<1>3. Tracked /\ before' = before /\ budget' \in 0 .. MaxFaults
  BY <1>1, <1>2, SMT DEF Tracked
<1>4. \A k : Fault(k) => Hit
  BY <1>1, SMT DEF Fault, Hit
<1> QED
  BY <1>3, <1>4 DEF Recovery

LEMMA BudgetKept ==
  ASSUME Tallied, NoFault \/ \E k : Fault(k)
  PROVE  budget' \in 0 .. MaxFaults
BY BoundsAssumption, SMT DEF Tallied, NoFault, Fault

LEMMA BinKept ==
  ASSUME BinShaped, [Next]_vars
  PROVE  BinShaped'
<1>1. CASE UNCHANGED bin
  BY <1>1 DEF BinShaped
<1>2. CASE CopyBinary \/ BackupBinary \/ Build \/ DiscardBackup \/ RestorePrior \/ RestoreBinary \/ Leave
  BY <1>2, SMT DEF BinShaped, CopyBinary, BackupBinary, Build, DiscardBackup, RestorePrior, RestoreBinary,
    Leave
<1>3. CASE Resolve \/ (\E k \in Kinds : Begin(k)) \/ Settling \/ Changing
  BY <1>1, <1>3 DEF Resolve, Begin, Settling, Reconcile, CommitTxn, ReclaimAccepted, StoreClean,
    Reclaim, DiscardTxn, Changing, SetValue, ReplaceBindings, RecordSkipped, Change
<1>4. CASE Replacing
  BY <1>1, <1>4 DEF Replacing, SkipStop, StopExisting, StopApplication, SaveExisting, SaveStopped,
    StopOld, AlreadyRunning, Start, Launch, SaveStarted, StopNewlyStarted, StopNew
<1>5. CASE Restoring
  BY <1>1, <1>2, <1>5 DEF Restoring, Undo, Decide, Compensate, StopFailed, StopApplication,
    SaveFailed, SaveStopped, StartPrior, Launch, SavePrior, StopPrior, StopNew, RefreshPrior,
    Refresh, Unaccept, Withdraw, Relaunch, Unstamp, SaveRelaunch
<1>6. CASE Preparing \/ Accepting \/ Die \/ UNCHANGED vars
  BY <1>1, <1>2, <1>6 DEF Preparing, BeginTxn, Check, Capture, Accepting, Accept, RefreshJournal,
    Refresh, Promote, Finish, RecordApplied, Record, Die, vars
<1> QED
  BY <1>2, <1>3, <1>4, <1>5, <1>6 DEF Next, Return, Crash

\* A step that gives out no number and moves no slot keeps the tally.
LEMMA StillTallied ==
  ASSUME ClassicInvariant, Tallied, alive' \subseteq alive,
         \A p \in alive : born'[p].tag = born[p].tag,
         journal'.txn = journal.txn, journal'.slot = journal.slot, committed' = committed,
         count'.pid = count.pid, count'.txn = count.txn, store'.pend \in {0, store.pend},
         budget' \in 0 .. MaxFaults, before' \in {0, before}
  PROVE  Tallied'
<1>1. 0 \notin 1 .. count.txn /\ 0 \in 0 .. count.pid
  BY SMT DEF ClassicInvariant, Numbered
<1> QED
  BY <1>1 DEF Tallied

\* What a step keeps of the records that the atoms are about.
LEMMA StillAtoms ==
  ASSUME UNCHANGED <<born, bin, before>>
  PROVE  /\ UNCHANGED <<alive, apps>> => (Untouched => Untouched')
         /\ UNCHANGED mem => (OldInMemory => OldInMemory')
         /\ (OldBinary => OldBinary') /\ (OldBackup => OldBackup')
         /\ \A p : Like(p) => Like(p)'
         /\ UNCHANGED <<alive, mem>> => (NewInMemory => NewInMemory') /\ (Relaunched => Relaunched')
         /\ UNCHANGED <<alive, apps, mem>> => (Reversing => Reversing')
BY DEF Untouched, OldInMemory, OldBinary, OldBackup, Like, NewInMemory, Relaunched, Reversing

\* The same of the transaction.
LEMMA StillOutcomes ==
  ASSUME UNCHANGED <<alive, born, bin, before, apps, committed>>, loc'.txn = loc.txn,
         journal'.txn = journal.txn, store'.pend = store.pend
  PROVE  /\ (Withheld => Withheld') /\ (Back => Back') /\ (InForce => InForce')
         /\ UNCHANGED mem /\ loc'.prev = loc.prev => (Undecided => Undecided')
<1>1. (Withheld => Withheld') /\ (InForce => InForce')
  BY DEF Withheld, InForce
<1>2. Back => Back'
  BY StillAtoms DEF Back, Like, OldBinary
<1>3. UNCHANGED mem /\ loc'.prev = loc.prev => (Undecided => Undecided')
  BY <1>1, StillAtoms DEF Undecided
<1> QED
  BY <1>1, <1>2, <1>3

\* What serves still is one of the outcomes.
LEMMA UntouchedBack ==
  ASSUME Course, Untouched, OldBinary, Withheld
  PROVE  Back
BY DEF Course, KnownFlow, Untouched, Back, Like, Withheld, OldBinary

LEMMA UntouchedWithheld ==
  ASSUME ClassicInvariant, Tallied, loc.txn = 0
  PROVE  Withheld
<1>1. 0 \notin 1 .. count.txn
  BY SMT DEF ClassicInvariant, Numbered
<1> QED
  BY <1>1 DEF Tallied, Withheld

-----------------------------------------------------------------------------
(* ReconcileSecretTxn spares what serves.                                  *)

\* The outcomes a reconciliation keeps.
OutcomesKept ==
  /\ UNCHANGED <<born, apps, mem, bin, current, before>> /\ Locals
  /\ committed \subseteq committed'
  /\ (Untouched => Untouched') /\ (InForce => InForce') /\ (Undecided => Undecided')
  /\ Back /\ Withheld => (Back /\ Withheld)'

LEMMA SettlingCourse ==
  ASSUME ClassicInvariant, Honesty, Tallied, Course, OutcomesKept, pc \in SettleSteps,
         \/ NoFault /\ loc'.ok = loc.ok /\ (pc' \in SettleSteps \/ pc' = loc.ret)
         \/ Hit /\ loc'.ok = loc.ok /\ pc' = loc.ret
         \/ Hit /\ loc'.ok = FALSE /\ pc' = loc.bad
  PROVE  Course'
<1>1. (OldInMemory => OldInMemory') /\ (OldBinary => OldBinary')
  BY DEF OutcomesKept, OldInMemory, OldBinary
<1>2. KnownFlow /\ StepFlow
  BY DEF Course
<1>3. FirstSettle => /\ Untouched /\ OldInMemory /\ OldBinary /\ Withheld /\ Back
                     /\ loc.txn = 0 /\ loc.info.cur = current
  <2>1. FirstSettle => Untouched /\ OldInMemory /\ OldBinary /\ loc.txn = 0 /\ loc.info.cur = current
    <3>1. FirstSettle => Untouched
      BY DEF Course, UntouchedFlow, Entering
    <3>2. FirstSettle => OldInMemory
      BY DEF Course, UntouchedFlow, Entering
    <3>3. FirstSettle => loc.txn = 0
      BY DEF Course, UntouchedFlow, Entering
    <3>4. FirstSettle => OldBinary
      BY DEF Course, BinaryFlow, Entering
    <3>5. FirstSettle => loc.info.cur = current
      BY DEF Course, UntouchedFlow
    <3> QED
      BY <3>1, <3>2, <3>3, <3>4, <3>5
  <2> QED
    BY <2>1, UntouchedBack, UntouchedWithheld
<1>4. /\ First(loc.kind) \notin Ends
      /\ Hit => loc.ok \/ loc.kind = "start"
      /\ loc.ret \in Ends \/ FirstSettle
  <2>1. First(loc.kind) \notin Ends
    BY <1>2, SMT DEF KnownFlow, First, Ends, Replacements, Restarting
  <2>2. Hit => loc.ok \/ loc.kind = "start"
    BY <1>2 DEF KnownFlow, Hit
  <2> QED
    BY <2>1, <2>2, SettleLocals DEF FirstSettle
<1>5. CASE pc' \in SettleSteps
  BY <1>1, <1>2, <1>3, <1>4, <1>5, SMT DEF OutcomesKept, Locals, Course, KnownFlow, StepFlow,
    UntouchedFlow, GoneFlow, ReplacedFlow, ReversalFlow, BinaryFlow, PriorKept, WithheldFlow,
    EndingFlow, FirstSettle, Settles, Entering, StartOf, PromoteOf, Ahead, Undoable, Recoverable,
    Bringing, SettleSteps, Hit, NoFault
<1>6. CASE pc' = loc.ret /\ loc'.ok = loc.ok
  <2>1. CASE FirstSettle
    <3>1. \/ loc.ret = "begin" /\ loc.kind \in {"rebuild", "restart"}
          \/ loc.ret = "set" /\ loc.kind = "set"
          \/ loc.ret = "replace" /\ loc.kind = "apply"
          \/ loc.ret = "check" /\ loc.kind = "rollback"
          \/ loc.ret = "start" /\ loc.kind = "start"
      BY <1>2, <2>1, SMT DEF FirstSettle, KnownFlow, First, Replacements, Restarting
    <3> QED
      BY <1>1, <1>2, <1>3, <1>6, <2>1, <3>1, SMT DEF OutcomesKept, Locals, Course, KnownFlow, StepFlow,
        UntouchedFlow, GoneFlow, ReplacedFlow, ReversalFlow, BinaryFlow, PriorKept, WithheldFlow,
        EndingFlow, FirstSettle, Settles, Entering, StartOf, PromoteOf, Ahead, Undoable, Recoverable,
        Bringing, SettleSteps, Hit, NoFault, Replacements, Restarting
  <2>2. CASE loc.ret \in Ends
    BY <1>1, <1>2, <1>4, <1>6, <2>2, SMT DEF OutcomesKept, Locals, Course, KnownFlow, StepFlow,
      UntouchedFlow, GoneFlow, ReplacedFlow, ReversalFlow, BinaryFlow, PriorKept, WithheldFlow,
      EndingFlow, FirstSettle, Settles, Entering, StartOf, PromoteOf, Ahead, Undoable, Recoverable,
      Bringing, SettleSteps, Hit, NoFault, Ends, Honesty, FailedFlow
  <2> QED
    BY <1>4, <2>1, <2>2
<1>7. CASE Hit /\ loc'.ok = FALSE /\ pc' = loc.bad
  <2>1. CASE FirstSettle
    <3>1. \/ loc.kind = "restart" /\ pc' = "record"
          \/ loc.kind # "restart" /\ pc' = "failed"
      BY <1>2, <1>7, <2>1, SMT DEF StepFlow
    <3>2. Back'
      BY <1>3, <2>1 DEF OutcomesKept
    <3> QED
      BY <1>2, <1>7, <3>1, <3>2, SMT DEF OutcomesKept, Locals, Course, KnownFlow, StepFlow,
        UntouchedFlow, GoneFlow, ReplacedFlow, ReversalFlow, BinaryFlow, PriorKept, WithheldFlow,
        EndingFlow, FirstSettle, Settles, Entering, StartOf, PromoteOf, Ahead, Undoable, Recoverable,
        Bringing, SettleSteps, Hit
  <2>2. CASE ~FirstSettle
    <3>1. loc.kind # "start" /\ loc.ok
      BY <1>2, <1>4, <1>7, <2>2, SMT DEF StepFlow, SettleSteps
    <3>2. loc.ret = "recordApplied" /\ loc.ret \in Ends
      BY <1>4, <2>2, <3>1, SMT DEF Honesty, FailedFlow, Ends
    <3>3. InForce'
      BY <3>2 DEF Course, EndingFlow, Settles, OutcomesKept
    <3>4. pc' \in Bads
      BY <1>7, SettleLocals
    <3> QED
      BY <1>2, <1>7, <3>1, <3>3, <3>4, SMT DEF OutcomesKept, Locals, Course, KnownFlow, StepFlow,
        UntouchedFlow, GoneFlow, ReplacedFlow, ReversalFlow, BinaryFlow, PriorKept, WithheldFlow,
        EndingFlow, FirstSettle, Settles, Entering, StartOf, PromoteOf, Ahead, Undoable, Recoverable,
        Bringing, SettleSteps, Hit, Bads, Undecided
  <2> QED
    BY <2>1, <2>2
<1> QED
  BY <1>5, <1>6, <1>7

\* The processes that a reconciliation stops have the open transaction, which is not stamped.
LEMMA ReconcileSpares ==
  ASSUME ClassicInvariant, Tallied, KnownFlow, before' = before, Locals,
         UNCHANGED <<born, apps, mem, bin, current, committed>>,
         journal'.txn = journal.txn, store'.pend \in {store.pend, 0}, alive' \subseteq alive,
         \A p \in alive \ alive' : born[p].tag = store.pend /\ store.pend \notin {0, journal.txn}
  PROVE  OutcomesKept
<1>1. \A p : alive = {p} /\ born[p].tag \in {0, journal.txn} \cup committed => alive' = alive
  BY DEF Tallied
<1>2. Untouched => Untouched'
  BY <1>1 DEF Untouched, KnownFlow
<1>3. Withheld => Withheld'
  BY DEF Withheld, Locals
<1>4. Back => Back'
  BY <1>1 DEF Back, OldBinary, Like, Locals
<1>5. InForce => InForce'
  BY <1>1 DEF InForce, Locals
<1>6. Reversing => Reversing'
  BY <1>2 DEF Reversing, OldInMemory
<1>7. Undecided => Undecided'
  BY <1>3, <1>5, <1>6 DEF Undecided, OldBackup, Locals
<1> QED
  BY <1>2, <1>3, <1>4, <1>5, <1>7 DEF OutcomesKept

LEMMA ReconcileCourse ==
  ASSUME ClassicInvariant, Honesty, Recovery,
         Reconcile \/ ReclaimAccepted \/ StoreClean \/ Reclaim \/ DiscardTxn
  PROVE  Recovery'
<1>1. /\ UNCHANGED <<born, count, apps, mem, bin, current, committed, before>> /\ alive' \subseteq alive
      /\ journal'.txn = journal.txn /\ journal'.slot = journal.slot
      /\ store'.pend \in {store.pend, 0}
      /\ pc \in SettleSteps
  <2>1. /\ [journal EXCEPT !.cleanup = FALSE].txn = journal.txn
        /\ [journal EXCEPT !.cleanup = FALSE].slot = journal.slot
        /\ [store EXCEPT !.pend = 0, !.pbind = store.bind].pend = 0
    BY SMT DEF ClassicInvariant, Shaped
  <2> QED
    BY <2>1 DEF Reconcile, ReclaimAccepted, StoreClean, Reclaim, DiscardTxn, Kill, Write, WriteFails,
      Mutate, MutateFails, machine, hist, SettleSteps
<1>2. \A p \in alive \ alive' : born[p].tag = store.pend /\ store.pend \notin {0, journal.txn}
  <2>1. ReclaimAccepted => Unrecorded(journal.txn) = {}
    BY DEF ReclaimAccepted, Unrecorded, ClassicInvariant, Flow, SettlingFlow, Ledger,
      CleanupJustified, Recovery, Tallied
  <2>2. Reclaim => store.pend # 0 /\ store.pend # journal.txn
    BY DEF Reclaim, ClassicInvariant, Flow, SettlingFlow
  <2> QED
    BY <2>1, <2>2 DEF Reconcile, ReclaimAccepted, StoreClean, Reclaim, DiscardTxn, Kill, Unrecorded,
      machine
<1>3. \/ NoFault /\ \E l \in SettleSteps \cup {loc.ret} : Goto(l)
      \/ (\E k : Fault(k)) /\ Goto(loc.ret)
      \/ (\E k : Fault(k)) /\ GotoFailing(loc.bad)
  <2>1. CASE Reconcile
    BY <2>1, SMT DEF Reconcile, SettleSteps
  <2>2. CASE ReclaimAccepted \/ StoreClean \/ Reclaim \/ DiscardTxn
    BY <2>2 DEF ReclaimAccepted, StoreClean, Reclaim, DiscardTxn, Kill, Write, WriteFails,
      Mutate, MutateFails, SettleSteps
  <2> QED
    BY <2>1, <2>2
<1>4. NoFault \/ \E k : Fault(k)
  BY <1>3
<1>5. /\ Locals
      /\ \/ NoFault /\ loc'.ok = loc.ok /\ (pc' \in SettleSteps \/ pc' = loc.ret)
         \/ (\E k : Fault(k)) /\ loc'.ok = loc.ok /\ pc' = loc.ret
         \/ (\E k : Fault(k)) /\ loc'.ok = FALSE /\ pc' = loc.bad
  BY <1>3, GotoLocals DEF ClassicInvariant
<1>6. Tallied'
  BY <1>1, <1>4, StillTallied, BudgetKept DEF Recovery
<1>7. ASSUME Tracked' PROVE Course'
  <2>1. Course /\ Tallied /\ KnownFlow /\ (\A k : Fault(k) => Hit)
    BY <1>1, <1>4, <1>7, Pursuit DEF Recovery, Course
  <2>2. OutcomesKept
    BY <1>1, <1>2, <1>5, <2>1, ReconcileSpares
  <2> QED
    BY <1>1, <1>5, <2>1, <2>2, SettlingCourse
<1> QED
  BY <1>6, <1>7 DEF Recovery

LEMMA CommitCourse ==
  ASSUME ClassicInvariant, Honesty, Recovery, CommitTxn
  PROVE  Recovery'
<1>1. /\ UNCHANGED <<alive, born, count, journal, apps, mem, bin, current, before>>
      /\ pc = "commit" /\ pc \in SettleSteps
  BY DEF CommitTxn, machine, SettleSteps
<1>2. \/ store' = store /\ committed' = committed /\ (\E k : Fault(k)) /\ GotoFailing(loc.bad)
      \/ /\ store'.pend = 0 /\ committed' = committed \cup {store.pend}
         /\ \/ NoFault /\ Goto("reclaimAccepted")
            \/ (\E k : Fault(k)) /\ GotoFailing(loc.bad)
  <2> DEFINE s == [store EXCEPT !.bind = store.pbind, !.apply = "other", !.pend = 0]
  <2>1. s.pend = 0
    BY SMT DEF ClassicInvariant, Shaped
  <2>2. /\ committed' = IF store' = s THEN committed \cup {store.pend} ELSE committed
        /\ \/ store' = s /\ NoFault /\ Goto("reclaimAccepted")
           \/ store' \in {store, s} /\ (\E k : Fault(k)) /\ GotoFailing(loc.bad)
    BY DEF CommitTxn, Mutate, MutateFails
  <2> HIDE DEF s
  <2> QED
    BY <2>1, <2>2
<1>3. store.pend \in 1 .. count.txn /\ journal.txn = store.pend
  BY <1>1, SMT DEF ClassicInvariant, Numbered, Flow, SettlingFlow
<1>4. /\ Locals
      /\ \/ NoFault /\ loc'.ok = loc.ok /\ pc' \in SettleSteps
         \/ (\E k : Fault(k)) /\ loc'.ok = FALSE /\ pc' = loc.bad
  BY <1>2, GotoLocals DEF ClassicInvariant, SettleSteps
<1>5. Tallied'
  <2>1. budget' \in 0 .. MaxFaults
    BY <1>4, BudgetKept DEF Recovery
  <2>2. 0 \notin 1 .. count.txn
    BY SMT DEF ClassicInvariant, Numbered
  <2> QED
    BY <1>1, <1>2, <1>3, <2>1, <2>2 DEF Recovery, Tallied
<1>6. ASSUME Tracked' PROVE Course'
  <2>1. Course /\ Tallied /\ (\A k : Fault(k) => Hit)
    BY <1>1, <1>4, <1>6, Pursuit DEF Recovery
  <2>2. OutcomesKept
    <3>1. committed \subseteq committed' /\ committed' \subseteq committed \cup {journal.txn}
      BY <1>2, <1>3
    <3>2. /\ store'.pend \in {store.pend, 0} /\ journal.txn # 0
      BY <1>2, <1>3
    <3>3. Untouched => Untouched'
      BY <1>1 DEF Untouched
    <3>4. Withheld => Withheld'
      <4>1. 0 \notin 1 .. count.txn /\ journal.txn # 0
        BY <1>3, SMT DEF ClassicInvariant, Numbered
      <4> QED
        BY <1>1, <1>4, <3>1, <3>2, <4>1 DEF Withheld, Locals
    <3>5. Back /\ Withheld => Back'
      BY <1>1, <1>4, <3>1, <3>4 DEF Back, Withheld, OldBinary, Like, Locals
    <3>6. InForce => InForce'
      BY <1>1, <1>4, <3>2 DEF InForce, Locals
    <3>7. Undecided => Undecided'
      BY <1>1, <1>4, <3>4, <3>6 DEF Undecided, Reversing, OldBackup, Untouched, OldInMemory, Locals
    <3> QED
      BY <1>1, <1>4, <3>1, <3>3, <3>4, <3>5, <3>6, <3>7 DEF OutcomesKept
  <2> QED
    BY <1>1, <1>4, <2>1, <2>2, SettlingCourse
<1> QED
  BY <1>5, <1>6 DEF Recovery

-----------------------------------------------------------------------------
(* A command begins, and ends.                                             *)

\* What a command that begins in front of a served application knows.
LEMMA BeginCourse ==
  ASSUME ClassicInvariant, Recovery, NEW k \in Kinds, Begin(k)
  PROVE  Recovery'
<1>1. PICK info \in {Fresh, early} \ {NoInfo}, imports \in Imports, target \in 0 .. count.ver :
         /\ NoFault \/ Fault("stale")
         /\ k = "restore" => info.rec.auto /\ info.rec.status # "running"
         /\ before' = IF /\ info = Fresh /\ k \notin {"stop", "settle"}
                           /\ alive # {} /\ Serving = alive
                        THEN apps.pid ELSE 0
         /\ mem' = info.rec
         /\ loc' = [NoLocals EXCEPT !.kind = k, !.info = info, !.imports = imports,
                                    !.target = target, !.ret = First(k),
                                    !.bad = IF k = "restart" THEN "record" ELSE "failed"]
  BY DEF Begin
<1>2. UNCHANGED <<alive, born, count, store, journal, apps, bin, current, committed>> /\ pc' = "reconcile"
  BY DEF Begin, machine
<1>3. /\ loc'.kind = k /\ loc'.info = info /\ loc'.txn = 0 /\ loc'.ok = TRUE /\ loc'.ret = First(k)
      /\ loc'.bad = IF k = "restart" THEN "record" ELSE "failed"
  BY <1>1, SMT DEF NoLocals
<1>4. apps.pid \in 0 .. count.pid /\ 0 \in 0 .. count.pid
  BY SMT DEF ClassicInvariant, Numbered
<1>5. Tallied'
  BY <1>1, <1>2, <1>4, BudgetKept DEF Recovery, Tallied
<1>6. ASSUME Tracked' PROVE Course'
  <2>1. /\ info = Fresh /\ k \notin {"stop", "settle"} /\ alive # {} /\ Serving = alive
        /\ before' = apps.pid
    BY <1>1, <1>6 DEF Tracked
  <2>2. alive = {apps.pid} /\ born[apps.pid].ver = bin.at /\ born[apps.pid].tag \in {0} \cup committed
    BY <2>1 DEF Serving
  <2>3. info.rec = View(apps) /\ info.cur = current
    BY <2>1 DEF Fresh
  <2>4. info.rec.pid = apps.pid /\ info.rec.status = "running"
    BY <2>2, <2>3, ViewPid
  <2>5. k \in {"rebuild", "rollback", "restart", "set", "apply", "start"}
    BY <1>1, <2>1, <2>4, KindsAssumption DEF Commands
  <2>6. First(k) \notin Ends
    BY <2>5, SMT DEF First, Ends
  <2>7. (Untouched /\ OldInMemory /\ OldBinary)'
    BY <1>1, <1>2, <2>1, <2>2, <2>4 DEF Untouched, OldInMemory, OldBinary
  <2>8. born'[before'].tag \in {0} \cup committed'
    BY <1>2, <2>1, <2>2
  <2>9. loc'.info.rec.pid = before' /\ loc'.info.rec.status = "running" /\ loc'.info.cur = current'
    BY <1>2, <1>3, <2>1, <2>3, <2>4
  <2> QED
    BY <1>2, <1>3, <2>5, <2>6, <2>7, <2>8, <2>9, SMT DEF Course, KnownFlow, StepFlow,
      UntouchedFlow, GoneFlow, ReplacedFlow, ReversalFlow, BinaryFlow, PriorKept, WithheldFlow,
      EndingFlow, FirstSettle, Settles, Entering, StartOf, PromoteOf, Ahead, Undoable, Recoverable,
      Bringing, SettleSteps, Replacements, Restarting, Ends
<1> QED
  BY <1>5, <1>6 DEF Recovery

LEMMA LeaveCourse ==
  ASSUME ClassicInvariant, Recovery, Leave
  PROVE  Recovery'
<1>1. /\ UNCHANGED <<alive, count, store, journal, committed>>
      /\ budget' = MaxFaults /\ before' = 0
  BY DEF Leave
<1>2. \A p \in alive : born'[p].tag = born[p].tag
  BY SMT DEF Leave, ClassicInvariant, Numbered
<1>3. budget' \in 0 .. MaxFaults
  BY <1>1, BoundsAssumption, SMT
<1>4. Tallied'
  BY <1>1, <1>2, <1>3, StillTallied DEF Recovery
<1> QED
  BY <1>1, <1>4 DEF Recovery, Tracked

LEMMA DieCourse ==
  ASSUME ClassicInvariant, Recovery, Die
  PROVE  Recovery'
<1>1. /\ UNCHANGED <<born, count, store, journal, committed>>
      /\ alive' \subseteq alive /\ before' = 0 /\ (budget' = budget \/ Fault("die"))
  BY DEF Die
<1>2. budget' \in 0 .. MaxFaults
  BY <1>1, BudgetKept DEF NoFault, Recovery
<1>3. Tallied'
  BY <1>1, <1>2, StillTallied DEF Recovery
<1> QED
  BY <1>1, <1>3 DEF Recovery, Tracked

\* Another command resolves the application, or nothing happens.
LEMMA ResolveCourse ==
  ASSUME Recovery, Resolve \/ UNCHANGED vars
  PROVE  Recovery'
<1>1. UNCHANGED <<alive, born, count, store, journal, apps, bin, current, pc, mem, loc, budget,
                  committed, before>>
  BY DEF Resolve, vars, machine, hist
<1>2. Tallied' /\ Tracked' = Tracked
  BY <1>1 DEF Recovery, Tallied, Tracked
<1>3. Course => Course'
  <2>1. /\ (Untouched => Untouched') /\ (OldInMemory => OldInMemory') /\ (OldBinary => OldBinary')
        /\ (OldBackup => OldBackup') /\ (NewInMemory => NewInMemory') /\ (Relaunched => Relaunched')
        /\ (Reversing => Reversing') /\ (Withheld => Withheld') /\ (Back => Back')
        /\ (InForce => InForce') /\ (Undecided => Undecided')
    BY <1>1, StillAtoms, StillOutcomes
  <2> QED
    BY <1>1, <2>1, SMT DEF Course, KnownFlow, StepFlow,
      UntouchedFlow, GoneFlow, ReplacedFlow, ReversalFlow, BinaryFlow, PriorKept, WithheldFlow,
      EndingFlow, FirstSettle, Settles, Entering, StartOf, PromoteOf, Ahead, Undoable, Recoverable
<1> QED
  BY <1>2, <1>3 DEF Recovery

-----------------------------------------------------------------------------
(* A command prepares: the process stays untouched.                        *)

\* What holds of the records before the process is stopped.
LEMMA Untouchedness ==
  ASSUME ClassicInvariant, Tallied, Course, Untouched
  PROVE  /\ before \in alive /\ View(apps).pid = before /\ View(apps).status = "running"
         /\ OldBinary /\ Withheld => Back
         /\ Entering => OldInMemory /\ OldBinary /\ Withheld /\ loc.txn = 0
         /\ Hit => loc.ok \/ loc.kind = "start"
<1>1. before \in alive /\ apps.pid = before
  BY DEF Untouched
<1>2. Entering => OldInMemory /\ OldBinary /\ loc.txn = 0
  BY DEF Course, UntouchedFlow, BinaryFlow
<1>3. Hit => loc.ok \/ loc.kind = "start"
  BY DEF Course, KnownFlow, Hit
<1> QED
  BY <1>1, <1>2, <1>3, ViewPid, UntouchedBack, UntouchedWithheld

LEMMA BeginTxnCourse ==
  ASSUME ClassicInvariant, Honesty, Recovery, BeginTxn
  PROVE  Recovery'
<1> DEFINE t == count.txn + 1
           o == IF loc.kind # "rebuild" /\ View(apps).status = "running" THEN View(apps).pid ELSE 0
<1>1. /\ UNCHANGED <<alive, born, journal, apps, bin, current, committed, before>>
      /\ pc = "begin" /\ count'.pid = count.pid /\ count'.txn = t
      /\ NoFault \/ \E k : Fault(k)
  BY SMT DEF BeginTxn, machine, hist, Mutate, MutateFails, ClassicInvariant, Shaped
<1>2. /\ store'.pend \in {store.pend, t}
      /\ loc'.kind = loc.kind /\ loc'.info = loc.info
      /\ \/ /\ store'.pend = t /\ loc'.txn = t /\ loc'.prev = o /\ NoFault /\ loc'.ok = loc.ok
            /\ \/ loc.kind = "rebuild" /\ pc' = "capture" /\ mem' = mem
               \/ loc.kind # "rebuild" /\ pc' = "stopOld" /\ mem' = View(apps)
         \/ /\ mem' = mem /\ Locals /\ loc'.ok = FALSE /\ (\E k : Fault(k))
            /\ pc' = IF loc.kind = "rebuild" THEN "failed" ELSE "record"
  <2> DEFINE b == IF loc.kind = "rebuild" THEN loc.imports ELSE store.bind
             s == [store EXCEPT !.pend = t, !.pbind = b]
             l == [loc EXCEPT !.txn = t, !.prev = o]
  <2>1. s.pend = t
    BY SMT DEF ClassicInvariant, Shaped
  <2>2. l.txn = t /\ l.prev = o /\ l.kind = loc.kind /\ l.info = loc.info /\ l.ok = loc.ok
    BY SMT DEF ClassicInvariant, Shaped
  <2>3. \/ /\ store' = s /\ loc' = l /\ NoFault
           /\ \/ loc.kind = "rebuild" /\ pc' = "capture" /\ mem' = mem
              \/ loc.kind # "rebuild" /\ pc' = "stopOld" /\ mem' = View(apps)
        \/ /\ store' \in {store, s} /\ mem' = mem /\ (\E k : Fault(k))
           /\ GotoFailing(IF loc.kind = "rebuild" THEN "failed" ELSE "record")
    BY DEF BeginTxn, Mutate, MutateFails
  <2>4. Shaped
    BY DEF ClassicInvariant
  <2> HIDE DEF s, l, t, o
  <2>5. \A f : GotoFailing(f) => pc' = f /\ Locals /\ loc'.ok = FALSE
    BY <2>4, GotoLocals
  <2>6. Locals => loc'.kind = loc.kind /\ loc'.info = loc.info
    BY DEF Locals
  <2> QED
    BY <2>1, <2>2, <2>3, <2>5, <2>6
<1>3. /\ t \notin committed /\ t # 0 /\ journal.txn # t /\ committed \subseteq 1 .. t
      /\ 0 \notin committed
  BY SMT DEF Recovery, Tallied, ClassicInvariant, Numbered
<1> HIDE DEF t
<1>4. Tallied'
  BY <1>1, <1>2, <1>3, BudgetKept DEF Recovery, Tallied
<1>5. ASSUME Tracked' PROVE Course'
  <2>1. Course /\ Tallied /\ (\A k : Fault(k) => Hit)
    BY <1>1, <1>5, Pursuit DEF Recovery
  <2>2. KnownFlow /\ StepFlow /\ Untouched /\ Entering /\ loc.ok
    BY <1>1, <2>1, SMT DEF Course, KnownFlow, UntouchedFlow, Entering, Ahead
  <2>3. /\ OldInMemory /\ OldBinary /\ Withheld /\ Back /\ loc.txn = 0
        /\ View(apps).pid = before /\ View(apps).status = "running"
    BY <2>1, <2>2, Untouchedness
  <2>4. loc.kind \in Restarting \cup {"rebuild"}
    BY <1>1 DEF ClassicInvariant, Flow, WorkingFlow, Opening
  <2>5. Untouched' /\ OldBinary'
    BY <1>1, <2>2, <2>3, StillAtoms
  <2>6. CASE loc'.ok = FALSE
    <3>1. Back'
      BY <1>1, <1>2, <2>2, <2>3, <2>6 DEF Back, OldBinary, Like, Locals
    <3>2. Hit /\ Locals /\ pc' = IF loc.kind = "rebuild" THEN "failed" ELSE "record"
      BY <1>2, <2>1, <2>2, <2>6
    <3> QED
      BY <1>1, <2>2, <2>4, <2>6, <3>1, <3>2, SMT DEF Locals, Course, KnownFlow, StepFlow, UntouchedFlow,
        GoneFlow, ReplacedFlow, ReversalFlow, BinaryFlow, PriorKept, WithheldFlow, EndingFlow,
        FirstSettle, Settles, Entering, StartOf, PromoteOf, Ahead, Undoable, Recoverable,
        Bringing, SettleSteps, Replacements, Restarting, Hit
  <2>7. CASE store'.pend = t /\ loc'.txn = t /\ loc'.prev = o
    <3>1. Withheld'
      BY <1>1, <1>3, <2>7 DEF Withheld
    <3>2. loc'.ok = loc.ok /\ NoFault /\ loc'.kind = loc.kind /\ loc'.info = loc.info
      BY <1>2, <1>3, <2>3, <2>7 DEF Locals
    <3>3. /\ OldInMemory'
          /\ pc' = IF loc.kind = "rebuild" THEN "capture" ELSE "stopOld"
      BY <1>1, <1>2, <1>3, <2>3, <2>7 DEF OldInMemory, Locals
    <3>4. loc.kind # "rebuild" => o = before
      BY <2>3
    <3> HIDE DEF o
    <3> QED
      BY <1>1, <1>3, <2>2, <2>4, <2>5, <2>7, <3>1, <3>2, <3>3, <3>4, SMT DEF Course, KnownFlow, StepFlow,
        UntouchedFlow, GoneFlow, ReplacedFlow, ReversalFlow, BinaryFlow, PriorKept, WithheldFlow,
        EndingFlow, FirstSettle, Settles, Entering, StartOf, PromoteOf, Ahead, Undoable, Recoverable,
        Bringing, SettleSteps, Replacements, Restarting, NoFault
  <2> QED
    BY <1>2, <2>6, <2>7
<1> QED
  BY <1>4, <1>5 DEF Recovery

\* The binary is replaced; until then nothing but a backup has changed.
LEMMA PrepareCourse ==
  ASSUME ClassicInvariant, Honesty, BinShaped, Recovery, Check \/ CopyBinary \/ Capture \/ BackupBinary \/ Build
  PROVE  Recovery'
<1>1. /\ UNCHANGED <<alive, born, store, journal, apps, current, mem, committed, before>>
      /\ count'.pid = count.pid /\ count'.txn = count.txn
      /\ NoFault \/ \E k : Fault(k)
      /\ pc \in Before
  <2>1. Build => count'.pid = count.pid /\ count'.txn = count.txn
    BY SMT DEF Build, ClassicInvariant, Shaped
  <2> QED
    BY <2>1 DEF Check, CopyBinary, Capture, BackupBinary, Build, machine, hist, Before
<1>2. Tallied'
  BY <1>1, StillTallied, BudgetKept DEF Recovery
<1>3. ASSUME Tracked' PROVE Course'
  <2>1. Course /\ Tallied /\ (\A k : Fault(k) => Hit) /\ (NoFault \/ Hit)
    BY <1>1, <1>3, Pursuit DEF Recovery
  <2>2. /\ KnownFlow /\ StepFlow /\ Untouched /\ OldInMemory /\ loc.ok
        /\ loc.kind \in {"rebuild", "rollback"}
    BY <1>1, <2>1, SMT DEF Course, KnownFlow, UntouchedFlow, Entering, Ahead, Before, Honesty, KindFlow
  <2>3. Withheld /\ (OldBinary => Back)
    <3>1. Withheld
      BY <1>1, <2>1, <2>2, Untouchedness DEF Course, WithheldFlow, Entering, Before
    <3> QED
      BY <2>1, <2>2, <3>1, UntouchedBack
  <2>4. Untouched' /\ OldInMemory' /\ (loc'.txn = loc.txn => Withheld')
    BY <1>1, <2>2, <2>3 DEF Untouched, OldInMemory, Withheld
  <2>5. /\ UNCHANGED bin => (OldBinary => OldBinary') /\ (OldBackup => OldBackup')
        /\ UNCHANGED bin /\ OldBinary /\ loc'.txn = loc.txn => Back'
        /\ Reversing'
    BY <1>1, <2>3, <2>4, StillAtoms, StillOutcomes DEF Reversing
  <2>6. CASE Check
    <3>1. loc.info.cur = current /\ OldBinary /\ loc.txn = 0 /\ pc = "check"
      BY <2>1, <2>6 DEF Check, Course, UntouchedFlow, BinaryFlow, Entering
    <3>2. NoFault /\ pc' = "copy" /\ Locals /\ loc'.ok = loc.ok /\ UNCHANGED bin
      BY <2>6, <3>1, GotoLocals DEF Check, ClassicInvariant
    <3> QED
      BY <1>1, <2>2, <2>4, <2>5, <3>1, <3>2, SMT DEF Locals, Course, KnownFlow, StepFlow,
        UntouchedFlow, GoneFlow, ReplacedFlow, ReversalFlow, BinaryFlow, PriorKept, WithheldFlow,
        EndingFlow, FirstSettle, Settles, Entering, StartOf, PromoteOf, Ahead, Undoable, Recoverable,
        Bringing, SettleSteps, NoFault
  <2>7. CASE CopyBinary
    <3>1. OldBinary /\ loc.txn = 0 /\ loc.kind = "rollback"
      BY <2>1, <2>7 DEF CopyBinary, Course, UntouchedFlow, BinaryFlow, Entering, Honesty, KindFlow
    <3>2. /\ Locals
          /\ \/ pc' = "capture" /\ loc'.ok = loc.ok /\ bin' = [at |-> loc.target, backup |-> bin.at]
             \/ pc' = "failed" /\ loc'.ok = FALSE /\ UNCHANGED bin /\ Hit
      BY <2>1, <2>7, GotoLocals DEF CopyBinary, ClassicInvariant
    <3>3. bin' = [at |-> loc.target, backup |-> bin.at] => OldBackup'
      BY <1>1, <3>1, SMT DEF OldBinary, OldBackup
    <3>4. /\ Locals /\ Withheld' /\ loc.txn = 0
          /\ \/ pc' = "capture" /\ loc'.ok /\ OldBackup'
             \/ pc' = "failed" /\ ~loc'.ok /\ Hit /\ Back'
      BY <2>2, <2>4, <2>5, <3>1, <3>2, <3>3 DEF Locals
    <3> QED
      BY <1>1, <2>2, <2>4, <3>1, <3>4, SMT DEF Locals, Course, KnownFlow, StepFlow,
        UntouchedFlow, GoneFlow, ReplacedFlow, ReversalFlow, BinaryFlow, PriorKept, WithheldFlow,
        EndingFlow, FirstSettle, Settles, Entering, StartOf, PromoteOf, Ahead, Undoable, Recoverable,
        Bringing, SettleSteps, NoFault, Hit
  <2>8. CASE Capture
    <3>1. loc.info.rec.status = "running" /\ loc.info.rec.pid = before /\ before \in alive
      BY <2>2 DEF KnownFlow, Untouched
    <3>2. /\ NoFault /\ UNCHANGED bin /\ pc = "capture" /\ loc'.prev = before
          /\ loc'.kind = loc.kind /\ loc'.info = loc.info /\ loc'.txn = loc.txn /\ loc'.ok = loc.ok
          /\ pc' = IF loc.kind = "rebuild" THEN "backup" ELSE "stop"
      BY <2>8, <3>1, SMT DEF Capture, ClassicInvariant, Shaped
    <3> QED
      BY <1>1, <2>1, <2>2, <2>4, <2>5, <3>2, SMT DEF Course, KnownFlow, StepFlow,
        UntouchedFlow, GoneFlow, ReplacedFlow, ReversalFlow, BinaryFlow, PriorKept, WithheldFlow,
        EndingFlow, FirstSettle, Settles, Entering, StartOf, PromoteOf, Ahead, Undoable, Recoverable,
        Bringing, SettleSteps, NoFault, Replacements
  <2>9. CASE BackupBinary
    <3>1. OldBinary /\ loc.prev = before /\ loc.kind = "rebuild" /\ loc.txn # 0
      BY <2>1, <2>9, SMT DEF BackupBinary, Course, StepFlow, BinaryFlow, PriorKept, Honesty, KindFlow
    <3>2. /\ Locals /\ pc = "backup"
          /\ \/ pc' = "build" /\ loc'.ok = loc.ok /\ bin' = [bin EXCEPT !.backup = bin.at]
             \/ pc' = "finish" /\ loc'.ok = FALSE /\ UNCHANGED bin /\ Hit
      BY <2>1, <2>9, GotoLocals DEF BackupBinary, ClassicInvariant
    <3>3. bin' = [bin EXCEPT !.backup = bin.at] => OldBackup' /\ OldBinary'
      BY <1>1, <3>1, SMT DEF BinShaped, OldBinary, OldBackup
    <3>4. /\ Locals /\ Withheld'
          /\ \/ pc' = "build" /\ loc'.ok /\ OldBackup' /\ OldBinary'
             \/ pc' = "finish" /\ ~loc'.ok /\ Hit /\ Back'
      BY <2>2, <2>4, <2>5, <3>1, <3>2, <3>3 DEF Locals
    <3> QED
      BY <1>1, <2>2, <2>4, <3>1, <3>4, SMT DEF Locals, Course, KnownFlow, StepFlow,
        UntouchedFlow, GoneFlow, ReplacedFlow, ReversalFlow, BinaryFlow, PriorKept, WithheldFlow,
        EndingFlow, FirstSettle, Settles, Entering, StartOf, PromoteOf, Ahead, Undoable, Recoverable,
        Bringing, SettleSteps, NoFault, Hit
  <2>10. CASE Build
    <3>1. OldBinary /\ OldBackup /\ loc.prev = before /\ loc.kind = "rebuild" /\ loc.txn # 0
      BY <2>1, <2>10, SMT DEF Build, Course, StepFlow, BinaryFlow, PriorKept, Honesty, KindFlow
    <3>2. /\ loc'.kind = loc.kind /\ loc'.info = loc.info /\ loc'.txn = loc.txn /\ loc'.prev = loc.prev
          /\ \/ pc' = "stop" /\ loc'.ok = loc.ok /\ bin' = [bin EXCEPT !.at = count.ver + 1]
             \/ pc' = "undo" /\ loc'.ok = FALSE /\ UNCHANGED bin /\ Hit
      <4>1. /\ \/ pc' = "stop" /\ bin' = [bin EXCEPT !.at = count.ver + 1]
                  /\ (loc' = loc \/ loc' = [loc EXCEPT !.target = count.ver + 1])
               \/ GotoFailing("undo") /\ Fault("build") /\ UNCHANGED bin
        BY <2>10 DEF Build, Goto
      <4> QED
        BY <2>1, <4>1, SMT DEF GotoFailing, ClassicInvariant, Shaped
    <3>3. bin' = [bin EXCEPT !.at = count.ver + 1] => OldBackup'
      BY <1>1, <3>1, SMT DEF BinShaped, OldBackup
    <3>4. UNCHANGED bin => Undecided'
      BY <1>1, <2>4, <2>5, <3>1, <3>2 DEF Undecided
    <3>5. /\ Withheld'
          /\ \/ pc' = "stop" /\ loc'.ok /\ OldBackup'
             \/ pc' = "undo" /\ ~loc'.ok /\ Hit /\ Undecided'
      BY <2>2, <2>4, <3>2, <3>3, <3>4
    <3>6. loc'.kind = "rebuild" /\ loc'.info = loc.info /\ loc'.txn # 0 /\ loc'.prev = before
      BY <3>1, <3>2
    <3> QED
      BY <1>1, <2>2, <2>4, <3>5, <3>6, SMT DEF Course, KnownFlow, StepFlow,
        UntouchedFlow, GoneFlow, ReplacedFlow, ReversalFlow, BinaryFlow, PriorKept, WithheldFlow,
        EndingFlow, FirstSettle, Settles, Entering, StartOf, PromoteOf, Ahead, Undoable, Recoverable,
        Bringing, SettleSteps, NoFault, Hit, Replacements
  <2> QED
    BY <2>6, <2>7, <2>8, <2>9, <2>10
<1> QED
  BY <1>2, <1>3 DEF Recovery

\* secrets set and secrets apply change the store, then restart.
LEMMA ChangeCourse ==
  ASSUME ClassicInvariant, Honesty, Recovery, SetValue \/ ReplaceBindings \/ RecordSkipped
  PROVE  Recovery'
<1> DEFINE a == [store EXCEPT !.val = @ + 1, !.apply = "other"]
           b == [store EXCEPT !.bind = loc.imports, !.pbind = loc.imports, !.apply = "other"]
           c == [store EXCEPT !.apply = "other"]
<1>1. a.pend = store.pend /\ b.pend = store.pend /\ c.pend = store.pend
  BY SMT DEF ClassicInvariant, Shaped
<1>2. /\ store' \in {store, a, b, c}
      /\ UNCHANGED <<alive, born, count, journal, apps, bin, current, mem, committed, before>>
      /\ \/ NoFault /\ pc \in {"set", "replace"} /\ pc' \in Follow /\ UNCHANGED loc
         \/ (\E k : Fault(k)) /\ pc \in {"set", "replace"} /\ GotoFailing("failed")
         \/ pc = "recordSkipped" /\ (NoFault \/ \E k : Fault(k))
  BY DEF SetValue, ReplaceBindings, RecordSkipped, Change, Mutate, MutateFails, machine, hist
<1> HIDE DEF a, b, c
<1>3. store'.pend = store.pend
  BY <1>1, <1>2
<1>4. NoFault \/ \E k : Fault(k)
  BY <1>2
<1>5. Tallied'
  BY <1>2, <1>3, <1>4, StillTallied, BudgetKept DEF Recovery
<1>6. ASSUME Tracked' PROVE Course'
  <2>1. Course /\ Tallied /\ (\A k : Fault(k) => Hit)
    BY <1>2, <1>4, <1>6, Pursuit DEF Recovery
  <2>2. /\ KnownFlow /\ StepFlow /\ pc \in {"set", "replace"}
        /\ Untouched /\ OldInMemory /\ OldBinary /\ Withheld /\ Back /\ loc.txn = 0
    <3>1. StepFlow /\ KnownFlow
      BY <2>1 DEF Course
    <3>2. pc \in {"set", "replace"}
      BY <1>2, <3>1 DEF StepFlow
    <3>3. Untouched
      BY <2>1, <3>2 DEF Course, UntouchedFlow, Entering
    <3> QED
      BY <2>1, <3>1, <3>2, <3>3, Untouchedness DEF Entering
  <2>3. /\ \/ NoFault /\ pc' \in {"begin", "done"} /\ UNCHANGED loc
           \/ Hit /\ pc' = "failed" /\ Locals /\ loc'.ok = FALSE
        /\ loc'.txn = loc.txn /\ loc'.kind = loc.kind
    <3>1. \/ NoFault /\ pc' \in Follow /\ UNCHANGED loc
          \/ Hit /\ GotoFailing("failed")
      BY <1>2, <2>1, <2>2
    <3>2. Follow = {"begin", "done"}
      BY <2>2 DEF Follow, KnownFlow
    <3> QED
      BY <3>1, <3>2, GotoLocals DEF ClassicInvariant, Locals
  <2>4. Untouched' /\ OldInMemory' /\ OldBinary' /\ Withheld' /\ Back'
    BY <1>2, <1>3, <2>2, <2>3, StillAtoms, StillOutcomes
  <2>5. loc.ok /\ loc.kind \in Restarting
    BY <2>1, <2>2, SMT DEF KnownFlow, Ahead, ClassicInvariant, Flow, WorkingFlow
  <2> QED
    BY <1>2, <2>2, <2>3, <2>4, <2>5, SMT DEF Locals, Course, KnownFlow, StepFlow,
      UntouchedFlow, GoneFlow, ReplacedFlow, ReversalFlow, BinaryFlow, PriorKept, WithheldFlow,
      EndingFlow, FirstSettle, Settles, Entering, StartOf, PromoteOf, Ahead, Undoable, Recoverable,
      Bringing, SettleSteps, NoFault, Hit, Restarting
<1> QED
  BY <1>5, <1>6 DEF Recovery

-----------------------------------------------------------------------------
(* The process is stopped, another one is started, and that is saved.      *)

\* What a command knows it keeps knowing.
LEMMA KnownStays ==
  ASSUME KnownFlow, loc'.info = loc.info, loc'.kind = loc.kind, before' = before, committed' = committed,
         born'[before].tag = born[before].tag, pc' \notin SettleSteps,
         \/ NoFault /\ loc'.ok = loc.ok /\ (loc.ok => pc' \notin {"restoreBinary", "failed"})
            /\ (~loc.ok => pc' \notin Ahead)
         \/ Hit /\ ~loc'.ok /\ pc' \notin Ahead
  PROVE  KnownFlow'
<1>1. CASE /\ NoFault /\ loc'.ok = loc.ok /\ (loc.ok => pc' \notin {"restoreBinary", "failed"})
           /\ ~loc.ok => pc' \notin Ahead
  BY <1>1 DEF KnownFlow, FirstSettle, NoFault
<1>2. CASE Hit /\ ~loc'.ok /\ pc' \notin Ahead
  BY <1>2 DEF KnownFlow, FirstSettle, Hit
<1> QED
  BY <1>1, <1>2

\* A failed step leads to the restoration.
LEMMA OnErrorCases ==
  ASSUME KnownFlow, loc.kind # "start"
  PROVE  \/ loc.kind = "rebuild" /\ OnError = "undo"
         \/ loc.kind = "rollback" /\ OnError = "compensate"
         \/ loc.kind \in Restarting /\ OnError = "withdraw"
BY SMT DEF KnownFlow, OnError, Replacements, Restarting

\* A replacement has failed and is to be undone.
LEMMA ToReversal ==
  ASSUME KnownFlow', (Reversing /\ OldBackup /\ loc.prev = before /\ Withheld)', loc'.kind # "start",
         \/ pc' = "undo" /\ loc'.txn # 0
         \/ pc' = "compensate"
  PROVE  Course'
<1>1. pc' = "undo" => Undecided'
  BY DEF Undecided
<1> QED
  BY <1>1, SMT DEF Course, StepFlow, UntouchedFlow, GoneFlow, ReplacedFlow, ReversalFlow, BinaryFlow,
    PriorKept, WithheldFlow, EndingFlow, FirstSettle, Settles, Entering, StartOf, PromoteOf,
    Undoable, Recoverable, Bringing, SettleSteps

\* A restart has failed, and withdraws the new process, if there is one.
LEMMA ToWithdrawal ==
  ASSUME KnownFlow', (OldBinary /\ loc.prev = before /\ Withheld)', alive' \subseteq {mem'.pid},
         loc'.kind \in Restarting, pc' = "withdraw"
  PROVE  Course'
BY SMT DEF Course, StepFlow, UntouchedFlow, GoneFlow, ReplacedFlow, ReversalFlow, BinaryFlow,
    PriorKept, WithheldFlow, EndingFlow, FirstSettle, Settles, Entering, StartOf, PromoteOf,
    Undoable, Recoverable, Bringing, SettleSteps, Restarting

\* What served is back, and the transaction ends.
LEMMA ToFinish ==
  ASSUME KnownFlow', InForce' \/ (~loc.ok /\ Back /\ Withheld)', loc'.kind # "start", pc' = "finish"
  PROVE  Course'
BY SMT DEF Course, StepFlow, UntouchedFlow, GoneFlow, ReplacedFlow, ReversalFlow, BinaryFlow,
    PriorKept, WithheldFlow, EndingFlow, FirstSettle, Settles, Entering, StartOf, PromoteOf,
    Undoable, Recoverable, Bringing, SettleSteps

LEMMA StopCourse ==
  ASSUME ClassicInvariant, Honesty, Recovery, SkipStop \/ StopExisting \/ StopOld
  PROVE  Recovery'
<1>1. /\ UNCHANGED <<born, count, store, journal, apps, bin, current, committed, before>>
      /\ alive' \subseteq alive /\ (NoFault \/ \E k : Fault(k))
      /\ pc \in {"stop", "stopOld"}
  BY DEF SkipStop, StopExisting, StopApplication, StopOld, Kill, machine, hist
<1>2. Tallied'
  BY <1>1, StillTallied, BudgetKept DEF Recovery
<1>3. ASSUME Tracked' PROVE Course'
  <2>1. Course /\ Tallied /\ (\A k : Fault(k) => Hit)
    BY <1>1, <1>3, Pursuit DEF Recovery
  <2>2. /\ KnownFlow /\ StepFlow /\ Untouched /\ Withheld /\ loc.prev = before /\ loc.ok
        /\ loc.info.rec.status = "running"
    BY <1>1, <2>1, SMT DEF Course, KnownFlow, UntouchedFlow, PriorKept, WithheldFlow, Undoable,
      Recoverable, Ahead
  <2>3. View(apps).pid = before /\ View(apps).status = "running" /\ before \in alive
    BY <2>1, <2>2, Untouchedness
  <2>4. OldBackup => OldBackup'
    BY <1>1, StillAtoms
  <2>5. loc'.txn = loc.txn => Withheld'
    BY <1>1, <2>2 DEF Withheld
  <2>6. CASE StopExisting
    <3>1. /\ pc = "stop" /\ loc.kind \in Replacements /\ OldBackup /\ Locals
          /\ loc.kind = "rebuild" => loc.txn # 0
          /\ \/ /\ NoFault /\ alive' = alive \ {before} /\ mem' = Stopped
                /\ pc' = "saveStopped" /\ loc'.ok = loc.ok
             \/ /\ Hit /\ UNCHANGED alive /\ mem' = View(apps) /\ pc' = StopBad /\ ~loc'.ok
      <4>1. pc = "stop"
        BY <2>6 DEF StopExisting, StopApplication
      <4>2. loc.kind \in Replacements /\ OldBackup /\ (loc.kind = "rebuild" => loc.txn # 0)
        BY <2>1, <4>1, SMT DEF Course, StepFlow, BinaryFlow, Undoable
      <4> QED
        BY <2>1, <2>3, <2>6, <4>1, <4>2, GotoLocals DEF StopExisting, StopApplication, Kill, ClassicInvariant
    <3>2. CASE NoFault /\ alive' = alive \ {before} /\ mem' = Stopped /\ pc' = "saveStopped" /\ loc'.ok = loc.ok
      <4>1. alive' = {} /\ mem'.status # "running"
        BY <2>2, <3>2 DEF Untouched, Stopped
      <4>2. KnownFlow'
        BY <1>1, <2>2, <3>1, <3>2, KnownStays, SMT DEF Locals, SettleSteps
      <4> QED
        BY <1>1, <2>2, <2>4, <2>5, <3>1, <3>2, <4>1, <4>2, SMT DEF Locals, Course, StepFlow,
          UntouchedFlow, GoneFlow, ReplacedFlow, ReversalFlow, BinaryFlow, PriorKept, WithheldFlow,
          EndingFlow, FirstSettle, Settles, Entering, StartOf, PromoteOf, Undoable, Recoverable,
          Bringing, SettleSteps, Replacements
    <3>3. CASE Hit /\ UNCHANGED alive /\ mem' = View(apps) /\ pc' = StopBad /\ ~loc'.ok
      <4>1. Untouched' /\ OldInMemory'
        BY <1>1, <2>2, <2>3, <3>3 DEF Untouched, OldInMemory
      <4>2. /\ \/ loc.kind = "rebuild" /\ pc' = "undo"
               \/ loc.kind = "rollback" /\ pc' = "restoreBinary"
            /\ pc' \notin Ahead \cup SettleSteps
        <5>1. loc.kind \in Replacements /\ loc.kind # "start"
          BY <3>1 DEF Replacements
        <5>2. \/ loc.kind = "rebuild" /\ StopBad = "undo"
              \/ loc.kind = "rollback" /\ StopBad = "restoreBinary"
          BY <2>2, <5>1, OnErrorCases, SMT DEF StopBad, Replacements, Restarting
        <5>3. "undo" \notin Ahead \cup SettleSteps /\ "restoreBinary" \notin Ahead \cup SettleSteps
          BY DEF Ahead, SettleSteps
        <5> QED
          BY <3>3, <5>2, <5>3
      <4>3. KnownFlow'
        BY <1>1, <2>2, <3>1, <3>3, <4>2, KnownStays DEF Locals
      <4>4. CASE pc' = "undo"
        BY <1>1, <2>2, <2>4, <2>5, <3>1, <4>1, <4>2, <4>3, <4>4, ToReversal DEF Locals, Reversing
      <4>5. CASE pc' = "restoreBinary"
        BY <1>1, <2>2, <2>4, <2>5, <3>1, <4>1, <4>2, <4>3, <4>5, SMT DEF Locals, Course, StepFlow,
          UntouchedFlow, GoneFlow, ReplacedFlow, ReversalFlow, BinaryFlow, PriorKept, WithheldFlow,
          EndingFlow, FirstSettle, Settles, Entering, StartOf, PromoteOf, Undoable, Recoverable,
          Bringing, SettleSteps, Replacements
      <4> QED
        BY <4>2, <4>4, <4>5
    <3> QED
      BY <3>1, <3>2, <3>3
  <2>7. CASE StopOld
    <3>1. /\ pc = "stopOld" /\ loc.kind \in Restarting /\ OldBinary /\ OldInMemory /\ Locals
          /\ \/ NoFault /\ alive' = alive \ {before} /\ pc' = "start" /\ loc'.ok = loc.ok
             \/ Hit /\ UNCHANGED alive /\ pc' = "finish" /\ ~loc'.ok
          /\ UNCHANGED mem
      <4>1. pc = "stopOld"
        BY <2>7 DEF StopOld
      <4>2. loc.kind \in Restarting /\ OldBinary /\ OldInMemory
        BY <2>1, <4>1, SMT DEF Course, StepFlow, UntouchedFlow, BinaryFlow, Recoverable
      <4>3. mem.pid = before
        BY <4>2 DEF OldInMemory
      <4> QED
        BY <2>1, <2>7, <4>1, <4>2, <4>3, GotoLocals DEF StopOld, Kill, ClassicInvariant
    <3>2. OldBinary' /\ (UNCHANGED alive => Back')
      <4>1. Back
        BY <2>1, <2>2, <3>1, Untouchedness
      <4> QED
        BY <1>1, <3>1, <4>1, StillAtoms, StillOutcomes DEF Locals
    <3>3. CASE NoFault /\ alive' = alive \ {before} /\ pc' = "start" /\ loc'.ok = loc.ok
      <4>1. alive' = {}
        BY <2>2, <3>3 DEF Untouched
      <4>2. KnownFlow'
        BY <1>1, <2>2, <3>1, <3>3, KnownStays, SMT DEF Locals, SettleSteps
      <4> QED
        BY <1>1, <2>2, <2>5, <3>1, <3>2, <3>3, <4>1, <4>2, SMT DEF Locals, Course, StepFlow,
          UntouchedFlow, GoneFlow, ReplacedFlow, ReversalFlow, BinaryFlow, PriorKept, WithheldFlow,
          EndingFlow, FirstSettle, Settles, Entering, StartOf, PromoteOf, Undoable, Recoverable,
          Bringing, SettleSteps, Replacements, Restarting
    <3>4. CASE Hit /\ UNCHANGED alive /\ pc' = "finish" /\ ~loc'.ok
      <4>1. KnownFlow'
        <5>1. pc' \notin Ahead \cup SettleSteps
          BY <3>4 DEF Ahead, SettleSteps
        <5> QED
          BY <1>1, <2>2, <3>1, <3>4, <5>1, KnownStays DEF Locals
      <4> QED
        BY <2>5, <3>1, <3>2, <3>4, <4>1, ToFinish, SMT DEF Locals, Restarting
    <3> QED
      BY <3>1, <3>3, <3>4
  <2> QED
    BY <2>2, <2>6, <2>7 DEF SkipStop
<1> QED
  BY <1>2, <1>3 DEF Recovery

\* The stop is saved, or the replacement is undone.
LEMMA SaveStoppedCourse ==
  ASSUME ClassicInvariant, Honesty, Recovery, SaveExisting \/ SaveFailed
  PROVE  Recovery'
<1>1. /\ UNCHANGED <<alive, born, count, store, journal, bin, current, mem, committed>>
      /\ before' \in {0, before} /\ (NoFault \/ \E k : Fault(k))
      /\ pc \in {"saveStopped", "saveFailed"}
  BY DEF SaveExisting, SaveFailed, SaveStopped, Save, SaveFails, machine
<1>2. Tallied'
  BY <1>1, StillTallied, BudgetKept DEF Recovery
<1>3. ASSUME Tracked' PROVE Course'
  <2>1. Course /\ Tallied /\ before' = before /\ before' # 0 /\ (\A k : Fault(k) => Hit)
    BY <1>1, <1>3, Pursuit DEF Recovery, Tracked
  <2>2. /\ KnownFlow /\ StepFlow /\ Withheld /\ loc.prev = before /\ OldBackup
        /\ alive = {} /\ mem.status # "running" /\ loc.kind # "start"
    BY <1>1, <2>1, SMT DEF Course, StepFlow, FirstSettle, SettleSteps, GoneFlow, BinaryFlow, PriorKept, WithheldFlow, Undoable
  <2>3. alive' = {} /\ OldBackup' /\ (Locals => Withheld') /\ Reversing'
    BY <1>1, <2>1, <2>2, StillAtoms DEF Withheld, Locals, Reversing
  <2>4. CASE SaveExisting
    <3>1. /\ pc = "saveStopped" /\ loc.kind \in Replacements
          /\ loc.kind = "rebuild" => loc.txn # 0
      BY <2>2, <2>4, SMT DEF SaveExisting, SaveStopped, StepFlow
    <3>2. /\ Locals
          /\ \/ NoFault /\ pc' = "start" /\ loc'.ok = loc.ok
             \/ Hit /\ pc' = "undo" /\ ~loc'.ok /\ loc.kind = "rebuild"
      <4>1. loc.kind # "stop"
        BY <3>1 DEF Replacements
      <4>2. /\ Locals
            /\ \/ NoFault /\ pc' = "start" /\ loc'.ok = loc.ok
               \/ Hit /\ pc' = StopBad /\ ~loc'.ok
        BY <2>1, <2>4, <4>1, GotoLocals DEF SaveExisting, SaveStopped, Save, SaveFails, ClassicInvariant
      <4>3. pc' # "restoreBinary"
        BY <2>1, <2>4 DEF SaveExisting
      <4>4. loc.kind = "rollback" => StopBad = "restoreBinary"
        BY DEF StopBad
      <4>5. loc.kind = "rebuild" => StopBad = "undo"
        BY <2>2, OnErrorCases, SMT DEF StopBad, Restarting
      <4> QED
        BY <3>1, <4>2, <4>3, <4>4, <4>5 DEF Replacements
    <3>3. CASE NoFault /\ pc' = "start" /\ loc'.ok = loc.ok
      <4>1. loc.ok
        BY <2>2, <3>1 DEF KnownFlow, Ahead
      <4>2. KnownFlow'
        BY <1>1, <2>1, <2>2, <3>2, <3>3, <4>1, KnownStays, SMT DEF Locals, SettleSteps
      <4> QED
        BY <1>1, <2>1, <2>2, <2>3, <3>1, <3>2, <3>3, <4>2, SMT DEF Locals, Course, StepFlow,
          UntouchedFlow, GoneFlow, ReplacedFlow, ReversalFlow, BinaryFlow, PriorKept, WithheldFlow,
          EndingFlow, FirstSettle, Settles, Entering, StartOf, PromoteOf, Undoable, Recoverable,
          Bringing, SettleSteps, Replacements, Restarting
    <3>4. CASE Hit /\ pc' = "undo" /\ ~loc'.ok /\ loc.kind = "rebuild"
      <4>1. pc' \notin Ahead \cup SettleSteps
        BY <3>4 DEF Ahead, SettleSteps
      <4>2. KnownFlow'
        BY <1>1, <2>1, <2>2, <3>2, <3>4, <4>1, KnownStays DEF Locals
      <4> QED
        BY <1>1, <2>1, <2>2, <2>3, <3>1, <3>2, <3>4, <4>2, ToReversal DEF Locals
    <3> QED
      BY <3>2, <3>3, <3>4
  <2>5. CASE SaveFailed
    <3>1. pc = "saveFailed" /\ ~loc.ok
      BY <2>5 DEF SaveFailed, SaveStopped, Honesty, FailedFlow, Failed
    <3>2. ~Hit
      BY <2>2, <3>1 DEF KnownFlow, Hit
    <3>3. NoFault /\ Locals /\ pc' = "restorePrior" /\ loc'.ok = loc.ok
      BY <2>1, <2>5, <3>2, GotoLocals DEF SaveFailed, SaveStopped, Save, SaveFails, ClassicInvariant
    <3>4. KnownFlow'
      BY <1>1, <2>1, <2>2, <3>1, <3>3, KnownStays, SMT DEF Locals, SettleSteps, Ahead
    <3> QED
      BY <1>1, <2>1, <2>2, <2>3, <3>1, <3>3, <3>4, SMT DEF Locals, Course, StepFlow,
        UntouchedFlow, GoneFlow, ReplacedFlow, ReversalFlow, BinaryFlow, PriorKept, WithheldFlow,
        EndingFlow, FirstSettle, Settles, Entering, StartOf, PromoteOf, Undoable, Recoverable,
        Bringing, SettleSteps
  <2> QED
    BY <2>4, <2>5
<1> QED
  BY <1>2, <1>3 DEF Recovery

\* A start that finds the application running fails, and has touched nothing.
LEMMA AlreadyRunningCourse ==
  ASSUME ClassicInvariant, Honesty, Recovery, AlreadyRunning
  PROVE  Recovery'
<1>1. /\ UNCHANGED <<alive, born, count, store, journal, apps, bin, current, committed, before>>
      /\ NoFault /\ View(apps).status = "running" /\ pc \in {"start", "startPrior"}
      /\ GotoFailing(IF pc = "start" THEN OnError ELSE "finish")
  BY DEF AlreadyRunning, Starting, machine, hist
<1>2. Tallied'
  BY <1>1, StillTallied, BudgetKept DEF Recovery
<1>3. ASSUME Tracked' PROVE Course'
  <2>1. Course /\ Tallied
    BY <1>1, <1>3, Pursuit DEF Recovery
  <2>2. KnownFlow /\ StepFlow /\ loc.kind \in Replacements \cup Restarting \cup {"start"}
    BY <2>1 DEF Course, KnownFlow
  <2>3. alive # {}
    BY <1>1 DEF View
  <2>4. pc = "start" /\ loc.kind = "start" /\ Untouched /\ OldBinary
    <3>1. pc = "start" /\ loc.kind = "start"
      BY <1>1, <2>1, <2>2, <2>3 DEF Course, GoneFlow, StartOf
    <3> QED
      BY <2>1, <3>1, SMT DEF Course, UntouchedFlow, BinaryFlow, StartOf
  <2>5. loc.txn = 0 /\ OnError = "failed"
    BY <2>4, SMT DEF Honesty, KindFlow, OnError, Restarting
  <2>6. Back
    BY <2>1, <2>4, <2>5, UntouchedBack, UntouchedWithheld
  <2>7. Locals /\ loc'.ok = FALSE /\ pc' = "failed"
    BY <1>1, <2>4, <2>5, GotoLocals DEF ClassicInvariant
  <2>8. Back'
    BY <1>1, <2>6, <2>7, StillOutcomes DEF Locals
  <2> QED
    BY <1>1, <2>2, <2>4, <2>7, <2>8, SMT DEF Locals, Course, KnownFlow, StepFlow,
      UntouchedFlow, GoneFlow, ReplacedFlow, ReversalFlow, BinaryFlow, PriorKept, WithheldFlow,
      EndingFlow, FirstSettle, Settles, Entering, StartOf, PromoteOf, Undoable, Recoverable,
      Bringing, SettleSteps, Ahead
<1> QED
  BY <1>2, <1>3 DEF Recovery

-----------------------------------------------------------------------------
(* A new process is launched, saved, or stopped.                           *)

\* A launch that is not of an accepted transaction keeps the tally.
LEMMA LaunchTallied ==
  ASSUME ClassicInvariant, Tallied, NEW bind, NEW val, NEW t, NEW next, NEW bad,
         Launch(bind, val, t, next, bad), t # 0 => journal.txn # t
  PROVE  Tallied'
<1> DEFINE new == count.pid + 1
<1>1. Born(t) /\ UNCHANGED <<committed, before>>
  BY LaunchEffect DEF Launch, hist
<1>2. /\ count'.pid = new /\ count'.txn = count.txn /\ born'[new].tag = t
      /\ \A q \in Proc \ {new} : born'[q] = born[q]
      /\ alive' \subseteq alive \cup {new} /\ UNCHANGED <<store, journal>>
  BY <1>1 DEF Born
<1>3. new \notin alive /\ alive \subseteq Proc /\ (before \in 0 .. count.pid => before \in 0 .. new)
  BY SMT DEF ClassicInvariant, Numbered
<1>4. budget' \in 0 .. MaxFaults
  BY BoundsAssumption, SMT DEF Launch, NoFault, Fault, Tallied
<1> HIDE DEF new
<1>5. \A p \in alive' : born'[p].tag # 0 /\ born'[p].tag = journal.txn => p = journal.slot
  BY <1>2, <1>3 DEF Tallied
<1> QED
  BY <1>1, <1>2, <1>3, <1>4, <1>5 DEF Tallied

\* The new process is the only one.
Placed(bind, val, t) ==
  /\ mem'.pid = count.pid + 1 /\ mem'.status = "running" /\ alive' = {mem'.pid}
  /\ born'[mem'.pid].bind = bind /\ born'[mem'.pid].val = val /\ born'[mem'.pid].tag = t
  /\ born'[mem'.pid].ver = bin.at

\* A tracked launch finds nobody alive: there is one process after it, or none.
LEMMA TrackedLaunch ==
  ASSUME ClassicInvariant, Recovery, Tracked', NEW bind, NEW val, NEW t, NEW next, NEW bad,
         Launch(bind, val, t, next, bad), Course => alive = {}
  PROVE  /\ Course /\ Tracked /\ Locals
         /\ UNCHANGED <<store, journal, apps, bin, committed, before>>
         /\ before \in Proc /\ before # count.pid + 1 /\ born'[before] = born[before]
         /\ (OldBinary => OldBinary') /\ (OldBackup => OldBackup') /\ (Withheld => Withheld')
         /\ \/ NoFault /\ pc' = next /\ loc'.ok = loc.ok /\ Placed(bind, val, t)
            \/ /\ Hit /\ pc' = bad /\ ~loc'.ok /\ alive' = {}
               /\ mem' \in {Loaded, Down}
<1> DEFINE new == count.pid + 1
           b == [ver |-> bin.at, bind |-> bind, val |-> val, tag |-> t]
<1>1. /\ new \in Proc /\ born' = [born EXCEPT ![new] = b]
      /\ UNCHANGED <<store, journal, apps, bin, committed, before>>
      /\ \/ NoFault /\ mem' = Up(new) /\ Goto(next) /\ alive' \in {alive, alive \cup {new}} \ {{}}
         \/ Fault("launch") /\ mem' \in {Loaded, Down} /\ alive' = alive /\ GotoFailing(bad)
         \/ budget > 1 /\ budget' = budget - 2
  BY DEF Launch, hist
<1>2. /\ budget \in 0 .. MaxFaults /\ MaxFaults \in Nat /\ before' # 0 /\ budget' + 1 >= MaxFaults
      /\ before \in 0 .. count.pid /\ count.pid \in Nat
  BY BoundsAssumption DEF Recovery, Tallied, Tracked, ClassicInvariant, Numbered
<1>3. ~(budget > 1 /\ budget' = budget - 2)
  BY <1>2, SMT
<1>4. Course /\ Tracked /\ (Fault("launch") => Hit)
  <2>1. (NoFault \/ \E k : Fault(k)) /\ before' \in {0, before}
    BY <1>1, <1>3
  <2> QED
    BY <2>1, Pursuit
<1>6. born'[new] = b /\ (\A q \in Proc \ {new} : born'[q] = born[q])
  BY <1>1, SMT DEF ClassicInvariant, Shaped
<1>7. before \in Proc /\ before # new
  BY <1>1, <1>2, BoundsAssumption, SMT DEF Proc
<1>8. b.ver = bin.at /\ b.bind = bind /\ b.val = val /\ b.tag = t
      /\ Up(new).pid = new /\ Up(new).status = "running"
  BY DEF Up
<1> HIDE DEF b, new
<1>9. born'[before] = born[before]
  BY <1>6, <1>7
<1>10. \/ NoFault /\ pc' = next /\ loc'.ok = loc.ok /\ mem' = Up(new) /\ alive' = {new} /\ Locals
       \/ Hit /\ pc' = bad /\ ~loc'.ok /\ alive' = {} /\ mem' \in {Loaded, Down} /\ Locals
  BY <1>1, <1>3, <1>4, GotoLocals DEF ClassicInvariant
<1>11. /\ Locals /\ (OldBinary => OldBinary') /\ (OldBackup => OldBackup') /\ (Withheld => Withheld')
  BY <1>1, <1>9, <1>10 DEF OldBinary, OldBackup, Withheld, Locals
<1>12. mem' = Up(new) /\ alive' = {new} => Placed(bind, val, t)
  BY <1>6, <1>8 DEF Placed, new
<1> QED
  BY <1>1, <1>4, <1>7, <1>9, <1>10, <1>11, <1>12 DEF new

LEMMA StartCourse ==
  ASSUME ClassicInvariant, Honesty, Recovery, Start
  PROVE  Recovery'
<1> DEFINE b == IF loc.txn = 0 THEN store.bind ELSE store.pbind
<1>1. /\ pc = "start" /\ Launch(b, store.val, loc.txn, "saveStarted", OnError)
      /\ ~(Starting /\ View(apps).status = "running")
  BY DEF Start
<1>2. loc.txn # 0 => journal.txn # loc.txn
  BY <1>1, SMT DEF ClassicInvariant, Flow, WorkingFlow, Working, Unaccepted
<1>3. Tallied'
  BY <1>1, <1>2, LaunchTallied DEF Recovery
<1>4. Course => /\ KnownFlow /\ StepFlow /\ loc.kind \in Replacements \cup Restarting
                /\ alive = {}
  <2> SUFFICES ASSUME Course
               PROVE  /\ KnownFlow /\ StepFlow /\ loc.kind \in Replacements \cup Restarting
                      /\ alive = {}
    OBVIOUS
  <2>1. KnownFlow /\ StepFlow /\ loc.kind \in Replacements \cup Restarting \cup {"start"}
    BY DEF Course, KnownFlow
  <2>2. loc.kind # "start"
    <3>1. SUFFICES ASSUME loc.kind = "start" PROVE FALSE
      OBVIOUS
    <3>2. Untouched /\ Starting
      BY <1>1, <3>1 DEF Course, UntouchedFlow, StartOf, Starting, Reloads
    <3>3. View(apps).status = "running"
      BY <3>2, SMT DEF Untouched, View
    <3> QED
      BY <1>1, <3>2, <3>3
  <2>3. alive = {}
    BY <1>1, <2>1, <2>2 DEF Course, GoneFlow, StartOf
  <2> QED
    BY <2>1, <2>2, <2>3
<1> HIDE DEF b
<1>5. ASSUME Tracked' PROVE Course'
  <2>1. /\ Course /\ Locals /\ UNCHANGED <<store, journal, apps, bin, committed, before>>
        /\ before # count.pid + 1 /\ born'[before] = born[before]
        /\ (OldBinary => OldBinary') /\ (OldBackup => OldBackup') /\ (Withheld => Withheld')
        /\ \/ NoFault /\ pc' = "saveStarted" /\ loc'.ok = loc.ok /\ Placed(b, store.val, loc.txn)
           \/ Hit /\ pc' = OnError /\ ~loc'.ok /\ alive' = {} /\ mem' \in {Loaded, Down}
    BY <1>1, <1>4, <1>5, TrackedLaunch
  <2>2. KnownFlow /\ StepFlow /\ loc.kind \in Replacements \cup Restarting /\ loc.ok
    BY <1>1, <1>4, <2>1 DEF KnownFlow, Ahead
  <2>3. /\ loc.prev = before /\ Withheld
        /\ loc.kind \in Replacements => OldBackup
        /\ loc.kind \in Restarting => OldBinary
        /\ loc.kind = "rebuild" => loc.txn # 0
    BY <1>1, <2>1, <2>2, SMT DEF Course, StepFlow, BinaryFlow, PriorKept, WithheldFlow, Undoable, Recoverable
  <2>4. /\ loc.kind # "start" /\ Replacements \cap Restarting = {}
    BY <2>2, SMT DEF Replacements, Restarting
  <2>5. CASE NoFault /\ pc' = "saveStarted" /\ loc'.ok = loc.ok /\ Placed(b, store.val, loc.txn)
    <3>1. NewInMemory'
      BY <2>1, <2>5 DEF Placed, NewInMemory
    <3>2. KnownFlow'
      BY <2>1, <2>2, <2>5, KnownStays, SMT DEF Locals, SettleSteps
    <3>3. (loc'.kind \in Replacements => OldBackup') /\ (loc'.kind \in Restarting => OldBinary')
      BY <2>1, <2>3 DEF Locals
    <3> QED
      BY <2>1, <2>2, <2>3, <2>4, <2>5, <3>1, <3>2, <3>3, SMT DEF Locals, Course, StepFlow,
        UntouchedFlow, GoneFlow, ReplacedFlow, ReversalFlow, BinaryFlow, PriorKept, WithheldFlow,
        EndingFlow, FirstSettle, Settles, Entering, StartOf, PromoteOf, Undoable, Recoverable,
        Bringing, SettleSteps
  <2>6. CASE Hit /\ pc' = OnError /\ ~loc'.ok /\ alive' = {} /\ mem' \in {Loaded, Down}
    <3>1. \/ loc.kind = "rebuild" /\ pc' = "undo"
          \/ loc.kind = "rollback" /\ pc' = "compensate"
          \/ loc.kind \in Restarting /\ pc' = "withdraw"
      BY <2>2, <2>4, <2>6, OnErrorCases
    <3>2. pc' \notin Ahead \cup SettleSteps
      BY <3>1, SMT DEF Ahead, SettleSteps
    <3>3. KnownFlow'
      BY <2>1, <2>2, <2>6, <3>2, KnownStays DEF Locals
    <3>4. CASE loc.kind \in Restarting /\ pc' = "withdraw"
      BY <2>1, <2>3, <2>6, <3>3, <3>4, ToWithdrawal DEF Locals
    <3>5. CASE loc.kind \in Replacements /\ pc' = IF loc.kind = "rebuild" THEN "undo" ELSE "compensate"
      <4>1. Starting
        BY <1>1, <3>5, SMT DEF Starting, Reloads, Replacements
      <4>2. mem'.status # "running"
        BY <1>1, <2>6, <4>1, SMT DEF Loaded, Down
      <4>3. Reversing'
        BY <2>6, <4>2 DEF Reversing
      <4> QED
        BY <2>1, <2>3, <2>4, <3>3, <3>5, <4>3, ToReversal DEF Locals
    <3> QED
      BY <3>1, <3>4, <3>5 DEF Replacements
  <2> QED
    BY <2>1, <2>5, <2>6
<1> QED
  BY <1>3, <1>5 DEF Recovery

\* The record of the new process is saved; if that fails it is stopped.
LEMMA SaveStartedCourse ==
  ASSUME ClassicInvariant, Honesty, Recovery, SaveStarted
  PROVE  Recovery'
<1>1. /\ UNCHANGED <<alive, born, count, store, journal, bin, current, mem, committed, before>>
      /\ (NoFault \/ \E k : Fault(k)) /\ pc = "saveStarted"
  BY DEF SaveStarted, Save, SaveFails, machine, hist
<1>2. Tallied'
  BY <1>1, StillTallied, BudgetKept DEF Recovery
<1>3. ASSUME Tracked' PROVE Course'
  <2>1. Course /\ Tallied /\ (\A k : Fault(k) => Hit)
    BY <1>1, <1>3, Pursuit DEF Recovery
  <2>2. /\ KnownFlow /\ StepFlow /\ NewInMemory /\ loc.ok /\ loc.kind # "start"
        /\ loc.kind \in Replacements \cup Restarting
    BY <1>1, <2>1, SMT DEF Course, KnownFlow, StepFlow, ReplacedFlow, FirstSettle, SettleSteps, Ahead
  <2>3. /\ loc.prev = before /\ Withheld
        /\ loc.kind \in Replacements => OldBackup
        /\ loc.kind \in Restarting => OldBinary
        /\ loc.kind = "rebuild" => loc.txn # 0
        /\ loc.txn # 0 => loc.kind # "rollback"
    BY <1>1, <2>1, <2>2, SMT DEF Course, StepFlow, BinaryFlow, PriorKept, WithheldFlow, Undoable,
      Recoverable, Honesty, KindFlow, Restarting
  <2>4. /\ Locals
        /\ \/ NoFault /\ apps' = mem /\ pc' = AfterStart /\ loc'.ok = loc.ok
           \/ Hit /\ ~loc'.ok /\ pc' = IF loc.kind \in Restarting THEN "withdraw" ELSE "stopNew"
    <3> DEFINE bad == IF loc.kind \in Restarting THEN "withdraw" ELSE "stopNew"
    <3>1. CASE Save /\ Goto(AfterStart)
      BY <3>1, GotoLocals DEF Save, ClassicInvariant
    <3>2. CASE SaveFails /\ GotoFailing(bad)
      <4>1. Hit
        BY <2>1, <3>2 DEF SaveFails
      <4> HIDE DEF bad
      <4>2. pc' = bad /\ Locals /\ ~loc'.ok
        BY <3>2, GotoLocals DEF ClassicInvariant
      <4> QED
        BY <4>1, <4>2 DEF bad
    <3> QED
      BY <3>1, <3>2 DEF SaveStarted
  <2>5. /\ NewInMemory' /\ (Locals => Withheld')
        /\ (OldBinary => OldBinary') /\ (OldBackup => OldBackup')
    BY <1>1, <2>2, <2>3, StillAtoms DEF Withheld, Locals
  <2>6. CASE NoFault /\ apps' = mem /\ pc' = AfterStart /\ loc'.ok = loc.ok
    <3>1. \/ loc.txn # 0 /\ pc' = "accept"
          \/ loc.kind = "rollback" /\ pc' = "refresh"
          \/ loc.kind \in Restarting /\ pc' = "done"
      BY <2>2, <2>3, <2>6, SMT DEF AfterStart, Replacements
    <3>2. KnownFlow'
      BY <1>1, <2>2, <2>4, <2>6, <3>1, KnownStays, SMT DEF Locals, SettleSteps
    <3>3. (loc'.kind \in Replacements => OldBackup') /\ (loc'.kind \in Restarting => OldBinary')
      BY <2>3, <2>4, <2>5 DEF Locals
    <3> QED
      BY <1>1, <2>2, <2>3, <2>4, <2>5, <2>6, <3>1, <3>2, <3>3, SMT DEF Locals, Course, StepFlow,
        UntouchedFlow, GoneFlow, ReplacedFlow, ReversalFlow, BinaryFlow, PriorKept, WithheldFlow,
        EndingFlow, FirstSettle, Settles, Entering, StartOf, PromoteOf, Undoable, Recoverable,
        Bringing, SettleSteps, Replacements, Restarting
  <2>7. CASE Hit /\ ~loc'.ok /\ pc' = IF loc.kind \in Restarting THEN "withdraw" ELSE "stopNew"
    <3>1. pc' \in {"withdraw", "stopNew"} /\ pc' \notin Ahead \cup SettleSteps
      BY <2>7, SMT DEF Ahead, SettleSteps
    <3>2. KnownFlow'
      BY <1>1, <2>2, <2>4, <2>7, <3>1, KnownStays DEF Locals
    <3>3. CASE pc' = "withdraw"
      <4>1. alive' \subseteq {mem'.pid} /\ loc.kind \in Restarting
        BY <2>5, <2>7, <3>3 DEF NewInMemory
      <4> QED
        BY <1>1, <2>3, <2>4, <2>5, <3>2, <3>3, <4>1, ToWithdrawal DEF Locals
    <3>4. CASE pc' = "stopNew"
      <4>1. loc.kind \in Replacements /\ OldBackup'
        BY <2>2, <2>3, <2>5, <2>7, <3>4
      <4> QED
        BY <1>1, <2>2, <2>3, <2>4, <2>5, <2>7, <3>2, <3>4, <4>1, SMT DEF Locals, Course, StepFlow,
          UntouchedFlow, GoneFlow, ReplacedFlow, ReversalFlow, BinaryFlow, PriorKept, WithheldFlow,
          EndingFlow, FirstSettle, Settles, Entering, StartOf, PromoteOf, Undoable, Recoverable,
          Bringing, SettleSteps, Replacements
    <3> QED
      BY <3>1, <3>3, <3>4
  <2> QED
    BY <2>4, <2>6, <2>7
<1> QED
  BY <1>2, <1>3 DEF Recovery

\* After its fault a command meets no other.
LEMMA Undisturbed ==
  ASSUME KnownFlow, ~loc.ok, loc.kind # "start"
  PROVE  ~Hit
BY DEF KnownFlow, Hit

\* The new process is stopped, to be replaced by one like the old.
LEMMA StopNewCourse ==
  ASSUME ClassicInvariant, Honesty, Recovery, StopNewlyStarted \/ Withdraw
  PROVE  Recovery'
<1>1. /\ UNCHANGED <<born, count, store, journal, apps, bin, current, committed, before>>
      /\ alive' \subseteq alive /\ (NoFault \/ \E k : Fault(k)) /\ pc \in {"stopNew", "withdraw"}
  BY DEF StopNewlyStarted, Withdraw, StopNew, Kill, hist
<1>2. Tallied'
  BY <1>1, StillTallied, BudgetKept DEF Recovery
<1>3. ASSUME Tracked' PROVE Course'
  <2>1. Course /\ Tallied /\ (\A k : Fault(k) => Hit)
    BY <1>1, <1>3, Pursuit DEF Recovery
  <2>2. /\ KnownFlow /\ StepFlow /\ ~loc.ok
        /\ pc = "stopNew" => loc.kind \in Replacements /\ OldBackup
        /\ pc = "withdraw" => loc.kind \in Restarting /\ OldBinary
        /\ loc.prev = before /\ Withheld /\ before # 0 /\ alive \subseteq {mem.pid}
        /\ pc = "stopNew" /\ loc.kind = "rebuild" => loc.txn # 0
    <3>1. KnownFlow /\ StepFlow /\ ~loc.ok
      BY <1>1, <2>1 DEF Course, Honesty, FailedFlow, Failed
    <3>2. before # 0
      BY <1>1, <1>3 DEF Tracked
    <3> QED
      BY <1>1, <2>1, <3>1, <3>2, SMT DEF Course, StepFlow, ReplacedFlow, BinaryFlow, PriorKept, WithheldFlow,
        Undoable, Recoverable, NewInMemory
  <2>3. loc.kind # "start" /\ ~Hit
    <3>1. loc.kind # "start"
      BY <1>1, <2>2, SMT DEF Replacements, Restarting
    <3> QED
      BY <2>2, <3>1, Undisturbed
  <2>4. /\ NoFault /\ Locals /\ loc'.ok = loc.ok /\ alive' = {} /\ mem' = Down
        /\ \/ pc = "stopNew" /\ pc' = OnError
           \/ pc = "withdraw" /\ pc' = "relaunch"
    <3>1. CASE StopNewlyStarted
      BY <2>1, <2>2, <2>3, <3>1, GotoLocals DEF StopNewlyStarted, StopNew, Kill, ClassicInvariant
    <3>2. CASE Withdraw
      BY <2>1, <2>2, <2>3, <3>2, GotoLocals DEF Withdraw, StopNew, Kill, ClassicInvariant
    <3> QED
      BY <3>1, <3>2
  <2>5. /\ Withheld' /\ (OldBinary => OldBinary') /\ (OldBackup => OldBackup')
    BY <1>1, <2>2, <2>4, StillAtoms DEF Withheld, Locals
  <2>6. CASE pc = "stopNew" /\ pc' = OnError
    <3>1. /\ \/ loc.kind = "rebuild" /\ pc' = "undo"
             \/ loc.kind = "rollback" /\ pc' = "compensate"
          /\ loc.kind \notin Restarting
      BY <2>2, <2>6, OnErrorCases, SMT DEF Replacements, Restarting
    <3>2. pc' \notin Ahead \cup SettleSteps /\ pc' \notin {"restoreBinary", "failed"}
      BY <3>1, SMT DEF Ahead, SettleSteps
    <3>3. KnownFlow'
      BY <1>1, <2>2, <2>4, <3>2, KnownStays DEF Locals
    <3>4. mem'.status # "running"
      BY <2>4 DEF Down
    <3>5. Reversing'
      BY <2>4, <3>4 DEF Reversing
    <3> QED
      BY <1>1, <2>2, <2>3, <2>4, <2>5, <2>6, <3>1, <3>3, <3>5, ToReversal DEF Locals
  <2>7. CASE pc = "withdraw" /\ pc' = "relaunch"
    <3>1. KnownFlow'
      BY <1>1, <2>2, <2>4, <2>7, KnownStays, SMT DEF Locals, Ahead, SettleSteps
    <3> QED
      BY <1>1, <2>2, <2>4, <2>5, <2>7, <3>1, SMT DEF Locals, Course, StepFlow,
        UntouchedFlow, GoneFlow, ReplacedFlow, ReversalFlow, BinaryFlow, PriorKept, WithheldFlow,
        EndingFlow, FirstSettle, Settles, Entering, StartOf, PromoteOf, Undoable, Recoverable,
        Bringing, SettleSteps, Restarting
  <2> QED
    BY <2>4, <2>6, <2>7
<1> QED
  BY <1>2, <1>3 DEF Recovery

-----------------------------------------------------------------------------
(* The new process is accepted, or not, and the transaction ends.          *)

\* The replaced process is not in memory, the new one is: it can be undone.
LEMMA NewReversible ==
  ASSUME NewInMemory, apps.pid = mem.pid, UNCHANGED <<alive, apps, mem, before>>
  PROVE  Reversing'
BY DEF NewInMemory, Reversing

LEMMA AcceptCourse ==
  ASSUME ClassicInvariant, Honesty, Recovery, Accept
  PROVE  Recovery'
<1> DEFINE j == Stamped(mem.pid, loc.txn)
<1>1. /\ UNCHANGED <<alive, born, count, store, apps, bin, current, mem, committed, before>>
      /\ (NoFault \/ \E k : Fault(k)) /\ pc = "accept"
      /\ journal' \in {journal, j}
  BY DEF Accept, Write, WriteFails, machine, hist
<1>2. j.txn = loc.txn /\ j.slot = mem.pid
  BY DEF Stamped
<1>3. /\ Launched(loc.txn) /\ store.pend = loc.txn /\ loc.txn # 0 /\ apps.pid = mem.pid
      /\ \A p \in alive : born[p].tag = loc.txn => p = mem.pid
  BY <1>1, SMT DEF ClassicInvariant, Flow, AcceptingFlow, Unaccepted
<1>4. Tallied'
  <2>1. budget' \in 0 .. MaxFaults
    BY <1>1, BudgetKept DEF Recovery
  <2> HIDE DEF j
  <2> QED
    BY <1>1, <1>2, <1>3, <2>1 DEF Recovery, Tallied
<1>5. ASSUME Tracked' PROVE Course'
  <2>1. Course /\ Tallied /\ (\A k : Fault(k) => Hit)
    BY <1>1, <1>5, Pursuit DEF Recovery
  <2>2. /\ KnownFlow /\ StepFlow /\ NewInMemory /\ loc.ok /\ loc.kind \in {"rebuild"} \cup Restarting
        /\ loc.kind # "start"
    <3>1. loc.kind \in {"rebuild"} \cup Restarting
      BY <1>3, SMT DEF Honesty, KindFlow
    <3> QED
      BY <1>1, <2>1, <3>1, SMT DEF Course, KnownFlow, ReplacedFlow, Ahead, Restarting
  <2>3. /\ Locals
        /\ \/ NoFault /\ journal' = j /\ loc'.ok = loc.ok
              /\ pc' = IF loc.kind = "rebuild" THEN "promote" ELSE "finish"
           \/ Hit /\ ~loc'.ok /\ pc' = IF loc.kind = "rebuild" THEN "undo" ELSE "unaccept"
    <3> DEFINE next == IF loc.kind = "rebuild" THEN "promote" ELSE "finish"
               bad == IF loc.kind = "rebuild" THEN "undo" ELSE "unaccept"
    <3>1. CASE Write(j) /\ Goto(next)
      <4> HIDE DEF next
      <4>1. pc' = next /\ Locals /\ loc'.ok = loc.ok
        BY <3>1, GotoLocals DEF ClassicInvariant
      <4> QED
        BY <3>1, <4>1 DEF Write, next
    <3>2. CASE WriteFails(j) /\ GotoFailing(bad)
      <4>1. Hit
        BY <2>1, <3>2 DEF WriteFails
      <4> HIDE DEF bad
      <4>2. pc' = bad /\ Locals /\ ~loc'.ok
        BY <3>2, GotoLocals DEF ClassicInvariant
      <4> QED
        BY <4>1, <4>2 DEF bad
    <3> QED
      BY <3>1, <3>2 DEF Accept, Write, WriteFails
  <2>4. Locals /\ journal' = j => InForce'
    <3>1. alive = {mem.pid} /\ born[mem.pid].ver = bin.at /\ born[mem.pid].tag = loc.txn
      BY <1>3, <2>2 DEF NewInMemory, Launched
    <3> HIDE DEF j
    <3> QED
      BY <1>1, <1>2, <1>3, <3>1 DEF InForce, Locals
  <2>5. Locals /\ journal' = journal /\ Withheld => Withheld'
    BY <1>1 DEF Locals, Withheld
  <2>6. Reversing' /\ (OldBinary => OldBinary') /\ (OldBackup => OldBackup')
    BY <1>1, <1>3, <2>2, StillAtoms, NewReversible
  <2>7. loc.txn \notin committed /\ Withheld /\ loc.prev = before
        /\ (loc.kind = "rebuild" => OldBackup) /\ (loc.kind \in Restarting => OldBinary)
    BY <1>1, <2>1, <2>2, SMT DEF Course, BinaryFlow, PriorKept, WithheldFlow, Withheld, Undoable, Recoverable,
      Replacements, Restarting
  <2> HIDE DEF j
  <2>8. CASE NoFault /\ journal' = j /\ loc'.ok = loc.ok /\ loc.kind = "rebuild" /\ pc' = "promote"
    <3>1. KnownFlow'
      BY <1>1, <2>2, <2>3, <2>8, KnownStays, SMT DEF Locals, SettleSteps
    <3> QED
      BY <2>3, <2>4, <2>8, <3>1, SMT DEF Locals, Course, StepFlow,
        UntouchedFlow, GoneFlow, ReplacedFlow, ReversalFlow, BinaryFlow, PriorKept, WithheldFlow,
        EndingFlow, FirstSettle, Settles, Entering, StartOf, PromoteOf, Undoable, Recoverable,
        Bringing, SettleSteps, Replacements
  <2>9. CASE NoFault /\ journal' = j /\ loc'.ok = loc.ok /\ loc.kind \in Restarting /\ pc' = "finish"
    <3>1. KnownFlow'
      BY <1>1, <2>2, <2>3, <2>9, KnownStays, SMT DEF Locals, SettleSteps
    <3> QED
      BY <2>2, <2>3, <2>4, <2>9, <3>1, ToFinish DEF Locals
  <2>10. CASE Hit /\ ~loc'.ok /\ loc.kind = "rebuild" /\ pc' = "undo"
    <3>1. KnownFlow'
      <4>1. pc' \notin Ahead \cup SettleSteps
        BY <2>10, SMT DEF Ahead, SettleSteps
      <4> QED
        BY <1>1, <2>2, <2>3, <2>10, <4>1, KnownStays DEF Locals
    <3>2. Undecided'
      BY <1>1, <1>3, <2>3, <2>4, <2>5, <2>6, <2>7, <2>10 DEF Undecided, Locals
    <3> QED
      BY <2>3, <2>10, <3>1, <3>2, SMT DEF Locals, Course, StepFlow,
        UntouchedFlow, GoneFlow, ReplacedFlow, ReversalFlow, BinaryFlow, PriorKept, WithheldFlow,
        EndingFlow, FirstSettle, Settles, Entering, StartOf, PromoteOf, Undoable, Recoverable,
        Bringing, SettleSteps
  <2>11. CASE Hit /\ ~loc'.ok /\ loc.kind \in Restarting /\ pc' = "unaccept"
    <3>1. KnownFlow'
      <4>1. pc' \notin Ahead \cup SettleSteps
        BY <2>11, SMT DEF Ahead, SettleSteps
      <4> QED
        BY <1>1, <2>2, <2>3, <2>11, <4>1, KnownStays DEF Locals
    <3>2. alive' = {mem'.pid}
      BY <1>1, <2>2 DEF NewInMemory
    <3> QED
      BY <1>1, <2>3, <2>6, <2>7, <2>11, <3>1, <3>2, SMT DEF Locals, Course, StepFlow,
        UntouchedFlow, GoneFlow, ReplacedFlow, ReversalFlow, BinaryFlow, PriorKept, WithheldFlow,
        EndingFlow, FirstSettle, Settles, Entering, StartOf, PromoteOf, Undoable, Recoverable,
        Bringing, SettleSteps, Restarting
  <2> QED
    <3>1. loc.kind = "rebuild" \/ (loc.kind # "rebuild" /\ loc.kind \in Restarting)
      BY <2>2
    <3> QED
      BY <2>3, <2>8, <2>9, <2>10, <2>11, <3>1
<1> QED
  BY <1>4, <1>5 DEF Recovery

\* A rollback's journal follows the new process, and its promotion fails or not.
LEMMA RefreshCourse ==
  ASSUME ClassicInvariant, Honesty, Recovery, RefreshJournal
  PROVE  Recovery'
<1> DEFINE j == Unstamped(mem.pid)
<1>1. /\ UNCHANGED <<alive, born, count, store, apps, bin, current, mem, committed, before>>
      /\ (NoFault \/ \E k : Fault(k)) /\ pc = "refresh"
      /\ journal' \in {journal, j}
  BY DEF RefreshJournal, Refresh, Write, WriteFails, machine, hist
<1>2. j.txn = 0
  BY DEF Unstamped
<1>3. loc.kind = "rollback" /\ loc.txn = 0
  BY <1>1, SMT DEF Honesty, KindFlow, Restarting
<1> HIDE DEF j
<1>4. Tallied'
  <2>1. budget' \in 0 .. MaxFaults
    BY <1>1, BudgetKept DEF Recovery
  <2> QED
    BY <1>1, <1>2, <2>1 DEF Recovery, Tallied
<1>5. ASSUME Tracked' PROVE Course'
  <2>1. Course /\ Tallied /\ (\A k : Fault(k) => Hit)
    BY <1>1, <1>5, Pursuit DEF Recovery
  <2>2. /\ KnownFlow /\ StepFlow /\ NewInMemory /\ apps.pid = mem.pid /\ loc.ok
        /\ loc.prev = before /\ Withheld /\ OldBackup
    BY <1>1, <2>1, SMT DEF Course, KnownFlow, ReplacedFlow, Ahead, BinaryFlow, PriorKept, WithheldFlow, Undoable
  <2>3. /\ Locals
        /\ \/ NoFault /\ pc' = "promote" /\ loc'.ok = loc.ok
           \/ Hit /\ pc' = "compensate" /\ ~loc'.ok
    BY <2>1, GotoLocals DEF RefreshJournal, Refresh, Write, WriteFails, ClassicInvariant
  <2>4. Reversing' /\ OldBackup'
    BY <1>1, <2>2, StillAtoms, NewReversible
  <2>5. NewInMemory' /\ Withheld'
    BY <1>1, <1>3, <2>2, <2>3, StillAtoms DEF Withheld, Locals
  <2>6. CASE NoFault /\ pc' = "promote" /\ loc'.ok = loc.ok
    <3>1. KnownFlow'
      BY <1>1, <2>2, <2>3, <2>6, KnownStays, SMT DEF Locals, SettleSteps
    <3> QED
      BY <1>1, <1>3, <2>2, <2>3, <2>4, <2>5, <2>6, <3>1, SMT DEF Locals, Course, StepFlow,
        UntouchedFlow, GoneFlow, ReplacedFlow, ReversalFlow, BinaryFlow, PriorKept, WithheldFlow,
        EndingFlow, FirstSettle, Settles, Entering, StartOf, PromoteOf, Undoable, Recoverable,
        Bringing, SettleSteps, Replacements
  <2>7. CASE Hit /\ pc' = "compensate" /\ ~loc'.ok
    <3>1. pc' \notin Ahead \cup SettleSteps /\ loc'.kind # "start"
      BY <1>3, <2>3, <2>7, SMT DEF Ahead, SettleSteps, Locals
    <3>2. KnownFlow'
      BY <1>1, <2>2, <2>3, <2>7, <3>1, KnownStays DEF Locals
    <3> QED
      BY <1>1, <2>2, <2>3, <2>4, <2>5, <2>7, <3>1, <3>2, ToReversal DEF Locals
  <2> QED
    BY <2>3, <2>6, <2>7
<1> QED
  BY <1>4, <1>5 DEF Recovery

\* The outcome stands: the command returns, or records that it failed.
LEMMA ToEnding ==
  ASSUME KnownFlow', InForce' \/ (~loc.ok /\ Back)', loc'.kind # "start",
         pc' \in {"record", "failed", "done"}
  PROVE  Course'
BY SMT DEF Course, StepFlow, UntouchedFlow, GoneFlow, ReplacedFlow, ReversalFlow, BinaryFlow,
    PriorKept, WithheldFlow, EndingFlow, FirstSettle, Settles, Entering, StartOf, PromoteOf,
    Undoable, Recoverable, Bringing, SettleSteps

LEMMA PromoteCourse ==
  ASSUME ClassicInvariant, Honesty, Recovery, Promote
  PROVE  Recovery'
<1>1. /\ UNCHANGED <<alive, born, count, store, journal, apps, bin, mem, committed, before>>
      /\ (NoFault \/ \E k : Fault(k)) /\ pc = "promote"
  BY DEF Promote, machine, hist
<1>2. Tallied'
  BY <1>1, StillTallied, BudgetKept DEF Recovery
<1>3. ASSUME Tracked' PROVE Course'
  <2>1. Course /\ Tallied /\ (\A k : Fault(k) => Hit)
    BY <1>1, <1>3, Pursuit DEF Recovery
  <2>2. KnownFlow /\ StepFlow /\ loc.ok /\ loc.kind \in Replacements /\ loc.kind # "start"
    <3>1. KnownFlow /\ StepFlow
      BY <2>1 DEF Course
    <3> QED
      BY <1>1, <3>1, SMT DEF KnownFlow, StepFlow, Ahead, Replacements
  <2>3. CASE loc.kind = "rebuild"
    <3>1. /\ pc' = "finish" /\ Locals /\ loc'.ok = loc.ok /\ (NoFault \/ Hit)
      BY <2>1, <2>3, GotoLocals DEF Promote, ClassicInvariant
    <3>2. InForce'
      <4>1. InForce
        BY <1>1, <2>1, <2>3 DEF Course, EndingFlow, PromoteOf
      <4> QED
        BY <1>1, <3>1, <4>1, StillOutcomes DEF Locals
    <3>3. KnownFlow'
      BY <1>1, <2>2, <3>1, SMT DEF KnownFlow, FirstSettle, SettleSteps, Locals, Ahead
    <3> QED
      BY <2>2, <3>1, <3>2, <3>3, ToFinish DEF Locals
  <2>4. CASE loc.kind = "rollback"
    <3>1. /\ Locals
          /\ \/ NoFault /\ pc' = "discardBackup" /\ loc'.ok = loc.ok
             \/ Hit /\ pc' = "compensate" /\ ~loc'.ok
      <4>1. loc.kind # "rebuild"
        BY <2>4
      <4> QED
        BY <2>1, <4>1, GotoLocals DEF Promote, ClassicInvariant
    <3>2. NewInMemory /\ apps.pid = mem.pid /\ loc.prev = before /\ Withheld /\ OldBackup
      BY <1>1, <2>1, <2>4, SMT DEF Course, ReplacedFlow, BinaryFlow, PriorKept, WithheldFlow, Undoable, PromoteOf
    <3>3. Reversing' /\ OldBackup' /\ Withheld'
      BY <1>1, <3>1, <3>2, StillAtoms, NewReversible DEF Withheld, Locals
    <3>4. CASE NoFault /\ pc' = "discardBackup" /\ loc'.ok = loc.ok
      <4>1. KnownFlow'
        BY <1>1, <2>2, <3>1, <3>4, KnownStays, SMT DEF Locals, SettleSteps, Ahead
      <4> QED
        BY <2>2, <3>1, <3>4, <4>1, SMT DEF Locals, Course, StepFlow,
          UntouchedFlow, GoneFlow, ReplacedFlow, ReversalFlow, BinaryFlow, PriorKept, WithheldFlow,
          EndingFlow, FirstSettle, Settles, Entering, StartOf, PromoteOf, Undoable, Recoverable,
          Bringing, SettleSteps
    <3>5. CASE Hit /\ pc' = "compensate" /\ ~loc'.ok
      <4>1. pc' \notin Ahead \cup SettleSteps
        BY <3>5, SMT DEF Ahead, SettleSteps
      <4>2. KnownFlow'
        BY <1>1, <2>2, <3>1, <3>5, <4>1, KnownStays DEF Locals
      <4> QED
        BY <1>1, <2>2, <3>1, <3>2, <3>3, <3>5, <4>2, ToReversal DEF Locals
    <3> QED
      BY <3>1, <3>4, <3>5
  <2> QED
    BY <2>2, <2>3, <2>4 DEF Replacements
<1> QED
  BY <1>2, <1>3 DEF Recovery

\* The new process in force is that of a transaction.
LEMMA InForceKind ==
  ASSUME Honesty, InForce
  PROVE  loc.kind \in {"rebuild"} \cup Restarting
BY SMT DEF Honesty, KindFlow, InForce

LEMMA DiscardBackupCourse ==
  ASSUME ClassicInvariant, Honesty, BinShaped, Recovery, DiscardBackup
  PROVE  Recovery'
<1>1. /\ UNCHANGED <<alive, born, count, store, journal, apps, mem, committed, before>>
      /\ NoFault /\ pc = "discardBackup"
      /\ bin' = [bin EXCEPT !.backup = 0] /\ Goto(IF loc.ok THEN "done" ELSE "finish")
  BY DEF DiscardBackup, machine, hist
<1>2. Tallied'
  BY <1>1, StillTallied, BudgetKept DEF Recovery
<1>3. bin'.at = bin.at
  BY <1>1, SMT DEF BinShaped
<1>4. pc' = (IF loc.ok THEN "done" ELSE "finish") /\ Locals /\ loc'.ok = loc.ok
  <2> DEFINE next == IF loc.ok THEN "done" ELSE "finish"
  <2>1. Goto(next)
    BY <1>1
  <2> HIDE DEF next
  <2>2. pc' = next /\ Locals /\ loc'.ok = loc.ok
    BY <2>1, GotoLocals DEF ClassicInvariant
  <2> QED
    BY <2>2 DEF next
<1>5. ASSUME Tracked' PROVE Course'
  <2>1. Course
    BY <1>1, <1>5, Pursuit DEF Recovery
  <2>2. KnownFlow /\ StepFlow
    BY <2>1 DEF Course
  <2>3. pc' \notin Ahead \cup SettleSteps /\ pc' \notin {"restoreBinary", "failed"}
    BY <1>4, SMT DEF Ahead, SettleSteps
  <2>4. KnownFlow'
    BY <1>1, <1>4, <2>2, <2>3, KnownStays DEF Locals
  <2>5. loc.kind # "start"
    BY <1>1, <2>2, SMT DEF StepFlow, FirstSettle, SettleSteps
  <2>6. CASE loc.ok
    BY <1>4, <2>4, <2>5, <2>6, SMT DEF Locals, Course, StepFlow,
      UntouchedFlow, GoneFlow, ReplacedFlow, ReversalFlow, BinaryFlow, PriorKept, WithheldFlow,
      EndingFlow, FirstSettle, Settles, Entering, StartOf, PromoteOf, Undoable, Recoverable,
      Bringing, SettleSteps
  <2>7. CASE ~loc.ok
    <3>1. InForce
      BY <1>1, <2>1, <2>7 DEF Course, EndingFlow
    <3>2. InForce'
      BY <1>1, <1>3, <1>4, <3>1 DEF InForce, Locals
    <3> QED
      BY <1>4, <2>4, <2>5, <2>7, <3>2, ToFinish DEF Locals
  <2> QED
    BY <2>6, <2>7
<1> QED
  BY <1>2, <1>5 DEF Recovery

LEMMA SettleEffect ==
  ASSUME Shaped, NEW ret, NEW bad, Settle(ret, bad)
  PROVE  /\ pc' = "reconcile" /\ loc'.ret = ret /\ loc'.bad = bad /\ loc'.ok = loc.ok
         /\ loc'.kind = loc.kind /\ loc'.info = loc.info /\ loc'.txn = loc.txn /\ loc'.prev = loc.prev
BY SMT DEF Shaped, Settle

LEMMA FinishCourse ==
  ASSUME ClassicInvariant, Honesty, Recovery, Finish
  PROVE  Recovery'
<1>1. /\ UNCHANGED <<alive, born, count, store, journal, apps, bin, current, mem, committed, before>>
      /\ NoFault /\ pc = "finish"
  BY DEF Finish, machine, hist
<1>2. Tallied'
  BY <1>1, StillTallied, BudgetKept DEF Recovery
<1>3. ASSUME Tracked' PROVE Course'
  <2>1. Course
    BY <1>1, <1>3, Pursuit DEF Recovery
  <2>2. /\ KnownFlow /\ StepFlow /\ loc.kind # "start"
        /\ InForce \/ (~loc.ok /\ Back /\ Withheld)
        /\ loc.kind \in Replacements \cup Restarting
    <3>1. KnownFlow /\ StepFlow /\ (InForce \/ (~loc.ok /\ Back /\ Withheld))
      BY <1>1, <2>1 DEF Course, EndingFlow
    <3> QED
      BY <1>1, <3>1, SMT DEF KnownFlow, StepFlow, FirstSettle, SettleSteps
  <2>3. /\ loc'.kind = loc.kind /\ loc'.info = loc.info /\ loc'.txn = loc.txn /\ loc'.prev = loc.prev
        /\ loc'.ok = loc.ok
        /\ \/ /\ pc' = "reconcile" /\ loc.ok /\ loc.kind # "rollback"
              /\ loc'.ret = "recordApplied" /\ loc'.bad \in {"undo", "record"}
           \/ /\ pc' = "reconcile" /\ ~loc.ok /\ loc.kind # "rollback"
              /\ loc'.ret \in {"failed", "record"} /\ loc'.bad \in {"failed", "record"}
           \/ pc' = "failed" /\ loc.kind = "rollback"
    <3>1. /\ loc.kind = "rebuild" \/ loc.kind = "rollback" \/ loc.kind \in Restarting
          /\ "rebuild" \notin Restarting /\ "rollback" \notin Restarting
      BY <2>2, SMT DEF Replacements, Restarting
    <3>2. \/ loc.kind = "rebuild" /\ loc.ok /\ Settle("recordApplied", "undo")
          \/ loc.kind = "rebuild" /\ ~loc.ok /\ Settle("failed", "failed")
          \/ loc.kind \in Restarting /\ loc.ok /\ Settle("recordApplied", "record")
          \/ loc.kind \in Restarting /\ ~loc.ok /\ Settle("record", "record")
          \/ loc.kind = "rollback" /\ Goto("failed")
      BY <3>1 DEF Finish
    <3> QED
      BY <3>1, <3>2, SettleEffect, GotoLocals DEF ClassicInvariant, Locals
  <2>4. KnownFlow'
    <3>1. First(loc.kind) \notin Ends
      BY <2>2, SMT DEF First, Ends, Replacements, Restarting
    <3>2. pc' = "failed" => ~loc.ok
      BY <2>2, <2>3, InForceKind, SMT DEF Restarting
    <3> QED
      BY <1>1, <2>2, <2>3, <3>1, <3>2, SMT DEF KnownFlow, FirstSettle, SettleSteps, Ahead, NoFault, Ends
  <2>5. /\ InForce => InForce'
        /\ Back /\ Withheld => (Back /\ Withheld)'
    BY <1>1, <2>3, StillOutcomes
  <2>6. CASE pc' = "reconcile"
    <3>1. First(loc.kind) \notin Ends
      BY <2>2, SMT DEF First, Ends, Replacements, Restarting
    <3>2. /\ loc.ok => InForce' /\ loc'.ret = "recordApplied"
          /\ ~loc.ok => /\ InForce' \/ (Back /\ Withheld)'
                        /\ loc'.ret \in {"failed", "record"}
      BY <2>2, <2>3, <2>5, <2>6
    <3>3. loc'.ret # First(loc'.kind) /\ loc'.ret # "decide" /\ ~FirstSettle'
      BY <2>3, <3>1, <3>2, SMT DEF Ends, FirstSettle
    <3> HIDE <2>5
    <3> QED
      BY <2>2, <2>3, <2>4, <2>6, <3>2, <3>3, SMT DEF Course, StepFlow,
        UntouchedFlow, GoneFlow, ReplacedFlow, ReversalFlow, BinaryFlow, PriorKept, WithheldFlow,
        EndingFlow, Settles, Entering, StartOf, PromoteOf, Undoable, Recoverable,
        Bringing, SettleSteps
  <2>7. CASE pc' = "failed"
    BY <2>2, <2>3, <2>4, <2>5, <2>7, ToEnding
  <2> QED
    BY <2>3, <2>6, <2>7
<1> QED
  BY <1>2, <1>3 DEF Recovery

LEMMA RecordCourse ==
  ASSUME ClassicInvariant, Honesty, Recovery, RecordApplied \/ Record
  PROVE  Recovery'
<1>1. /\ UNCHANGED <<alive, born, count, journal, apps, bin, current, mem, committed, before>>
      /\ store'.pend = store.pend
      /\ (NoFault \/ \E k : Fault(k)) /\ pc \in {"recordApplied", "record"}
  BY SMT DEF RecordApplied, Record, Mutate, MutateFails, machine, hist, ClassicInvariant, Shaped
<1>2. Tallied'
  BY <1>1, StillTallied, BudgetKept DEF Recovery
<1>3. ASSUME Tracked' PROVE Course'
  <2>1. Course /\ Tallied /\ (\A k : Fault(k) => Hit)
    BY <1>1, <1>3, Pursuit DEF Recovery
  <2>2. /\ KnownFlow /\ loc.kind # "start"
        /\ pc = "recordApplied" => InForce
        /\ pc = "record" => InForce \/ (~loc.ok /\ Back)
    <3>1. KnownFlow /\ StepFlow
      BY <2>1 DEF Course
    <3>2. loc.kind # "start"
      BY <1>1, <3>1, SMT DEF StepFlow, FirstSettle, SettleSteps
    <3> QED
      BY <2>1, <3>1, <3>2 DEF Course, EndingFlow
  <2>3. Locals => (InForce => InForce') /\ (Back => Back')
    BY <1>1, StillOutcomes DEF Locals
  <2>4. CASE RecordApplied
    <3>1. /\ pc = "recordApplied" /\ Locals
          /\ \/ NoFault /\ loc'.ok = loc.ok /\ pc' = IF loc.kind = "rebuild" THEN "discardBackup" ELSE "record"
             \/ Hit /\ ~loc'.ok /\ pc' = IF loc.kind = "rebuild" THEN "undo" ELSE "record"
      <4> DEFINE next == IF loc.kind = "rebuild" THEN "discardBackup" ELSE "record"
                 bad == IF loc.kind = "rebuild" THEN "undo" ELSE "record"
                 s == [store EXCEPT !.apply = "succeeded"]
      <4>1. CASE Mutate(s) /\ Goto(next)
        <5> HIDE DEF next, s
        <5>1. pc' = next /\ Locals /\ loc'.ok = loc.ok
          BY <4>1, GotoLocals DEF ClassicInvariant
        <5> QED
          BY <2>4, <4>1, <5>1 DEF Mutate, next, RecordApplied
      <4>2. CASE MutateFails(s) /\ GotoFailing(bad)
        <5>1. Hit
          BY <2>1, <4>2 DEF MutateFails
        <5> HIDE DEF bad, s
        <5>2. pc' = bad /\ Locals /\ ~loc'.ok
          BY <4>2, GotoLocals DEF ClassicInvariant
        <5> QED
          BY <2>4, <5>1, <5>2 DEF bad, RecordApplied
      <4> QED
        BY <2>4, <4>1, <4>2 DEF RecordApplied, Mutate, MutateFails
    <3>2. InForce'
      BY <2>2, <2>3, <3>1
    <3>3. pc' \in {"discardBackup", "record", "undo"} /\ pc' \notin Ahead \cup SettleSteps
      BY <3>1, SMT DEF Ahead, SettleSteps
    <3>4. KnownFlow'
      <4>1. loc'.info = loc.info /\ loc'.kind = loc.kind /\ pc' \notin {"restoreBinary", "failed"}
        BY <3>1, <3>3 DEF Locals
      <4> QED
        BY <1>1, <2>2, <3>1, <3>3, <4>1, KnownStays
    <3>5. loc'.kind # "start" /\ (pc' = "undo" => Undecided')
      BY <2>2, <3>1, <3>2 DEF Locals, Undecided
    <3> QED
      BY <3>2, <3>3, <3>4, <3>5, SMT DEF Course, StepFlow,
        UntouchedFlow, GoneFlow, ReplacedFlow, ReversalFlow, BinaryFlow, PriorKept, WithheldFlow,
        EndingFlow, FirstSettle, Settles, Entering, StartOf, PromoteOf, Undoable, Recoverable,
        Bringing, SettleSteps
  <2>5. CASE Record
    <3>1. /\ pc = "record" /\ Locals
          /\ \/ NoFault /\ loc'.ok = loc.ok /\ pc' = "done"
             \/ Hit /\ ~loc'.ok /\ pc' = "failed"
      BY <2>1, <2>5, GotoLocals DEF Record, Mutate, MutateFails, ClassicInvariant
    <3>2. pc' \notin Ahead \cup SettleSteps
      BY <3>1, SMT DEF Ahead, SettleSteps
    <3>3. KnownFlow'
      BY <1>1, <2>2, <3>1, <3>2, KnownStays DEF Locals
    <3>4. InForce' \/ (~loc.ok /\ Back)'
      BY <2>2, <2>3, <3>1
    <3> QED
      BY <2>2, <3>1, <3>3, <3>4, ToEnding DEF Locals
  <2> QED
    BY <2>4, <2>5
<1> QED
  BY <1>2, <1>3 DEF Recovery

-----------------------------------------------------------------------------
(* A failed replacement is undone, a failed restart withdrawn.             *)

LEMMA DecideCourse ==
  ASSUME ClassicInvariant, Honesty, Recovery, Undo \/ Decide \/ Compensate
  PROVE  Recovery'
<1>1. /\ UNCHANGED <<alive, born, count, store, journal, apps, bin, current, mem, committed, before>>
      /\ (NoFault \/ \E k : Fault(k)) /\ pc \in {"undo", "decide", "compensate"}
  BY DEF Undo, Decide, Compensate, machine, hist
<1>2. Tallied'
  BY <1>1, StillTallied, BudgetKept DEF Recovery
<1>3. ASSUME Tracked' PROVE Course'
  <2>1. Course /\ Tallied /\ (\A k : Fault(k) => Hit)
    BY <1>1, <1>3, Pursuit DEF Recovery
  <2>2. /\ KnownFlow /\ ~loc.ok /\ loc.kind # "start" /\ ~Hit
        /\ pc \in {"undo", "decide"} => Undecided /\ loc.kind = "rebuild"
        /\ pc = "compensate" => Reversing /\ OldBackup /\ loc.prev = before /\ Withheld
    <3>1. KnownFlow /\ ~loc.ok
      BY <1>1, <2>1 DEF Course, Honesty, FailedFlow, Failed
    <3>2. loc.kind # "start" /\ (pc \in {"undo", "decide"} => loc.kind = "rebuild")
      BY <1>1, SMT DEF Honesty, KindFlow
    <3>3. pc \in {"undo", "decide"} => Undecided
      BY <2>1 DEF Course, ReversalFlow
    <3>4. pc = "compensate" => Reversing
      BY <2>1 DEF Course, ReversalFlow
    <3>5. pc = "compensate" => OldBackup /\ loc.prev = before /\ Withheld
      BY <2>1, SMT DEF Course, BinaryFlow, PriorKept, WithheldFlow, Undoable
    <3>6. ~Hit
      BY <3>1, <3>2, Undisturbed
    <3> QED
      BY <3>1, <3>2, <3>3, <3>4, <3>5, <3>6
  <2>3. NoFault
    BY <1>1, <2>1, <2>2
  <2>4. /\ Reversing => Reversing'
        /\ OldBackup => OldBackup'
        /\ loc'.txn = loc.txn => (Withheld => Withheld') /\ (InForce => InForce')
        /\ loc'.txn = loc.txn /\ loc'.prev = loc.prev => (Undecided => Undecided')
    BY <1>1, StillAtoms, StillOutcomes
  <2>5. CASE Undo
    <3>1. /\ pc' = "reconcile" /\ loc'.ret = "decide" /\ loc'.ok = loc.ok
          /\ loc'.kind = loc.kind /\ loc'.info = loc.info /\ loc'.txn = loc.txn /\ loc'.prev = loc.prev
      BY <2>5, SettleEffect DEF Undo, ClassicInvariant
    <3>2. Undecided' /\ loc'.kind = "rebuild"
      BY <1>1, <2>2, <2>4, <2>5, <3>1 DEF Undo
    <3>3. ~FirstSettle'
      BY <3>1, <3>2, SMT DEF FirstSettle, First
    <3>4. KnownFlow'
      BY <1>1, <2>2, <2>3, <3>1, <3>3, SMT DEF KnownFlow, NoFault, Ahead
    <3> QED
      BY <3>1, <3>2, <3>3, <3>4, SMT DEF Course, StepFlow,
        UntouchedFlow, GoneFlow, ReplacedFlow, ReversalFlow, BinaryFlow, PriorKept, WithheldFlow,
        EndingFlow, Settles, Entering, StartOf, PromoteOf, Undoable, Recoverable,
        Bringing, SettleSteps
  <2>6. CASE Decide
    <3>1. /\ pc = "decide" /\ Locals /\ loc'.ok = loc.ok
          /\ pc' = IF journal.txn = loc.txn THEN "discardBackup" ELSE "compensate"
      <4> DEFINE next == IF journal.txn = loc.txn THEN "discardBackup" ELSE "compensate"
      <4>1. pc = "decide" /\ Goto(next)
        BY <2>1, <2>2, <2>6 DEF Decide
      <4> HIDE DEF next
      <4>2. pc' = next /\ Locals /\ loc'.ok = loc.ok
        BY <4>1, GotoLocals DEF ClassicInvariant
      <4> QED
        BY <4>1, <4>2 DEF next
    <3>2. pc' \notin Ahead \cup SettleSteps /\ pc' \notin {"restoreBinary", "failed"}
      BY <3>1, SMT DEF Ahead, SettleSteps
    <3>3. KnownFlow'
      BY <1>1, <2>2, <2>3, <3>1, <3>2, KnownStays DEF Locals
    <3>4. Undecided /\ loc'.kind # "start"
      BY <2>2, <3>1 DEF Locals
    <3>5. CASE journal.txn = loc.txn
      <4>1. InForce
        BY <3>4, <3>5 DEF Undecided, Withheld
      <4>2. InForce' /\ pc' = "discardBackup"
        BY <2>4, <3>1, <3>5, <4>1 DEF Locals
      <4> QED
        BY <3>3, <3>4, <4>2, SMT DEF Course, StepFlow,
          UntouchedFlow, GoneFlow, ReplacedFlow, ReversalFlow, BinaryFlow, PriorKept, WithheldFlow,
          EndingFlow, FirstSettle, Settles, Entering, StartOf, PromoteOf, Undoable, Recoverable,
          Bringing, SettleSteps
    <3>6. CASE journal.txn # loc.txn
      <4>1. Reversing /\ OldBackup /\ loc.prev = before /\ Withheld
        BY <3>4, <3>6 DEF Undecided, InForce
      <4> QED
        BY <1>1, <2>4, <3>1, <3>3, <3>4, <3>6, <4>1, ToReversal DEF Locals
    <3> QED
      BY <3>5, <3>6
  <2>7. CASE Compensate
    <3>1. /\ pc = "compensate" /\ Locals /\ loc'.ok = loc.ok
          /\ pc' = IF mem.status = "running" /\ ~StillServing THEN "stopFailed" ELSE "restorePrior"
      <4> DEFINE next == IF mem.status = "running" /\ ~StillServing THEN "stopFailed" ELSE "restorePrior"
      <4>1. pc = "compensate" /\ Goto(next)
        BY <2>7 DEF Compensate
      <4> HIDE DEF next
      <4>2. pc' = next /\ Locals /\ loc'.ok = loc.ok
        BY <4>1, GotoLocals DEF ClassicInvariant
      <4> QED
        BY <4>1, <4>2 DEF next
    <3>2. pc' \notin Ahead \cup SettleSteps /\ pc' \notin {"restoreBinary", "failed"}
      BY <3>1, SMT DEF Ahead, SettleSteps
    <3>3. KnownFlow'
      BY <1>1, <2>2, <2>3, <3>1, <3>2, KnownStays DEF Locals
    <3>4. /\ Reversing /\ OldBackup' /\ (loc.prev = before)' /\ Withheld' /\ loc'.kind # "start"
      BY <1>1, <2>2, <2>4, <3>1 DEF Locals
    <3>5. loc.info.rec.pid = before
      BY <2>2 DEF KnownFlow
    <3>6. CASE pc' = "stopFailed"
      <4>1. alive \subseteq {apps.pid}
        BY <3>1, <3>4, <3>5, <3>6 DEF Reversing, OldInMemory, StillServing
      <4>2. alive' \subseteq {apps'.pid}
        BY <1>1, <4>1
      <4> QED
        BY <3>3, <3>4, <3>6, <4>2, SMT DEF Course, StepFlow,
          UntouchedFlow, GoneFlow, ReplacedFlow, ReversalFlow, BinaryFlow, PriorKept, WithheldFlow,
          EndingFlow, FirstSettle, Settles, Entering, StartOf, PromoteOf, Undoable, Recoverable,
          Bringing, SettleSteps
    <3>7. CASE pc' = "restorePrior"
      <4>1. (Untouched /\ OldInMemory) \/ (alive = {} /\ mem.status # "running")
        BY <3>1, <3>4, <3>5, <3>7 DEF Reversing, StillServing
      <4>2. (Untouched /\ OldInMemory)' \/ (alive = {} /\ mem.status # "running")'
        BY <1>1, <4>1, StillAtoms
      <4> QED
        BY <3>3, <3>4, <3>7, <4>2, SMT DEF Course, StepFlow,
          UntouchedFlow, GoneFlow, ReplacedFlow, ReversalFlow, BinaryFlow, PriorKept, WithheldFlow,
          EndingFlow, FirstSettle, Settles, Entering, StartOf, PromoteOf, Undoable, Recoverable,
          Bringing, SettleSteps
    <3> QED
      BY <3>1, <3>6, <3>7
  <2> QED
    BY <2>5, <2>6, <2>7
<1> QED
  BY <1>2, <1>3 DEF Recovery

LEMMA StopFailedCourse ==
  ASSUME ClassicInvariant, Honesty, Recovery, StopFailed \/ StopPrior
  PROVE  Recovery'
<1>1. /\ UNCHANGED <<born, count, store, journal, apps, bin, current, committed, before>>
      /\ alive' \subseteq alive /\ (NoFault \/ \E k : Fault(k)) /\ pc \in {"stopFailed", "stopPrior"}
  BY DEF StopFailed, StopApplication, StopPrior, StopNew, Kill, hist
<1>2. Tallied'
  BY <1>1, StillTallied, BudgetKept DEF Recovery
<1>3. ASSUME Tracked' PROVE Course'
  <2>1. Course /\ Tallied /\ (\A k : Fault(k) => Hit)
    BY <1>1, <1>3, Pursuit DEF Recovery
  <2>2. /\ pc = "stopFailed" /\ StopFailed /\ KnownFlow /\ ~loc.ok /\ loc.kind # "start"
        /\ alive \subseteq {apps.pid}
        /\ OldBackup /\ loc.prev = before /\ Withheld
    <3>1. pc = "stopFailed"
      BY <1>1, <2>1 DEF Course, StepFlow
    <3>2. StopFailed /\ KnownFlow /\ ~loc.ok
      BY <2>1, <3>1 DEF Course, Honesty, FailedFlow, Failed, StopPrior, StopNew
    <3> QED
      BY <2>1, <3>1, <3>2, SMT DEF Course, Honesty, KindFlow, ReversalFlow, BinaryFlow, PriorKept, WithheldFlow,
        Undoable
  <2>3. ~Hit
    BY <2>2, Undisturbed
  <2>4. /\ NoFault /\ alive' = alive \ {View(apps).pid} /\ mem' = Stopped
        /\ pc' = "saveFailed" /\ Locals /\ loc'.ok = loc.ok
    BY <2>1, <2>2, <2>3, GotoLocals DEF StopFailed, StopApplication, Kill, ClassicInvariant
  <2>5. apps.pid \in alive => View(apps).pid = apps.pid
    BY SMT DEF View
  <2>6. alive' = {} /\ mem'.status # "running"
    BY <2>2, <2>4, <2>5 DEF Stopped
  <2>7. OldBackup' /\ Withheld'
    BY <1>1, <2>2, <2>4, StillAtoms DEF Withheld, Locals
  <2>8. KnownFlow'
    BY <1>1, <2>2, <2>4, KnownStays, SMT DEF Locals, Ahead, SettleSteps
  <2> QED
    BY <1>1, <2>2, <2>4, <2>6, <2>7, <2>8, SMT DEF Locals, Course, StepFlow,
      UntouchedFlow, GoneFlow, ReplacedFlow, ReversalFlow, BinaryFlow, PriorKept, WithheldFlow,
      EndingFlow, FirstSettle, Settles, Entering, StartOf, PromoteOf, Undoable, Recoverable,
      Bringing, SettleSteps
<1> QED
  BY <1>2, <1>3 DEF Recovery

\* The binary is put back.
LEMMA RestoreCourse ==
  ASSUME ClassicInvariant, Honesty, Recovery, RestorePrior \/ RestoreBinary
  PROVE  Recovery'
<1>1. /\ UNCHANGED <<alive, born, count, store, journal, apps, current, mem, committed, before>>
      /\ (NoFault \/ \E k : Fault(k)) /\ pc \in {"restorePrior", "restoreBinary"}
  BY DEF RestorePrior, RestoreBinary, machine, hist
<1>2. Tallied'
  BY <1>1, StillTallied, BudgetKept DEF Recovery
<1>3. ASSUME Tracked' PROVE Course'
  <2>1. Course /\ Tallied /\ (\A k : Fault(k) => Hit)
    BY <1>1, <1>3, Pursuit DEF Recovery
  <2>2. /\ KnownFlow /\ ~loc.ok /\ loc.kind # "start" /\ ~Hit /\ OldBackup /\ Withheld
        /\ pc = "restorePrior" =>
             loc.prev = before /\ ((Untouched /\ OldInMemory) \/ (alive = {} /\ mem.status # "running"))
        /\ pc = "restoreBinary" => Untouched
    <3>1. KnownFlow /\ StepFlow
      BY <2>1 DEF Course
    <3>2. ~loc.ok
      BY <1>1, <3>1 DEF KnownFlow, Honesty, FailedFlow, Failed
    <3>3. loc.kind # "start"
      BY <1>1, <3>1, SMT DEF StepFlow, FirstSettle, SettleSteps
    <3>4. OldBackup /\ Withheld /\ (pc = "restorePrior" => loc.prev = before)
          /\ (pc = "restoreBinary" => Untouched)
      BY <1>1, <2>1, SMT DEF Course, UntouchedFlow, BinaryFlow, PriorKept, WithheldFlow, Undoable
    <3>5. pc = "restorePrior" => (Untouched /\ OldInMemory) \/ (alive = {} /\ mem.status # "running")
      BY <2>1 DEF Course, ReversalFlow
    <3>6. ~Hit
      BY <3>1, <3>2, <3>3, Undisturbed
    <3> QED
      BY <3>1, <3>2, <3>3, <3>4, <3>5, <3>6
  <2>3. /\ NoFault /\ bin' = [at |-> bin.backup, backup |-> 0] /\ Locals /\ loc'.ok = loc.ok
        /\ pc = "restorePrior" => pc' = IF StillServing THEN "finish" ELSE "startPrior"
        /\ pc = "restoreBinary" => pc' = "failed"
    <3>1. loc.info.rec.status = "running"
      BY <2>2 DEF KnownFlow
    <3>2. CASE RestorePrior
      <4> DEFINE next == IF StillServing THEN "finish" ELSE "startPrior"
      <4>1. NoFault /\ bin' = [at |-> bin.backup, backup |-> 0] /\ Goto(next) /\ pc = "restorePrior"
        BY <2>1, <2>2, <3>1, <3>2 DEF RestorePrior
      <4> HIDE DEF next
      <4>2. pc' = next /\ Locals /\ loc'.ok = loc.ok
        BY <4>1, GotoLocals DEF ClassicInvariant
      <4> QED
        BY <4>1, <4>2 DEF next
    <3>3. CASE RestoreBinary
      BY <2>1, <2>2, <3>3, GotoLocals DEF RestoreBinary, ClassicInvariant
    <3> QED
      BY <3>2, <3>3
  <2>4. OldBinary'
    BY <1>1, <2>2, <2>3 DEF OldBinary, OldBackup
  <2>5. Withheld' /\ loc'.kind # "start"
    BY <1>1, <2>2, <2>3 DEF Withheld, Locals
  <2>6. Untouched => Back'
    BY <1>1, <2>2, <2>3, <2>4, <2>5 DEF Untouched, Back, Like, OldBinary, Withheld, KnownFlow
  <2>7. pc' \notin Ahead \cup SettleSteps
    BY <1>1, <2>3, SMT DEF Ahead, SettleSteps
  <2>8. KnownFlow'
    BY <1>1, <2>2, <2>3, <2>7, KnownStays DEF Locals
  <2>9. CASE pc = "restoreBinary"
    BY <2>2, <2>3, <2>5, <2>6, <2>8, <2>9, ToEnding
  <2>10. CASE pc = "restorePrior" /\ StillServing
    <3>1. Untouched /\ ~loc'.ok /\ pc' = "finish"
      BY <2>2, <2>3, <2>10 DEF StillServing
    <3> QED
      BY <2>5, <2>6, <2>8, <3>1, ToFinish
  <2>11. CASE pc = "restorePrior" /\ ~StillServing
    <3>1. alive = {} /\ pc' = "startPrior" /\ (loc.prev = before)'
      BY <1>1, <2>2, <2>3, <2>11 DEF StillServing, OldInMemory, KnownFlow, Locals
    <3> QED
      BY <1>1, <2>4, <2>5, <2>8, <3>1, SMT DEF Course, StepFlow,
        UntouchedFlow, GoneFlow, ReplacedFlow, ReversalFlow, BinaryFlow, PriorKept, WithheldFlow,
        EndingFlow, FirstSettle, Settles, Entering, StartOf, PromoteOf, Undoable, Recoverable,
        Bringing, SettleSteps
  <2> QED
    BY <1>1, <2>9, <2>10, <2>11
<1> QED
  BY <1>2, <1>3 DEF Recovery

\* One like the old is launched: it is the only one.
LEMMA RelaunchCourse ==
  ASSUME ClassicInvariant, Honesty, Recovery, Relaunch \/ StartPrior
  PROVE  Recovery'
<1> DEFINE b == born[loc.prev].bind
           v == born[loc.prev].val
<1>1. \/ pc = "relaunch" /\ Launch(b, v, 0, "unstamp", "saveRelaunch")
      \/ pc = "startPrior" /\ Launch(b, v, 0, "savePrior", "finish")
  BY DEF Relaunch, StartPrior
<1> HIDE DEF b, v
<1>2. Tallied'
  <2>1. \E next, bad : Launch(b, v, 0, next, bad)
    BY <1>1
  <2> QED
    BY <2>1, LaunchTallied DEF Recovery
<1>3. Course => /\ alive = {} /\ KnownFlow /\ ~loc.ok /\ loc.prev = before /\ OldBinary /\ Withheld
                /\ loc.kind # "start" /\ (pc = "relaunch" => loc.kind \in Restarting)
  <2> SUFFICES ASSUME Course
               PROVE  /\ alive = {} /\ KnownFlow /\ ~loc.ok /\ loc.prev = before /\ OldBinary /\ Withheld
                      /\ loc.kind # "start" /\ (pc = "relaunch" => loc.kind \in Restarting)
    OBVIOUS
  <2>1. KnownFlow /\ StepFlow /\ ~loc.ok
    BY <1>1 DEF Course, Honesty, FailedFlow, Failed
  <2>2. loc.kind # "start" /\ (pc = "relaunch" => loc.kind \in Restarting)
    BY <1>1, <2>1, SMT DEF StepFlow, FirstSettle, SettleSteps
  <2>3. alive = {} /\ loc.prev = before /\ OldBinary /\ Withheld
    BY <1>1, SMT DEF Course, GoneFlow, BinaryFlow, PriorKept, WithheldFlow, Recoverable, Bringing
  <2> QED
    BY <2>1, <2>2, <2>3
<1>4. ASSUME Tracked' PROVE Course'
  <2>1. /\ Course /\ Locals /\ UNCHANGED <<store, journal, apps, bin, committed, before>>
        /\ born'[before] = born[before] /\ (OldBinary => OldBinary') /\ (Withheld => Withheld')
        /\ \/ NoFault /\ loc'.ok = loc.ok /\ Placed(b, v, 0)
              /\ pc' = IF pc = "relaunch" THEN "unstamp" ELSE "savePrior"
           \/ Hit
    <3>1. CASE pc = "relaunch" /\ Launch(b, v, 0, "unstamp", "saveRelaunch")
      BY <1>3, <1>4, <3>1, TrackedLaunch
    <3>2. CASE pc = "startPrior" /\ Launch(b, v, 0, "savePrior", "finish")
      BY <1>3, <1>4, <3>2, TrackedLaunch
    <3> QED
      BY <1>1, <3>1, <3>2
  <2>2. /\ KnownFlow /\ ~loc.ok /\ loc.prev = before /\ OldBinary /\ Withheld
        /\ loc.kind # "start" /\ (pc = "relaunch" => loc.kind \in Restarting)
    BY <1>3, <2>1
  <2>3. ~Hit
    BY <2>2, Undisturbed
  <2>4. NoFault /\ loc'.ok = loc.ok /\ Placed(b, v, 0)
        /\ \/ pc = "relaunch" /\ pc' = "unstamp"
           \/ pc = "startPrior" /\ pc' = "savePrior"
    BY <1>1, <2>1, <2>3
  <2>5. Relaunched'
    BY <2>1, <2>2, <2>4 DEF Placed, Relaunched, Like, OldBinary, b, v
  <2>6. KnownFlow'
    BY <2>1, <2>2, <2>4, KnownStays, SMT DEF Locals, Ahead, SettleSteps
  <2> QED
    BY <2>1, <2>2, <2>4, <2>5, <2>6, SMT DEF Locals, Course, StepFlow,
      UntouchedFlow, GoneFlow, ReplacedFlow, ReversalFlow, BinaryFlow, PriorKept, WithheldFlow,
      EndingFlow, FirstSettle, Settles, Entering, StartOf, PromoteOf, Undoable, Recoverable,
      Bringing, SettleSteps
<1> QED
  BY <1>2, <1>4 DEF Recovery

\* The relaunched process, once saved, is what served.
LEMMA RelaunchedBack ==
  ASSUME Relaunched', OldBinary', Withheld', apps'.pid = mem'.pid
  PROVE  Back'
BY DEF Relaunched, Back, Withheld

\* It is saved.
LEMMA SaveRelaunchCourse ==
  ASSUME ClassicInvariant, Honesty, Recovery, SavePrior \/ SaveRelaunch
  PROVE  Recovery'
<1>1. /\ UNCHANGED <<alive, born, count, store, journal, bin, current, mem, committed, before>>
      /\ (NoFault \/ \E k : Fault(k)) /\ pc \in {"savePrior", "saveRelaunch"}
  BY DEF SavePrior, SaveRelaunch, Save, SaveFails, machine, hist
<1>2. Tallied'
  BY <1>1, StillTallied, BudgetKept DEF Recovery
<1>3. ASSUME Tracked' PROVE Course'
  <2>1. Course /\ Tallied /\ (\A k : Fault(k) => Hit)
    BY <1>1, <1>3, Pursuit DEF Recovery
  <2>2. /\ KnownFlow /\ ~loc.ok /\ loc.kind # "start" /\ Relaunched /\ OldBinary /\ Withheld
    <3>1. KnownFlow /\ StepFlow /\ ~loc.ok
      BY <1>1, <2>1 DEF Course, Honesty, FailedFlow, Failed
    <3>2. loc.kind # "start"
      BY <1>1, <3>1, SMT DEF StepFlow, FirstSettle, SettleSteps
    <3>3. Relaunched /\ OldBinary /\ Withheld
      BY <1>1, <2>1, SMT DEF Course, ReplacedFlow, BinaryFlow, WithheldFlow, Bringing
    <3> QED
      BY <3>1, <3>2, <3>3
  <2>3. ~Hit
    BY <2>2, Undisturbed
  <2>4. /\ NoFault /\ apps' = mem /\ Locals /\ loc'.ok = loc.ok
        /\ \/ pc = "savePrior" /\ pc' = "refreshPrior"
           \/ pc = "saveRelaunch" /\ pc' = "finish"
    <3>1. CASE SavePrior
      BY <2>1, <2>3, <3>1, GotoLocals DEF SavePrior, Save, SaveFails, ClassicInvariant
    <3>2. CASE SaveRelaunch
      BY <2>1, <2>3, <3>2, GotoLocals DEF SaveRelaunch, Save, SaveFails, ClassicInvariant
    <3> QED
      BY <3>1, <3>2
  <2>5. Relaunched' /\ OldBinary' /\ Withheld' /\ apps'.pid = mem'.pid /\ loc'.kind # "start"
    BY <1>1, <2>2, <2>4, StillAtoms DEF Withheld, Locals
  <2>6. KnownFlow'
    BY <1>1, <2>2, <2>4, KnownStays, SMT DEF Locals, Ahead, SettleSteps
  <2>7. CASE pc' = "refreshPrior"
    BY <2>5, <2>6, <2>7, SMT DEF Course, StepFlow,
      UntouchedFlow, GoneFlow, ReplacedFlow, ReversalFlow, BinaryFlow, PriorKept, WithheldFlow,
      EndingFlow, FirstSettle, Settles, Entering, StartOf, PromoteOf, Undoable, Recoverable,
      Bringing, SettleSteps
  <2>8. CASE pc' = "finish"
    <3>1. Back'
      BY <2>5, RelaunchedBack
    <3> QED
      BY <2>2, <2>4, <2>5, <2>6, <2>8, <3>1, ToFinish
  <2> QED
    BY <2>4, <2>7, <2>8
<1> QED
  BY <1>2, <1>3 DEF Recovery

\* deploy.json comes to name no transaction.
LEMMA UnstampCourse ==
  ASSUME ClassicInvariant, Honesty, Recovery, RefreshPrior \/ Unaccept \/ Unstamp
  PROVE  Recovery'
<1>1. /\ UNCHANGED <<alive, born, count, store, apps, bin, current, mem, committed, before>>
      /\ (NoFault \/ \E k : Fault(k)) /\ pc \in {"refreshPrior", "unaccept", "unstamp"}
      /\ journal' = journal \/ (\E p : journal' = Unstamped(p))
  BY DEF RefreshPrior, Refresh, Unaccept, Unstamp, Write, WriteFails, machine, hist
<1>2. journal' = journal \/ journal'.txn = 0
  BY <1>1 DEF Unstamped
<1>3. Tallied'
  <2>1. budget' \in 0 .. MaxFaults
    BY <1>1, BudgetKept DEF Recovery
  <2> QED
    BY <1>1, <1>2, <2>1 DEF Recovery, Tallied
<1>4. ASSUME Tracked' PROVE Course'
  <2>1. Course /\ Tallied /\ (\A k : Fault(k) => Hit)
    BY <1>1, <1>4, Pursuit DEF Recovery
  <2>2. /\ KnownFlow /\ ~loc.ok /\ loc.kind # "start" /\ OldBinary
        /\ pc \in {"refreshPrior", "unstamp"} => Relaunched /\ Withheld
        /\ pc = "refreshPrior" => apps.pid = mem.pid
        /\ pc \in {"unaccept", "unstamp"} => loc.kind \in Restarting
        /\ pc = "unaccept" => /\ alive = {mem.pid} /\ loc.txn \notin committed /\ loc.prev = before
                              /\ store.pend = loc.txn
    <3>1. KnownFlow /\ StepFlow /\ ~loc.ok
      BY <1>1, <2>1 DEF Course, Honesty, FailedFlow, Failed
    <3>2. loc.kind # "start" /\ (pc \in {"unaccept", "unstamp"} => loc.kind \in Restarting)
      BY <1>1, <3>1, SMT DEF StepFlow, FirstSettle, SettleSteps
    <3>3. /\ OldBinary
          /\ pc \in {"refreshPrior", "unstamp"} => Relaunched /\ Withheld
          /\ pc = "refreshPrior" => apps.pid = mem.pid
          /\ pc = "unaccept" => alive = {mem.pid} /\ loc.txn \notin committed /\ loc.prev = before
      BY <1>1, <2>1, SMT DEF Course, ReplacedFlow, BinaryFlow, PriorKept, WithheldFlow, Recoverable, Bringing
    <3>4. pc = "unaccept" => store.pend = loc.txn
      BY DEF ClassicInvariant, Flow, RestoringFlow
    <3> QED
      BY <3>1, <3>2, <3>3, <3>4
  <2>3. ~Hit
    BY <2>2, Undisturbed
  <2>4. /\ NoFault /\ Locals /\ loc'.ok = loc.ok
        /\ \/ pc = "refreshPrior" /\ pc' = "finish"
           \/ pc = "unaccept" /\ pc' = "withdraw" /\ journal'.txn = 0
           \/ pc = "unstamp" /\ pc' = "saveRelaunch"
    <3>1. CASE RefreshPrior
      BY <2>1, <2>3, <3>1, GotoLocals DEF RefreshPrior, Refresh, Write, WriteFails, ClassicInvariant
    <3>2. CASE Unaccept
      <4>1. NoFault /\ Goto("withdraw") /\ journal' = Unstamped(0) /\ pc = "unaccept"
        BY <2>1, <2>3, <3>2 DEF Unaccept, Write, WriteFails
      <4> QED
        BY <4>1, GotoLocals DEF Unstamped, ClassicInvariant
    <3>3. CASE Unstamp
      BY <2>1, <2>3, <3>3, GotoLocals DEF Unstamp, Write, WriteFails, ClassicInvariant
    <3> QED
      BY <3>1, <3>2, <3>3
  <2>5. /\ Withheld => Withheld'
        /\ OldBinary' /\ (Relaunched => Relaunched') /\ loc'.kind # "start"
    BY <1>1, <1>2, <2>2, <2>4, StillAtoms DEF Withheld, Locals
  <2>6. KnownFlow'
    BY <1>1, <2>2, <2>4, KnownStays, SMT DEF Locals, Ahead, SettleSteps
  <2>7. CASE pc = "refreshPrior" /\ pc' = "finish"
    <3>1. Back' /\ Withheld'
      BY <1>1, <2>2, <2>5, <2>7, RelaunchedBack
    <3> QED
      BY <2>2, <2>4, <2>5, <2>6, <2>7, <3>1, ToFinish
  <2>8. CASE pc = "unaccept" /\ pc' = "withdraw" /\ journal'.txn = 0
    <3>1. Withheld'
      BY <1>1, <2>2, <2>4, <2>8 DEF Withheld, Locals
    <3>2. (loc.prev = before)' /\ alive' \subseteq {mem'.pid} /\ loc'.kind \in Restarting
      BY <1>1, <2>2, <2>4, <2>8 DEF Locals
    <3> QED
      BY <2>5, <2>6, <2>8, <3>1, <3>2, ToWithdrawal
  <2>9. CASE pc = "unstamp" /\ pc' = "saveRelaunch"
    <3>1. Relaunched' /\ Withheld' /\ loc'.kind \in Restarting
      BY <2>2, <2>4, <2>5, <2>9 DEF Locals
    <3> QED
      BY <2>5, <2>6, <2>9, <3>1, SMT DEF Course, StepFlow,
        UntouchedFlow, GoneFlow, ReplacedFlow, ReversalFlow, BinaryFlow, PriorKept, WithheldFlow,
        EndingFlow, FirstSettle, Settles, Entering, StartOf, PromoteOf, Undoable, Recoverable,
        Bringing, SettleSteps
  <2> QED
    BY <2>4, <2>7, <2>8, <2>9
<1> QED
  BY <1>3, <1>4 DEF Recovery

-----------------------------------------------------------------------------
(* Every step.                                                             *)

LEMMA NextCourse ==
  ASSUME ClassicInvariant, Honesty, BinShaped, Recovery, [Next]_vars
  PROVE  Recovery'
<1>1. CASE Resolve \/ (\E k \in Kinds : Begin(k)) \/ Return \/ Crash \/ Die \/ UNCHANGED vars
  BY <1>1, ResolveCourse, BeginCourse, LeaveCourse, DieCourse DEF Return, Crash
<1>2. CASE Settling
  BY <1>2, ReconcileCourse, CommitCourse DEF Settling
<1>3. CASE Preparing
  BY <1>3, BeginTxnCourse, PrepareCourse DEF Preparing
<1>4. CASE Replacing
  BY <1>4, StopCourse, SaveStoppedCourse, AlreadyRunningCourse, StartCourse, SaveStartedCourse,
    StopNewCourse DEF Replacing
<1>5. CASE Accepting
  BY <1>5, AcceptCourse, RefreshCourse, PromoteCourse, DiscardBackupCourse, FinishCourse, RecordCourse
    DEF Accepting
<1>6. CASE Restoring
  BY <1>6, DecideCourse, StopFailedCourse, SaveStoppedCourse, RestoreCourse, RelaunchCourse,
    SaveRelaunchCourse, UnstampCourse, StopNewCourse DEF Restoring
<1>7. CASE Changing
  BY <1>7, ChangeCourse DEF Changing
<1> QED
  BY <1>1, <1>2, <1>3, <1>4, <1>5, <1>6, <1>7 DEF Next

LEMMA InitRecovery == Init => Recovery /\ BinShaped
<1> SUFFICES ASSUME Init PROVE Recovery /\ BinShaped
  OBVIOUS
<1>1. /\ before = 0 /\ committed = {} /\ store.pend = 0 /\ budget = MaxFaults /\ count.pid = 1
      /\ alive = {1} /\ born[1].tag = 0 /\ DOMAIN bin = {"at", "backup"}
  <2>1. 1 \in Proc
    BY BoundsAssumption, SMT DEF Proc
  <2> QED
    BY <2>1, SMT DEF Init, First1
<1>2. Tallied
  BY <1>1, BoundsAssumption, SMT DEF Tallied
<1> QED
  BY <1>1, <1>2 DEF Recovery, Tracked, BinShaped

\* A command that found the application served, by one process on the binary in place,
\* and meets at most one fault, is at each of its steps where what served does so still
\* or can be brought back, or the new process is accepted (compensateClassicRollback,
\* RestartApplicationWithSecrets).
THEOREM RecoveryHolds == Spec => []Recovery
<1>1. Init => Recovery /\ BinShaped
  BY InitRecovery
<1>2. ClassicInvariant /\ Honesty /\ BinShaped /\ Recovery /\ [Next]_vars => (Recovery /\ BinShaped)'
  BY NextCourse, BinKept
<1> QED
  BY <1>1, <1>2, ClassicInvariantHolds, RecordsStayHonest, PTL DEF Spec

\* A command that fails leaves the application running on the binary in place, and
\* either as it was or with an accepted transaction, whatever the one fault was and
\* wherever it struck (compensateClassicRollback, RestartApplicationWithSecrets).
THEOREM FailuresRestore == Spec => []FailureRestores
<1>1. ClassicInvariant /\ Recovery => FailureRestores
  <2> SUFFICES ASSUME ClassicInvariant, Recovery, before # 0, pc \in {"done", "failed"},
                      loc.ok => pc = "failed", budget + 1 >= MaxFaults
               PROVE  /\ apps.pid \in alive /\ born[apps.pid].ver = bin.at
                      /\ \/ born[apps.pid].tag \in committed \cup ({journal.txn} \ {0})
                         \/ /\ born[apps.pid].ver = born[before].ver
                            /\ loc.txn \notin committed
                            /\ born[apps.pid].bind = born[before].bind
                            /\ born[apps.pid].val = born[before].val
    BY DEF FailureRestores
  <2>1. InForce \/ Back
    <3>1. Course
      BY DEF Recovery, Tracked
    <3> QED
      BY <3>1 DEF Course, EndingFlow
  <2>2. CASE InForce
    BY <2>2 DEF InForce
  <2>3. CASE Back
    BY <2>3 DEF Back, Like, OldBinary
  <2> QED
    BY <2>1, <2>2, <2>3
<1> QED
  BY <1>1, RecoveryHolds, ClassicInvariantHolds, PTL

=============================================================================
