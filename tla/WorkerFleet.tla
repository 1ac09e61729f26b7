---------------------------- MODULE WorkerFleet ----------------------------
(***************************************************************************)
(* The replicas of a worker application: the supervisor loop of the        *)
(* monitor (supervisor.go, policy.go), the worker deploy with its journal  *)
(* and its revert (worker.go), and the manual commands (worker_manage.go,  *)
(* worker_ops.go).  Each holds the application's lock from its first read  *)
(* of deploy.json to its return (replica_coordinator.go): pc = "idle" says *)
(* that nobody does.                                                       *)
(*                                                                         *)
(* A process is numbered by the order of its launch, 0 for none; identity  *)
(* checks tell it from a reused PID.  Delays (back-off, stable window,     *)
(* startup timeout) are over or not, nondeterministically.  No secrets are *)
(* bound.  The statuses "stopping", "draining" and "replacing" are read by *)
(* the supervisor and written by none of these operations.                 *)
(***************************************************************************)
EXTENDS Naturals, FiniteSets

CONSTANTS
  MaxReplicas,   \* bound: replicas of the application
  MaxProcs,      \* bound: processes ever launched
  MaxVersion,    \* bound: versions
  MaxAttempts,   \* max_attempts of the restart policy
  Retries,       \* retries of the exec probe
  Policies, Modes, Strategies, Commands,
  WorkerFaults,  \* which faults may occur
  MaxFaults,     \* bound: faults
  MaxBad,        \* bound: processes that exit by themselves or fail their probe
  MaxOps         \* bound: operations other than supervisor passes

ASSUME BoundsAssumption ==
  /\ MaxReplicas \in Nat \ {0} /\ MaxVersion \in Nat \ {0} /\ Retries \in Nat \ {0}
  /\ MaxAttempts \in Nat /\ MaxFaults \in Nat /\ MaxBad \in Nat /\ MaxOps \in Nat
  /\ MaxProcs \in Nat /\ MaxReplicas <= MaxProcs

Slot == 0 .. MaxReplicas - 1
Proc == 1 .. MaxProcs
Ver == 0 .. MaxVersion

VARIABLES
  running,    \* live processes
  died,       \* processes that exited by themselves
  clean,      \* processes that exited with status 0
  builtAs,    \* the version each process runs
  launched,   \* number of processes launched
  state,      \* deploy.json
  handle,     \* the supervisor's handles: the process it launched for a slot
  fails,      \* its failed probes in a row
  conf,       \* restart policy and health mode
  pc, mem, loc,
  faults, bad, ops,
  outcome,    \* history: how the last operation ended
  astray,     \* history: processes whose stop could not be confirmed, or whose record a grow dropped
  unsaved,    \* history: the operation ignored the error of a Store
  lostHolder, \* history: an operation was killed, or recorded neither its undo nor its revert
  stopped,    \* history: the fleet was stopped by command and not started since
  before      \* history: the version each slot ran when the deploy began, 0 for none

fvars == <<running, died, clean, builtAs, launched, state, handle, fails, conf, pc, mem,
           loc, faults, bad, ops, outcome, astray, unsaved, lostHolder, stopped, before>>

NoRec == [pid |-> 0, ver |-> 0, status |-> "stopped", count |-> 0]

Status == {"stopped", "starting", "running", "restarting", "completed", "failed", "crashloop"}

Record == [pid: 0 .. MaxProcs, ver: Ver, status: Status, count: 0 .. MaxAttempts]

\* The replicas' slots and records; the rollout journal: its status and ReplacedFrom
\* (defined on touched).
Fleet == [on: SUBSET Slot, slots: [Slot -> Record],
          roll: {"none", "running", "done", "reverting", "recovery_required"},
          touched: SUBSET Slot, from: [Slot -> Ver], active: Ver, retiring: SUBSET Proc]

NoFleet == [on |-> {}, slots |-> [s \in Slot |-> NoRec], roll |-> "none", touched |-> {},
            from |-> [s \in Slot |-> 0], active |-> 0, retiring |-> {}]

\* kind: the operation; todo: the slots the loop has still to visit; n: the replicas
\* asked for; target: the version to deploy; old: the record replaced; surplus:
\* processes to stop; dirty: a record changed; after: what follows a revert.
Local == [kind: Commands \cup {"none", "pass", "boot"}, todo: SUBSET Slot, n: 0 .. MaxReplicas,
          target: Ver, old: Record, surplus: SUBSET Proc, dirty: BOOLEAN,
          strategy: Strategies \cup {"none"}, after: {"none", "prepare", "fail", "boot"}]

NoLoc == [kind |-> "none", todo |-> {}, n |-> 0, target |-> 0, old |-> NoRec,
          surplus |-> {}, dirty |-> FALSE, strategy |-> "none", after |-> "none"]

Live(r) == r.pid \in running

Set(j, s, r) == [j EXCEPT !.slots = [@ EXCEPT ![s] = r]]

\* The slot the loop is at, and its record.
Cur == CHOOSE s \in loc.todo : \A t \in loc.todo : s <= t

Rec == mem.slots[Cur]

\* applyReplicaSet and ensureReplicaMap: the records beyond n go.
Resize(j, n) == [j EXCEPT !.on = 0 .. n - 1,
                          !.slots = [s \in Slot |-> IF s < n THEN @[s] ELSE NoRec]]

Recorded(j) == ({j.slots[s].pid : s \in j.on} \ {0}) \cup j.retiring

-----------------------------------------------------------------------------
(* What every operation does to the machine.                               *)

Fine == faults' = faults

Fault(kind) == kind \in WorkerFaults /\ faults > 0 /\ faults' = faults - 1

Procs == <<running, died, clean, builtAs, launched>>

SupMem == <<handle, fails>>

Rest == <<conf, bad, ops, lostHolder, stopped, before>>

\* Store with its error checked.
Saved(j) == state' = j /\ Fine /\ UNCHANGED unsaved

SaveFails == Fault("store") /\ UNCHANGED <<state, unsaved>>

\* Store with its error ignored.
TrySave(j) == \/ Saved(j)
              \/ Fault("store") /\ state' = state /\ unsaved' = TRUE

Unsaved == UNCHANGED <<state, unsaved>>

\* GracefulStopWorker: the processes end, with any exit status (it matters to those
\* the supervisor holds a handle of).
Stopped(P) == /\ running' = running \ P /\ Fine
              /\ \E c \in SUBSET (P \cap running \cap {handle[s] : s \in Slot}) : clean' = clean \cup c
              /\ UNCHANGED <<died, builtAs, launched, astray>>

\* The end of p could not be confirmed.
StopFails(p) == /\ p \in running /\ Fault("stop")
                /\ astray' = astray \cup {p} /\ UNCHANGED Procs

\* A stop whose error is ignored.
TryStop(p) == Stopped({p}) \/ StopFails(p)

\* The launcher starts one more process.
Spawn(v) == /\ launched < MaxProcs /\ launched' = launched + 1
            /\ running' = running \cup {launched + 1}
            /\ builtAs' = [builtAs EXCEPT ![launched + 1] = v] /\ UNCHANGED <<died, clean>>

\* markWorkerLaunched
Stamped(r, v) == [r EXCEPT !.pid = launched + 1, !.ver = v, !.status = "starting"]

\* launchWorkerReplica of slot s at version v: launch, persist.
Launched(s, v) ==
  /\ v # 0 /\ Spawn(v)
  /\ mem' = Set([mem EXCEPT !.on = @ \cup {s}], s, Stamped(mem.slots[s], v))
  /\ Saved(mem') /\ UNCHANGED astray

\* There is nothing to launch or the launch fails, and r is the record in memory; or
\* the record cannot be persisted and the process is stopped again.
LaunchFails(v, r) ==
  /\ \/ /\ (v = 0 /\ Fine) \/ (v # 0 /\ Fault("launch"))
        /\ r = [Rec EXCEPT !.ver = v] /\ UNCHANGED Procs
     \/ /\ v # 0 /\ Fault("store") /\ launched < MaxProcs /\ launched' = launched + 1
        /\ builtAs' = [builtAs EXCEPT ![launched + 1] = v]
        /\ r = Stamped(Rec, v) /\ UNCHANGED <<running, died, clean>>
  /\ Unsaved /\ UNCHANGED astray

Records(v) == {[Rec EXCEPT !.ver = v], Stamped(Rec, v)}

Goto(to) == pc' = to /\ UNCHANGED <<loc, outcome>>

Return(r) == pc' = "idle" /\ loc' = NoLoc /\ mem' = NoFleet /\ outcome' = r

\* On to the next replica, or to what follows the loop.
Advance(loop, end) ==
  /\ loc' = [loc EXCEPT !.todo = @ \ {Cur}, !.old = NoRec]
  /\ pc' = IF loc'.todo = {} THEN end ELSE loop
  /\ UNCHANGED outcome

\* ReconcileSecretTxn at the start of an operation, when deploy.json still lists
\* retiring processes: stop them, forget them, close the journal.
DrainRetirements ==
  /\ pc = "idle" /\ state.retiring # {} /\ ops > 0 /\ ops' = ops - 1
  /\ \/ /\ Stopped(state.retiring \ {state.slots[s].pid : s \in state.on})
        /\ state' = [state EXCEPT !.retiring = {},
                                  !.roll = IF @ = "none" THEN "none" ELSE "done"]
     \/ \E p \in state.retiring : StopFails(p) /\ UNCHANGED state
  /\ UNCHANGED <<SupMem, conf, bad, pc, mem, loc, outcome, unsaved, lostHolder, stopped, before>>

\* An operation takes the lock and reads deploy.json.
Open(to, l) ==
  /\ pc = "idle" /\ state.retiring = {} /\ pc' = to /\ loc' = l /\ mem' = state
  /\ Fine /\ outcome' = "none" /\ unsaved' = FALSE /\ before' = [s \in Slot |-> 0]
  /\ UNCHANGED <<Procs, state, SupMem, astray, conf, bad, lostHolder>>

-----------------------------------------------------------------------------
(* The supervisor: one pass over the replicas.                             *)

BeginPass ==
  /\ state.on # {} /\ Open("pass", [NoLoc EXCEPT !.kind = "pass", !.todo = state.on])
  /\ UNCHANGED <<ops, stopped>>

\* reapHandle: the exit of the process the handle is for, whichever process the
\* record names by now.
Reaped == handle[Cur] # 0 /\ handle[Cur] \notin running

\* Evaluate: what the restart policy says of an exit.
Evaluate(ok) ==
  CASE conf.policy = "always" -> "restart"
    [] conf.policy = "never" -> IF ok THEN "completed" ELSE "failed"
    [] OTHER -> IF ok THEN "completed" ELSE "restart"

\* scheduleRestart
Scheduled(r) == IF r.count >= MaxAttempts THEN [r EXCEPT !.status = "crashloop"]
                ELSE [r EXCEPT !.status = "restarting", !.count = @ + 1]

\* finishExit: an exit this process did not witness counts as a failure.
AfterExit(r, reaped) ==
  LET decision == Evaluate(reaped /\ handle[Cur] \in clean) IN
    IF decision = "restart" THEN Scheduled(r) ELSE [r EXCEPT !.status = decision]

\* The replica's record becomes r; the pass goes on with the next one.
PassNext(r) ==
  /\ mem' = Set(mem, Cur, r)
  /\ loc' = [loc EXCEPT !.dirty = @ \/ r # Rec, !.todo = @ \ {Cur}]
  /\ pc' = IF loc'.todo = {} THEN "passed" ELSE "pass"
  /\ UNCHANGED outcome

Drop(f) == [f EXCEPT ![Cur] = 0]

\* What a pass finds: the handle's process may be gone (the goroutine that waits for
\* it may not have seen that yet), and the record's process may be.
Finds(reaped, live) ==
  /\ pc = "pass"
  /\ reaped => Reaped
  /\ live = (~reaped /\ Live(Rec))

\* A dead replica that should run: policy.
PassExit(reaped) ==
  /\ Finds(reaped, FALSE) /\ Rec.status \in {"starting", "running"}
  /\ PassNext(AfterExit(Rec, reaped))
  /\ handle' = Drop(handle) /\ fails' = Drop(fails)
  /\ Fine /\ Unsaved /\ UNCHANGED <<Procs, astray, Rest>>

\* Nothing to do: the back-off is not over, the replica is well or not ready yet,
\* or its status is terminal.
PassOver(reaped, live) ==
  /\ Finds(reaped, live)
  /\ \/ Rec.status = "restarting" /\ ~live
     \/ Rec.status = "running" /\ live
     \/ Rec.status = "starting" /\ live /\ conf.mode = "exec"
     \/ Rec.status \in {"stopped", "completed", "failed", "crashloop"}
  /\ LET gone == Rec.status \notin {"restarting", "running", "starting"} /\ ~live IN
       /\ handle' = IF reaped \/ gone THEN Drop(handle) ELSE handle
       /\ fails' = IF gone THEN Drop(fails) ELSE fails
  /\ PassNext(Rec)
  /\ Fine /\ Unsaved /\ UNCHANGED <<Procs, astray, Rest>>

\* restarting -> starting when the process turns out to live; starting -> running;
\* the restart counter after the stable window.
PassLive ==
  /\ Finds(FALSE, TRUE)
  /\ \/ Rec.status = "restarting" /\ PassNext([Rec EXCEPT !.status = "starting"]) /\ UNCHANGED fails
     \/ Rec.status = "starting" /\ PassNext([Rec EXCEPT !.status = "running"])
          /\ fails' = IF conf.mode = "exec" THEN Drop(fails) ELSE fails
     \/ Rec.status = "running" /\ Rec.count > 0 /\ PassNext([Rec EXCEPT !.count = 0]) /\ UNCHANGED fails
  /\ Fine /\ Unsaved /\ UNCHANGED <<Procs, handle, astray, Rest>>

\* The back-off is over: relaunch at the recorded version.
PassRelaunch(reaped) ==
  /\ Finds(reaped, FALSE) /\ Rec.status = "restarting"
  /\ \/ /\ Rec.ver # 0 /\ Spawn(Rec.ver) /\ PassNext(Stamped(Rec, Rec.ver)) /\ Saved(mem')
        /\ handle' = [handle EXCEPT ![Cur] = launched + 1] /\ UNCHANGED astray
     \/ \E r \in Records(Rec.ver) :
          /\ LaunchFails(Rec.ver, r) /\ PassNext(Scheduled(r))
          /\ handle' = IF reaped THEN Drop(handle) ELSE handle
  /\ UNCHANGED <<fails, Rest>>

\* stopLive stops what the handle is for when there is one.
Held == IF handle[Cur] # 0 THEN handle[Cur] ELSE Rec.pid

\* exec mode: the startup timeout is over, or the probe failed Retries times in a
\* row: stop the replica and count one failure.  An unconfirmed stop is ignored.
PassUnhealthy ==
  /\ Finds(FALSE, TRUE) /\ conf.mode = "exec"
  /\ \/ Rec.status = "starting"
     \/ Rec.status = "running" /\ fails[Cur] + 1 >= Retries
  /\ PassNext(Scheduled(Rec)) /\ TryStop(Held)
  /\ handle' = Drop(handle) /\ fails' = Drop(fails)
  /\ bad > 0 /\ bad' = bad - 1
  /\ Unsaved /\ UNCHANGED <<conf, ops, lostHolder, stopped, before>>

\* An exec probe has answered: well, or one failure more.
PassProbe ==
  /\ Finds(FALSE, TRUE) /\ conf.mode = "exec" /\ Rec.status = "running"
  /\ \/ fails' = Drop(fails)
     \/ fails[Cur] + 1 < Retries /\ fails' = [fails EXCEPT ![Cur] = @ + 1]
  /\ PassNext(Rec)
  /\ Fine /\ Unsaved /\ UNCHANGED <<Procs, handle, astray, Rest>>

\* A changed record is persisted once, at the end; a failure is logged.
PassEnd ==
  /\ pc = "passed" /\ Return("pass")
  /\ IF loc.dirty THEN TrySave(mem) ELSE Fine /\ Unsaved
  /\ UNCHANGED <<Procs, SupMem, astray, Rest>>

Pass ==
  \/ BeginPass \/ PassLive \/ PassUnhealthy \/ PassProbe \/ PassEnd
  \/ \E reaped \in BOOLEAN : PassExit(reaped) \/ PassRelaunch(reaped)
  \/ \E reaped, live \in BOOLEAN : PassOver(reaped, live)

-----------------------------------------------------------------------------
(* The manual commands.                                                    *)

Begin(kind, l) ==
  /\ kind \in Commands /\ ops > 0 /\ ops' = ops - 1
  /\ Open(kind, [l EXCEPT !.kind = kind]) /\ stopped' = FALSE

BeginStart == state.on # {} /\ Begin("start", [NoLoc EXCEPT !.todo = state.on])

BeginStop == state.on # {} /\ Begin("stop", [NoLoc EXCEPT !.todo = state.on])

\* WorkerRestartAll, or WorkerRestartReplica of one slot.
BeginRestart ==
  \E todo \in {state.on} \cup {{s} : s \in state.on} :
    todo # {} /\ Begin("restart", [NoLoc EXCEPT !.todo = todo])

\* WorkerStart: what lives is running, what does not is launched and watched.
StartSlot ==
  /\ pc = "start"
  /\ \/ /\ Live(Rec) /\ Rec.status \in {"running", "starting"}
        /\ Advance("start", "done") /\ Fine /\ Unsaved /\ UNCHANGED <<Procs, mem, astray>>
     \/ /\ Live(Rec) /\ Rec.status \notin {"running", "starting"}
        /\ mem' = Set(mem, Cur, [Rec EXCEPT !.status = "running"])
        /\ TrySave(mem') /\ Advance("start", "done") /\ UNCHANGED <<Procs, astray>>
     \/ /\ ~Live(Rec) /\ Launched(Cur, Rec.ver) /\ Goto("startWait")
     \/ /\ ~Live(Rec) /\ \E r \in Records(Rec.ver) : LaunchFails(Rec.ver, r)
        /\ Return("error")
  /\ UNCHANGED <<SupMem, Rest>>

\* The record is proven: running, its counter reset; an error of the Store is ignored.
Proven(loop) ==
  /\ mem' = Set(mem, Cur, [Rec EXCEPT !.status = "running", !.count = 0])
  /\ TrySave(mem') /\ Advance(loop, "done") /\ UNCHANGED <<Procs, astray>>

StartWait ==
  /\ pc = "startWait"
  /\ \/ Live(Rec) /\ Proven("start")
     \/ ~Live(Rec) /\ Return("error") /\ Fine /\ Unsaved /\ UNCHANGED <<Procs, astray>>
  /\ UNCHANGED <<SupMem, Rest>>

\* A bug: a replica that is not alive needs no stop.
StopDeadMutant(r) == r

\* WorkerStop's record of a replica that is not alive.
StopDead(r) == [r EXCEPT !.status = "stopped"]

\* WorkerStop: a failed stop ends it.
StopSlot ==
  /\ pc = "stop"
  /\ \/ /\ ~Live(Rec) /\ mem' = Set(mem, Cur, StopDead(Rec))
        /\ IF Rec.status # "stopped" THEN TrySave(mem') ELSE Fine /\ Unsaved
        /\ Advance("stop", "halted") /\ UNCHANGED <<Procs, astray>>
     \/ /\ Live(Rec) /\ Stopped({Rec.pid}) /\ Unsaved /\ Goto("stopSave")
        /\ mem' = Set(mem, Cur, [Rec EXCEPT !.pid = 0, !.status = "stopped"])
     \/ /\ Live(Rec) /\ StopFails(Rec.pid) /\ Unsaved /\ Return("error")
  /\ UNCHANGED <<SupMem, Rest>>

StopSave ==
  /\ pc = "stopSave"
  /\ \/ Saved(mem) /\ Advance("stop", "halted") /\ UNCHANGED mem
     \/ SaveFails /\ Return("error")
  /\ UNCHANGED <<Procs, SupMem, astray, Rest>>

StopEnd ==
  /\ pc = "halted" /\ Return("stopped") /\ stopped' = ~unsaved /\ Fine /\ Unsaved
  /\ UNCHANGED <<Procs, SupMem, astray, conf, bad, ops, lostHolder, before>>

RestartSlot ==
  /\ pc = "restart" /\ Unsaved
  /\ \/ Stopped({Rec.pid}) /\ Goto("relaunch") /\ UNCHANGED mem
     \/ StopFails(Rec.pid) /\ Return("error")
  /\ UNCHANGED <<SupMem, Rest>>

\* LaunchWorkerReplica at the recorded version.
Relaunch ==
  /\ pc = "relaunch"
  /\ \/ Launched(Cur, Rec.ver) /\ Goto("restarted")
     \/ (\E r \in Records(Rec.ver) : LaunchFails(Rec.ver, r)) /\ Return("error")
  /\ UNCHANGED <<SupMem, Rest>>

Restarted == pc = "restarted" /\ Proven("restart") /\ UNCHANGED <<SupMem, Rest>>

\* currentWorkerArtifact: the version of the highest slot that has one.
Template(j) ==
  LET have == {s \in j.on : j.slots[s].ver # 0} IN
    IF have = {} THEN 0 ELSE j.slots[CHOOSE s \in have : \A t \in have : t <= s].ver

\* WorkerScale: more replicas.
BeginGrow(n) ==
  /\ state.on # {} /\ n > Cardinality(state.on) /\ Template(state) # 0
  /\ Begin("grow", [NoLoc EXCEPT !.todo = Cardinality(state.on) .. n - 1, !.n = n,
                                 !.target = Template(state)])

GrowSlot ==
  /\ pc = "grow"
  /\ \/ /\ loc.target # 0 /\ Spawn(loc.target)
        /\ mem' = LET j == IF loc.n > Cardinality(mem.on) THEN Resize(mem, loc.n) ELSE mem
                  IN  Set(j, Cur, Stamped(j.slots[Cur], loc.target))
        /\ Saved(mem') /\ Goto("grown")
        /\ astray' = astray \cup (running \cap (Recorded(mem) \ Recorded(mem')))
     \/ (\E r \in Records(loc.target) : LaunchFails(loc.target, r)) /\ Return("error")
  /\ UNCHANGED <<SupMem, Rest>>

Grown ==
  /\ pc = "grown" /\ mem' = Set(mem, Cur, [Rec EXCEPT !.status = "running"])
  /\ TrySave(mem') /\ Advance("grow", "done") /\ UNCHANGED <<Procs, SupMem, astray, Rest>>

\* WorkerScale: fewer; the highest slots are stopped, then forgotten.
BeginShrink(n) ==
  /\ n >= 1 /\ n < Cardinality(state.on)
  /\ Begin("shrink", [NoLoc EXCEPT !.n = n,
                        !.surplus = {state.slots[s].pid : s \in {t \in state.on : t >= n}} \ {0}])

ShrinkStop ==
  /\ pc = "shrink" /\ Unsaved
  /\ \E p \in loc.surplus :
       \/ /\ Stopped({p}) /\ loc' = [loc EXCEPT !.surplus = @ \ {p}]
          /\ UNCHANGED <<pc, mem, outcome>>
       \/ StopFails(p) /\ Return("error")
  /\ UNCHANGED <<SupMem, Rest>>

ShrinkEnd ==
  /\ pc = "shrink" /\ loc.surplus = {}
  /\ \/ Saved(Resize(mem, loc.n)) /\ Return("done")
     \/ SaveFails /\ Return("error")
  /\ UNCHANGED <<Procs, SupMem, astray, Rest>>

CommandEnd ==
  /\ pc = "done" /\ Return("done") /\ Fine /\ Unsaved
  /\ UNCHANGED <<Procs, SupMem, astray, Rest>>

Command ==
  \/ BeginStart \/ StartSlot \/ StartWait
  \/ BeginStop \/ StopSlot \/ StopSave \/ StopEnd
  \/ BeginRestart \/ RestartSlot \/ Relaunch \/ Restarted
  \/ \E n \in 1 .. MaxReplicas : BeginGrow(n) \/ BeginShrink(n)
  \/ GrowSlot \/ Grown \/ ShrinkStop \/ ShrinkEnd \/ CommandEnd

-----------------------------------------------------------------------------
(* The worker deploy.                                                      *)

Interrupted(j) == j.roll \notin {"none", "done"}

\* An interrupted predecessor is reverted first.
BeginDeploy ==
  \E n \in 1 .. MaxReplicas, strategy \in Strategies :
    Begin("deploy", [NoLoc EXCEPT !.n = n, !.strategy = strategy, !.after = "prepare"])

DeployLoad ==
  /\ pc = "deploy" /\ Goto(IF Interrupted(mem) THEN "revert" ELSE "prepare")
  /\ Fine /\ Unsaved /\ UNCHANGED <<Procs, SupMem, mem, astray, Rest>>

\* ReapStaleInstances
Reap(j) == [j EXCEPT !.slots = [s \in Slot |-> IF Live(@[s]) \/ @[s].pid = 0 THEN @[s]
                                ELSE [@[s] EXCEPT !.pid = 0, !.status = "stopped"]]]

\* Dead records are cleared, the set is resized; the surplus is stopped, errors
\* ignored.
Prepare ==
  /\ pc = "prepare" /\ Goto("build")
  /\ LET j == Reap(mem)
         surplus == {j.slots[s].pid : s \in {t \in j.on : t >= loc.n}} \ {0}
     IN  /\ mem' = [Resize(j, loc.n) EXCEPT !.roll = "none", !.touched = {},
                                            !.from = [s \in Slot |-> 0]]
         /\ before' = [s \in Slot |-> IF s < loc.n /\ Live(j.slots[s]) THEN j.slots[s].ver ELSE 0]
         /\ \/ Stopped(surplus)
            \/ \E p \in surplus : /\ Fault("stop") /\ running' = running \ (surplus \ {p})
                                  /\ astray' = astray \cup {p}
                                  /\ UNCHANGED <<died, clean, builtAs, launched>>
  /\ Unsaved /\ UNCHANGED <<SupMem, conf, bad, ops, lostHolder, stopped>>

\* Build of version v, then the journal; a decryption error of the environment ends
\* the deploy with the journal open.
Build(v) ==
  /\ pc = "build"
  /\ LET j == [mem EXCEPT !.roll = "running"] IN
       \/ /\ Saved(j) /\ mem' = j /\ UNCHANGED outcome
          /\ loc' = [loc EXCEPT !.target = v, !.todo = mem.on, !.after = "fail"]
          /\ pc' = IF loc.strategy = "rolling" THEN "roll" ELSE "drain"
       \/ (Fault("build") \/ Fault("store")) /\ Unsaved /\ Return("refused")
       \/ Fault("env") /\ state' = j /\ UNCHANGED unsaved /\ Return("refused")
  /\ UNCHANGED <<Procs, SupMem, astray, Rest>>

\* ReplacedFrom of the slot: the version of the record r it had.
Journalled(j, r) == [j EXCEPT !.touched = @ \cup {Cur}, !.from = [@ EXCEPT ![Cur] = r.ver]]

\* deployRolling
RollSlot ==
  /\ pc = "roll"
  /\ \/ /\ Rec.ver = loc.target /\ Rec.status = "running" /\ Live(Rec)
        /\ Advance("roll", "promote") /\ Fine /\ Unsaved /\ UNCHANGED <<Procs, mem, astray>>
     \/ /\ ~(Rec.ver = loc.target /\ Rec.status = "running" /\ Live(Rec))
        /\ \/ /\ Launched(Cur, loc.target) /\ pc' = "rollGate"
              /\ loc' = [loc EXCEPT !.old = Rec] /\ UNCHANGED outcome
           \/ (\E r \in Records(loc.target) : LaunchFails(loc.target, r)) /\ Goto("undo") /\ UNCHANGED mem
  /\ UNCHANGED <<SupMem, Rest>>

\* waitForReady fails: the process is gone, or the exec probe never passed.
GateFails == \/ ~Live(Rec) /\ Fine
             \/ Live(Rec) /\ conf.mode = "exec" /\ loc.kind = "deploy" /\ Fault("gate")

Restored == Set(mem, Cur, loc.old)

\* The replacement is proven and becomes the record; if that cannot be persisted the
\* old record comes back and the replacement is retired.
RollCommit ==
  /\ pc = "rollGate" /\ Live(Rec)
  /\ LET j == Journalled(Set(mem, Cur, [Rec EXCEPT !.status = "running"]), loc.old)
     IN  \/ Saved(j) /\ mem' = j /\ Goto("rollDrain")
         \/ /\ SaveFails /\ Goto("rollBack")
            /\ mem' = [Set(j, Cur, loc.old) EXCEPT !.retiring = @ \cup {Rec.pid}]
  /\ UNCHANGED <<Procs, SupMem, astray, Rest>>

\* An unproven replacement is stopped and the old record put back.
RollUnproven ==
  /\ pc = "rollGate" /\ pc' = "rollStop" /\ GateFails /\ Unsaved
  /\ UNCHANGED <<Procs, SupMem, mem, loc, outcome, astray, Rest>>

\* A bug: only the record goes back.
RollStopMutant ==
  /\ pc = "rollStop" /\ mem' = Restored /\ Goto("undo")
  /\ Fine /\ Unsaved /\ UNCHANGED <<Procs, SupMem, astray, Rest>>

RollStop ==
  /\ pc = "rollStop" /\ TryStop(Rec.pid) /\ mem' = Restored /\ Goto("undo")
  /\ Unsaved /\ UNCHANGED <<SupMem, Rest>>

\* The Store of the restored record, and the stop of the retired replacement.
RollBack ==
  /\ pc = "rollBack"
  /\ \/ Saved(mem) /\ Goto("rollRetire")
     \/ Fault("store") /\ UNCHANGED state /\ unsaved' = TRUE /\ Goto("revert")
  /\ UNCHANGED <<Procs, SupMem, mem, astray, Rest>>

RollRetire ==
  /\ pc = "rollRetire" /\ Goto("revert") /\ Unsaved
  /\ \E p \in mem.retiring : TryStop(p)
  /\ UNCHANGED <<SupMem, mem, Rest>>

\* A bug: the old replica is drained before the replacement is proven.
RollDrainMutant ==
  /\ pc \in {"rollGate", "rollDrain"} /\ Unsaved
  /\ IF loc.old.pid \in running THEN TryStop(loc.old.pid) ELSE Fine /\ UNCHANGED <<Procs, astray>>
  /\ IF pc = "rollDrain" THEN Advance("roll", "promote") ELSE Goto("rollGate")
  /\ UNCHANGED <<SupMem, mem, Rest>>

\* The old replica is drained, errors ignored.
RollDrain ==
  /\ pc = "rollDrain" /\ Advance("roll", "promote") /\ Unsaved
  /\ IF loc.old.pid \in running THEN TryStop(loc.old.pid) ELSE Fine /\ UNCHANGED <<Procs, astray>>
  /\ UNCHANGED <<SupMem, mem, Rest>>

\* Best-effort Store of the record put back, then the revert.
Undo == /\ pc = "undo" /\ TrySave(mem) /\ Goto("revert")
        /\ UNCHANGED <<Procs, SupMem, mem, astray, Rest>>

\* deployClassic, first pass: journal the slot, stop it, record that.
ClassicMark ==
  /\ pc = "drain"
  /\ mem' = Journalled(mem, Rec)
  /\ \/ Saved(mem') /\ Goto("drainStop")
     \/ SaveFails /\ Goto("revert")
  /\ UNCHANGED <<Procs, SupMem, astray, Rest>>

NoPid(r) == [r EXCEPT !.pid = 0, !.status = "stopped"]

\* Errors of the stop are ignored; a replica found dead is not persisted.
ClassicStop ==
  /\ pc = "drainStop" /\ mem' = Set(mem, Cur, NoPid(Rec)) /\ Unsaved
  /\ \/ Live(Rec) /\ TryStop(Rec.pid) /\ Goto("drainSave")
     \/ /\ ~Live(Rec) /\ Fine /\ UNCHANGED <<Procs, astray, outcome>>
        /\ loc' = [loc EXCEPT !.todo = IF @ = {Cur} THEN mem.on ELSE @ \ {Cur}]
        /\ pc' = IF loc.todo = {Cur} THEN "launch" ELSE "drain"
  /\ UNCHANGED <<SupMem, Rest>>

ClassicSave ==
  /\ pc = "drainSave" /\ TrySave(mem)
  /\ loc' = [loc EXCEPT !.todo = IF @ = {Cur} THEN mem.on ELSE @ \ {Cur}]
  /\ pc' = IF loc.todo = {Cur} THEN "launch" ELSE "drain"
  /\ UNCHANGED <<Procs, SupMem, mem, outcome, astray, Rest>>

\* Second pass: launch, prove, record.
ClassicLaunch ==
  /\ pc = "launch"
  /\ \/ Launched(Cur, loc.target) /\ Goto("gate")
     \/ \E r \in Records(loc.target) :
          LaunchFails(loc.target, r) /\ mem' = Set(mem, Cur, r) /\ Goto("revert")
  /\ UNCHANGED <<SupMem, Rest>>

ClassicCommit ==
  /\ pc = "gate" /\ Live(Rec) /\ mem' = Set(mem, Cur, [Rec EXCEPT !.status = "running"])
  /\ \/ Saved(mem') /\ Advance("launch", "promote")
     \/ SaveFails /\ Goto("revert")
  /\ UNCHANGED <<Procs, SupMem, astray, Rest>>

ClassicUnproven ==
  /\ pc = "gate" /\ pc' = "gateStop" /\ GateFails /\ Unsaved
  /\ UNCHANGED <<Procs, SupMem, mem, loc, outcome, astray, Rest>>

ClassicUnlaunch ==
  /\ pc = "gateStop" /\ TryStop(Rec.pid) /\ mem' = Set(mem, Cur, NoPid(Rec)) /\ Goto("undo")
  /\ Unsaved /\ UNCHANGED <<SupMem, Rest>>

\* The rollout is done: PromoteVersion, then the last Store.
Promote ==
  /\ pc = "promote"
  /\ \/ Saved([mem EXCEPT !.roll = "done", !.active = loc.target]) /\ Return("deployed")
     \/ (Fault("promote") \/ Fault("store")) /\ Unsaved /\ Return("unsettled")
  /\ UNCHANGED <<Procs, SupMem, astray, Rest>>

Deploy ==
  \/ BeginDeploy \/ DeployLoad \/ Prepare \/ \E v \in Ver \ {0} : Build(v)
  \/ RollSlot \/ RollCommit \/ RollUnproven \/ RollStop \/ RollBack \/ RollRetire \/ RollDrain \/ Undo
  \/ ClassicMark \/ ClassicStop \/ ClassicSave \/ ClassicLaunch \/ ClassicCommit
  \/ ClassicUnproven \/ ClassicUnlaunch \/ Promote

-----------------------------------------------------------------------------
(* revertRollout: every slot the rollout touched goes back to the version  *)
(* the journal recorded.                                                   *)

\* What follows a revert: the deploy that found an open journal goes on; a failed
\* deploy returns its error; the recovery at the monitor's start ends.
Reverted ==
  IF loc.after = "prepare"
  THEN /\ mem' = state' /\ Goto("prepare")
  ELSE Return(IF loc.after = "fail" THEN "failed" ELSE "recovered")

NotReverted == Return(IF loc.after = "fail" THEN "unsettled" ELSE "refused")

RevertBegin ==
  /\ pc = "revert"
  /\ \/ /\ \/ mem.touched = {} /\ Saved([mem EXCEPT !.roll = "done"]) /\ Reverted
           \/ /\ mem.touched # {} /\ mem' = [mem EXCEPT !.roll = "reverting"] /\ Saved(mem')
              /\ pc' = "revertSlot" /\ loc' = [loc EXCEPT !.todo = mem.touched] /\ UNCHANGED outcome
        /\ UNCHANGED lostHolder
     \/ SaveFails /\ NotReverted /\ lostHolder' = (lostHolder \/ unsaved)
  /\ UNCHANGED <<Procs, SupMem, astray, conf, bad, ops, stopped, before>>

\* A bug: a live replica is taken for a reverted one.
BackMutant == Live(Rec)

\* The slot already runs the version it had.
Back == Rec.ver = mem.from[Cur] /\ Live(Rec)

RevertSkip ==
  /\ pc = "revertSlot" /\ (Back \/ (mem.from[Cur] = 0 /\ Cur \notin mem.on))
  /\ Advance("revertSlot", "revertEnd") /\ Fine /\ Unsaved
  /\ UNCHANGED <<Procs, SupMem, mem, astray, Rest>>

\* The version is resolved and what runs is stopped; a slot that had no version
\* stays stopped.
RevertStop ==
  /\ pc = "revertSlot" /\ ~Back /\ (mem.from[Cur] = 0 => Cur \in mem.on) /\ Unsaved
  /\ \/ /\ Stopped({Rec.pid})
        /\ mem' = IF mem.from[Cur] = 0 THEN Set(mem, Cur, NoPid(Rec))
                  ELSE IF Live(Rec) THEN Set(mem, Cur, [Rec EXCEPT !.pid = 0]) ELSE mem
        /\ Goto(IF mem.from[Cur] = 0 THEN "revertSave" ELSE "revertLaunch")
     \/ StopFails(Rec.pid) /\ NotReverted
     \/ /\ mem.from[Cur] # 0 /\ Fault("paths") /\ Goto("recovery")
        /\ UNCHANGED <<Procs, mem, astray>>
  /\ UNCHANGED <<SupMem, Rest>>

RevertLaunch ==
  /\ pc = "revertLaunch"
  /\ \/ Launched(Cur, mem.from[Cur]) /\ Goto("revertGate")
     \/ \E r \in Records(mem.from[Cur]) :
          /\ LaunchFails(mem.from[Cur], r) /\ Goto("recovery")
          /\ mem' = Set([mem EXCEPT !.on = @ \cup {Cur}], Cur, r)
  /\ UNCHANGED <<SupMem, Rest>>

RevertProven ==
  /\ pc = "revertGate" /\ Live(Rec) /\ Goto("revertSave") /\ Fine /\ Unsaved
  /\ mem' = Set(mem, Cur, [Rec EXCEPT !.status = "running"])
  /\ UNCHANGED <<Procs, SupMem, astray, Rest>>

RevertSave ==
  /\ pc = "revertSave"
  /\ \/ Saved(mem) /\ Advance("revertSlot", "revertEnd") /\ UNCHANGED mem
     \/ SaveFails /\ NotReverted
  /\ UNCHANGED <<Procs, SupMem, astray, Rest>>

RevertUnproven ==
  /\ pc = "revertGate" /\ pc' = "revertUndo" /\ GateFails /\ Unsaved
  /\ UNCHANGED <<Procs, SupMem, mem, loc, outcome, astray, Rest>>

RevertUndo ==
  /\ pc = "revertUndo" /\ TryStop(Rec.pid) /\ mem' = Set(mem, Cur, NoPid(Rec))
  /\ Goto("revertRecord") /\ Unsaved /\ UNCHANGED <<SupMem, Rest>>

RevertRecord ==
  /\ pc = "revertRecord"
  /\ \/ Saved(mem) /\ Goto("recovery") /\ UNCHANGED mem
     \/ SaveFails /\ NotReverted
  /\ UNCHANGED <<Procs, SupMem, astray, Rest>>

\* recoveryRequired
RecoveryRequired ==
  /\ pc = "recovery" /\ NotReverted
  /\ Saved([mem EXCEPT !.roll = "recovery_required"]) \/ SaveFails
  /\ UNCHANGED <<Procs, SupMem, astray, Rest>>

RevertEnd ==
  /\ pc = "revertEnd"
  /\ \/ Saved([mem EXCEPT !.roll = "done", !.touched = {}, !.from = [s \in Slot |-> 0]]) /\ Reverted
     \/ SaveFails /\ NotReverted
  /\ UNCHANGED <<Procs, SupMem, astray, Rest>>

Revert ==
  \/ RevertBegin \/ RevertSkip \/ RevertStop \/ RevertLaunch \/ RevertProven \/ RevertSave
  \/ RevertUnproven \/ RevertUndo \/ RevertRecord \/ RecoveryRequired \/ RevertEnd

-----------------------------------------------------------------------------
(* The environment.                                                        *)

\* A process exits by itself.
Exit(p) ==
  /\ p \in running /\ bad > 0 /\ bad' = bad - 1
  /\ running' = running \ {p} /\ died' = died \cup {p}
  /\ \E c \in SUBSET ({p} \cap {handle[s] : s \in Slot}) : clean' = clean \cup c
  /\ UNCHANGED <<builtAs, launched, state, SupMem, conf, pc, mem, loc, faults, ops,
                 outcome, astray, unsaved, lostHolder, stopped, before>>

\* A command is killed; the kernel releases its lock.
Killed ==
  /\ pc # "idle" /\ loc.kind # "pass" /\ loc.after # "boot" /\ Fault("crash")
  /\ pc' = "idle" /\ mem' = NoFleet /\ loc' = NoLoc /\ outcome' = "killed" /\ lostHolder' = TRUE
  /\ UNCHANGED <<Procs, state, SupMem, conf, bad, ops, astray, unsaved, stopped, before>>

\* The monitor restarts: handles and probe counters are gone, RecoverWorkerRollout
\* reverts an interrupted rollout unless a command holds the lock.
MonitorRestart ==
  /\ "monitor" \in Commands /\ ops > 0 /\ ops' = ops - 1
  /\ handle' = [s \in Slot |-> 0] /\ fails' = [s \in Slot |-> 0]
  /\ lostHolder' = (lostHolder \/ (pc # "idle" /\ loc.kind = "pass"))
  /\ IF pc = "idle" \/ loc.kind \in {"pass", "boot"}
     THEN IF Interrupted(state) /\ state.retiring = {}
          THEN /\ pc' = "revert" /\ mem' = state
               /\ loc' = [NoLoc EXCEPT !.kind = "boot", !.after = "boot"]
               /\ outcome' = "none" /\ stopped' = FALSE /\ unsaved' = FALSE
          ELSE Return("none") /\ UNCHANGED <<stopped, unsaved>>
     ELSE UNCHANGED <<pc, mem, loc, outcome, stopped, unsaved>>
  /\ Fine /\ UNCHANGED <<Procs, state, conf, bad, astray, before>>

Init ==
  \E n \in 0 .. MaxReplicas :
    /\ launched = n /\ running = 1 .. n /\ died = {} /\ clean = {}
    /\ builtAs = [p \in Proc |-> IF p <= n THEN 1 ELSE 0]
    /\ state = IF n = 0 THEN NoFleet
               ELSE [NoFleet EXCEPT !.on = 0 .. n - 1, !.active = 1, !.roll = "done",
                       !.slots = [s \in Slot |-> IF s < n THEN [pid |-> s + 1, ver |-> 1,
                                    status |-> "running", count |-> 0] ELSE NoRec]]
    /\ handle = [s \in Slot |-> 0] /\ fails = [s \in Slot |-> 0]
    /\ conf \in [policy: Policies, mode: Modes]
    /\ pc = "idle" /\ mem = NoFleet /\ loc = NoLoc /\ faults = MaxFaults /\ bad = MaxBad /\ ops = MaxOps
    /\ outcome = "none" /\ astray = {} /\ unsaved = FALSE /\ lostHolder = FALSE
    /\ stopped = FALSE /\ before = [s \in Slot |-> 0]

Next ==
  \/ Pass \/ Command \/ Deploy \/ Revert \/ DrainRetirements
  \/ Killed \/ MonitorRestart \/ \E p \in Proc : Exit(p)

Spec == Init /\ [][Next]_fvars

-----------------------------------------------------------------------------
(* Properties.                                                             *)

\* Every variable stays within its type; in particular the restart counter never
\* passes max_attempts, whatever mix of exits, failed relaunches and failed probes
\* counts it up (scheduleRestart), nor does the probe counter reach Retries.
TypeOK ==
  /\ launched \in 0 .. MaxProcs /\ running \subseteq 1 .. launched /\ builtAs \in [Proc -> Ver]
  /\ state \in Fleet /\ mem \in Fleet /\ loc \in Local /\ before \in [Slot -> Ver]
  /\ handle \in [Slot -> 0 .. MaxProcs] /\ fails \in [Slot -> 0 .. Retries - 1]
  /\ faults \in 0 .. MaxFaults /\ bad \in 0 .. MaxBad /\ ops \in 0 .. MaxOps
  /\ unsaved \in BOOLEAN /\ lostHolder \in BOOLEAN /\ stopped \in BOOLEAN

\* "The returned error always describes the fleet state truthfully": when a deploy
\* fails and its revert reports success, every slot that ran a version before the
\* deploy has a process of that version again, unless that process exited by itself.
HonestFailure ==
  pc = "idle" /\ outcome = "failed" =>
    \A s \in state.on : before[s] # 0 =>
      LET p == state.slots[s].pid
      IN  p # 0 /\ p \in running \cup died /\ builtAs[p] = before[s]

\* No operation loses a process: between operations every live one is in deploy.json,
\* whichever of replaceOne's and revertRollout's steps failed.  Not covered: a process whose
\* stop could not be confirmed, one whose record WorkerScale's launch overwrote, and
\* everything after an operation was killed or could record neither its undo nor its revert.
NoOrphans ==
  pc = "idle" /\ ~lostHolder => running \subseteq Recorded(state) \cup astray

\* A rolling deploy stops the process a slot ran before only when deploy.json names
\* another process for the slot that passed its gate.
OldOutlivesGate ==
  [][ loc.kind = "deploy" /\ loc.strategy = "rolling" /\ loc.after = "fail" =>
        \A p \in (running \ running') \ died' :
          loc.todo # {} /\ p = loc.old.pid =>
            state.slots[Cur].pid # p /\ state.slots[Cur].status = "running" ]_fvars

\* A successful stop is final: until a command or a recovery starts replicas, the
\* supervisor brings no recorded process back.
StopHonoured == stopped => running \cap (Recorded(state) \cup Recorded(mem)) \subseteq astray

\* "Keyed by full process identity": the supervisor does not close the record of a
\* replica whose process lives.
LiveNotWrittenOff ==
  pc = "idle" => \A s \in state.on : state.slots[s].status \in {"completed", "failed"} => ~Live(state.slots[s])

=============================================================================
