------------------------------ MODULE BlueGreen ------------------------------
(***************************************************************************)
(* One application's zero-downtime deployment, as internal/deploy and the  *)
(* CLI commands `rebuild --blue-green`, `rollback`, `stop` and `start`     *)
(* perform it.                                                             *)
(*                                                                         *)
(* An operation is a sequential program whose steps touch three things it  *)
(* does not own: the processes of the machine, the deployment journal      *)
(* (deploy.json, versions.json) and the routing table of the proxy daemon. *)
(* Every such touch is one action, so the process can be killed between    *)
(* any two of them, and every touch can fail.  The deploy lock (lock.go)   *)
(* is an OS file lock: it admits one operation at a time and vanishes with *)
(* its holder, which is what pc = "idle" stands for.                       *)
(*                                                                         *)
(* An instance is identified by the order of its launch; the number stands *)
(* for its PID and for its internal port, 0 for "no PID".  Deployments     *)
(* carry no secret transaction (Secrets = nil).                            *)
(***************************************************************************)
EXTENDS Naturals, FiniteSets

CONSTANTS
  MaxInst,     \* bound: how many instances are ever launched
  Faults,      \* which kinds of fault the environment may produce
  MaxFaults,   \* bound: how many faults one operation meets (crash and die aside)
  Origins      \* the situations an application may start from

FaultKinds ==
  { "store",      \* Store fails, deploy.json keeps its old contents
    "storeSync",  \* Store fails in dir.Sync, after the rename took place
    "rpc",        \* a proxy control call fails and did not take effect
    "status",     \* the daemon answers Ping, the Status call fails
    "lostReply",  \* a proxy control call takes effect, its reply is lost
    "promote",    \* PromoteVersion fails and restored versions.json
    "stop",       \* a stop could not be confirmed, the process lives on
    "crash",      \* the phelix process is killed between two steps
    "die",        \* an instance dies by itself
    "reset",      \* the proxy daemon comes back without its routes
    "remove" }    \* a migration to classic deletes deploy.json, unlocked

OriginKinds == {"fresh", "classic", "rolling", "bluegreen"}

ASSUME MaxInstAssumption == MaxInst \in Nat \ {0}
ASSUME FaultsAssumption == Faults \subseteq FaultKinds
ASSUME MaxFaultsAssumption == MaxFaults \in Nat
ASSUME OriginsAssumption == Origins \subseteq OriginKinds
ASSUME RollingAssumption == "rolling" \in Origins => MaxInst >= 2

Inst == 1 .. MaxInst
Pid == 0 .. MaxInst
Version == 0 .. MaxInst
Slots == {"blue", "green"}
NoSlot == ""

VARIABLES
  alive,     \* instances whose process runs
  proven,    \* instances that ever passed the health check (or listened)
  classic,   \* a classic process owns the public port
  next,      \* number of the next instance to be launched
  route,     \* the proxy's targets for the app, {} when it is not enrolled
  disk,      \* deploy.json
  current,   \* the version versions.json marks current
  pc,        \* the step the operation holding the deploy lock is at
  mem,       \* its in-memory DeployState
  loc,       \* its local variables
  budget,    \* how many more faults it may meet
  removal,   \* migrateToClassic still has to delete deploy.json
  before,    \* history: what served when the operation began and should still;
             \* 0 is the classic process, until the public port is taken from it
  result     \* history: how the last operation ended, if nothing wrote after it

world == <<alive, proven, classic, next, route>>
vars == <<alive, proven, classic, next, route, disk, current,
          pc, mem, loc, budget, removal, before, result>>

-----------------------------------------------------------------------------
(* The journal.                                                            *)

SlotRec == [pid: Pid, port: Pid, ver: Version,
            status: {"stopped", "starting", "running", "failed"}]

EmptySlot == [pid |-> 0, port |-> 0, ver |-> 0, status |-> "stopped"]

\* What is left of a record once its process is gone.
Stopped(rec) == [rec EXCEPT !.pid = 0, !.status = "stopped"]

EmptySlots == [s \in Slots |-> EmptySlot]

\* "absent" stands for a deploy.json that does not exist.
Journal == [mode: {"absent", "rolling", "blue-green"},
            active: Slots \cup {NoSlot}, slots: [Slots -> SlotRec],
            replicas: SUBSET Inst, retiring: SUBSET Inst, ver: Version]

NoJournal == [mode |-> "absent", active |-> NoSlot, slots |-> EmptySlots,
              replicas |-> {}, retiring |-> {}, ver |-> 0]

SetSlot(j, s, rec) == [j EXCEPT !.slots = [@ EXCEPT ![s] = rec]]

Other(s) == IF s = "blue" THEN "green" ELSE "blue"

\* Mutation: the slot to deploy into is the one that serves.
InactiveSlotMutant(j) == j.active

InactiveSlot(j) == Other(j.active)

\* LoadOrInit: a missing file is initialised with the wanted mode.
LoadOrInit == IF disk.mode = "absent"
                THEN [NoJournal EXCEPT !.mode = "blue-green"]
                ELSE disk

\* MigrateTo(ModeBlueGreen): the previous strategy's records leave the state.
Migrated(j) == [j EXCEPT !.mode = "blue-green", !.active = NoSlot,
                         !.slots = EmptySlots, !.replicas = {}]

RestoreMode(j, p) == [j EXCEPT !.mode = p.mode, !.active = p.active,
                               !.slots = p.slots, !.replicas = p.replicas]

SlotPids(j) == {j.slots[s].pid : s \in Slots} \ {0}

\* ActiveInstance, as the set of the PIDs it records.
ActivePid(j) == IF j.active = NoSlot THEN {} ELSE {j.slots[j.active].pid} \ {0}

\* instancesServing: who the journal claims to be serving.
Serving(j) == IF j.mode = "blue-green" THEN ActivePid(j) ELSE j.replicas

\* The instances a journal keeps a usable record of.
Recorded(j) == SlotPids(j) \cup j.replicas \cup j.retiring

Ops == {"deploy", "rollback", "stop", "start", "reconcile", "classicize"}

Locals == [op: Ops \cup {"none"}, pre: Journal,
           legacy: SUBSET Inst, slot: Slots, active: Slots \cup {NoSlot},
           cand: Pid, tver: Version, oldVer: Version,
           proxyOK: BOOLEAN, enrolled: BOOLEAN, switched: BOOLEAN,
           clear: BOOLEAN]

NoLocals == [op |-> "none", pre |-> NoJournal, legacy |-> {}, slot |-> "blue",
             active |-> NoSlot, cand |-> 0, tver |-> 0, oldVer |-> 0,
             proxyOK |-> FALSE, enrolled |-> FALSE, switched |-> FALSE,
             clear |-> FALSE]

-----------------------------------------------------------------------------
(* Faults, and the outcomes of the calls that can fail.                    *)

NoFault == budget' = budget

Fault(kind) == kind \in Faults /\ budget > 0 /\ budget' = budget - 1

\* Store: temp file, fsync, rename, directory fsync.
StoreOK(j) == disk' = j /\ NoFault

StoreFails(j) == \/ Fault("store") /\ disk' = disk
                 \/ Fault("storeSync") /\ disk' = j

\* storeState: the failure is logged and the operation goes on.
StoreBestEffort(j) == StoreOK(j) \/ StoreFails(j)

\* GracefulStop / stopInstance of the instances S: SIGTERM, grace, SIGKILL.
StopOK(S) == alive' = alive \ S /\ NoFault

StopFails(S) == /\ S \cap alive # {}
                /\ Fault("stop")
                /\ \E left \in (SUBSET (S \cap alive)) \ {{}} :
                      alive' = alive \ (S \ left)

\* Client.Do: the daemon replaces the app's targets, and answers.
CallOK(targets) == route' = targets /\ NoFault

CallFails(targets) == \/ Fault("rpc") /\ route' = route
                      \/ Fault("lostReply") /\ route' = targets

\* EnrollApp must bind the public port unless the app is enrolled already;
\* SwitchApp needs the app to be enrolled.
AddAccepted == route # {} \/ ~classic

SwitchAccepted == route # {}

\* The operation returns and its lock is released.
Return(r) ==
  /\ pc' = "idle" /\ result' = r
  /\ mem' = NoJournal /\ loc' = NoLocals

Step(from, to) ==
  /\ pc = from /\ pc' = to
  /\ UNCHANGED <<removal, before, result>>

-----------------------------------------------------------------------------
(* What every operation begins with.                                       *)

\* Whoever answers the requests: proxied instances, or the classic process.
Serves == (route \cap alive) \cup (IF classic THEN {0} ELSE {})

\* AcquireDeployLock.  All operations but a deploy and a migration to classic
\* begin with ReconcileSecretTxn; stop and start need a zero-downtime journal.
Begin(op) ==
  /\ pc = "idle"
  /\ op \in {"stop", "classicize"} => disk.mode # "absent"
  /\ op = "start" => disk.mode = "blue-green" /\ next <= MaxInst
  /\ op \in {"deploy", "rollback"} => next <= MaxInst
  /\ op = "rollback" => disk.mode = "blue-green"
  /\ op = "classicize" => "remove" \in Faults
  /\ pc' = CASE op = "deploy" -> "load"
             [] op = "classicize" -> "unroute"
             [] OTHER -> "drain"
  /\ mem' = disk
  /\ loc' = [NoLocals EXCEPT !.op = op]
  /\ budget' = MaxFaults
  /\ before' = IF op \in {"stop", "classicize"} THEN {} ELSE Serves
  /\ result' = "none"
  /\ UNCHANGED <<world, disk, current, removal>>

\* The step of the operation proper, once reconciliation is done.
AfterDrain == CASE loc.op = "rollback" -> "load"
                [] loc.op = "stop" -> "unroute"
                [] loc.op = "start" -> "launchActive"
                [] OTHER -> "reconciled"

NothingToDrain(j) == j.retiring = {} \/ (j.mode = "blue-green" /\ Serving(j) \cap alive = {})

\* drainSecretRetirements stops the retired instances that do not serve.
Drain ==
  LET retired == mem.retiring \ Serving(mem) IN
  \/ /\ NothingToDrain(mem)
     /\ Step("drain", AfterDrain)
     /\ mem' = disk
     /\ UNCHANGED <<world, disk, current, loc, budget>>
  \/ /\ ~NothingToDrain(mem)
     /\ \/ /\ Step("drain", "storeDrained")
           /\ StopOK(retired)
           /\ mem' = [mem EXCEPT !.retiring = {}]
           /\ UNCHANGED loc
        \/ /\ pc = "drain" /\ StopFails(retired)
           /\ Return("failed") /\ UNCHANGED <<removal, before>>
     /\ UNCHANGED <<proven, classic, next, route, disk, current>>

StoreDrained ==
  /\ \/ /\ Step("storeDrained", AfterDrain)
        /\ StoreOK(mem) /\ UNCHANGED <<mem, loc>>
     \/ /\ pc = "storeDrained" /\ StoreFails(mem)
        /\ Return("failed") /\ UNCHANGED <<removal, before>>
  /\ UNCHANGED <<world, current>>

Reconciled ==
  /\ pc = "reconciled" /\ Return("ok")
  /\ UNCHANGED <<world, disk, current, budget, removal, before>>

-----------------------------------------------------------------------------
(* BlueGreen.Deploy.                                                       *)

\* LoadOrInit and captureMode; MigrateTo does nothing in blue-green mode.
LoadState ==
  /\ Step("load", IF LoadOrInit.mode = "blue-green" THEN "recover" ELSE "migrate")
  /\ mem' = LoadOrInit
  /\ loc' = [loc EXCEPT !.pre = LoadOrInit]
  /\ UNCHANGED <<world, disk, current, budget>>

\* MigrateTo: a failure returns before the undo hook is registered.
MigrateTo ==
  /\ pc = "migrate"
  /\ \/ /\ StoreOK(Migrated(mem))
        /\ pc' = "recover" /\ mem' = Migrated(mem)
        /\ loc' = [loc EXCEPT !.legacy = SlotPids(mem) \cup mem.replicas]
        /\ UNCHANGED result
     \/ StoreFails(Migrated(mem)) /\ Return("failed")
  /\ UNCHANGED <<world, current, removal, before>>

\* Mutation: recovery does not spare the active slot.
StaleSlotsMutant(j) == {s \in Slots : j.slots[s].pid # 0}

StaleSlots(j) == {s \in Slots : s # j.active /\ j.slots[s].pid # 0}

Reclaimed(j, s) ==
  LET rec == j.slots[s] IN
  IF s \notin StaleSlots(j) THEN rec
  ELSE IF rec.pid \in alive \/ rec.status \in {"running", "starting"}
    THEN Stopped(rec)
    ELSE rec

\* recoverStaleSlots stops what earlier operations left in non-active slots.
RecoverStaleSlots ==
  LET stale == {mem.slots[s].pid : s \in StaleSlots(mem)} \cap alive IN
  /\ \/ /\ Step("recover", "storeRecovered")
        /\ StopOK(stale)
        /\ mem' = [mem EXCEPT !.slots = [s \in Slots |-> Reclaimed(mem, s)]]
        /\ loc' = [loc EXCEPT !.slot = InactiveSlot(mem), !.active = mem.active]
     \/ Step("recover", "fail") /\ StopFails(stale) /\ UNCHANGED <<mem, loc>>
  /\ UNCHANGED <<proven, classic, next, route, disk, current>>

StoreRecovered ==
  /\ Step("storeRecovered", "probe")
  /\ StoreBestEffort(mem)
  /\ UNCHANGED <<world, current, mem, loc>>

\* pingProxy and proxyEnrolled: a failing Status reads as "not enrolled".
ProbeProxy ==
  /\ Step("probe", "build")
  /\ \E ping, status \in BOOLEAN :
       /\ CASE ping /\ status -> NoFault
            [] ping /\ ~status -> Fault("status")
            [] OTHER -> Fault("rpc")
       /\ loc' = [loc EXCEPT !.proxyOK = ping,
                             !.enrolled = status /\ route # {}]
  /\ UNCHANGED <<world, disk, current, mem>>

\* src.Build, the env overlay or the launch fails.
BuildFails ==
  /\ Step("build", "fail")
  /\ UNCHANGED <<world, disk, current, mem, loc, budget>>

Launched(v) == [pid |-> next, port |-> next, ver |-> v, status |-> "starting"]

\* The artifact is a fresh version, an older one (rollback), or unversioned.
LaunchCandidate ==
  /\ Step("build", "storeStarting")
  /\ \E v \in 0 .. next :
       /\ mem' = SetSlot(mem, loc.slot, Launched(v))
       /\ loc' = [loc EXCEPT !.cand = next, !.tver = v]
  /\ alive' = alive \cup {next}
  /\ next' = next + 1
  /\ UNCHANGED <<proven, classic, route, disk, current, budget>>

StoreStarting ==
  /\ Step("storeStarting", "health")
  /\ StoreBestEffort(mem)
  /\ UNCHANGED <<world, current, mem, loc>>

HealthPasses ==
  /\ Step("health", "cutover")
  /\ loc.cand \in alive
  /\ proven' = proven \cup {loc.cand}
  /\ mem' = SetSlot(mem, loc.slot, [mem.slots[loc.slot] EXCEPT !.status = "running"])
  /\ UNCHANGED <<alive, classic, next, route, disk, current, loc, budget>>

\* Mutation: the outcome of the health check is ignored.
HealthFailsMutant ==
  /\ Step("health", "cutover")
  /\ UNCHANGED <<world, disk, current, mem, loc, budget>>

\* The candidate is stopped and its PID cleared: abort, then storeAborted.
HealthFails ==
  /\ Step("health", "abort")
  /\ loc' = [loc EXCEPT !.clear = TRUE]
  /\ UNCHANGED <<world, disk, current, mem, budget>>

UsesAdd == loc.active = NoSlot \/ ~loc.enrolled

\* The first deploy needs a proxy daemon that answered.
ProxyUnreachable ==
  /\ Step("cutover", "abort")
  /\ UsesAdd /\ ~loc.proxyOK
  /\ loc' = [loc EXCEPT !.clear = TRUE]
  /\ UNCHANGED <<world, disk, current, mem, budget>>

\* handOffPublicPort: whoever the application record names is stopped to free
\* the public port.  For an app the proxy serves that is a serving instance
\* (reconcileAppWithDeploy), and the port stays bound, so the deploy aborts.
HandOffPublicPort ==
  /\ UsesAdd /\ loc.proxyOK
  /\ \/ /\ Step("cutover", "add") /\ NoFault
        /\ loc.enrolled \/ (route = {} /\ ~classic)
        /\ UNCHANGED <<alive, classic, loc>>
     \/ /\ pc = "cutover" /\ pc' = "add" /\ NoFault
        /\ ~loc.enrolled /\ route = {} /\ classic
        /\ classic' = FALSE /\ before' = before \ {0}
        /\ UNCHANGED <<alive, loc, removal, result>>
     \/ /\ Step("cutover", "abort")
        /\ ~loc.enrolled
        /\ loc' = [loc EXCEPT !.clear = TRUE]
        /\ \/ classic /\ Fault("stop") /\ UNCHANGED alive
           \/ /\ route # {} /\ NoFault
              /\ \E named \in Serving(loc.pre) \cup {0} : alive' = alive \ {named}
        /\ UNCHANGED classic
  /\ UNCHANGED <<proven, next, route, disk, current, mem>>

\* The failing Add and Switch leave the candidate's PID in its record.
Add ==
  /\ \/ /\ Step("add", "commit")
        /\ AddAccepted /\ CallOK({loc.cand})
        /\ loc' = [loc EXCEPT !.active = NoSlot, !.switched = TRUE]
     \/ /\ Step("add", "abort")
        /\ \/ ~AddAccepted /\ NoFault /\ UNCHANGED route
           \/ AddAccepted /\ CallFails({loc.cand})
        /\ UNCHANGED loc
  /\ UNCHANGED <<alive, proven, classic, next, disk, current, mem>>

Switch ==
  /\ ~UsesAdd
  /\ \/ /\ Step("cutover", "commit")
        /\ SwitchAccepted /\ CallOK({loc.cand})
        /\ loc' = [loc EXCEPT !.switched = TRUE]
     \/ /\ Step("cutover", "abort")
        /\ \/ ~SwitchAccepted /\ NoFault /\ UNCHANGED route
           \/ SwitchAccepted /\ CallFails({loc.cand})
        /\ UNCHANGED loc
  /\ UNCHANGED <<alive, proven, classic, next, disk, current, mem>>

Failed(rec) == [rec EXCEPT !.status = "failed", !.pid = IF loc.clear THEN 0 ELSE @]

\* GracefulStop of the candidate; its outcome is ignored.
StopCandidate ==
  /\ Step("abort", "storeAborted")
  /\ StopOK({loc.cand}) \/ StopFails({loc.cand})
  /\ mem' = SetSlot(mem, loc.slot, Failed(mem.slots[loc.slot]))
  /\ UNCHANGED <<proven, classic, next, route, disk, current, loc>>

StoreAborted ==
  /\ Step("storeAborted", "fail")
  /\ StoreBestEffort(mem)
  /\ UNCHANGED <<world, current, mem, loc>>

\* Mutations: the commit forgets the version, or the slot.
CommittedSansVersion == [mem EXCEPT !.active = loc.slot]

CommittedSansSlot == [mem EXCEPT !.ver = loc.tver]

\* Persist the post-switch state before any old process is drained.
Committed == [mem EXCEPT !.active = loc.slot, !.ver = loc.tver]

Commit ==
  /\ \/ Step("commit", "promote") /\ StoreOK(Committed)
     \/ Step("commit", "compensate") /\ StoreFails(Committed)
  /\ mem' = Committed
  /\ loc' = [loc EXCEPT !.oldVer = mem.ver]
  /\ UNCHANGED <<world, current>>

\* An unversioned artifact is not promoted.
Promote ==
  /\ \/ /\ Step("promote", "stopLegacy")
        /\ current' = IF loc.tver = 0 THEN current ELSE loc.tver
        /\ NoFault
     \/ /\ Step("promote", "demote")
        /\ loc.tver # 0 /\ Fault("promote")
        /\ UNCHANGED current
  /\ UNCHANGED <<world, disk, mem, loc>>

\* Mutation: compensation always withdraws the route.
OldTargetMutant == {}

\* The proxy goes back to the old target when there is one, else the app is
\* removed from it.  An active slot always has a port.
OldTarget == IF loc.active = NoSlot THEN {} ELSE {mem.slots[loc.active].port}

\* Mutation: the proxy is compensated, the state to be persisted is not.
CompensateMutant ==
  /\ pc \in {"compensate", "demote"}
  /\ Step(pc, "retire")
  /\ loc.active = NoSlot \/ SwitchAccepted
  /\ CallOK(OldTarget)
  /\ loc' = [loc EXCEPT !.switched = FALSE]
  /\ UNCHANGED <<alive, proven, classic, next, disk, current, mem>>

Compensate ==
  /\ pc \in {"compensate", "demote"}
  /\ \/ /\ Step(pc, "retire")
        /\ loc.active = NoSlot \/ SwitchAccepted
        /\ CallOK(OldTarget)
        /\ mem' = [mem EXCEPT !.active = loc.active, !.ver = loc.oldVer]
        /\ loc' = [loc EXCEPT !.switched = FALSE]
     \/ /\ Step(pc, IF pc = "demote" THEN "bestKnown" ELSE "fail")
        /\ \/ loc.active # NoSlot /\ ~SwitchAccepted /\ NoFault /\ UNCHANGED route
           \/ (loc.active = NoSlot \/ SwitchAccepted) /\ CallFails(OldTarget)
        /\ UNCHANGED <<mem, loc>>
  /\ UNCHANGED <<alive, proven, classic, next, disk, current>>

\* Promotion and compensation failed: the candidate is kept and recorded.
StoreBestKnown ==
  /\ Step("bestKnown", "fail")
  /\ StoreBestEffort(mem)
  /\ UNCHANGED <<world, current, mem, loc>>

\* Mutation: the failed candidate leaves its slot without being recorded.
RetiredMutant ==
  SetSlot(mem, loc.slot, [mem.slots[loc.slot] EXCEPT !.pid = 0, !.status = "failed"])

\* retireFailedCandidate: the candidate is stopped only once it is recorded.
Retired ==
  SetSlot([mem EXCEPT !.retiring = @ \cup {loc.cand}], loc.slot,
          [mem.slots[loc.slot] EXCEPT !.pid = 0, !.status = "failed"])

RetireCandidate ==
  /\ \/ Step("retire", "stopRetired") /\ StoreOK(Retired) /\ mem' = Retired
     \/ Step("retire", "fail") /\ StoreFails(Retired) /\ UNCHANGED mem
  /\ UNCHANGED <<world, current, loc>>

StopRetired ==
  /\ Step("stopRetired", "fail")
  /\ StopOK({loc.cand}) \/ StopFails({loc.cand})
  /\ UNCHANGED <<proven, classic, next, route, disk, current, mem, loc>>

\* stopRetiredInstances: the previous strategy's instances.
StopLegacy ==
  /\ \/ Step("stopLegacy", "stopOld") /\ StopOK(loc.legacy)
     \/ Step("stopLegacy", "fail") /\ StopFails(loc.legacy)
  /\ UNCHANGED <<proven, classic, next, route, disk, current, mem, loc>>

\* Mutation: the new instance is stopped in the old one's place.
OldPidMutant == {loc.cand}

OldPid == IF loc.active = NoSlot THEN {} ELSE {mem.slots[loc.active].pid} \ {0}

Drained == IF OldPid = {} THEN mem
           ELSE SetSlot(mem, loc.active, Stopped(mem.slots[loc.active]))

\* The old slot is stopped last, by its recorded identity.
StopOld ==
  /\ \/ Step("stopOld", "storeFinal") /\ StopOK(OldPid) /\ mem' = Drained
     \/ Step("stopOld", "fail") /\ StopFails(OldPid) /\ UNCHANGED mem
  /\ UNCHANGED <<proven, classic, next, route, disk, current, loc>>

StoreFinal ==
  /\ \/ /\ pc = "storeFinal" /\ StoreOK(mem)
        /\ Return("deployed") /\ UNCHANGED <<removal, before>>
     \/ Step("storeFinal", "fail") /\ StoreFails(mem) /\ UNCHANGED <<mem, loc>>
  /\ UNCHANGED <<world, current>>

\* The deferred hook: a migration that switched nothing is undone.  Its other
\* branch (pre.mode = "") is dead, because LoadOrInit always sets the mode.
UndoMigration ==
  /\ pc = "fail" /\ Return("failed")
  /\ IF ~loc.switched /\ loc.pre.mode = "rolling"
       THEN StoreBestEffort(RestoreMode(mem, loc.pre))
       ELSE NoFault /\ UNCHANGED disk
  /\ UNCHANGED <<world, current, removal, before>>

-----------------------------------------------------------------------------
(* runDeployAwareStop and TeardownDeployment.                              *)

\* A proxy that cannot be reached does not stop the teardown.
RemoveRoute ==
  /\ Step("unroute", "teardown")
  /\ CallOK({}) \/ CallFails({})
  /\ UNCHANGED <<alive, proven, classic, next, disk, current, mem, loc>>

TornDown(rec) == IF rec.pid = 0 THEN rec ELSE Stopped(rec)

\* Every recorded instance is stopped; nobody looks at the stop reports.
Teardown ==
  /\ Step("teardown", "storeTorn")
  /\ \/ StopOK(SlotPids(mem) \cup mem.replicas)
     \/ StopFails(SlotPids(mem) \cup mem.replicas)
  /\ mem' = [mem EXCEPT !.slots = [s \in Slots |-> TornDown(mem.slots[s])],
                        !.replicas = {}]
  /\ UNCHANGED <<proven, classic, next, route, disk, current, loc>>

\* migrateToClassic deletes deploy.json after the lock is gone.
StoreTorn ==
  /\ pc = "storeTorn"
  /\ \/ /\ StoreOK(mem) /\ Return("ok")
        /\ removal' = (removal \/ loc.op = "classicize")
     \/ StoreFails(mem) /\ Return("failed") /\ UNCHANGED removal
  /\ UNCHANGED <<world, current, before>>

-----------------------------------------------------------------------------
(* runDeployAwareStart, StartDeployment and RestoreProxyRoute.             *)

\* Nothing to do, or nothing to start, or the launch itself fails.
StartEnds ==
  /\ pc = "launchActive"
  /\ \/ Serving(mem) \cap alive # {} /\ Return("ok")
     \/ Serving(mem) \cap alive = {} /\ Return("failed")
  /\ UNCHANGED <<world, disk, current, budget, removal, before>>

LaunchActive ==
  /\ Step("launchActive", "listen")
  /\ mem.active # NoSlot /\ Serving(mem) \cap alive = {}
  /\ loc' = [loc EXCEPT !.cand = next, !.slot = mem.active]
  /\ alive' = alive \cup {next}
  /\ next' = next + 1
  /\ UNCHANGED <<proven, classic, route, disk, current, mem, budget>>

\* WaitForListener is the only check a restored instance has to pass.
Listens ==
  /\ Step("listen", "storeStarted")
  /\ loc.cand \in alive
  /\ proven' = proven \cup {loc.cand}
  /\ mem' = SetSlot(mem, loc.slot, [mem.slots[loc.slot] EXCEPT
                  !.pid = loc.cand, !.port = loc.cand, !.status = "running"])
  /\ UNCHANGED <<alive, classic, next, route, disk, current, loc, budget>>

ListenFails ==
  /\ Step("listen", "undoStart")
  /\ UNCHANGED <<world, disk, current, mem, loc, budget>>

StoreStarted ==
  /\ \/ Step("storeStarted", "restoreRoute") /\ StoreOK(mem)
     \/ Step("storeStarted", "undoStart") /\ StoreFails(mem)
  /\ UNCHANGED <<world, current, mem, loc>>

UndoStart ==
  /\ pc = "undoStart" /\ Return("failed")
  /\ StopOK({loc.cand}) \/ StopFails({loc.cand})
  /\ UNCHANGED <<proven, classic, next, route, disk, current, removal, before>>

\* Switch when Status says enrolled, Add otherwise; then reconcile once more.
RestoreProxyRoute ==
  /\ \/ /\ Step("restoreRoute", "drain")
        /\ AddAccepted /\ CallOK({loc.cand})
        /\ loc' = [loc EXCEPT !.op = "reconcile"]
        /\ mem' = disk
     \/ /\ pc = "restoreRoute" /\ Return("failed") /\ UNCHANGED <<removal, before>>
        /\ \/ ~AddAccepted /\ NoFault /\ UNCHANGED route
           \/ AddAccepted /\ CallFails({loc.cand})
  /\ UNCHANGED <<alive, proven, classic, next, disk, current>>

-----------------------------------------------------------------------------
(* What happens beside the operation.                                      *)

\* The phelix process is killed; its deploy lock goes with it.
Crash ==
  /\ "crash" \in Faults
  /\ pc # "idle" /\ Return("crashed")
  /\ UNCHANGED <<world, disk, current, budget, removal, before>>

\* An instance exits by itself.
InstanceDies ==
  /\ "die" \in Faults
  /\ \E i \in alive :
       /\ alive' = alive \ {i}
       /\ before' = IF i \in route \cup {loc.cand} THEN {} ELSE before \ {i}
  /\ UNCHANGED <<proven, classic, next, route, disk, current,
                 pc, mem, loc, budget, removal, result>>

\* The daemon restarts without proxy.json.
ProxyReset ==
  /\ Fault("reset")
  /\ route # {} /\ route' = {} /\ before' = {}
  /\ UNCHANGED <<alive, proven, classic, next, disk, current,
                 pc, mem, loc, removal, result>>

\* migrateToClassic's RemoveState, which no lock covers.
RemoveState ==
  /\ removal /\ removal' = FALSE
  /\ disk' = NoJournal /\ result' = "none"
  /\ UNCHANGED <<world, current, pc, mem, loc, budget, before>>

-----------------------------------------------------------------------------
(* The specification.                                                      *)

Record(i, v) == [pid |-> i, port |-> i, ver |-> v, status |-> "running"]

\* An app that was never deployed, one that runs classically, one that a
\* rolling deploy left with two replicas, one with an active blue slot.
Origin(o) ==
  /\ alive = CASE o = "rolling" -> {1, 2} [] o = "bluegreen" -> {1} [] OTHER -> {}
  /\ classic = (o = "classic")
  /\ next = Cardinality(alive) + 1
  /\ current = IF alive = {} THEN 0 ELSE 1
  /\ disk = CASE o = "rolling" ->
                  [NoJournal EXCEPT !.mode = "rolling", !.replicas = {1, 2}, !.ver = 1]
             [] o = "bluegreen" ->
                  [NoJournal EXCEPT !.mode = "blue-green", !.active = "blue",
                                    !.slots["blue"] = Record(1, 1), !.ver = 1]
             [] OTHER -> NoJournal

Init ==
  /\ \E o \in Origins : Origin(o)
  /\ proven = alive /\ route = alive
  /\ pc = "idle" /\ mem = NoJournal /\ loc = NoLocals
  /\ budget = 0 /\ removal = FALSE /\ before = {} /\ result = "none"

Prepare == \/ \E op \in Ops : Begin(op)
           \/ Drain \/ StoreDrained \/ Reconciled

Deploy ==
  \/ LoadState \/ MigrateTo \/ RecoverStaleSlots \/ StoreRecovered \/ ProbeProxy
  \/ BuildFails \/ LaunchCandidate \/ StoreStarting \/ HealthPasses \/ HealthFails
  \/ ProxyUnreachable \/ HandOffPublicPort \/ Add \/ Switch
  \/ StopCandidate \/ StoreAborted \/ Commit \/ Promote \/ Compensate
  \/ StoreBestKnown \/ RetireCandidate \/ StopRetired
  \/ StopLegacy \/ StopOld \/ StoreFinal \/ UndoMigration

StopApp == RemoveRoute \/ Teardown \/ StoreTorn

StartApp == StartEnds \/ LaunchActive \/ Listens \/ ListenFails
            \/ StoreStarted \/ UndoStart \/ RestoreProxyRoute

Environment == Crash \/ InstanceDies \/ ProxyReset \/ RemoveState

Next == Prepare \/ Deploy \/ StopApp \/ StartApp \/ Environment

Spec == Init /\ [][Next]_vars

\* The operations seen from outside: what they may do to a served app.
S == INSTANCE Service WITH wanted <- loc.op \notin {"stop", "classicize"}

-----------------------------------------------------------------------------
(* Properties.                                                             *)

Steps == {"idle", "drain", "storeDrained", "reconciled", "load", "migrate", "recover",
          "storeRecovered", "probe", "build", "storeStarting", "health", "cutover",
          "add", "abort", "storeAborted", "commit", "promote", "compensate", "demote",
          "bestKnown", "retire", "stopRetired", "stopLegacy", "stopOld", "storeFinal",
          "fail", "unroute", "teardown", "storeTorn", "launchActive", "listen",
          "storeStarted", "undoStart", "restoreRoute"}

\* Every variable stays within the values the code can give it.
TypeOK ==
  /\ alive \subseteq Inst /\ proven \subseteq Inst /\ route \subseteq Inst
  /\ before \subseteq Pid
  /\ classic \in BOOLEAN /\ next \in 1 .. MaxInst + 1 /\ current \in Version
  /\ disk \in Journal /\ mem \in Journal /\ loc \in Locals
  /\ removal \in BOOLEAN
  /\ pc \in Steps /\ budget \in 0 .. MaxFaults
  /\ result \in {"none", "ok", "deployed", "failed", "crashed"}

\* The proxy is only ever pointed at an instance that has passed its health
\* check (or, when restored by `start`, listens): "never at unhealthy".
OnlyProvenRouted == route \subseteq proven

\* No step of an operation stops an instance that the proxy sends requests to.
\* Only `stop` and a migration to classic, which withdraw the service, may.
NoServingKill ==
  [][ (alive \ alive') \cap route # {} =>
        loc.op \in {"stop", "classicize"} \/ (UNCHANGED loc /\ UNCHANGED pc) ]_vars

\* A running instance never leaves deploy.json: it would run on for ever, with
\* no operation able to find and stop it.
NoLiveRecordDropped ==
  [][ Recorded(disk) \cap alive \subseteq Recorded(disk') \/ disk.mode = "absent" ]_vars

\* Between operations the journal names whoever serves.
JournalNamesServing ==
  pc = "idle" /\ disk.mode = "blue-green" => route \cap alive \subseteq ActivePid(disk)

\* Between operations versions.json and deploy.json agree on the version.
VersionAgrees ==
  pc = "idle" /\ disk.mode = "blue-green" /\ disk.ver # 0 => current = disk.ver

\* However the operations before it ended, crashes included, a deploy that
\* completes leaves the proxy, deploy.json and versions.json in agreement.
DeployRestoresAgreement ==
  pc = "idle" /\ result = "deployed" =>
    /\ route # {} => route = ActivePid(disk)
    /\ disk.ver # 0 => current = disk.ver

\* An operation that failed left the app served if it was served when it began,
\* by the proxy or by a classic process.  A first enrolment that has taken the
\* public port from the classic process is past that promise: when its Add or
\* its commit fails then, the code retires the candidate and nobody serves.
FailedDeployKeepsService ==
  pc = "idle" /\ result = "failed" /\ before # {} => Serves # {}

\* BlueGreen implements Service: whatever a single fault does to it, an
\* operation only launches, proves, re-points to proven instances and stops
\* instances nobody is routed to, one such effect at a time.
ImplementsService == S!Spec

=============================================================================
