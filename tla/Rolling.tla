------------------------------ MODULE Rolling ------------------------------
(***************************************************************************)
(* The rolling deploy (rolling.go): the replicas of an app are replaced    *)
(* one after another, each while its predecessor keeps serving, over       *)
(* whatever an earlier strategy or an earlier failed deploy left; and the  *)
(* `stop` and `start` of a rolling fleet (lifecycle.go).                   *)
(*                                                                         *)
(* A replica that was never launched and a replica that is not in the map  *)
(* are the same record: no PID, no port, status "stopped".                 *)
(***************************************************************************)
EXTENDS DeployWorld

CONSTANTS
  MaxReplicas,   \* bound: the largest --replicas
  Origins        \* the situations an application may start from

OriginKinds == {"fresh", "classic", "bluegreen", "rolling"}

ASSUME MaxReplicasAssumption == MaxReplicas \in Nat \ {0}
ASSUME OriginsAssumption == Origins \subseteq OriginKinds
ASSUME FleetAssumption == "rolling" \in Origins => MaxReplicas <= MaxInst

VARIABLES
  classic,   \* a classic process owns the public port
  owed       \* history: how many instances have to go on serving

vars == <<procs, route, files, pc, mem, loc, budget, hist, classic, owed>>

Keys == 0 .. MaxReplicas - 1

\* healthyTargets without a healthy replica: the address 127.0.0.1:0.
Nowhere == 0

Replica == [pid: Pid, port: Pid, ver: Version, status: {"stopped", "replacing", "running"}]

NoReplica == [pid |-> 0, port |-> 0, ver |-> 0, status |-> "stopped"]

NoReplicas == [k \in Keys |-> NoReplica]

\* slot is the active blue-green instance of an app that has not migrated.
Journal == [mode: {"absent", "rolling", "blue-green"}, slot: Pid,
            reps: [Keys -> Replica], ver: Version]

NoJournal == [mode |-> "absent", slot |-> 0, reps |-> NoReplicas, ver |-> 0]

SetReplica(j, k, rec) == [j EXCEPT !.reps = [@ EXCEPT ![k] = rec]]

Pids(j) == {j.reps[k].pid : k \in Keys} \ {0}

\* instancesServing: who the journal claims to be serving.
Serving(j) == IF j.mode = "blue-green" THEN {j.slot} \ {0} ELSE Pids(j)

\* The instances a journal keeps a usable record of.
Recorded(j) == Pids(j) \cup ({j.slot} \ {0})

LoadOrInit == IF disk.mode = "absent" THEN [NoJournal EXCEPT !.mode = "rolling"] ELSE disk

\* MigrateTo(ModeRolling): the slots leave the state.
Migrated(j) == [j EXCEPT !.mode = "rolling", !.slot = 0, !.reps = NoReplicas]

RestoreMode(j, p) == [j EXCEPT !.mode = p.mode, !.slot = p.slot, !.reps = p.reps]

Ops == {"deploy", "stop", "start"}

Locals == [op: Ops \cup {"none"}, n: 0 .. MaxReplicas, pre: Journal,
           legacy: SUBSET Inst, surplus: SUBSET Inst, enrolled: BOOLEAN, was: BOOLEAN,
           key: 0 .. MaxReplicas, old: Replica, cand: Pid, tver: Version,
           progressed: BOOLEAN]

NoLocals == [op |-> "none", n |-> 0, pre |-> NoJournal,
             legacy |-> {}, surplus |-> {}, enrolled |-> FALSE, was |-> FALSE,
             key |-> 0, old |-> NoReplica, cand |-> 0, tver |-> 0,
             progressed |-> FALSE]

Return(r) ==
  /\ pc' = "idle" /\ result' = r
  /\ mem' = NoJournal /\ loc' = NoLocals

Step(from, to) == pc = from /\ pc' = to /\ UNCHANGED result

-----------------------------------------------------------------------------
(* Rolling.Deploy, up to the first replica.                                *)

\* A fleet whose records agree with the proxy and with the machine.
Whole(j) == /\ j.mode = "rolling"
            /\ route = {j.reps[k].port : k \in {q \in Keys : j.reps[q].status = "running"}} \ {0}
            /\ route = Pids(j) /\ route \subseteq alive

Begin(op, n) ==
  /\ pc = "idle"
  /\ op \in {"stop", "start"} => disk.mode = "rolling"
  /\ pc' = CASE op = "deploy" -> "load" [] op = "stop" -> "unroute" [] OTHER -> "start"
  /\ mem' = disk
  /\ loc' = [NoLocals EXCEPT !.op = op, !.n = n]
  /\ budget' = MaxFaults
  /\ owed' = IF op = "deploy" /\ Whole(disk)
               THEN Cardinality({k \in Keys : k < n /\ disk.reps[k].pid # 0}) ELSE 0
  /\ strays' = alive \ Recorded(disk) /\ misled' = FALSE
  /\ result' = "none"
  /\ UNCHANGED <<procs, route, files, classic>>

LoadState ==
  /\ Step("load", IF LoadOrInit.mode = "rolling" THEN "plan" ELSE "migrate")
  /\ mem' = LoadOrInit
  /\ loc' = [loc EXCEPT !.pre = LoadOrInit]
  /\ UNCHANGED <<procs, route, files, budget, misled, strays, owed, classic>>

\* A failure returns before anything would undo the migration.
MigrateTo ==
  /\ pc = "migrate"
  /\ \/ /\ StoreOK(Migrated(mem))
        /\ pc' = "plan" /\ mem' = Migrated(mem)
        /\ loc' = [loc EXCEPT !.legacy = {mem.slot} \ {0}]
        /\ UNCHANGED result
     \/ StoreFails(Migrated(mem)) /\ Return("failed")
  /\ strays' = strays \cup ({mem.slot} \ {0})
  /\ UNCHANGED <<procs, route, current, misled, owed, classic>>

\* ReapStaleInstances: a record of a dead process loses its PID.
Reaped(rec) == IF rec.pid \in alive \cup {0} THEN rec
               ELSE [rec EXCEPT !.pid = 0, !.status = "stopped"]

\* applyReplicaSet and ensureReplicaMap; checkEnrolled asks the proxy, and a
\* failing Status reads as "not enrolled".
PlanFleet ==
  LET kept == [k \in Keys |-> IF k < loc.n THEN Reaped(mem.reps[k]) ELSE NoReplica]
      surplus == {Reaped(mem.reps[k]).pid : k \in {q \in Keys : q >= loc.n}} \ {0} IN
  /\ Step("plan", "build")
  /\ mem' = [mem EXCEPT !.reps = kept]
  /\ \E known \in BOOLEAN :
       /\ IF known THEN NoFault ELSE Fault("status")
       /\ loc' = [loc EXCEPT !.surplus = surplus, !.enrolled = known /\ route # {}]
       /\ misled' = (misled \/ (~known /\ route # {}))
  /\ strays' = strays \cup surplus
  /\ UNCHANGED <<procs, route, files, owed, classic>>

\* src.Build or the env overlay fails.
BuildFails ==
  /\ pc = "build"
  /\ IF loc.legacy # {}
       THEN Step("build", "undo") /\ UNCHANGED <<mem, loc>>
       ELSE Return("failed")
  /\ UNCHANGED <<procs, route, files, budget, misled, strays, owed, classic>>

\* The artifact is a fresh version, or carries no version.
Build ==
  /\ Step("build", "roll")
  /\ \E v \in {0, next} \cap Version : loc' = [loc EXCEPT !.tver = v]
  /\ UNCHANGED <<procs, route, files, mem, budget, misled, strays, owed, classic>>

-----------------------------------------------------------------------------
(* rollOne.                                                                *)

\* Without a replica in rotation yet the migration is undone.  A rollout
\* cancelled later returns as it is: the recorded version is not touched.
Cancelled ==
  /\ pc = "roll" /\ loc.key < loc.n /\ Fault("cancel")
  /\ IF loc.progressed THEN Return("failed")
                       ELSE Step("roll", "undo") /\ UNCHANGED <<mem, loc>>
  /\ UNCHANGED <<procs, route, files, misled, strays, owed, classic>>

LaunchFails ==
  /\ Step("roll", "failedAt") /\ loc.key < loc.n
  /\ UNCHANGED <<procs, route, files, mem, loc, budget, misled, strays, owed, classic>>

\* The replacement starts alongside the replica; a live one is marked.
LaunchReplacement ==
  LET old == mem.reps[loc.key] IN
  /\ loc.key < loc.n /\ Launch
  /\ Step("roll", IF old.pid # 0 THEN "storeReplacing" ELSE "health")
  /\ loc' = [loc EXCEPT !.old = old, !.cand = next]
  /\ mem' = IF old.pid # 0
              THEN SetReplica(mem, loc.key, [old EXCEPT !.status = "replacing"])
              ELSE mem
  /\ UNCHANGED <<proven, route, files, budget, misled, strays, owed, classic>>

StoreReplacing ==
  /\ \/ Step("storeReplacing", "health") /\ StoreOK(mem)
     \/ Step("storeReplacing", "abandon") /\ StoreFails(mem)
  /\ UNCHANGED <<procs, route, current, mem, loc, misled, strays, owed, classic>>

HealthPasses ==
  /\ Step("health", "swap")
  /\ proven' = proven \cup {loc.cand}
  /\ UNCHANGED <<alive, next, route, files, mem, loc, budget, misled, strays, owed, classic>>

\* Mutation: an unhealthy replacement goes on to the membership swap.
HealthFailsMutant ==
  /\ Step("health", "swap")
  /\ UNCHANGED <<procs, route, files, mem, loc, budget, misled, strays, owed, classic>>

HealthFails ==
  /\ Step("health", "discard")
  /\ UNCHANGED <<procs, route, files, mem, loc, budget, misled, strays, owed, classic>>

\* Mutation: only the replacement itself is sent to the proxy.
HealthyTargetsMutant(reps) ==
  {IF k = loc.key THEN reps[k].port ELSE 0 : k \in Keys} \ {0}

\* healthyTargets: the running replicas with a port, or the address :0.
HealthyTargets(reps) ==
  LET ports == {reps[k].port : k \in {q \in Keys : reps[q].status = "running"}} \ {0} IN
  IF ports = {} THEN {Nowhere} ELSE ports

\* Mutation: the replacement inherits the version of the replica it replaces.
CandidateMutant == [loc.old EXCEPT !.pid = loc.cand, !.port = loc.cand, !.status = "running"]

Candidate == [pid |-> loc.cand, port |-> loc.cand, ver |-> loc.tver, status |-> "running"]

\* Mutation: the membership still holds the instance that is to be drained.
MembershipMutant == HealthyTargets([mem.reps EXCEPT ![loc.key] = Candidate])
                      \cup ({loc.old.port} \ {0})

\* membershipAfterReplace: the replacement in, its predecessor out.
Membership == HealthyTargets([mem.reps EXCEPT ![loc.key] = Candidate])

\* The first enrolment takes the public port over from a classic process.
HandOffPublicPort ==
  /\ ~loc.enrolled /\ classic
  /\ \/ Step("swap", "swap") /\ NoFault /\ classic' = FALSE
     \/ Step("swap", "discard") /\ Fault("stop") /\ UNCHANGED classic
  /\ UNCHANGED <<procs, route, files, mem, loc, misled, strays, owed>>

\* For an app the proxy serves after all, the port is taken too: the instance
\* that apps.json names is stopped, a serving one, and the port stays bound, so
\* the replacement is given up.
HandOffServed ==
  /\ ~loc.enrolled /\ route # {}
  /\ Step("swap", "discard")
  /\ \E named \in Serving(loc.pre) \cup {0} : alive' = alive \ {named}
  /\ UNCHANGED <<proven, next, route, files, mem, loc, budget, misled, strays, owed, classic>>

\* Add for the first replica of an app that is not enrolled, else Switch.
SwapMembership ==
  /\ loc.enrolled \/ (~classic /\ route = {})
  /\ \/ /\ Step("swap", "commit") /\ CallOK(Membership)
        /\ loc' = [loc EXCEPT !.enrolled = TRUE, !.was = loc.enrolled]
        /\ mem' = SetReplica(mem, loc.key, Candidate)
     \/ /\ Step("swap", "discard") /\ CallFails(Membership)
        /\ UNCHANGED <<mem, loc>>
  /\ UNCHANGED <<procs, files, strays, owed, classic>>

\* restoreReplica: every field of the old record comes back.
RestoreReplica(j) == SetReplica(j, loc.key, loc.old)

\* Mutation: the record is restored, the replacement is left running.
DiscardMutant ==
  /\ \/ Step("discard", "storeRestored")
     \/ Step("abandon", "failedAt")
  /\ mem' = RestoreReplica(mem)
  /\ UNCHANGED <<procs, route, files, loc, budget, misled, strays, owed, classic>>

\* stopHeldProcess of the replacement, whose outcome nobody looks at.
Discard ==
  /\ \/ Step("discard", "storeRestored")
     \/ Step("abandon", "failedAt")
  /\ StopOK({loc.cand}) \/ StopFails({loc.cand})
  /\ mem' = RestoreReplica(mem)
  /\ UNCHANGED <<proven, next, route, files, loc, misled, owed, classic>>

StoreRestored ==
  /\ Step("storeRestored", "failedAt")
  /\ StoreBestEffort(mem)
  /\ UNCHANGED <<procs, route, current, mem, loc, misled, strays, owed, classic>>

\* The new membership is durable before the old instance is drained.
Commit ==
  /\ \/ Step("commit", "drainOld") /\ StoreOK(mem) /\ UNCHANGED mem
     \/ /\ Step("commit", "compensate") /\ StoreFails(mem)
        /\ mem' = RestoreReplica(mem)
  /\ UNCHANGED <<procs, route, current, loc, misled, strays, owed, classic>>

\* The proxy goes back to the recorded membership, or the app is removed.
OldMembership == IF loc.was THEN HealthyTargets(mem.reps) ELSE {}

Compensate ==
  /\ \/ /\ Step("compensate", "storeBack") /\ CallOK(OldMembership)
        /\ loc' = [loc EXCEPT !.enrolled = loc.was]
        /\ UNCHANGED mem
     \/ /\ Step("compensate", "bestKnown") /\ CallFails(OldMembership)
        /\ mem' = SetReplica(mem, loc.key, Candidate)
        /\ UNCHANGED loc
  /\ UNCHANGED <<procs, files, strays, owed, classic>>

\* The proxy may still route to the candidate: it stays, and is recorded.
StoreBestKnown ==
  /\ Step("bestKnown", "failedAt")
  /\ StoreBestEffort(mem)
  /\ UNCHANGED <<procs, route, current, mem, loc, misled, strays, owed, classic>>

\* The candidate is stopped only once the old record is durable again.
StoreBack ==
  /\ \/ Step("storeBack", "stopCandidate") /\ StoreOK(mem)
     \/ Step("storeBack", "failedAt") /\ StoreFails(mem)
  /\ UNCHANGED <<procs, route, current, mem, loc, misled, strays, owed, classic>>

StopCandidate ==
  /\ Step("stopCandidate", "failedAt")
  /\ StopOK({loc.cand}) \/ StopFails({loc.cand})
  /\ UNCHANGED <<proven, next, route, files, mem, loc, misled, owed, classic>>

\* stopInstance of the old instance; the report is only logged.
DrainOld ==
  /\ Step("drainOld", IF loc.progressed \/ loc.legacy = {} THEN "roll" ELSE "stopLegacy")
  /\ StopOK({loc.old.pid}) \/ StopFails({loc.old.pid})
  /\ loc' = [loc EXCEPT !.progressed = TRUE, !.key = @ + 1, !.old = NoReplica, !.cand = 0]
  /\ UNCHANGED <<proven, next, route, files, mem, misled, owed, classic>>

-----------------------------------------------------------------------------
(* How a deploy ends.                                                      *)

\* stopRetiredInstances of the previous strategy, after the first replica.
StopLegacy ==
  /\ \/ /\ Step("stopLegacy", "roll") /\ StopOK(loc.legacy)
        /\ UNCHANGED <<mem, loc>>
     \/ /\ pc = "stopLegacy" /\ StopFails(loc.legacy)
        /\ Return("failed")
  /\ UNCHANGED <<proven, next, route, files, misled, owed, classic>>

\* A mixed fleet claims no version.
Mixed(j) == [j EXCEPT !.ver = 0]

FailedAt ==
  /\ pc = "failedAt"
  /\ IF loc.progressed
       THEN Return("failed") /\ StoreBestEffort(Mixed(mem))
       ELSE Step("failedAt", "undo") /\ UNCHANGED <<mem, loc, disk, budget>>
  /\ UNCHANGED <<procs, route, current, misled, strays, owed, classic>>

\* undoMigration.  Its branch for pre.mode = "" is dead: LoadOrInit sets it.
UndoMigration ==
  /\ pc = "undo" /\ Return("failed")
  /\ IF loc.pre.mode = "blue-green"
       THEN StoreBestEffort(RestoreMode(mem, loc.pre))
       ELSE NoFault /\ UNCHANGED disk
  /\ UNCHANGED <<procs, route, current, misled, strays, owed, classic>>

\* Every replica is new: what a smaller --replicas left over is stopped.
StopSurplus ==
  /\ loc.key = loc.n
  /\ \/ /\ Step("roll", "storeFinal") /\ StopOK(loc.surplus)
        /\ mem' = [mem EXCEPT !.ver = loc.tver]
        /\ UNCHANGED loc
     \/ /\ pc = "roll" /\ StopFails(loc.surplus)
        /\ Return("failed")
  /\ UNCHANGED <<proven, next, route, files, misled, owed, classic>>

StoreFinal ==
  /\ \/ Step("storeFinal", "promote") /\ StoreOK(mem) /\ UNCHANGED <<mem, loc>>
     \/ pc = "storeFinal" /\ StoreFails(mem) /\ Return("failed")
  /\ UNCHANGED <<procs, route, current, misled, strays, owed, classic>>

Promote ==
  /\ pc = "promote"
  /\ \/ /\ current' = IF loc.tver = 0 THEN current ELSE loc.tver
        /\ NoFault /\ Return("deployed")
     \/ loc.tver # 0 /\ Fault("promote") /\ UNCHANGED current /\ Return("failed")
  /\ UNCHANGED <<procs, route, disk, misled, strays, owed, classic>>

-----------------------------------------------------------------------------
(* stop: the route goes first, whether or not the proxy answers.           *)

RemoveRoute ==
  /\ Step("unroute", "teardown")
  /\ CallOK({}) \/ CallFails({})
  /\ UNCHANGED <<procs, files, mem, loc, strays, owed, classic>>

TornDown(rec) == IF rec.pid = 0 THEN rec ELSE [rec EXCEPT !.pid = 0, !.status = "stopped"]

\* TeardownDeployment clears every PID, whatever the stop reports say.
Teardown ==
  /\ Step("teardown", "storeTorn")
  /\ StopOK(Pids(mem)) \/ StopFails(Pids(mem))
  /\ mem' = [mem EXCEPT !.reps = [k \in Keys |-> TornDown(mem.reps[k])]]
  /\ UNCHANGED <<proven, next, route, files, loc, misled, owed, classic>>

StoreTorn ==
  /\ pc = "storeTorn"
  /\ \/ StoreOK(mem) /\ Return("ok")
     \/ StoreFails(mem) /\ Return("failed")
  /\ UNCHANGED <<procs, route, current, misled, strays, owed, classic>>

-----------------------------------------------------------------------------
(* start: StartDeployment relaunches the replicas that are down, in order. *)

\* The replicas that have a binary and no live process.
Down(j) == {k \in Keys : j.reps[k].port # 0 /\ j.reps[k].pid \notin alive}

\* DecideLifecycle: every replica with a PID lives, and there is one.
Running(j) == Pids(j) # {} /\ Pids(j) \subseteq alive

\* Already running, nothing to start, or the next launch fails.
StartEnds ==
  /\ pc = "start"
  /\ \/ Running(mem) /\ loc.key = 0 /\ Return("ok")
     \/ ~(Running(mem) /\ loc.key = 0) /\ Return("failed")
        /\ (Down(mem) # {} \/ \A k \in Keys : mem.reps[k].port = 0)
  /\ UNCHANGED <<procs, route, files, budget, misled, strays, owed, classic>>

\* The listener check is the only one a restored replica has to pass.
StartReplica ==
  /\ Down(mem) # {} /\ Launch
  /\ ~(Running(mem) /\ loc.key = 0)
  /\ LET k == CHOOSE k \in Down(mem) : \A q \in Down(mem) : k <= q IN
       \/ /\ Step("start", "storeStarted")
          /\ loc' = [loc EXCEPT !.cand = next, !.key = k + 1]
          /\ proven' = proven \cup {next}
          /\ mem' = SetReplica(mem, k, [mem.reps[k] EXCEPT
                          !.pid = next, !.port = next, !.status = "running"])
       \/ /\ Step("start", "undoStart")
          /\ loc' = [loc EXCEPT !.cand = next]
          /\ UNCHANGED <<mem, proven>>
  /\ UNCHANGED <<route, files, budget, misled, strays, owed, classic>>

StoreStarted ==
  /\ \/ Step("storeStarted", "start") /\ StoreOK(mem)
     \/ Step("storeStarted", "undoStart") /\ StoreFails(mem)
  /\ UNCHANGED <<procs, route, current, mem, loc, misled, strays, owed, classic>>

UndoStart ==
  /\ pc = "undoStart" /\ Return("failed")
  /\ StopOK({loc.cand}) \/ StopFails({loc.cand})
  /\ UNCHANGED <<proven, next, route, files, misled, owed, classic>>

\* RestoreProxyRoute: every replica with a PID.
RestoreProxyRoute ==
  LET targets == {mem.reps[k].port : k \in {q \in Keys : mem.reps[q].pid # 0}} IN
  /\ pc = "start" /\ Down(mem) = {} /\ targets # {}
  /\ ~(Running(mem) /\ loc.key = 0)
  /\ \/ ~classic /\ CallOK(targets) /\ Return("ok")
     \/ CallFails(targets) /\ Return("failed")
  /\ UNCHANGED <<procs, files, strays, owed, classic>>

-----------------------------------------------------------------------------
(* What happens beside the operation.                                      *)

Crash ==
  /\ "crash" \in Faults /\ budget > 0
  /\ pc # "idle" /\ Return("crashed") /\ budget' = 0
  /\ UNCHANGED <<procs, route, files, misled, strays, owed, classic>>

\* A recorded instance exits by itself between two operations.
InstanceDies ==
  /\ "die" \in Faults /\ pc = "idle"
  /\ \E i \in alive \cap Recorded(disk) : alive' = alive \ {i}
  /\ result' = "none" /\ owed' = 0
  /\ UNCHANGED <<proven, next, route, files, pc, mem, loc, budget, misled, strays, classic>>

-----------------------------------------------------------------------------
(* The specification.                                                      *)

Fleet(n) == [k \in Keys |-> IF k < n THEN [pid |-> k + 1, port |-> k + 1, ver |-> 1,
                                           status |-> "running"]
                                     ELSE NoReplica]

\* An app never deployed, one that runs classically, one with an active
\* blue-green slot, a rolling fleet of MaxReplicas replicas.  The classic
\* process has number 1, and `classic` says whether it runs.
Origin(o) ==
  /\ alive = CASE o = "rolling" -> 1 .. MaxReplicas [] o = "bluegreen" -> {1} [] OTHER -> {}
  /\ classic = (o = "classic")
  /\ next = IF o = "classic" THEN 2 ELSE Cardinality(alive) + 1
  /\ current = IF alive = {} THEN 0 ELSE 1
  /\ disk = CASE o = "rolling" -> [mode |-> "rolling", slot |-> 0,
                                   reps |-> Fleet(MaxReplicas), ver |-> 1]
              [] o = "bluegreen" -> [mode |-> "blue-green", slot |-> 1,
                                     reps |-> NoReplicas, ver |-> 1]
              [] OTHER -> NoJournal

Init ==
  /\ \E o \in Origins : Origin(o)
  /\ proven = alive /\ route = alive
  /\ pc = "idle" /\ mem = NoJournal /\ loc = NoLocals
  /\ budget = 0 /\ misled = FALSE /\ strays = {} /\ owed = 0 /\ result = "none"

Prepare ==
  \/ \E n \in 1 .. MaxReplicas : Begin("deploy", n)
  \/ \E op \in {"stop", "start"} : Begin(op, 0)
  \/ LoadState \/ MigrateTo \/ PlanFleet \/ BuildFails \/ Build

RollOne ==
  \/ Cancelled \/ LaunchFails \/ LaunchReplacement \/ StoreReplacing
  \/ HealthPasses \/ HealthFails \/ HandOffPublicPort \/ HandOffServed \/ SwapMembership
  \/ Discard \/ StoreRestored \/ Commit \/ Compensate \/ StoreBestKnown
  \/ StoreBack \/ StopCandidate \/ DrainOld

Finish ==
  \/ StopLegacy \/ FailedAt \/ UndoMigration \/ StopSurplus \/ StoreFinal \/ Promote

StopStart ==
  \/ RemoveRoute \/ Teardown \/ StoreTorn
  \/ StartEnds \/ StartReplica \/ StoreStarted \/ UndoStart \/ RestoreProxyRoute

Next == Prepare \/ RollOne \/ Finish \/ StopStart \/ Crash \/ InstanceDies

Spec == Init /\ [][Next]_vars

-----------------------------------------------------------------------------
(* Properties.                                                             *)

Steps == {"idle", "load", "migrate", "plan", "build", "roll", "storeReplacing", "health",
          "swap", "discard", "abandon", "storeRestored", "commit", "compensate",
          "bestKnown", "storeBack", "stopCandidate", "drainOld", "stopLegacy",
          "failedAt", "undo", "storeFinal", "promote", "unroute", "teardown",
          "storeTorn", "start", "storeStarted", "undoStart"}

\* Every variable stays within the values the code can give it.
TypeOK ==
  /\ alive \subseteq Inst /\ proven \subseteq Inst /\ strays \subseteq Inst
  /\ next \in 1 .. MaxInst + 1 /\ route \subseteq Pid /\ classic \in BOOLEAN
  /\ disk \in Journal /\ mem \in Journal /\ loc \in Locals /\ current \in Version
  /\ pc \in Steps /\ budget \in 0 .. MaxFaults /\ misled \in BOOLEAN
  /\ owed \in 0 .. MaxReplicas
  /\ result \in {"none", "ok", "deployed", "failed", "crashed"}

\* "Impossible for the proxy to route to a dead or not-yet-started process":
\* whatever fails, only instances that passed their check are ever routed.
OnlyProvenRouted == route \ {Nowhere} \subseteq proven

\* A rolling deploy over a fleet in order never serves with fewer instances
\* than before it (or than the smaller fleet asked for), at any step, failed
\* calls, failed writes, cancellation and compensation included.  Two faults are
\* left out, both misleading it about the proxy: a lost reply, and a failing
\* Status, after which the hand-off of the public port stops a serving replica.
CapacityKept == misled \/ Cardinality(route \cap alive) >= owed

\* Nobody but `stop` ends an instance the proxy routes to, unless a lost reply
\* or a failing Status hid that it does: told that the app is not enrolled, the
\* hand-off of the public port stops the serving replica apps.json names.
NoServingKill ==
  [][ (alive \ alive') \cap route # {} => loc.op = "stop" \/ misled \/ pc = "idle" ]_vars

\* An operation that meets at most one fault ends with every live instance in
\* deploy.json, those aside that it could not stop, that a smaller fleet or a
\* migration gave up, or that an earlier crash had left.
NothingLost ==
  pc = "idle" /\ result \in {"ok", "deployed", "failed"} /\ budget + 1 >= MaxFaults =>
    alive \subseteq Recorded(disk) \cup strays

\* However the operations before it ended, a rolling deploy that completes
\* leaves one version, recorded in both files, running and routed.
CompletedFleetAgrees ==
  pc = "idle" /\ result = "deployed" =>
    /\ route = Pids(disk) /\ route \subseteq alive
    /\ \A k \in Keys : disk.reps[k].pid # 0 => disk.reps[k].ver = disk.ver
    /\ disk.ver # 0 => current = disk.ver

=============================================================================
