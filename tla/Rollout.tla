------------------------------ MODULE Rollout ------------------------------
(***************************************************************************)
(* The canary and progressive rollout (rollout.go, rollout_verify.go): the *)
(* new version takes a growing share of the traffic beside the stable one, *)
(* every step is verified, and the last one, at 100%, promotes it.         *)
(*                                                                         *)
(* A weighted split is the set of the instances with a positive weight:    *)
(* stable and canary for every step but the last, the canary alone for the *)
(* last.  The verdict of a verification window (probes and per-backend     *)
(* statistics) is nondeterministic, except that a dead process fails it.   *)
(***************************************************************************)
EXTENDS DeployWorld

CONSTANTS
  NSteps,    \* the number of traffic steps of a plan
  Origins    \* the situations an application may start from

ASSUME NStepsAssumption == NSteps \in Nat \ {0}
ASSUME OriginsAssumption == Origins \subseteq {"bluegreen", "rolling"}
ASSUME FleetAssumption == "rolling" \in Origins => MaxInst >= 2

vars == <<procs, route, files, pc, mem, loc, budget, hist>>

Slots == {"blue", "green"}
NoSlot == ""

SlotRec == [pid: Pid, port: Pid, ver: Version,
            status: {"stopped", "starting", "running", "failed"}]

EmptySlot == [pid |-> 0, port |-> 0, ver |-> 0, status |-> "stopped"]

EmptySlots == [s \in Slots |-> EmptySlot]

CanaryStatus == {"none", "running", "promoted", "failed", "aborted"}

Journal == [mode: {"rolling", "blue-green"}, active: Slots \cup {NoSlot},
            slots: [Slots -> SlotRec], replicas: SUBSET Inst,
            retiring: SUBSET Inst, canary: CanaryStatus, ver: Version]

NoJournal == [mode |-> "blue-green", active |-> NoSlot, slots |-> EmptySlots,
              replicas |-> {}, retiring |-> {}, canary |-> "none", ver |-> 0]

SetSlot(j, s, rec) == [j EXCEPT !.slots = [@ EXCEPT ![s] = rec]]

Other(s) == IF s = "blue" THEN "green" ELSE "blue"

\* Who the journal claims to be serving.
Serving(j) == IF j.mode = "rolling" THEN j.replicas
              ELSE IF j.active = NoSlot THEN {} ELSE {j.slots[j.active].pid} \ {0}

Recorded(j) == ({j.slots[s].pid : s \in Slots} \ {0}) \cup j.replicas \cup j.retiring

RestoreMode(j, p) == [j EXCEPT !.mode = p.mode, !.active = p.active,
                               !.slots = p.slots, !.replicas = p.replicas]

Locals == [pre: Journal, legacy: SUBSET Inst, slot: Slots, stable: Pid, cand: Pid,
           tver: Version, oldVer: Version, step: 0 .. NSteps,
           enrolled: BOOLEAN, switched: BOOLEAN, keep: BOOLEAN, status: CanaryStatus]

NoLocals == [pre |-> NoJournal, legacy |-> {}, slot |-> "blue", stable |-> 0, cand |-> 0,
             tver |-> 0, oldVer |-> 0, step |-> 0,
             enrolled |-> FALSE, switched |-> FALSE, keep |-> FALSE, status |-> "none"]

Return(r) ==
  /\ pc' = "idle" /\ result' = r
  /\ mem' = NoJournal /\ loc' = NoLocals

Step(from, to) == pc = from /\ pc' = to /\ UNCHANGED result

-----------------------------------------------------------------------------
(* Up to the canary's launch.                                              *)

\* A rollout, or a reconciliation: the monitor's start, a stop or a rollback
\* call ReconcileSecretTxn, which acts when an instance is left to retire.
\* misled lasts until a rollout completes: a restoring call failed, or an
\* operation met two faults.
Begin ==
  /\ pc = "idle"
  /\ pc' \in {"load"} \cup (IF disk.retiring = {} THEN {} ELSE {"reconcile"})
  /\ mem' = disk /\ loc' = [NoLocals EXCEPT !.pre = disk]
  /\ misled' = (misled \/ budget + 2 <= MaxFaults)
  /\ budget' = MaxFaults /\ result' = "none"
  /\ strays' = alive \ Recorded(disk)
  /\ UNCHANGED <<procs, route, files>>

\* The stable baseline: the active slot, or the first live replica.
Stable(j) == IF j.mode = "rolling"
               THEN {i \in j.replicas \cap alive : \A q \in j.replicas \cap alive : i <= q}
               ELSE Serving(j) \cap alive

\* There is no stable version to canary against.
Refuse ==
  /\ pc = "load" /\ Stable(mem) = {} /\ Return("refused")
  /\ UNCHANGED <<procs, route, files, budget, misled, strays>>

ResolveStable ==
  /\ Step("load", IF mem.mode = "rolling" THEN "migrate" ELSE "recoverRoute")
  /\ \E i \in Stable(mem) : loc' = [loc EXCEPT !.stable = i]
  /\ UNCHANGED <<procs, route, files, mem, budget, misled, strays>>

\* MigrateTo(ModeBlueGreen) persists a journal without the fleet.
Emptied(j) == [j EXCEPT !.mode = "blue-green", !.active = NoSlot, !.slots = EmptySlots,
                        !.replicas = {}]

\* The first live replica is adopted as the blue slot; the others retire later.
Adopted(j) == SetSlot([j EXCEPT !.active = "blue"], "blue",
                      [pid |-> loc.stable, port |-> loc.stable, ver |-> j.ver,
                       status |-> "running"])

MigrateTo ==
  /\ pc = "migrate"
  /\ \/ /\ StoreOK(Emptied(mem))
        /\ pc' = "storeAdopted" /\ mem' = Adopted(Emptied(mem))
        /\ loc' = [loc EXCEPT !.legacy = mem.replicas \ {loc.stable}]
        /\ UNCHANGED result
     \/ StoreFails(Emptied(mem)) /\ Return("refused")
  /\ strays' = strays \cup mem.replicas
  /\ UNCHANGED <<procs, route, current, misled>>

StoreAdopted ==
  /\ Step("storeAdopted", "recoverRoute")
  /\ StoreBestEffort(mem)
  /\ UNCHANGED <<procs, route, current, mem, loc, misled, strays>>

\* restoreStableRouting: the stable slot alone, at 100%.
StableTargets == {loc.stable}

RestoreFails == /\ \/ Fault("rpc") /\ UNCHANGED route
                   \/ Fault("lostReply") /\ route' = StableTargets
                /\ misled' = TRUE

\* Mutation: an interrupted rollout is recorded as aborted, its traffic split
\* stays in the proxy.
RecoverRouteMutant ==
  /\ Step("recoverRoute", IF mem.canary = "running" THEN "storeAborted" ELSE "recover")
  /\ mem' = [mem EXCEPT !.canary = IF @ = "running" THEN "aborted" ELSE @]
  /\ UNCHANGED <<procs, route, files, loc, budget, misled, strays>>

\* A record still "running" is that of an interrupted rollout.  When the
\* stable routing cannot be restored the operation warns and goes on.
RecoverRoute ==
  /\ IF mem.canary = "running"
       THEN /\ Step("recoverRoute", "storeAborted")
            /\ CallOK(StableTargets) \/ RestoreFails
            /\ mem' = [mem EXCEPT !.canary = "aborted"]
       ELSE Step("recoverRoute", "recover") /\ UNCHANGED <<mem, route, misled, budget>>
  /\ UNCHANGED <<procs, files, loc, strays>>

StoreRecoveredAborted ==
  /\ Step("storeAborted", "recover")
  /\ StoreBestEffort(mem)
  /\ UNCHANGED <<procs, route, current, mem, loc, misled, strays>>

\* ReapStaleInstances, then recoverStaleSlots: the slot that is not active.
Reclaimed(j) ==
  LET s == Other(j.active) IN
  IF j.slots[s].pid = 0 THEN j
  ELSE SetSlot(j, s, [j.slots[s] EXCEPT !.pid = 0, !.status = "stopped"])

RecoverStaleSlots ==
  LET stale == {mem.slots[Other(mem.active)].pid} IN
  /\ \/ /\ Step("recover", "probe") /\ StopOK(stale)
        /\ mem' = Reclaimed(mem)
        /\ loc' = [loc EXCEPT !.slot = Other(mem.active)]
     \/ pc = "recover" /\ StopFails(stale) /\ Return("refused")
  /\ UNCHANGED <<proven, next, route, files, misled>>

\* checkEnrolled: a failing Status reads as "not enrolled".
CheckEnrolled ==
  /\ Step("probe", "build")
  /\ \/ NoFault /\ loc' = [loc EXCEPT !.enrolled = (route # {})]
     \/ Fault("status") /\ UNCHANGED loc
  /\ UNCHANGED <<procs, route, files, mem, misled, strays>>

\* The build, the env overlay or the launch fails.
BuildFails ==
  /\ Step("build", "undo")
  /\ UNCHANGED <<procs, route, files, mem, loc, budget, misled, strays>>

\* The artifact is a fresh version, or carries no version.
LaunchCanary ==
  /\ Step("build", "storeStarting") /\ Launch
  /\ \E v \in {0, next} :
       /\ mem' = SetSlot(mem, loc.slot, [pid |-> next, port |-> next, ver |-> v,
                                         status |-> "starting"])
       /\ loc' = [loc EXCEPT !.cand = next, !.tver = v]
  /\ UNCHANGED <<proven, route, files, budget, misled, strays>>

StoreStarting ==
  /\ \/ Step("storeStarting", "health") /\ StoreOK(mem)
     \/ Step("storeStarting", "stopUnstarted") /\ StoreFails(mem)
  /\ UNCHANGED <<procs, route, current, mem, loc, misled, strays>>

\* Mutation: a canary that failed the health gate goes on to its first step.
HealthFailsMutant ==
  /\ Step("health", "storeRunning")
  /\ mem' = [mem EXCEPT !.canary = "running"]
  /\ UNCHANGED <<procs, route, files, loc, budget, misled, strays>>

HealthFails ==
  /\ Step("health", "stopUnhealthy")
  /\ UNCHANGED <<procs, route, files, mem, loc, budget, misled, strays>>

\* The Canary record, written before the first switch, is the crash marker.
HealthPasses ==
  /\ Step("health", "storeRunning") /\ loc.cand \in alive
  /\ proven' = proven \cup {loc.cand}
  /\ mem' = [SetSlot(mem, loc.slot, [mem.slots[loc.slot] EXCEPT !.status = "running"])
               EXCEPT !.canary = "running"]
  /\ UNCHANGED <<alive, next, route, files, loc, budget, misled, strays>>

StoreRunning ==
  /\ \/ Step("storeRunning", "step") /\ StoreOK(mem)
     \/ Step("storeRunning", "stopUnhealthy") /\ StoreFails(mem)
  /\ UNCHANGED <<procs, route, current, mem, loc, misled, strays>>

\* stopHeldProcess before any traffic moved.  The record of a canary that was
\* launched but never persisted stays as it is.
StopUnrouted ==
  /\ \/ Step("stopUnstarted", "undo") /\ UNCHANGED mem
     \/ /\ Step("stopUnhealthy", "storeFailed")
        /\ mem' = SetSlot(mem, loc.slot, [mem.slots[loc.slot] EXCEPT
                                            !.pid = 0, !.status = "failed"])
  /\ StopOK({loc.cand}) \/ StopFails({loc.cand})
  /\ UNCHANGED <<proven, next, route, files, loc, misled>>

StoreFailed ==
  /\ Step("storeFailed", "undo")
  /\ StoreBestEffort(mem)
  /\ UNCHANGED <<procs, route, current, mem, loc, misled, strays>>

-----------------------------------------------------------------------------
(* The traffic steps.                                                      *)

StepTargets == IF loc.step = NSteps - 1 THEN {loc.cand} ELSE {loc.stable, loc.cand}

\* The context is cancelled before a step, or while one is verified.
Cancelled ==
  /\ "cancel" \in Faults
  /\ Step("step", "abort") \/ Step("verify", "abort")
  /\ loc' = [loc EXCEPT !.status = "aborted"]
  /\ UNCHANGED <<procs, route, files, mem, budget, misled, strays>>

\* switchTraffic for an app that is taken for not enrolled, whose public port
\* the proxy holds: the hand-off stops the instance that apps.json names, and
\* fails because the port stays bound.
HandOffPublicPort ==
  /\ Step("step", "abort") /\ ~loc.enrolled /\ NoFault
  /\ \E named \in Serving(loc.pre) \cup {0} : alive' = alive \ {named}
  /\ loc' = [loc EXCEPT !.status = "failed"]
  /\ UNCHANGED <<proven, next, route, files, mem, misled, strays>>

SwitchTraffic ==
  /\ loc.enrolled
  /\ \/ /\ Step("step", "storeStep") /\ CallOK(StepTargets)
        /\ loc' = [loc EXCEPT !.switched = TRUE]
     \/ /\ Step("step", "abort") /\ CallFails(StepTargets)
        /\ loc' = [loc EXCEPT !.status = "failed"]
  /\ UNCHANGED <<procs, files, mem, strays>>

StoreStep ==
  /\ \/ Step("storeStep", "verify") /\ StoreOK(mem) /\ UNCHANGED loc
     \/ /\ Step("storeStep", "abort") /\ StoreFails(mem)
        /\ loc' = [loc EXCEPT !.status = "failed"]
  /\ UNCHANGED <<procs, route, current, mem, misled, strays>>

AfterStep(n) == IF n = NSteps THEN "promote" ELSE "step"

\* Both sides pass every probe of the window.
VerifyPasses ==
  /\ {loc.stable, loc.cand} \subseteq alive
  /\ Step("verify", IF loc.step = 0 /\ loc.legacy # {} THEN "stopLegacy"
                  ELSE AfterStep(loc.step + 1))
  /\ loc' = [loc EXCEPT !.step = @ + 1]
  /\ UNCHANGED <<procs, route, files, mem, budget, misled, strays>>

\* The canary regressed, or the stable side failed its probe, which keeps the
\* canary up.
VerifyFails ==
  /\ Step("verify", "abort")
  /\ \E keep \in IF loc.cand \in alive THEN BOOLEAN ELSE {FALSE} :
       loc' = [loc EXCEPT !.status = "failed", !.keep = keep]
  /\ UNCHANGED <<procs, route, files, mem, budget, misled, strays>>

\* stopRetiredInstances; a failure returns as it is, the split in place.
StopLegacy ==
  /\ \/ /\ Step("stopLegacy", AfterStep(loc.step))
        /\ StopOK(loc.legacy) /\ UNCHANGED <<mem, loc>>
     \/ pc = "stopLegacy" /\ StopFails(loc.legacy) /\ Return("refused")
  /\ UNCHANGED <<proven, next, route, files, misled>>

-----------------------------------------------------------------------------
(* abort, and the compensation of a promotion that failed.                 *)

\* Traffic that was moved goes back to stable; if it does not, the canary
\* stays, because stopping it would drop requests.
RestoreStable ==
  /\ \/ /\ Step("abort", "settle") /\ loc.switched
        /\ \/ CallOK(StableTargets) /\ UNCHANGED loc
           \/ RestoreFails /\ loc' = [loc EXCEPT !.keep = TRUE]
        /\ UNCHANGED mem
     \/ /\ Step("abort", "settle") /\ ~loc.switched
        /\ UNCHANGED <<route, mem, loc, budget, misled>>
     \/ /\ Step("compensate", "settle") /\ CallOK(StableTargets)
        /\ loc' = [loc EXCEPT !.status = "failed"]
        /\ mem' = [mem EXCEPT !.active = Other(loc.slot), !.ver = loc.oldVer]
     \/ /\ Step("compensate", "bestKnown") /\ RestoreFails
        /\ UNCHANGED <<mem, loc>>
  /\ UNCHANGED <<procs, files, strays>>

StoreBestKnown ==
  /\ pc = "bestKnown" /\ Return("kept")
  /\ StoreBestEffort(mem)
  /\ UNCHANGED <<procs, route, current, misled, strays>>

Aborted == [mem EXCEPT !.canary = loc.status]

\* retireFailedCandidate: recorded as retiring before it is stopped.
Retired(j) == SetSlot([j EXCEPT !.retiring = @ \cup {loc.cand}], loc.slot,
                      [j.slots[loc.slot] EXCEPT !.pid = 0, !.status = "failed"])

Settle ==
  /\ pc = "settle"
  /\ IF loc.keep
       THEN \/ StoreOK(Aborted) /\ pc' = "finishAbort" /\ mem' = Aborted
               /\ UNCHANGED <<loc, result>>
            \/ StoreFails(Aborted) /\ Return("kept")
       ELSE \/ StoreOK(Retired(Aborted)) /\ pc' = "stopCanary" /\ mem' = Retired(Aborted)
               /\ UNCHANGED <<loc, result>>
            \/ StoreFails(Retired(Aborted)) /\ Return("failed")
  /\ UNCHANGED <<procs, route, current, misled, strays>>

StopCanary ==
  /\ Step("stopCanary", "finishAbort")
  /\ StopOK({loc.cand}) \/ StopFails({loc.cand})
  /\ UNCHANGED <<proven, next, route, files, mem, loc, misled>>

FinishAbort ==
  /\ pc = "finishAbort"
  /\ IF loc.switched THEN Return(IF loc.keep THEN "kept" ELSE "failed")
                     ELSE Step("finishAbort", "undo") /\ UNCHANGED <<mem, loc>>
  /\ UNCHANGED <<procs, route, files, budget, misled, strays>>

\* undoMigration, for a rollout that moved no traffic.
UndoMigration ==
  /\ pc = "undo" /\ Return("failed")
  /\ IF loc.pre.mode = "rolling"
       THEN StoreBestEffort(RestoreMode(mem, loc.pre))
       ELSE NoFault /\ UNCHANGED disk
  /\ UNCHANGED <<procs, route, current, misled, strays>>

-----------------------------------------------------------------------------
(* The promotion.                                                          *)

\* Mutation: the promotion forgets to move the active slot.
PromotedMutant == [mem EXCEPT !.ver = loc.tver, !.canary = "promoted"]

Promoted == [mem EXCEPT !.active = loc.slot, !.ver = loc.tver, !.canary = "promoted"]

StorePromoted ==
  /\ \/ Step("promote", "promoteVersion") /\ StoreOK(Promoted)
     \/ Step("promote", "compensate") /\ StoreFails(Promoted)
  /\ mem' = Promoted
  /\ loc' = [loc EXCEPT !.oldVer = mem.ver]
  /\ UNCHANGED <<procs, route, current, misled, strays>>

PromoteVersion ==
  /\ \/ /\ Step("promoteVersion", "drainOld") /\ NoFault
        /\ current' = IF loc.tver = 0 THEN current ELSE loc.tver
     \/ /\ Step("promoteVersion", "compensate")
        /\ loc.tver # 0 /\ Fault("promote") /\ UNCHANGED current
  /\ UNCHANGED <<procs, route, disk, mem, loc, misled, strays>>

\* The outcome of the stop is only logged.
DrainOld ==
  LET s == Other(loc.slot) IN
  /\ Step("drainOld", "storeFinal")
  /\ StopOK({loc.stable}) \/ StopFails({loc.stable})
  /\ mem' = SetSlot(mem, s, [mem.slots[s] EXCEPT !.pid = 0, !.status = "stopped"])
  /\ UNCHANGED <<proven, next, route, files, loc, misled>>

StoreFinal ==
  /\ pc = "storeFinal"
  /\ \/ StoreOK(mem) /\ Return("deployed") /\ misled' = FALSE
     \/ StoreFails(mem) /\ Return("kept") /\ UNCHANGED misled
  /\ UNCHANGED <<procs, route, current, strays>>

-----------------------------------------------------------------------------
(* finishAcceptedSecretRecovery, for an application without secrets.       *)

\* recoverAcceptedSecretCanary takes the interrupted rollout for an accepted
\* one: its canary becomes the active slot.
Accepted(j) ==
  LET s == Other(j.active) IN
  [j EXCEPT !.active = s, !.ver = j.slots[s].ver]

\* A dead canary is recorded as promoted, and stable as retiring.
AcceptedDead(j) ==
  [Accepted(j) EXCEPT !.canary = "promoted", !.retiring = @ \cup Serving(j)]

NoCandidate(j) == j.mode = "rolling" \/ j.active = NoSlot

ReconcileCanary ==
  /\ pc = "reconcile"
  /\ \/ /\ mem.canary # "running"
        /\ Step("reconcile", "drain") /\ UNCHANGED <<route, disk, mem, loc, budget, misled>>
     \/ /\ mem.canary = "running" /\ NoCandidate(mem) /\ Return("refused")
        /\ UNCHANGED <<route, disk, budget, misled>>
     \/ /\ mem.canary = "running" /\ ~NoCandidate(mem)
        /\ LET cand == mem.slots[Other(mem.active)].pid IN
           IF cand \in alive
             THEN /\ \/ CallOK({cand}) /\ Step("reconcile", "storeAccepted")
                        /\ mem' = Accepted(mem) /\ UNCHANGED loc
                     \/ CallFails({cand}) /\ Return("refused")
                  /\ UNCHANGED disk
             ELSE /\ \/ StoreOK(AcceptedDead(mem)) /\ Step("reconcile", "drain")
                        /\ mem' = AcceptedDead(mem) /\ UNCHANGED loc
                     \/ StoreFails(AcceptedDead(mem)) /\ Return("refused")
                  /\ UNCHANGED <<route, misled>>
  /\ UNCHANGED <<procs, current, strays>>

StoreAccepted ==
  /\ pc = "storeAccepted"
  /\ \/ StoreOK(mem) /\ Step("storeAccepted", "stopStable") /\ UNCHANGED <<mem, loc>>
     \/ StoreFails(mem) /\ Return("refused")
  /\ UNCHANGED <<procs, route, current, misled, strays>>

StopStable ==
  LET s == Other(mem.active) IN
  /\ \/ /\ Step("stopStable", "storeStopped") /\ StopOK({mem.slots[s].pid})
        /\ mem' = SetSlot([mem EXCEPT !.canary = "promoted"], s,
                          [mem.slots[s] EXCEPT !.pid = 0, !.status = "stopped"])
        /\ UNCHANGED loc
     \/ pc = "stopStable" /\ StopFails({mem.slots[s].pid}) /\ Return("refused")
  /\ UNCHANGED <<proven, next, route, files, misled>>

StoreStopped ==
  /\ pc = "storeStopped"
  /\ \/ StoreOK(mem) /\ Step("storeStopped", "drain") /\ UNCHANGED <<mem, loc>>
     \/ StoreFails(mem) /\ Return("refused")
  /\ UNCHANGED <<procs, route, current, misled, strays>>

\* drainSecretRetirements stops the retired instances that do not serve.
Drain ==
  LET retired == mem.retiring \ Serving(mem) IN
  /\ \/ /\ pc = "drain" /\ mem.mode = "blue-green" /\ Serving(mem) \cap alive = {}
        /\ Return("reconciled") /\ UNCHANGED <<alive, budget, strays>>
     \/ /\ mem.mode = "rolling" \/ Serving(mem) \cap alive # {}
        /\ \/ /\ Step("drain", "storeDrained") /\ StopOK(retired)
              /\ mem' = [mem EXCEPT !.retiring = {}] /\ UNCHANGED loc
           \/ pc = "drain" /\ StopFails(retired) /\ Return("refused")
  /\ UNCHANGED <<proven, next, route, files, misled>>

StoreDrained ==
  /\ pc = "storeDrained"
  /\ \/ StoreOK(mem) /\ Return("reconciled")
     \/ StoreFails(mem) /\ Return("refused")
  /\ UNCHANGED <<procs, route, current, misled, strays>>

-----------------------------------------------------------------------------
(* What happens beside the rollout.                                        *)

Crash ==
  /\ Fault("crash")
  /\ pc # "idle" /\ Return("crashed")
  /\ UNCHANGED <<procs, route, files, misled, strays>>

\* The stable instance or the canary exits by itself.
InstanceDies ==
  /\ Fault("die")
  /\ \E i \in {loc.stable, loc.cand} \cap alive : alive' = alive \ {i}
  /\ UNCHANGED <<proven, next, route, files, pc, mem, loc, hist>>

\* An app with an active blue slot, or a rolling fleet of two replicas.
Origin(o) ==
  /\ alive = IF o = "rolling" THEN {1, 2} ELSE {1}
  /\ disk = IF o = "rolling"
              THEN [NoJournal EXCEPT !.mode = "rolling", !.replicas = {1, 2}, !.ver = 1]
              ELSE [NoJournal EXCEPT !.active = "blue", !.ver = 1, !.slots["blue"] =
                      [pid |-> 1, port |-> 1, ver |-> 1, status |-> "running"]]

Init ==
  /\ \E o \in Origins : Origin(o)
  /\ proven = alive /\ route = alive /\ next = Cardinality(alive) + 1 /\ current = 1
  /\ pc = "idle" /\ mem = NoJournal /\ loc = NoLocals
  /\ budget = MaxFaults /\ misled = FALSE /\ strays = {} /\ result = "none"

Prepare ==
  \/ Begin \/ Refuse \/ ResolveStable \/ MigrateTo \/ StoreAdopted \/ RecoverRoute
  \/ StoreRecoveredAborted \/ RecoverStaleSlots \/ CheckEnrolled
  \/ BuildFails \/ LaunchCanary
  \/ StoreStarting \/ HealthFails \/ HealthPasses \/ StoreRunning
  \/ StopUnrouted \/ StoreFailed

TrafficSteps ==
  \/ Cancelled \/ HandOffPublicPort \/ SwitchTraffic \/ StoreStep \/ VerifyPasses \/ VerifyFails \/ StopLegacy

Finish ==
  \/ RestoreStable \/ StoreBestKnown \/ Settle \/ StopCanary \/ FinishAbort
  \/ UndoMigration \/ StorePromoted \/ PromoteVersion \/ DrainOld \/ StoreFinal

Reconcile ==
  \/ ReconcileCanary \/ StoreAccepted \/ StopStable \/ StoreStopped
  \/ Drain \/ StoreDrained

Next == Prepare \/ TrafficSteps \/ Finish \/ Reconcile \/ Crash \/ InstanceDies

Spec == Init /\ [][Next]_vars

-----------------------------------------------------------------------------
(* Properties.                                                             *)

Steps == {"idle", "load", "migrate", "storeAdopted", "recoverRoute", "storeAborted",
          "recover", "probe", "build", "storeStarting", "stopUnstarted", "health",
          "stopUnhealthy", "storeFailed", "storeRunning", "step", "storeStep", "verify",
          "stopLegacy", "abort", "settle", "stopCanary", "finishAbort", "undo",
          "promote", "compensate", "bestKnown", "promoteVersion", "drainOld",
          "storeFinal", "reconcile", "storeAccepted", "stopStable", "storeStopped",
          "drain", "storeDrained"}

\* Every variable stays within the values the code can give it.
TypeOK ==
  /\ alive \subseteq Inst /\ proven \subseteq Inst /\ route \subseteq Inst
  /\ strays \subseteq Inst /\ next \in 1 .. MaxInst + 1 /\ current \in Version
  /\ disk \in Journal /\ mem \in Journal /\ loc \in Locals
  /\ pc \in Steps /\ budget \in 0 .. MaxFaults /\ misled \in BOOLEAN
  /\ result \in {"none", "refused", "failed", "kept", "deployed", "crashed",
                 "reconciled"}

\* "Traffic is never routed to the canary before it passed the same health
\* gate blue-green uses", whatever fails and wherever rollouts are killed.
OnlyProvenRouted == route \subseteq proven

\* No rollout stops an instance that still has a share of the traffic, as long
\* as no call that restores the stable routing has failed and no operation
\* before it met two faults.  One step is past that promise: after a failing
\* Status the hand-off of the public port stops the serving instance that
\* apps.json names.
NoServingKill ==
  [][ (alive \ alive') \cap route # {} =>
        misled \/ UNCHANGED pc \/ (pc = "step" /\ ~loc.enrolled) ]_vars

\* A rollout that fails without a fault of its own, or completes, leaves the
\* traffic with the instance deploy.json calls active and with no canary beside
\* it, wherever the operations before it were killed.  Which version that is,
\* the stable one or a canary that reconciliation accepted, is not said here:
\* see InterruptedStaysStable.
RolloutConverges ==
  pc = "idle" /\ ~misled /\ ((result = "failed" /\ budget = MaxFaults) \/ result = "deployed") =>
    /\ (route \cap alive) \ strays \subseteq Serving(disk)
    /\ result = "deployed" => route = Serving(disk) /\ disk.ver \in {0, current}

\* "An interrupted rollout always converges on stable" (rollout.go:37-39): the
\* other slot takes over in deploy.json only from a rollout whose canary has
\* passed every verification step.  Reconciliation after a kill breaks this.
InterruptedStaysStable ==
  [][ disk.active # NoSlot /\ disk'.active \in Slots \ {disk.active} => loc.step = NSteps ]_vars

=============================================================================
