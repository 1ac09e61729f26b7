--------------------------- MODULE RolloutProofs ---------------------------
(***************************************************************************)
(* Proofs about Rollout, for any number of instances and traffic steps,    *)
(* any set and number of faults and any situations to start from.          *)
(*                                                                         *)
(* The inductive invariant has two layers:                                 *)
(*   Inv      types, what the journals may record, the stable instance and *)
(*            the canary an operation holds, and that only proven          *)
(*            instances are routed;                                        *)
(*   Traffic  how the proxy's targets relate to the journal at each step,  *)
(*            as long as the operation is not misled.                      *)
(***************************************************************************)
EXTENDS Rollout, FiniteSetTheorems, TLAPS

ReconcileSteps == {"reconcile", "storeAccepted", "stopStable", "storeStopped",
                   "drain", "storeDrained"}

\* A rollout that holds its stable instance.
Held == Steps \ ({"idle", "load", "migrate"} \cup ReconcileSteps)

\* The canary is launched and has no traffic yet.
Unrouted == {"storeStarting", "stopUnstarted", "health", "stopUnhealthy", "storeRunning"}

\* The journal calls the canary active.
PromotedSteps == {"promoteVersion", "compensate", "bestKnown", "drainOld", "storeFinal"}

\* The rollout has the record of the canary it launched.
WithCanary == Unrouted \cup {"step", "storeStep", "verify", "stopLegacy", "abort",
                             "settle", "promote"} \cup PromotedSteps

\* The journal shows no rollout in progress.
NotRunning == {"storeAborted", "recover", "probe", "build", "storeStarting", "stopUnstarted", "health"}

\* There is a traffic step to come.
Stepping == {"load", "migrate", "storeAdopted", "recoverRoute", "step", "storeStep", "verify"}
              \cup NotRunning \cup Unrouted

-----------------------------------------------------------------------------
(* What the journals record, and what an operation holds.                  *)

\* The instances a journal records were launched (their numbers are below n);
\* replicas, the active slot and the canary of an interrupted rollout are in P.
\* A retired instance is not recorded elsewhere, unless a dead canary, one that
\* is not in A, has been accepted.
JournalIn(j, A, P, n) ==
  /\ \A i \in j.replicas \cup j.retiring : i < n
  /\ j.slots["blue"].pid < n /\ j.slots["green"].pid < n
  /\ j.replicas \subseteq P
  /\ j.mode = "rolling" =>
       j.active = NoSlot /\ j.slots["blue"].pid = 0 /\ j.slots["green"].pid = 0
  /\ j.mode = "blue-green" => j.replicas = {}
  /\ j.active # NoSlot => j.slots[j.active].pid \in P \cup {0}
  /\ j.canary = "running" => j.slots[Other(j.active)].pid \in P \cup {0}
  /\ j.slots["blue"].pid = j.slots["green"].pid => j.slots["blue"].pid = 0
  /\ j.replicas \cap j.retiring = {}
  /\ \/ j.slots["blue"].pid \notin j.retiring /\ j.slots["green"].pid \notin j.retiring
     \/ j.canary # "running" /\ j.active # NoSlot /\ j.slots[j.active].pid \notin A

JournalsOK ==
  /\ JournalIn(disk, alive, proven, next) /\ JournalIn(mem, alive, proven, next)
  /\ JournalIn(loc.pre, alive, proven, next)

Launched == \A i \in alive \cup proven : i < next

\* The journal an operation has read and not yet changed.
ReadOK ==
  /\ pc \in {"load", "migrate", "reconcile"} => mem = disk
  /\ pc \in {"load", "migrate"} => loc.pre = disk /\ loc.legacy = {}
  /\ pc \in {"idle", "load"} \cup ReconcileSteps => loc.stable = 0 /\ loc.cand = 0
  /\ pc = "migrate" => mem.mode = "rolling" /\ loc.stable \in mem.replicas /\ loc.cand = 0
  /\ pc \in {"storeAdopted", "recoverRoute"} => disk.canary = mem.canary
  /\ pc \in {"storeAccepted", "stopStable", "storeStopped"} =>
       mem.active # NoSlot /\ mem.slots[mem.active].pid \in alive

\* The stable instance of a rollout.
HeldOK ==
  pc \in Held =>
    /\ mem.mode = "blue-green" /\ mem.active # NoSlot
    /\ loc.stable \in proven /\ loc.stable \in Serving(loc.pre)
    /\ loc.stable \notin mem.retiring \cup disk.retiring
    /\ mem.slots["blue"].pid \notin mem.retiring /\ mem.slots["green"].pid \notin mem.retiring
    /\ loc.pre.replicas \cap mem.retiring = {}
    /\ loc.legacy \subseteq loc.pre.replicas \ {loc.stable}
    /\ pc \notin PromotedSteps => mem.slots[mem.active].pid = loc.stable

\* The canary of a rollout.
CanaryOK ==
  /\ pc \in {"probe", "build"} => loc.slot = Other(mem.active)
  /\ pc \in WithCanary =>
       /\ loc.cand \in Inst /\ loc.cand < next /\ mem.slots[loc.slot].pid = loc.cand
       /\ loc.cand \notin mem.retiring \cup disk.retiring
       /\ loc.cand \notin loc.pre.replicas /\ loc.cand # loc.stable
       /\ loc.cand \in proven \/ pc \in Unrouted \ {"storeRunning"}
       /\ mem.active = IF pc \in PromotedSteps THEN loc.slot ELSE Other(loc.slot)
  /\ pc \in PromotedSteps \ {"storeFinal"} => mem.slots[Other(loc.slot)].pid = loc.stable
  /\ pc = "storeFinal" => mem.slots[Other(loc.slot)].pid = 0
  /\ pc \in NotRunning => mem.canary # "running"
  /\ pc \in Stepping => loc.step < NSteps

Inv == TypeOK /\ OnlyProvenRouted /\ JournalsOK /\ Launched /\ ReadOK /\ HeldOK /\ CanaryOK

-----------------------------------------------------------------------------
(* The proxy's targets.                                                    *)

\* The instance in the slot that is not active has traffic, and no interrupted
\* rollout explains it.
SideRouted(j) ==
  /\ j.canary # "running" /\ j.active # NoSlot /\ j.slots[j.active].pid \in alive
  /\ j.slots[Other(j.active)].pid \in route

\* An instance that a reconciliation would stop has traffic.
RetiringRouted(j) ==
  /\ j.mode = "rolling" \/ Serving(j) \cap alive # {}
  /\ j.retiring \cap route # {}

\* The journal on disk misplaces no traffic, except while a promotion is being
\* compensated, or after an operation that met two faults.
Calm ==
  \/ misled
  \/ ~SideRouted(disk) /\ ~RetiringRouted(disk)
  \/ pc = "settle" /\ budget + 1 <= MaxFaults
  \/ pc = "idle" /\ budget + 2 <= MaxFaults

\* The traffic of a rollout on its way forward.
SplitOK ==
  /\ pc \in Unrouted => loc.cand \notin route
  /\ pc \in {"storeStep", "verify"} => loc.switched /\ route = StepTargets
  /\ pc = "stopLegacy" => /\ loc.switched /\ route \subseteq {loc.stable, loc.cand}
                          /\ loc.step = NSteps => route = {loc.cand}
  /\ pc \in {"promote"} \cup (PromotedSteps \ {"bestKnown"}) => loc.switched /\ route = {loc.cand}
  /\ pc \in {"storeRunning", "step", "storeStep", "verify", "stopLegacy", "abort", "promote"} =>
       mem.canary = "running" /\ (pc # "storeRunning" => disk.canary = "running")
  /\ pc = "step" /\ ~loc.switched => loc.cand \notin route
  /\ pc \in {"promoteVersion", "compensate", "drainOld", "storeFinal"} => mem.ver = loc.tver
  /\ pc \in {"drainOld", "storeFinal"} => loc.tver \in {0, current}

\* The traffic of a rollout on its way back.
BackOK ==
  /\ pc = "bestKnown" => misled
  /\ pc = "compensate" => budget + 1 <= MaxFaults
  /\ pc = "abort" => misled \/ loc.switched \/ loc.cand \notin route
  /\ pc \in {"settle", "stopCanary"} => misled \/ loc.cand \notin route
  /\ pc \in {"settle", "stopCanary", "finishAbort"} =>
       misled \/ ~loc.switched \/ route = {loc.stable}
  /\ pc \in {"stopCanary", "finishAbort"} => disk = mem

\* What an operation may stop has no traffic.
StopsOK ==
  /\ pc \in {"storeAdopted", "recoverRoute", "storeAborted", "recover", "storeFailed"} =>
       misled \/ mem.canary = "running" \/ mem.slots[Other(mem.active)].pid \notin route
  /\ pc \in Held \cup {"migrate"} => misled \/ (mem.retiring \cup disk.retiring) \cap route = {}
  /\ pc \in {"storeAccepted", "stopStable", "storeStopped"} =>
       /\ route = {mem.slots[mem.active].pid}
       /\ mem.slots[mem.active].pid \notin mem.retiring \cup disk.retiring
  /\ pc = "drain" => mem = disk
  /\ pc = "storeDrained" => mem.retiring = {} /\ (misled \/ ~SideRouted(mem))

\* A rollout that has moved no traffic finds it with the instances the journal
\* it started from calls serving, strays apart.
AtRest(S) == misled \/ (route \cap alive) \ strays \subseteq S

StartOK ==
  /\ pc = "load" => strays = alive \ Recorded(mem)
  /\ pc = "storeAdopted" => loc.pre.mode = "rolling"
  /\ pc \in {"migrate", "storeAdopted", "recoverRoute"} /\ mem.canary # "running" =>
       AtRest(Serving(loc.pre))
  /\ pc \in {"storeAborted", "recover", "probe", "build", "storeFailed", "undo"} \cup Unrouted =>
       AtRest(Serving(loc.pre))
  /\ pc \in {"step", "abort", "settle", "stopCanary", "finishAbort"} /\ ~loc.switched =>
       AtRest(Serving(loc.pre))
  /\ pc \in {"recoverRoute", "storeAborted", "recover", "probe", "build", "storeFailed", "undo"} \cup Unrouted =>
       (loc.pre.mode = "blue-green" => Serving(disk) = {loc.stable})

Traffic == Calm /\ SplitOK /\ BackOK /\ StopsOK /\ StartOK /\ RolloutConverges

USE MaxInstAssumption, MaxFaultsAssumption, NStepsAssumption, OriginsAssumption, FleetAssumption

-----------------------------------------------------------------------------
(* Records.                                                                *)

\* PIDs: the numbers of instances and zero.
LEMMA PidFacts ==
  /\ 0 \in Pid /\ Inst \subseteq Pid /\ Pid \ {0} \subseteq Inst /\ 0 \notin Inst
  /\ Version = Pid
BY DEF Pid, Inst, Version

\* The slot beside a slot.
LEMMA OtherFacts ==
  /\ Other("blue") = "green" /\ Other("green") = "blue" /\ Other(NoSlot) = "blue"
  /\ \A s : Other(s) \in Slots
  /\ \A s \in Slots : s # NoSlot /\ Other(s) # s /\ Other(Other(s)) = s
BY DEF Other, Slots, NoSlot

\* The fields of a slot.
LEMMA SlotFields ==
  ASSUME NEW r \in SlotRec
  PROVE  /\ r.pid \in Pid /\ r.port \in Pid /\ r.ver \in Version
         /\ r.status \in {"stopped", "starting", "running", "failed"}
BY DEF SlotRec

\* The fields of a journal.
LEMMA JournalFields ==
  ASSUME NEW j \in Journal
  PROVE  /\ j.mode \in {"rolling", "blue-green"} /\ j.active \in Slots \cup {NoSlot}
         /\ j.slots \in [Slots -> SlotRec] /\ j.replicas \subseteq Inst
         /\ j.retiring \subseteq Inst /\ j.canary \in CanaryStatus /\ j.ver \in Version
         /\ \A s \in Slots : j.slots[s] \in SlotRec /\ j.slots[s].pid \in Pid
BY SlotFields DEF Journal

\* The fields of the local variables.
LEMMA LocalFields ==
  ASSUME NEW v \in Locals
  PROVE  /\ v.pre \in Journal /\ v.legacy \subseteq Inst /\ v.slot \in Slots
         /\ v.stable \in Pid /\ v.cand \in Pid /\ v.tver \in Version /\ v.oldVer \in Version
         /\ v.step \in 0 .. NSteps /\ v.switched \in BOOLEAN /\ v.keep \in BOOLEAN
         /\ v.enrolled \in BOOLEAN
         /\ v.status \in CanaryStatus
BY DEF Locals

\* Nothing recorded, nothing held.
LEMMA EmptyFacts ==
  /\ EmptySlot \in SlotRec /\ EmptySlots \in [Slots -> SlotRec]
  /\ NoJournal \in Journal /\ NoLocals \in Locals
  /\ \A s \in Slots : EmptySlots[s] = EmptySlot
  /\ EmptySlot.pid = 0
  /\ NoJournal.slots = EmptySlots /\ NoJournal.mode = "blue-green" /\ NoJournal.active = NoSlot
  /\ NoJournal.replicas = {} /\ NoJournal.retiring = {} /\ NoJournal.canary = "none"
  /\ NoLocals.pre = NoJournal /\ NoLocals.legacy = {} /\ NoLocals.stable = 0 /\ NoLocals.cand = 0
<1>1. EmptySlot \in SlotRec /\ EmptySlots \in [Slots -> SlotRec]
  BY PidFacts DEF EmptySlot, EmptySlots, SlotRec
<1>2. NoJournal \in Journal
  BY <1>1, PidFacts DEF NoJournal, Journal, CanaryStatus
<1>3. NoLocals \in Locals
  BY <1>2, PidFacts DEF NoLocals, Locals, Slots, CanaryStatus
<1> QED BY <1>1, <1>2, <1>3 DEF EmptySlot, EmptySlots, NoJournal, NoLocals

\* Two journals that differ in their slots at most.
SameBut(i, j) ==
  /\ i.mode = j.mode /\ i.active = j.active /\ i.replicas = j.replicas
  /\ i.retiring = j.retiring /\ i.canary = j.canary /\ i.ver = j.ver

\* Writing a slot changes this slot and nothing else.
LEMMA SetSlotFacts ==
  ASSUME NEW j \in Journal, NEW s \in Slots, NEW rec \in SlotRec
  PROVE  /\ SetSlot(j, s, rec) \in Journal /\ SameBut(SetSlot(j, s, rec), j)
         /\ SetSlot(j, s, rec).slots[s] = rec
         /\ SetSlot(j, s, rec).slots[Other(s)] = j.slots[Other(s)]
BY OtherFacts DEF SetSlot, Journal, SameBut

\* A stopped or failed slot keeps all but its PID.
LEMMA ClearedFacts ==
  ASSUME NEW r \in SlotRec, NEW st \in {"stopped", "starting", "running", "failed"}
  PROVE  /\ [r EXCEPT !.pid = 0, !.status = st] \in SlotRec
         /\ [r EXCEPT !.pid = 0, !.status = st].pid = 0
         /\ [r EXCEPT !.status = st] \in SlotRec
         /\ [r EXCEPT !.status = st].pid = r.pid
BY PidFacts DEF SlotRec

\* A journal stays right when processes stop, and more are proven or launched.
LEMMA JournalKept ==
  ASSUME NEW j \in Journal, NEW A, NEW B, NEW P, NEW Q, NEW n \in Nat, NEW m \in Nat,
         JournalIn(j, A, P, n), P \subseteq Q, n <= m, \A i \in B : i \in A \/ i = n
  PROVE  JournalIn(j, B, Q, m)
<1>1. j.active # NoSlot => j.slots[j.active].pid < n /\ j.slots[j.active].pid # n
  BY JournalFields DEF JournalIn, Slots, Pid
<1>2. /\ \A i \in j.replicas \cup j.retiring : i < m
      /\ j.slots["blue"].pid < m /\ j.slots["green"].pid < m
  BY JournalFields DEF JournalIn, Slots, Pid, Inst
<1> QED BY <1>1, <1>2 DEF JournalIn

\* An empty journal records nobody.
LEMMA EmptyIn == ASSUME NEW A, NEW P, NEW n \in Nat \ {0} PROVE JournalIn(NoJournal, A, P, n)
BY EmptyFacts DEF JournalIn, Slots

\* The journals a migration writes and holds.
LEMMA EmptiedFacts ==
  ASSUME NEW j \in Journal
  PROVE  /\ Emptied(j) \in Journal /\ Emptied(j).mode = "blue-green"
         /\ Emptied(j).active = NoSlot /\ Emptied(j).replicas = {}
         /\ Emptied(j).slots = EmptySlots
         /\ Emptied(j).retiring = j.retiring /\ Emptied(j).canary = j.canary
BY EmptyFacts DEF Emptied, Journal

\* The stable instance becomes the blue slot.
LEMMA AdoptedFacts ==
  ASSUME NEW j \in Journal, loc.stable \in Inst
  PROVE  /\ Adopted(j) \in Journal /\ Adopted(j).mode = j.mode
         /\ Adopted(j).active = "blue" /\ Adopted(j).replicas = j.replicas
         /\ Adopted(j).slots["blue"].pid = loc.stable
         /\ Adopted(j).slots["green"] = j.slots["green"]
         /\ Adopted(j).retiring = j.retiring /\ Adopted(j).canary = j.canary
<1> DEFINE r == [pid |-> loc.stable, port |-> loc.stable, ver |-> j.ver, status |-> "running"]
           k == [j EXCEPT !.active = "blue"]
<1>1. r \in SlotRec /\ r.pid = loc.stable
  BY PidFacts, JournalFields DEF SlotRec
<1>2. /\ k \in Journal /\ k.mode = j.mode /\ k.active = "blue" /\ k.replicas = j.replicas
      /\ k.slots = j.slots /\ k.retiring = j.retiring /\ k.canary = j.canary
  BY DEF Journal, Slots
<1>3. Adopted(j) = SetSlot(k, "blue", r)
  BY DEF Adopted
<1> HIDE DEF r, k
<1>4. "blue" \in Slots /\ Other("blue") = "green"
  BY OtherFacts DEF Slots
<1> QED BY <1>1, <1>2, <1>3, <1>4, SetSlotFacts DEF SameBut

\* The canary record alone.
LEMMA CanaryFacts ==
  ASSUME NEW j \in Journal, NEW c \in CanaryStatus
  PROVE  /\ [j EXCEPT !.canary = c] \in Journal /\ [j EXCEPT !.canary = c].mode = j.mode
         /\ [j EXCEPT !.canary = c].active = j.active
         /\ [j EXCEPT !.canary = c].slots = j.slots
         /\ [j EXCEPT !.canary = c].replicas = j.replicas
         /\ [j EXCEPT !.canary = c].retiring = j.retiring
         /\ [j EXCEPT !.canary = c].canary = c /\ [j EXCEPT !.canary = c].ver = j.ver
BY DEF Journal

\* The slot that is not active loses its PID.
LEMMA ReclaimedFacts ==
  ASSUME NEW j \in Journal, j.active # NoSlot
  PROVE  /\ Reclaimed(j) \in Journal /\ SameBut(Reclaimed(j), j)
         /\ Reclaimed(j).slots[Other(j.active)].pid = 0
         /\ Reclaimed(j).slots[j.active] = j.slots[j.active]
<1> DEFINE s == Other(j.active)
           r == [j.slots[s] EXCEPT !.pid = 0, !.status = "stopped"]
<1>1. s \in Slots /\ Other(s) = j.active /\ j.slots[s] \in SlotRec
  BY OtherFacts, JournalFields
<1>2. r \in SlotRec /\ r.pid = 0
  BY <1>1, ClearedFacts
<1>3. Reclaimed(j) = IF j.slots[s].pid = 0 THEN j ELSE SetSlot(j, s, r)
  BY DEF Reclaimed
<1> HIDE DEF s, r
<1>4. CASE j.slots[s].pid = 0
  BY <1>3, <1>4 DEF s, SameBut
<1>5. CASE j.slots[s].pid # 0
  <2>1. /\ SetSlot(j, s, r) \in Journal /\ SameBut(SetSlot(j, s, r), j)
        /\ SetSlot(j, s, r).slots[s] = r /\ SetSlot(j, s, r).slots[Other(s)] = j.slots[Other(s)]
    BY <1>1, <1>2, SetSlotFacts
  <2> QED BY <1>1, <1>2, <1>3, <1>5, <2>1 DEF s
<1> QED BY <1>4, <1>5

\* The promoted canary is the active slot.
LEMMA PromotedFacts ==
  ASSUME mem \in Journal, loc \in Locals
  PROVE  /\ Promoted \in Journal /\ Promoted.mode = mem.mode /\ Promoted.active = loc.slot
         /\ Promoted.slots = mem.slots /\ Promoted.replicas = mem.replicas
         /\ Promoted.retiring = mem.retiring /\ Promoted.canary = "promoted"
         /\ Promoted.ver = loc.tver
<1>1. loc.slot \in Slots /\ loc.tver \in Version
  BY LocalFields
<1> QED BY <1>1 DEF Promoted, Journal, CanaryStatus

\* The compensated promotion.
LEMMA DemotedFacts ==
  ASSUME NEW j \in Journal, NEW s \in Slots, NEW v \in Version
  PROVE  /\ [j EXCEPT !.active = s, !.ver = v] \in Journal
         /\ [j EXCEPT !.active = s, !.ver = v].mode = j.mode
         /\ [j EXCEPT !.active = s, !.ver = v].active = s
         /\ [j EXCEPT !.active = s, !.ver = v].slots = j.slots
         /\ [j EXCEPT !.active = s, !.ver = v].replicas = j.replicas
         /\ [j EXCEPT !.active = s, !.ver = v].retiring = j.retiring
         /\ [j EXCEPT !.active = s, !.ver = v].canary = j.canary
         /\ [j EXCEPT !.active = s, !.ver = v].ver = v
BY DEF Journal

\* A set of retired instances alone.
LEMMA RetiringFacts ==
  ASSUME NEW j \in Journal, NEW S \in SUBSET Inst
  PROVE  /\ [j EXCEPT !.retiring = S] \in Journal /\ [j EXCEPT !.retiring = S].mode = j.mode
         /\ [j EXCEPT !.retiring = S].active = j.active
         /\ [j EXCEPT !.retiring = S].slots = j.slots
         /\ [j EXCEPT !.retiring = S].replicas = j.replicas
         /\ [j EXCEPT !.retiring = S].retiring = S
         /\ [j EXCEPT !.retiring = S].canary = j.canary /\ [j EXCEPT !.retiring = S].ver = j.ver
BY DEF Journal

\* The journal of an aborted rollout: its canary moves from its slot to the
\* retired instances.
LEMMA RetiredFacts ==
  ASSUME NEW j \in Journal, loc \in Locals, loc.cand \in Inst
  PROVE  /\ Retired(j) \in Journal /\ Retired(j).mode = j.mode /\ Retired(j).active = j.active
         /\ Retired(j).replicas = j.replicas /\ Retired(j).canary = j.canary
         /\ Retired(j).retiring = j.retiring \cup {loc.cand}
         /\ Retired(j).slots[loc.slot].pid = 0
         /\ Retired(j).slots[Other(loc.slot)] = j.slots[Other(loc.slot)]
<1> DEFINE k == [j EXCEPT !.retiring = @ \cup {loc.cand}]
           r == [j.slots[loc.slot] EXCEPT !.pid = 0, !.status = "failed"]
<1>1. /\ k \in Journal /\ k.mode = j.mode /\ k.active = j.active /\ k.replicas = j.replicas
      /\ k.canary = j.canary /\ k.retiring = j.retiring \cup {loc.cand} /\ k.slots = j.slots
  BY DEF Journal
<1>2. loc.slot \in Slots /\ r \in SlotRec /\ r.pid = 0
  BY LocalFields, JournalFields, ClearedFacts
<1>3. Retired(j) = SetSlot(k, loc.slot, r)
  BY DEF Retired
<1> HIDE DEF k, r
<1> QED BY <1>1, <1>2, <1>3, SetSlotFacts DEF SameBut

\* The journal that takes an interrupted rollout for an accepted one.
LEMMA AcceptedFacts ==
  ASSUME NEW j \in Journal
  PROVE  /\ Accepted(j) \in Journal /\ Accepted(j).mode = j.mode
         /\ Accepted(j).active = Other(j.active) /\ Accepted(j).slots = j.slots
         /\ Accepted(j).replicas = j.replicas /\ Accepted(j).retiring = j.retiring
         /\ Accepted(j).canary = j.canary
<1> DEFINE s == Other(j.active)
           v == j.slots[s].ver
<1>1. s \in Slots /\ v \in Version
  BY OtherFacts, JournalFields, SlotFields
<1>2. Accepted(j) = [j EXCEPT !.active = s, !.ver = v] /\ s = Other(j.active)
  BY DEF Accepted
<1> HIDE DEF s, v
<1> QED BY <1>1, <1>2 DEF Journal

\* The same for a dead canary: the stable instance is to be retired.
LEMMA AcceptedDeadFacts ==
  ASSUME NEW j \in Journal
  PROVE  /\ AcceptedDead(j) \in Journal /\ AcceptedDead(j).mode = j.mode
         /\ AcceptedDead(j).active = Other(j.active) /\ AcceptedDead(j).slots = j.slots
         /\ AcceptedDead(j).replicas = j.replicas
         /\ AcceptedDead(j).retiring = j.retiring \cup Serving(j)
         /\ AcceptedDead(j).canary = "promoted"
<1> DEFINE k == Accepted(j)
<1>1. Serving(j) \subseteq Inst
  BY JournalFields, PidFacts DEF Serving
<1>2. AcceptedDead(j) = [k EXCEPT !.canary = "promoted", !.retiring = @ \cup Serving(j)]
  BY DEF AcceptedDead
<1>3. /\ k \in Journal /\ k.mode = j.mode /\ k.active = Other(j.active) /\ k.slots = j.slots
      /\ k.replicas = j.replicas /\ k.retiring = j.retiring
  BY AcceptedFacts
<1> HIDE DEF k
<1> QED BY <1>1, <1>2, <1>3 DEF Journal, CanaryStatus

\* The mode of before a migration.
LEMMA RestoreModeFacts ==
  ASSUME NEW j \in Journal, NEW k \in Journal
  PROVE  /\ RestoreMode(j, k) \in Journal /\ RestoreMode(j, k).mode = k.mode
         /\ RestoreMode(j, k).active = k.active /\ RestoreMode(j, k).slots = k.slots
         /\ RestoreMode(j, k).replicas = k.replicas
         /\ RestoreMode(j, k).retiring = j.retiring /\ RestoreMode(j, k).canary = j.canary
BY DEF RestoreMode, Journal

-----------------------------------------------------------------------------
(* The outcomes of the calls that can fail.                                *)

\* Whatever becomes of a Store, deploy.json has its old or its new contents.
LEMMA StoreFacts ==
  ASSUME TypeOK, NEW j, StoreOK(j) \/ StoreFails(j)
  PROVE  disk' \in {disk, j} /\ budget' \in 0 .. budget /\ (StoreFails(j) => budget' + 1 = budget)
BY DEF TypeOK, StoreOK, StoreFails, Fault, NoFault

\* Whatever becomes of a stop, nobody else is stopped.
LEMMA StopFacts ==
  ASSUME TypeOK, NEW S, StopOK(S) \/ StopFails(S)
  PROVE  /\ alive' \subseteq alive /\ alive \ alive' \subseteq S /\ budget' \in 0 .. budget
         /\ strays \subseteq strays' /\ strays' \subseteq strays \cup alive
BY DEF TypeOK, StopOK, StopFails, Fault, NoFault

\* Whatever becomes of a proxy call, the old or the new targets are routed,
\* and the caller knows which, or is misled.
LEMMA CallFacts ==
  ASSUME TypeOK, NEW S, CallFails(S)
  PROVE  /\ route' \in {route, S} /\ budget' \in 0 .. budget /\ misled' \in BOOLEAN
         /\ (misled => misled') /\ (route' = route \/ misled')
<1>1. route' \in {route, S} /\ budget' \in 0 .. budget
  BY DEF TypeOK, CallFails, Fault
<1>2. misled' \in BOOLEAN /\ (misled => misled') /\ (route' = route \/ misled')
  BY Zenon DEF TypeOK, CallFails
<1> QED BY <1>1, <1>2

\* A restoring call that fails misleads the rollout.
LEMMA RestoreFacts ==
  ASSUME TypeOK, RestoreFails
  PROVE  /\ route' \in {route, {loc.stable}} /\ budget' \in 0 .. budget /\ misled' = TRUE
BY DEF TypeOK, RestoreFails, Fault, StableTargets

\* A fault, or none.
LEMMA FaultFacts ==
  ASSUME TypeOK, NEW k, Fault(k) \/ NoFault
  PROVE  budget' \in 0 .. budget
BY DEF TypeOK, Fault, NoFault

-----------------------------------------------------------------------------
(* The shapes of a step.                                                   *)

\* The local variables a rollout keeps once they are set.
SameHold(v) ==
  /\ v.pre = loc.pre /\ v.legacy = loc.legacy /\ v.slot = loc.slot
  /\ v.stable = loc.stable /\ v.cand = loc.cand /\ v.tver = loc.tver

\* An operation returns.
LEMMA ReturnInv ==
  ASSUME Inv, pc' = "idle", mem' = NoJournal, loc' = NoLocals,
         proven' = proven, next' = next, alive' \subseteq alive, strays' \subseteq Inst,
         route' \subseteq proven, current' \in Version, misled' \in BOOLEAN, budget' \in 0 .. budget,
         disk' \in Journal, JournalIn(disk', alive, proven, next),
         result' \in {"none", "refused", "failed", "kept", "deployed", "crashed", "reconciled"}
  PROVE  Inv'
<1>1. TypeOK'
  <2>1. pc' \in Steps /\ mem' \in Journal /\ loc' \in Locals
    BY EmptyFacts DEF Steps
  <2>2. budget' \in 0 .. MaxFaults
    BY DEF Inv, TypeOK
  <2> QED BY <2>1, <2>2 DEF Inv, TypeOK
<1>2. JournalsOK'
  <2>1. next \in Nat \ {0}
    BY DEF Inv, TypeOK
  <2>2. JournalIn(disk', alive', proven, next)
    BY <2>1, JournalKept
  <2>3. JournalIn(NoJournal, alive', proven, next)
    BY <2>1, EmptyIn
  <2> QED BY <2>2, <2>3, EmptyFacts DEF JournalsOK
<1>3. OnlyProvenRouted' /\ Launched'
  BY DEF Inv, OnlyProvenRouted, Launched
<1>4. ReadOK'
  BY EmptyFacts DEF ReadOK, ReconcileSteps
<1>5. HeldOK' /\ CanaryOK'
  BY DEF HeldOK, CanaryOK, Held, WithCanary, Unrouted, PromotedSteps, NotRunning, Stepping
<1> QED BY <1>1, <1>2, <1>3, <1>4, <1>5 DEF Inv

\* An operation goes on, and has launched nothing.
LEMMA MoveInv ==
  ASSUME Inv, pc' \in Steps, result' = result, current' \in Version,
         proven' = proven, next' = next, alive' \subseteq alive, strays' \subseteq Inst,
         route' \subseteq proven, misled' \in BOOLEAN, budget' \in 0 .. budget,
         mem' \in Journal, JournalIn(mem', alive, proven, next),
         disk' \in Journal, JournalIn(disk', alive, proven, next),
         loc' \in Locals, loc'.pre = loc.pre, ReadOK', HeldOK', CanaryOK'
  PROVE  Inv'
<1>1. TypeOK'
  <2>1. budget' \in 0 .. MaxFaults
    BY DEF Inv, TypeOK
  <2> QED BY <2>1 DEF Inv, TypeOK
<1>2. JournalsOK'
  <2>1. next \in Nat /\ loc.pre \in Journal /\ JournalIn(loc.pre, alive, proven, next)
    BY LocalFields DEF Inv, TypeOK, JournalsOK
  <2>2. \A j \in Journal : JournalIn(j, alive, proven, next) => JournalIn(j, alive', proven, next)
    BY <2>1, JournalKept
  <2> QED BY <2>1, <2>2 DEF JournalsOK
<1>3. OnlyProvenRouted' /\ Launched'
  BY DEF Inv, OnlyProvenRouted, Launched
<1> QED BY <1>1, <1>2, <1>3 DEF Inv

\* A rollout goes from one step to another, and its journal stays.
Flows ==
  /\ pc \in Held \ {"storeFinal"} /\ pc' \in Held \ {"storeAdopted", "probe", "build", "storeFinal"}
  /\ pc \in PromotedSteps <=> pc' \in PromotedSteps
  /\ pc' \in WithCanary => pc \in WithCanary
  /\ pc' \in WithCanary => loc.cand \in proven \/ pc' \in Unrouted \ {"storeRunning"}
  /\ pc' = "recoverRoute" => disk'.canary = mem.canary
  /\ pc' \in NotRunning => mem.canary # "running"
  /\ pc' \in Stepping => loc'.step < NSteps

\* Such a step preserves the invariant.
LEMMA FlowInv ==
  ASSUME Inv, Flows, result' = result, current' \in Version,
         proven' = proven, next' = next, alive' \subseteq alive, strays' \subseteq Inst,
         route' \subseteq proven, misled' \in BOOLEAN, budget' \in 0 .. budget,
         mem' = mem, disk' \in {disk, mem}, loc' \in Locals, SameHold(loc')
  PROVE  Inv'
<1>1. pc' \in Steps /\ mem \in Journal /\ disk \in Journal
  BY DEF Inv, TypeOK, Flows, Held
<1>2. JournalIn(mem, alive, proven, next) /\ JournalIn(disk, alive, proven, next)
  BY DEF Inv, JournalsOK
<1>3. ReadOK'
  BY DEF Flows, Held, ReadOK, ReconcileSteps
<1>4. HeldOK'
  BY DEF Inv, Flows, HeldOK, SameHold
<1>5. CanaryOK'
  <2>1. pc' \in WithCanary =>
          /\ loc'.cand \in Inst /\ loc'.cand < next' /\ mem'.slots[loc'.slot].pid = loc'.cand
          /\ loc'.cand \notin mem'.retiring \cup disk'.retiring
          /\ loc'.cand \notin loc'.pre.replicas /\ loc'.cand # loc'.stable
          /\ loc'.cand \in proven' \/ pc' \in Unrouted \ {"storeRunning"}
    BY DEF Inv, Flows, CanaryOK, SameHold
  <2>2. pc' \in WithCanary => mem'.active = IF pc' \in PromotedSteps THEN loc'.slot ELSE Other(loc'.slot)
    BY DEF Inv, Flows, CanaryOK, SameHold
  <2>3. pc' \in PromotedSteps \ {"storeFinal"} => mem'.slots[Other(loc'.slot)].pid = loc'.stable
    <3>1. pc' \in PromotedSteps => pc \in PromotedSteps
      BY DEF Flows
    <3>2. pc \in PromotedSteps => pc # "storeFinal" \/ pc' = "storeFinal"
      BY DEF Flows
    <3> QED BY <3>1, <3>2 DEF Inv, Flows, CanaryOK, SameHold
  <2> QED BY <2>1, <2>2, <2>3 DEF CanaryOK, Flows
<1> QED BY <1>1, <1>2, <1>3, <1>4, <1>5, MoveInv DEF SameHold

-----------------------------------------------------------------------------
(* The steps that leave the journal in memory as it is.                    *)

\* The local variables that decide what comes next.
SameFlow(v) == v.step = loc.step /\ v.switched = loc.switched /\ v.keep = loc.keep

\* The sets of steps, spelled out.
LEMMA StepSets ==
  /\ Held = {"storeAdopted", "recoverRoute", "storeAborted", "recover", "probe", "build",
             "storeStarting", "stopUnstarted", "health", "stopUnhealthy", "storeFailed",
             "storeRunning", "step", "storeStep", "verify", "stopLegacy", "abort", "settle",
             "stopCanary", "finishAbort", "undo", "promote", "compensate", "bestKnown",
             "promoteVersion", "drainOld", "storeFinal"}
  /\ WithCanary = {"storeStarting", "stopUnstarted", "health", "stopUnhealthy", "storeRunning",
                   "step", "storeStep", "verify", "stopLegacy", "abort", "settle", "promote",
                   "promoteVersion", "compensate", "bestKnown", "drainOld", "storeFinal"}
  /\ Stepping = {"load", "migrate", "storeAdopted", "recoverRoute", "step", "storeStep", "verify",
                 "storeAborted", "recover", "probe", "build", "storeStarting", "stopUnstarted", "health",
                 "stopUnhealthy", "storeRunning"}
  /\ Held \subseteq Steps
BY DEF Held, Steps, ReconcileSteps, WithCanary, Unrouted, PromotedSteps, Stepping, NotRunning

\* A Store of the journal in memory.
LEMMA StoreFlow ==
  ASSUME Inv, StoreAdopted \/ StoreRecoveredAborted \/ StoreStarting \/ StoreRunning \/ StoreFailed
  PROVE  /\ Flows /\ disk' \in {disk, mem} /\ budget' \in 0 .. budget
         /\ UNCHANGED <<procs, route, current, mem, loc, misled, strays, result>>
<1>1. /\ disk' \in {disk, mem} /\ budget' \in 0 .. budget
      /\ UNCHANGED <<procs, route, current, mem, loc, misled, strays, result>>
  <2>1. TypeOK /\ StoreBestEffort(mem)
    BY DEF Inv, StoreAdopted, StoreRecoveredAborted, StoreStarting, StoreRunning, StoreFailed, StoreBestEffort
  <2>2. disk' \in {disk, mem} /\ budget' \in 0 .. budget
    BY <2>1, StoreFacts DEF StoreBestEffort
  <2> QED BY <2>2 DEF StoreAdopted, StoreRecoveredAborted, StoreStarting, StoreRunning, StoreFailed, Step
<1>2. \/ pc = "storeAdopted" /\ pc' = "recoverRoute"
      \/ pc = "storeAborted" /\ pc' = "recover"
      \/ pc = "storeStarting" /\ pc' \in {"health", "stopUnstarted"}
      \/ pc = "storeRunning" /\ pc' \in {"step", "stopUnhealthy"}
      \/ pc = "storeFailed" /\ pc' = "undo"
  BY DEF StoreAdopted, StoreRecoveredAborted, StoreStarting, StoreRunning, StoreFailed, Step
<1>3. pc = "storeAdopted" => disk.canary = mem.canary
  BY DEF Inv, ReadOK
<1>4. /\ pc \in NotRunning => mem.canary # "running"
      /\ pc \in Stepping => loc.step < NSteps
      /\ pc = "storeRunning" => loc.cand \in proven
  BY DEF Inv, CanaryOK, WithCanary, Unrouted
<1> QED BY <1>1, <1>2, <1>3, <1>4, StepSets DEF Flows, PromotedSteps, NotRunning, Unrouted

\* A decision that touches nothing outside the operation.
LEMMA DecideFlow ==
  ASSUME Inv, BuildFails \/ HealthFails \/ Cancelled \/ VerifyPasses \/ VerifyFails
  PROVE  /\ Flows /\ loc' \in Locals /\ SameHold(loc') /\ loc'.switched = loc.switched
         /\ UNCHANGED <<procs, route, files, mem, budget, misled, strays, result>>
         /\ pc' = "step" => pc = "verify"
         /\ pc' = "promote" => pc = "verify" /\ loc.step + 1 = NSteps
         /\ pc' = "stopLegacy" => pc = "verify" /\ loc'.step = loc.step + 1
         /\ pc' \in {"undo", "stopUnhealthy", "abort", "step", "promote", "stopLegacy"}
         /\ pc' = "abort" => pc \in {"step", "verify"}
         /\ pc' = "undo" => pc = "build"
         /\ pc' = "stopUnhealthy" => pc = "health"
<1>1. loc \in Locals
  BY DEF Inv, TypeOK
<1>2. /\ pc \in Stepping => loc.step < NSteps
      /\ pc \in {"step", "verify"} => loc.cand \in proven
  BY DEF Inv, CanaryOK, WithCanary, Unrouted
<1>3. UNCHANGED <<procs, route, files, mem, budget, misled, strays, result>>
  BY DEF BuildFails, HealthFails, Cancelled, VerifyPasses, VerifyFails, Step
<1>4. CASE BuildFails \/ HealthFails
  <2>1. /\ loc' = loc
        /\ (pc = "build" /\ pc' = "undo") \/ (pc = "health" /\ pc' = "stopUnhealthy")
    BY <1>4 DEF BuildFails, HealthFails, Step
  <2> QED BY <1>1, <1>2, <1>3, <2>1, StepSets DEF Flows, PromotedSteps, NotRunning, Unrouted, SameHold
<1>5. CASE Cancelled \/ VerifyFails
  <2>1. pc \in {"step", "verify"} /\ pc' = "abort"
    BY <1>5 DEF Cancelled, VerifyFails, Step
  <2>2. loc' \in Locals /\ SameHold(loc') /\ loc'.switched = loc.switched
    <3>1. CASE Cancelled
      BY <1>1, <3>1 DEF Cancelled, Locals, CanaryStatus, SameHold
    <3>2. CASE VerifyFails
      <4>1. PICK keep \in BOOLEAN : loc' = [loc EXCEPT !.status = "failed", !.keep = keep]
        BY <3>2 DEF VerifyFails
      <4> QED BY <1>1, <4>1 DEF Locals, CanaryStatus, SameHold
    <3> QED BY <1>5, <3>1, <3>2
  <2> QED BY <1>2, <1>3, <2>1, <2>2, StepSets DEF Flows, PromotedSteps, NotRunning, Unrouted
<1>6. CASE VerifyPasses
  <2>1. pc = "verify" /\ pc' \in {"stopLegacy", AfterStep(loc.step + 1)}
    BY <1>6 DEF VerifyPasses, Step
  <2>2. loc.step \in 0 .. NSteps /\ loc.step < NSteps
    BY <1>1, <1>2, <2>1, LocalFields, StepSets
  <2>3. loc' \in Locals /\ SameHold(loc') /\ loc'.switched = loc.switched /\ loc'.step = loc.step + 1
    BY <1>1, <1>6, <2>2 DEF VerifyPasses, Locals, SameHold
  <2>4. /\ pc' \in {"stopLegacy", "promote", "step"}
        /\ pc' = "promote" => loc.step + 1 = NSteps
        /\ pc' = "step" => loc.step + 1 # NSteps
    BY <2>1 DEF AfterStep
  <2>5. pc' \in Stepping => loc'.step < NSteps
    BY <2>2, <2>3, <2>4, StepSets
  <2> QED BY <1>2, <1>3, <2>1, <2>3, <2>4, <2>5, StepSets DEF Flows, PromotedSteps, NotRunning, Unrouted
<1> QED BY <1>4, <1>5, <1>6

\* The Store of a traffic step.
LEMMA StoreStepFlow ==
  ASSUME Inv, StoreStep
  PROVE  /\ Flows /\ disk' \in {disk, mem} /\ budget' \in 0 .. budget
         /\ loc' \in Locals /\ SameHold(loc') /\ SameFlow(loc')
         /\ UNCHANGED <<procs, route, current, mem, misled, strays, result>>
         /\ pc = "storeStep" /\ pc' \in {"verify", "abort"}
<1>1. loc \in Locals /\ TypeOK
  BY DEF Inv, TypeOK
<1>2. /\ StoreOK(mem) \/ StoreFails(mem)
      /\ UNCHANGED <<procs, route, current, mem, misled, strays, result>>
      /\ pc = "storeStep" /\ pc' \in {"verify", "abort"}
  BY DEF StoreStep, Step
<1>3. disk' \in {disk, mem} /\ budget' \in 0 .. budget
  BY <1>1, <1>2, StoreFacts
<1>4. loc' \in Locals /\ SameHold(loc') /\ SameFlow(loc')
  BY <1>1 DEF StoreStep, Locals, CanaryStatus, SameHold, SameFlow
<1>5. loc.step < NSteps /\ loc.cand \in proven
  BY <1>2, StepSets DEF Inv, CanaryOK, Unrouted
<1> QED BY <1>2, <1>3, <1>4, <1>5, StepSets DEF Flows, PromotedSteps, NotRunning, Unrouted, SameFlow

\* A change of the traffic split.
LEMMA SwitchTrafficFlow ==
  ASSUME Inv, SwitchTraffic
  PROVE  /\ Flows /\ budget' \in 0 .. budget /\ misled' \in BOOLEAN /\ (misled => misled')
         /\ loc' \in Locals /\ SameHold(loc') /\ loc'.step = loc.step
         /\ UNCHANGED <<procs, files, mem, strays, result>>
         /\ pc = "step" /\ pc' \in {"storeStep", "abort"} /\ route' \in {route, StepTargets}
         /\ pc' = "storeStep" => loc'.switched = TRUE /\ route' = StepTargets /\ misled' = misled
         /\ pc' = "abort" => loc'.switched = loc.switched /\ (route' = route \/ misled')
<1>1. loc \in Locals /\ TypeOK
  BY DEF Inv, TypeOK
<1>2. UNCHANGED <<procs, files, mem, strays, result>> /\ pc = "step"
  BY DEF SwitchTraffic, Step
<1>3. loc.step < NSteps /\ loc.cand \in proven
  BY <1>2, StepSets DEF Inv, CanaryOK, Unrouted
<1>4. CASE pc' = "storeStep" /\ CallOK(StepTargets) /\ loc' = [loc EXCEPT !.switched = TRUE]
  <2>1. loc' \in Locals /\ SameHold(loc') /\ loc'.step = loc.step /\ loc'.switched = TRUE
    BY <1>1, <1>4 DEF Locals, SameHold
  <2>2. budget' \in 0 .. budget /\ route' = StepTargets
    BY <1>1, <1>4 DEF TypeOK, CallOK, NoFault
  <2>3. misled' = misled /\ misled \in BOOLEAN
    BY <1>1, <1>4, Zenon DEF TypeOK, CallOK
  <2> QED BY <1>2, <1>3, <1>4, <2>1, <2>2, <2>3, StepSets DEF Flows, PromotedSteps, NotRunning, Unrouted
<1>5. CASE pc' = "abort" /\ CallFails(StepTargets) /\ loc' = [loc EXCEPT !.status = "failed"]
  <2>1. loc' \in Locals /\ SameHold(loc') /\ loc'.step = loc.step /\ loc'.switched = loc.switched
    BY <1>1, <1>5 DEF Locals, SameHold, CanaryStatus
  <2> QED BY <1>1, <1>2, <1>3, <1>5, <2>1, CallFacts, StepSets DEF Flows, PromotedSteps, NotRunning, Unrouted
<1> QED BY <1>4, <1>5 DEF SwitchTraffic, Step

\* The hand-off of the public port stops one instance at most, and fails.
LEMMA HandOffPublicPortFlow ==
  ASSUME Inv, HandOffPublicPort
  PROVE  /\ Flows /\ alive' \subseteq alive /\ budget' \in 0 .. budget
         /\ loc' \in Locals /\ SameHold(loc') /\ loc'.step = loc.step /\ loc'.switched = loc.switched
         /\ UNCHANGED <<proven, next, route, files, mem, misled, strays, result>>
         /\ pc = "step" /\ pc' = "abort"
<1>1. loc \in Locals /\ TypeOK
  BY DEF Inv, TypeOK
<1>2. /\ pc = "step" /\ pc' = "abort" /\ alive' \subseteq alive /\ budget' = budget
      /\ loc' = [loc EXCEPT !.status = "failed"]
      /\ UNCHANGED <<proven, next, route, files, mem, misled, strays, result>>
  BY DEF HandOffPublicPort, Step, NoFault
<1>3. loc' \in Locals /\ SameHold(loc') /\ loc'.step = loc.step /\ loc'.switched = loc.switched
  BY <1>1, <1>2 DEF Locals, SameHold, CanaryStatus
<1>4. loc.cand \in proven /\ budget' \in 0 .. budget
  BY <1>1, <1>2, StepSets DEF Inv, CanaryOK, Unrouted, TypeOK
<1> QED BY <1>2, <1>3, <1>4, StepSets DEF Flows, PromotedSteps, NotRunning, Unrouted

\* The traffic goes back to the stable instance, or does not.
LEMMA RestoreStableFlow ==
  ASSUME Inv, RestoreStable, pc = "abort" \/ pc' = "bestKnown"
  PROVE  /\ Flows /\ budget' \in 0 .. budget /\ misled' \in BOOLEAN /\ (misled => misled')
         /\ loc' \in Locals /\ SameHold(loc') /\ loc'.step = loc.step /\ loc'.switched = loc.switched
         /\ UNCHANGED <<procs, files, mem, strays, result>>
         /\ route' \in {route, {loc.stable}}
         /\ (pc = "abort" /\ pc' = "settle") \/ (pc = "compensate" /\ pc' = "bestKnown")
         /\ pc = "abort" /\ loc.switched => misled' \/ route' = {loc.stable}
         /\ pc = "abort" /\ ~loc.switched => route' = route /\ misled' = misled
         /\ pc' = "bestKnown" => misled'
<1>1. loc \in Locals /\ TypeOK /\ misled \in BOOLEAN
  BY DEF Inv, TypeOK
<1>2. UNCHANGED <<procs, files, strays, result>>
  BY DEF RestoreStable, Step
<1>3. pc = "abort" => loc.cand \in proven
  BY StepSets DEF Inv, CanaryOK, Unrouted
<1>4. CASE pc = "abort" /\ pc' = "settle" /\ loc.switched /\ CallOK(StableTargets) /\ UNCHANGED <<loc, mem>>
  <2>1. budget' \in 0 .. budget /\ route' = {loc.stable} /\ SameHold(loc')
    BY <1>1, <1>4 DEF TypeOK, CallOK, NoFault, StableTargets, SameHold
  <2>2. misled' \in BOOLEAN /\ (misled => misled')
    BY <1>1, <1>4, Zenon DEF CallOK
  <2> QED BY <1>1, <1>2, <1>3, <1>4, <2>1, <2>2, StepSets DEF Flows, PromotedSteps, NotRunning, Unrouted
<1>5. CASE /\ pc = "abort" /\ pc' = "settle" /\ loc.switched /\ RestoreFails
           /\ loc' = [loc EXCEPT !.keep = TRUE] /\ mem' = mem
  <2>1. loc' \in Locals /\ SameHold(loc') /\ loc'.step = loc.step /\ loc'.switched = loc.switched
    BY <1>1, <1>5 DEF Locals, SameHold
  <2>2. route' \in {route, {loc.stable}} /\ budget' \in 0 .. budget /\ misled' = TRUE
    BY <1>1, <1>5, RestoreFacts
  <2> QED BY <1>2, <1>3, <1>5, <2>1, <2>2, StepSets DEF Flows, PromotedSteps, NotRunning, Unrouted
<1>6. CASE /\ pc = "abort" /\ pc' = "settle" /\ ~loc.switched
           /\ UNCHANGED <<route, mem, loc, budget, misled>>
  <2>1. /\ budget' \in 0 .. budget /\ misled' \in BOOLEAN /\ (misled => misled')
        /\ loc' \in Locals /\ SameHold(loc')
    BY <1>1, <1>6 DEF TypeOK, SameHold
  <2> QED BY <1>2, <1>3, <1>6, <2>1, StepSets DEF Flows, PromotedSteps, NotRunning, Unrouted
<1>7. CASE pc = "compensate" /\ pc' = "bestKnown" /\ RestoreFails /\ UNCHANGED <<mem, loc>>
  <2>1. route' \in {route, {loc.stable}} /\ budget' \in 0 .. budget /\ misled' = TRUE
    BY <1>1, <1>7, RestoreFacts
  <2>2. loc.cand \in proven
    BY <1>7, StepSets DEF Inv, CanaryOK, Unrouted
  <2> QED BY <1>1, <1>2, <1>7, <2>1, <2>2, StepSets DEF Flows, PromotedSteps, NotRunning, Unrouted, SameHold
<1> QED BY <1>4, <1>5, <1>6, <1>7 DEF RestoreStable, Step

\* Nothing is in the way of the traffic: the rollout goes on.
LEMMA RecoverRouteFlow ==
  ASSUME Inv, RecoverRoute, mem.canary # "running"
  PROVE  /\ Flows /\ pc = "recoverRoute" /\ pc' = "recover"
         /\ UNCHANGED <<procs, route, files, mem, loc, budget, misled, strays, result>>
<1>1. /\ pc = "recoverRoute" /\ pc' = "recover"
      /\ UNCHANGED <<procs, route, files, mem, loc, budget, misled, strays, result>>
  BY DEF RecoverRoute, Step
<1>2. loc.step < NSteps
  BY <1>1, StepSets DEF Inv, CanaryOK
<1> QED BY <1>1, <1>2, StepSets DEF Flows, PromotedSteps, NotRunning, Unrouted

\* Stops after which the journal in memory stays as it is.
LEMMA StopFlow ==
  ASSUME Inv, \/ StopLegacy /\ pc' # "idle"
              \/ StopCanary
              \/ StopUnrouted /\ pc = "stopUnstarted"
  PROVE  /\ Flows /\ alive' \subseteq alive /\ budget' \in 0 .. budget
         /\ strays \subseteq strays' /\ strays' \subseteq strays \cup alive
         /\ UNCHANGED <<proven, next, route, files, mem, loc, misled, result>>
         /\ pc = "stopLegacy" => alive \ alive' \subseteq loc.legacy
         /\ pc # "stopLegacy" => alive \ alive' \subseteq {loc.cand}
         /\ \/ pc = "stopLegacy" /\ pc' = AfterStep(loc.step) /\ pc' \in {"step", "promote"}
            \/ pc = "stopCanary" /\ pc' = "finishAbort"
            \/ pc = "stopUnstarted" /\ pc' = "undo"
<1>1. loc \in Locals /\ TypeOK
  BY DEF Inv, TypeOK
<1>2. pc \in {"stopLegacy"} => loc.cand \in proven
  BY StepSets DEF Inv, CanaryOK, Unrouted
<1>3. CASE StopLegacy /\ pc' # "idle"
  <2>1. /\ pc = "stopLegacy" /\ pc' = AfterStep(loc.step) /\ StopOK(loc.legacy)
        /\ UNCHANGED <<proven, next, route, files, mem, loc, misled, result>>
    BY <1>3 DEF StopLegacy, Step, Return
  <2>2. /\ alive' \subseteq alive /\ alive \ alive' \subseteq loc.legacy /\ budget' \in 0 .. budget
        /\ strays \subseteq strays' /\ strays' \subseteq strays \cup alive
    BY <1>1, <2>1, StopFacts
  <2>3. loc.step \in 0 .. NSteps
    BY <1>1, LocalFields
  <2>4. pc' = "promote" \/ (pc' = "step" /\ loc.step < NSteps)
    BY <2>1, <2>3 DEF AfterStep
  <2> QED BY <1>2, <2>1, <2>2, <2>4, StepSets DEF Flows, PromotedSteps, NotRunning, Unrouted
<1>4. CASE StopCanary \/ (StopUnrouted /\ pc = "stopUnstarted")
  <2>1. /\ StopOK({loc.cand}) \/ StopFails({loc.cand})
        /\ UNCHANGED <<proven, next, route, files, mem, loc, misled, result>>
        /\ (pc = "stopCanary" /\ pc' = "finishAbort") \/ (pc = "stopUnstarted" /\ pc' = "undo")
    BY <1>4 DEF StopCanary, StopUnrouted, Step
  <2>2. /\ alive' \subseteq alive /\ alive \ alive' \subseteq {loc.cand} /\ budget' \in 0 .. budget
        /\ strays \subseteq strays' /\ strays' \subseteq strays \cup alive
    BY <1>1, <2>1, StopFacts
  <2> QED BY <2>1, <2>2, StepSets DEF Flows, PromotedSteps, NotRunning, Unrouted
<1> QED BY <1>3, <1>4

\* The version store follows, or does not.
LEMMA PromoteVersionFlow ==
  ASSUME Inv, PromoteVersion
  PROVE  /\ Flows /\ current' \in Version /\ budget' \in 0 .. budget
         /\ UNCHANGED <<procs, route, disk, mem, loc, misled, strays, result>>
         /\ pc = "promoteVersion" /\ pc' \in {"drainOld", "compensate"}
         /\ pc' = "drainOld" => loc.tver = 0 \/ current' = loc.tver
         /\ pc' = "compensate" => Fault("promote")
<1>1. loc \in Locals /\ TypeOK /\ loc.tver \in Version /\ current \in Version
  BY LocalFields DEF Inv, TypeOK
<1>2. /\ UNCHANGED <<procs, route, disk, mem, loc, misled, strays, result>>
      /\ pc = "promoteVersion" /\ pc' \in {"drainOld", "compensate"}
      /\ pc' = "drainOld" => NoFault /\ current' = IF loc.tver = 0 THEN current ELSE loc.tver
      /\ pc' = "compensate" => Fault("promote") /\ current' = current
  BY DEF PromoteVersion, Step
<1>3. current' \in Version /\ (pc' = "drainOld" => loc.tver = 0 \/ current' = loc.tver)
  BY <1>1, <1>2
<1>4. budget' \in 0 .. budget
  BY <1>1, <1>2, FaultFacts
<1>5. loc.cand \in proven
  BY <1>2, StepSets DEF Inv, CanaryOK, Unrouted
<1> QED BY <1>2, <1>3, <1>4, <1>5, StepSets DEF Flows, PromotedSteps, NotRunning, Unrouted

\* The end of an abort that moved no traffic.
LEMMA FinishAbortFlow ==
  ASSUME Inv, FinishAbort, ~loc.switched
  PROVE  /\ Flows /\ pc = "finishAbort" /\ pc' = "undo"
         /\ UNCHANGED <<procs, route, files, mem, loc, budget, misled, strays, result>>
<1>1. /\ pc = "finishAbort" /\ pc' = "undo"
      /\ UNCHANGED <<procs, route, files, mem, loc, budget, misled, strays, result>>
  BY DEF FinishAbort, Step
<1> QED BY <1>1, StepSets DEF Flows, PromotedSteps, NotRunning, Unrouted

\* All of these preserve the invariant.
LEMMA FlowStepsInv ==
  ASSUME Inv,
         \/ StoreAdopted \/ StoreRecoveredAborted \/ StoreStarting \/ StoreRunning \/ StoreFailed
         \/ BuildFails \/ HealthFails \/ Cancelled \/ VerifyPasses \/ VerifyFails
         \/ StoreStep \/ SwitchTraffic \/ HandOffPublicPort \/ StopCanary \/ PromoteVersion
         \/ RestoreStable /\ (pc = "abort" \/ pc' = "bestKnown")
         \/ RecoverRoute /\ mem.canary # "running"
         \/ StopLegacy /\ pc' # "idle"
         \/ StopUnrouted /\ pc = "stopUnstarted"
         \/ FinishAbort /\ ~loc.switched
  PROVE  Inv'
<1>1. /\ loc \in Locals /\ budget \in 0 .. MaxFaults /\ current \in Version
      /\ strays \subseteq Inst /\ alive \subseteq Inst /\ route \subseteq proven
  BY DEF Inv, TypeOK, OnlyProvenRouted
<1>2. misled \in BOOLEAN
  BY DEF Inv, TypeOK
<1>3. /\ pc \in Held => loc.stable \in proven
      /\ pc = "step" => loc.cand \in proven
  BY StepSets DEF Inv, HeldOK, CanaryOK, Unrouted
<1>4. SameHold(loc) /\ budget \in 0 .. budget
  BY <1>1 DEF SameHold
<1>5. CASE StoreAdopted \/ StoreRecoveredAborted \/ StoreStarting \/ StoreRunning \/ StoreFailed
  BY <1>1, <1>2, <1>4, <1>5, StoreFlow, FlowInv DEF procs
<1>6. CASE BuildFails \/ HealthFails \/ Cancelled \/ VerifyPasses \/ VerifyFails
  <2>1. /\ Flows /\ loc' \in Locals /\ SameHold(loc')
        /\ UNCHANGED <<procs, route, files, mem, budget, misled, strays, result>>
    BY <1>6, DecideFlow
  <2> QED BY <1>1, <1>2, <1>4, <2>1, FlowInv DEF procs, files
<1>7. CASE StoreStep
  BY <1>1, <1>2, <1>7, StoreStepFlow, FlowInv DEF procs
<1>8. CASE SwitchTraffic
  <2>1. /\ Flows /\ budget' \in 0 .. budget /\ misled' \in BOOLEAN
        /\ loc' \in Locals /\ SameHold(loc') /\ UNCHANGED <<procs, files, mem, strays, result>>
        /\ pc = "step" /\ route' \in {route, StepTargets}
    BY <1>8, SwitchTrafficFlow
  <2>2. route' \subseteq proven
    BY <1>1, <1>3, <2>1, StepSets DEF StepTargets
  <2> QED BY <1>1, <2>1, <2>2, FlowInv DEF procs, files
<1>9. CASE RestoreStable /\ (pc = "abort" \/ pc' = "bestKnown")
  <2>1. /\ Flows /\ budget' \in 0 .. budget /\ misled' \in BOOLEAN
        /\ loc' \in Locals /\ SameHold(loc') /\ UNCHANGED <<procs, files, mem, strays, result>>
        /\ route' \in {route, {loc.stable}}
    BY <1>9, RestoreStableFlow
  <2>2. route' \subseteq proven
    BY <1>1, <1>3, <2>1 DEF Flows
  <2> QED BY <1>1, <2>1, <2>2, FlowInv DEF procs, files
<1>10. CASE RecoverRoute /\ mem.canary # "running"
  BY <1>1, <1>2, <1>4, <1>10, RecoverRouteFlow, FlowInv DEF procs, files
<1>11. CASE \/ StopLegacy /\ pc' # "idle"
            \/ StopCanary
            \/ StopUnrouted /\ pc = "stopUnstarted"
  BY <1>1, <1>2, <1>4, <1>11, StopFlow, FlowInv DEF files
<1>12. CASE PromoteVersion
  BY <1>1, <1>2, <1>4, <1>12, PromoteVersionFlow, FlowInv DEF procs
<1>13. CASE FinishAbort /\ ~loc.switched
  BY <1>1, <1>2, <1>4, <1>13, FinishAbortFlow, FlowInv DEF procs, files
<1>14. CASE HandOffPublicPort
  BY <1>1, <1>2, <1>14, HandOffPublicPortFlow, FlowInv DEF files
<1> QED BY <1>5, <1>6, <1>7, <1>8, <1>9, <1>10, <1>11, <1>12, <1>13, <1>14

-----------------------------------------------------------------------------
(* The journals an operation writes.                                       *)

\* A migration forgets the fleet, ...
LEMMA EmptiedIn ==
  ASSUME NEW A, NEW P, NEW n \in Nat \ {0}, NEW j \in Journal, JournalIn(j, A, P, n)
  PROVE  JournalIn(Emptied(j), A, P, n)
<1>1. \A s \in Slots : Emptied(j).slots[s].pid = 0
  BY EmptiedFacts, EmptyFacts
<1>2. 0 \notin j.retiring
  BY JournalFields, PidFacts
<1> QED BY <1>1, <1>2, EmptiedFacts, OtherFacts DEF JournalIn, Slots

\* ... and adopts one instance of it.
LEMMA AdoptedIn ==
  ASSUME NEW A, NEW P, NEW n \in Nat \ {0}, NEW j \in Journal, JournalIn(j, A, P, n),
         loc.stable \in j.replicas
  PROVE  JournalIn(Adopted(Emptied(j)), A, P, n)
<1> DEFINE i == Adopted(Emptied(j))
<1>1. loc.stable \in Inst /\ loc.stable # 0 /\ 0 \notin j.retiring
  BY JournalFields, PidFacts
<1>2. /\ Emptied(j) \in Journal /\ Emptied(j).mode = "blue-green" /\ Emptied(j).replicas = {}
      /\ Emptied(j).retiring = j.retiring /\ Emptied(j).slots["green"].pid = 0
  BY EmptiedFacts, EmptyFacts DEF Slots
<1>3. /\ i.mode = "blue-green" /\ i.active = "blue" /\ i.replicas = {} /\ i.retiring = j.retiring
      /\ i.slots["blue"].pid = loc.stable /\ i.slots["green"].pid = 0
  BY <1>1, <1>2, AdoptedFacts
<1>4. loc.stable < n /\ loc.stable \in P /\ loc.stable \notin j.retiring /\ \A k \in j.retiring : k < n
  BY DEF JournalIn
<1> HIDE DEF i
<1>5. JournalIn(i, A, P, n)
  BY <1>1, <1>3, <1>4, OtherFacts DEF JournalIn
<1> QED BY <1>5 DEF i

\* Nobody is retired and recorded in a slot.
Apart(j) == j.slots["blue"].pid \notin j.retiring /\ j.slots["green"].pid \notin j.retiring

\* The canary record may change, as long as it tells the truth.
LEMMA CanaryIn ==
  ASSUME NEW A, NEW P, NEW n, NEW j \in Journal, JournalIn(j, A, P, n), Apart(j), NEW i,
         i.mode = j.mode, i.active = j.active, i.slots = j.slots, i.replicas = j.replicas,
         i.retiring = j.retiring,
         i.canary = "running" => i.slots[Other(i.active)].pid \in P \cup {0}
  PROVE  JournalIn(i, A, P, n)
BY DEF JournalIn, Apart

\* The slot beside the active one may be written.
LEMMA SetSlotIn ==
  ASSUME NEW A, NEW P, NEW n \in Nat \ {0}, NEW j \in Journal, JournalIn(j, A, P, n),
         j.active # NoSlot, NEW s \in Slots, s = Other(j.active), NEW rec \in SlotRec,
         \/ rec.pid = 0
         \/ rec.pid < n /\ rec.pid # j.slots[j.active].pid /\ rec.pid \notin j.retiring,
         j.canary = "running" => rec.pid \in P \cup {0}
  PROVE  JournalIn(SetSlot(j, s, rec), A, P, n)
<1> DEFINE i == SetSlot(j, s, rec)
<1>1. j.active \in Slots /\ Other(s) = j.active /\ 0 \notin j.retiring
  BY JournalFields, OtherFacts, PidFacts
<1>2. SameBut(i, j) /\ i.slots[s] = rec /\ i.slots[j.active] = j.slots[j.active]
  BY <1>1, SetSlotFacts
<1> HIDE DEF i
<1>3. JournalIn(i, A, P, n)
  <2>1. CASE s = "blue" /\ j.active = "green"
    BY <1>1, <1>2, <2>1 DEF JournalIn, SameBut
  <2>2. CASE s = "green" /\ j.active = "blue"
    BY <1>1, <1>2, <2>2 DEF JournalIn, SameBut
  <2> QED BY <1>1, <2>1, <2>2, OtherFacts DEF Slots
<1> QED BY <1>3 DEF i

\* The active slot may move to a proven instance.
LEMMA ActiveIn ==
  ASSUME NEW A, NEW P, NEW n, NEW j \in Journal, JournalIn(j, A, P, n), Apart(j), NEW i,
         i.mode = j.mode, i.active \in Slots, i.slots = j.slots, i.replicas = j.replicas,
         i.retiring = j.retiring, j.mode = "blue-green",
         i.slots[i.active].pid \in P \cup {0},
         i.canary = "running" => i.slots[Other(i.active)].pid \in P \cup {0}
  PROVE  JournalIn(i, A, P, n)
BY DEF JournalIn, Apart

\* A failed canary may be retired.
LEMMA RetiredIn ==
  ASSUME NEW A, NEW P, NEW n \in Nat \ {0}, NEW j \in Journal, JournalIn(j, A, P, n), Apart(j),
         loc \in Locals, loc.cand \in Inst, loc.cand < n, j.mode = "blue-green",
         j.slots[loc.slot].pid = loc.cand, j.active = Other(loc.slot)
  PROVE  JournalIn(Retired(j), A, P, n) /\ Apart(Retired(j))
<1> DEFINE i == Retired(j)
           s == loc.slot
<1>1. /\ i.mode = j.mode /\ i.active = j.active /\ i.replicas = j.replicas /\ i.canary = j.canary
      /\ i.retiring = j.retiring \cup {loc.cand} /\ i.slots[s].pid = 0
      /\ i.slots[Other(s)] = j.slots[Other(s)]
  BY RetiredFacts
<1>2. s \in Slots /\ Other(j.active) = s /\ 0 \notin j.retiring /\ loc.cand # 0
  BY LocalFields, JournalFields, OtherFacts, PidFacts
<1>3. j.slots[Other(s)].pid # loc.cand
  BY <1>2, OtherFacts DEF JournalIn, Slots
<1> HIDE DEF i
<1>4. JournalIn(i, A, P, n) /\ Apart(i)
  <2>1. CASE s = "blue" /\ j.active = "green"
    BY <1>1, <1>2, <1>3, <2>1, OtherFacts DEF JournalIn, Apart
  <2>2. CASE s = "green" /\ j.active = "blue"
    BY <1>1, <1>2, <1>3, <2>2, OtherFacts DEF JournalIn, Apart
  <2> QED BY <1>2, <2>1, <2>2, OtherFacts DEF Slots
<1> QED BY <1>4 DEF i

\* An interrupted rollout may be accepted, ...
LEMMA AcceptedIn ==
  ASSUME NEW A, NEW P, NEW n, NEW j \in Journal, JournalIn(j, A, P, n),
         j.canary = "running", ~NoCandidate(j)
  PROVE  JournalIn(Accepted(j), A, P, n) /\ Apart(j)
<1>1. j.mode = "blue-green" /\ j.active \in Slots /\ Apart(j)
  BY JournalFields DEF JournalIn, NoCandidate, Apart
<1>2. /\ j.slots[Other(j.active)].pid \in P \cup {0} /\ j.slots[j.active].pid \in P \cup {0}
      /\ Other(j.active) \in Slots /\ Other(Other(j.active)) = j.active
  BY <1>1, OtherFacts DEF JournalIn, NoCandidate
<1> QED BY <1>1, <1>2, AcceptedFacts, ActiveIn

\* ... also one whose canary is dead.
LEMMA AcceptedDeadIn ==
  ASSUME NEW A, NEW P, NEW n, NEW j \in Journal, JournalIn(j, A, P, n),
         j.canary = "running", ~NoCandidate(j), j.slots[Other(j.active)].pid \notin A
  PROVE  JournalIn(AcceptedDead(j), A, P, n)
<1> DEFINE i == AcceptedDead(j)
<1>1. j.mode = "blue-green" /\ j.active \in Slots /\ Other(j.active) \in Slots
  BY JournalFields, OtherFacts DEF NoCandidate
<1>2. Serving(j) \subseteq {j.slots[j.active].pid}
  BY <1>1 DEF Serving
<1>3. /\ i.mode = j.mode /\ i.active = Other(j.active) /\ i.slots = j.slots
      /\ i.replicas = j.replicas /\ i.retiring = j.retiring \cup Serving(j) /\ i.canary = "promoted"
  BY AcceptedDeadFacts
<1> HIDE DEF i
<1>4. JournalIn(i, A, P, n)
  BY <1>1, <1>2, <1>3, OtherFacts DEF JournalIn, Slots
<1> QED BY <1>4 DEF i

\* The mode may be restored.
LEMMA RestoreModeIn ==
  ASSUME NEW A, NEW P, NEW n \in Nat \ {0}, NEW j \in Journal, NEW k \in Journal,
         JournalIn(j, A, P, n), JournalIn(k, A, P, n), k.mode = "rolling",
         k.replicas \cap j.retiring = {}
  PROVE  JournalIn(RestoreMode(j, k), A, P, n)
<1> DEFINE i == RestoreMode(j, k)
<1>1. /\ i.mode = "rolling" /\ i.active = NoSlot /\ i.slots = k.slots /\ i.replicas = k.replicas
      /\ i.retiring = j.retiring /\ i.canary = j.canary
  BY RestoreModeFacts DEF JournalIn
<1>2. 0 \notin j.retiring
  BY JournalFields, PidFacts
<1> HIDE DEF i
<1>3. JournalIn(i, A, P, n)
  BY <1>1, <1>2, OtherFacts DEF JournalIn
<1> QED BY <1>3 DEF i

-----------------------------------------------------------------------------
(* The ends of an operation.                                               *)

\* Settle writes the record of an aborted rollout.
Settled == IF loc.keep THEN Aborted ELSE Retired(Aborted)

\* It is right, whether the canary is kept or retired.
LEMMA SettledFacts ==
  ASSUME Inv, pc = "settle"
  PROVE  /\ Settled \in Journal /\ JournalIn(Settled, alive, proven, next) /\ Apart(Settled)
         /\ Settled.mode = "blue-green" /\ Settled.active = Other(loc.slot)
         /\ Settled.slots[Other(loc.slot)] = mem.slots[Other(loc.slot)]
         /\ Settled.replicas = {}
         /\ Settled.slots[loc.slot].pid = IF loc.keep THEN loc.cand ELSE 0
         /\ Settled.retiring = mem.retiring \cup (IF loc.keep THEN {} ELSE {loc.cand})
<1>1. /\ mem \in Journal /\ loc \in Locals /\ JournalIn(mem, alive, proven, next)
      /\ next \in Nat \ {0}
  BY DEF Inv, TypeOK, JournalsOK
<1>2. /\ mem.mode = "blue-green" /\ Apart(mem) /\ mem.active = Other(loc.slot)
      /\ mem.slots[loc.slot].pid = loc.cand /\ loc.cand \in proven /\ loc.cand \in Inst
      /\ loc.cand < next /\ mem.replicas = {}
  BY <1>1, StepSets DEF Inv, HeldOK, CanaryOK, Apart, Unrouted, PromotedSteps, JournalIn
<1>3. loc.slot \in Slots /\ Other(Other(loc.slot)) = loc.slot /\ loc.status \in CanaryStatus
  BY <1>1, LocalFields, OtherFacts
<1>4. /\ Aborted \in Journal /\ Aborted.mode = mem.mode /\ Aborted.active = mem.active
      /\ Aborted.slots = mem.slots /\ Aborted.replicas = mem.replicas
      /\ Aborted.retiring = mem.retiring
  BY <1>1, <1>3, CanaryFacts DEF Aborted
<1>5. JournalIn(Aborted, alive, proven, next) /\ Apart(Aborted)
  <2>1. Aborted.slots[Other(Aborted.active)].pid \in proven
    BY <1>2, <1>3, <1>4
  <2> QED BY <1>1, <1>2, <1>4, <2>1, CanaryIn DEF Apart
<1>6. CASE loc.keep
  BY <1>2, <1>4, <1>5, <1>6 DEF Settled
<1>7. CASE ~loc.keep
  <2>1. JournalIn(Retired(Aborted), alive, proven, next) /\ Apart(Retired(Aborted))
    BY <1>1, <1>2, <1>4, <1>5, RetiredIn
  <2> QED BY <1>1, <1>2, <1>4, <1>7, <2>1, RetiredFacts DEF Settled
<1> QED BY <1>6, <1>7

\* The ends of a rollout, ...
RolloutEnds ==
  \/ /\ Refuse /\ UNCHANGED <<alive, route, disk, misled, strays, budget>>
     /\ result' = "refused"
  \/ /\ MigrateTo /\ pc = "migrate" /\ StoreFails(Emptied(mem)) /\ strays' = strays \cup mem.replicas
     /\ UNCHANGED <<alive, route, misled>> /\ result' = "refused"
  \/ /\ RecoverStaleSlots /\ pc = "recover" /\ StopFails({mem.slots[Other(mem.active)].pid})
     /\ UNCHANGED <<route, disk, misled>> /\ result' = "refused"
  \/ /\ StopLegacy /\ pc = "stopLegacy" /\ StopFails(loc.legacy)
     /\ UNCHANGED <<route, disk, misled>> /\ result' = "refused"
  \/ /\ StoreBestKnown /\ pc = "bestKnown" /\ StoreBestEffort(mem)
     /\ UNCHANGED <<alive, route, misled, strays>> /\ result' = "kept"
  \/ /\ Settle /\ pc = "settle" /\ StoreFails(Settled)
     /\ UNCHANGED <<alive, route, misled, strays>> /\ result' \in {"kept", "failed"}
  \/ /\ FinishAbort /\ pc = "finishAbort" /\ loc.switched
     /\ UNCHANGED <<alive, route, disk, misled, strays, budget>> /\ result' \in {"kept", "failed"}
  \/ /\ UndoMigration /\ pc = "undo"
     /\ UNCHANGED <<alive, route, misled, strays>> /\ result' = "failed"
  \/ /\ StoreFinal /\ pc = "storeFinal" /\ UNCHANGED <<alive, route, strays>>
     /\ \/ StoreOK(mem) /\ result' = "deployed" /\ misled' = FALSE
        \/ StoreFails(mem) /\ result' = "kept" /\ misled' = misled

\* ... and those of a reconciliation, or of either when it is killed.
OtherEnds ==
  \/ /\ ReconcileCanary /\ pc = "reconcile" /\ UNCHANGED <<alive, strays>>
     /\ result' = "refused"
  \/ /\ StoreAccepted \/ StoreStopped \/ StoreDrained
     /\ pc \in {"storeAccepted", "storeStopped", "storeDrained"} /\ StoreBestEffort(mem)
     /\ UNCHANGED <<alive, route, misled, strays>> /\ result' \in {"refused", "reconciled"}
  \/ /\ StopStable /\ pc = "stopStable" /\ StopFails({mem.slots[Other(mem.active)].pid})
     /\ UNCHANGED <<route, disk, misled>> /\ result' = "refused"
  \/ /\ Drain /\ pc = "drain" /\ UNCHANGED <<route, disk, misled>>
     /\ \/ UNCHANGED <<alive, budget, strays>> /\ result' = "reconciled"
        \/ StopFails(mem.retiring \ Serving(mem)) /\ result' = "refused"
           /\ (mem.mode = "rolling" \/ Serving(mem) \cap alive # {})
  \/ /\ Crash /\ Fault("crash") /\ UNCHANGED <<alive, route, disk, misled, strays>>
     /\ result' = "crashed"

\* The steps that return, and what they have done by then.
LEMMA Returns ==
  ASSUME Inv, Next, pc' = "idle"
  PROVE  /\ mem' = NoJournal /\ loc' = NoLocals /\ proven' = proven /\ next' = next
         /\ current' = current /\ pc # "idle"
         /\ RolloutEnds \/ OtherEnds
<1>1. CASE Prepare
  BY <1>1 DEF Prepare, Begin, Refuse, ResolveStable, MigrateTo, StoreAdopted, RecoverRoute,
     StoreRecoveredAborted, RecoverStaleSlots, CheckEnrolled, BuildFails, LaunchCanary, StoreStarting,
     HealthFails, HealthPasses, StoreRunning, StopUnrouted, StoreFailed, Step, Return, procs, files,
     RolloutEnds
<1>2. CASE TrafficSteps
  BY <1>2 DEF TrafficSteps, Cancelled, HandOffPublicPort, SwitchTraffic, StoreStep, VerifyPasses, VerifyFails, AfterStep,
     StopLegacy, Step, Return, procs, files, RolloutEnds
<1>3. CASE Finish
  BY <1>3 DEF Finish, RestoreStable, StoreBestKnown, Settle, StopCanary, FinishAbort,
     UndoMigration, StorePromoted, PromoteVersion, DrainOld, StoreFinal, Step, Return, Settled, procs, files,
     RolloutEnds
<1>4. CASE Reconcile
  BY <1>4 DEF Reconcile, ReconcileCanary, StoreAccepted, StopStable, StoreStopped, Drain, StoreDrained,
     StoreBestEffort, Step, Return, procs, files, OtherEnds
<1>5. CASE Crash \/ InstanceDies
  <2>1. CASE Crash
    BY <2>1 DEF Crash, Return, procs, files, OtherEnds
  <2>2. CASE InstanceDies
    <3>1. pc = "idle" /\ loc.stable = 0 /\ loc.cand = 0
      BY <2>2 DEF InstanceDies, Inv, ReadOK
    <3> QED BY <2>2, <3>1, PidFacts DEF InstanceDies, Inv, TypeOK
  <2> QED BY <1>5, <2>1, <2>2
<1> QED BY <1>1, <1>2, <1>3, <1>4, <1>5 DEF Next

\* Whoever a reconciliation may give the traffic to is proven.
LEMMA ReconcileReturns ==
  ASSUME Inv, ReconcileCanary, pc' = "idle"
  PROVE  /\ route' \subseteq proven /\ misled' \in BOOLEAN /\ budget' \in 0 .. budget
         /\ disk' \in Journal /\ JournalIn(disk', alive, proven, next)
<1>1. /\ TypeOK /\ mem \in Journal /\ disk \in Journal /\ JournalIn(mem, alive, proven, next)
      /\ JournalIn(disk, alive, proven, next) /\ route \subseteq proven /\ budget \in 0 .. budget
      /\ pc = "reconcile"
  BY DEF Inv, TypeOK, JournalsOK, OnlyProvenRouted, ReconcileCanary
<1>2. misled \in BOOLEAN
  BY DEF Inv, TypeOK
<1> DEFINE cand == mem.slots[Other(mem.active)].pid
<1>3. CASE UNCHANGED <<route, disk, budget, misled>>
  BY <1>1, <1>2, <1>3
<1>4. CASE mem.canary = "running" /\ cand \in alive /\ CallFails({cand}) /\ disk' = disk
  <2>1. cand \in proven
    <3>1. cand \in proven \cup {0}
      BY <1>1, <1>4 DEF JournalIn
    <3>2. cand # 0
      BY <1>4, PidFacts DEF Inv, TypeOK
    <3> QED BY <3>1, <3>2
  <2>2. route' \in {route, {cand}} /\ misled' \in BOOLEAN /\ budget' \in 0 .. budget
    BY <1>1, <1>4, CallFacts
  <2> QED BY <1>1, <1>4, <2>1, <2>2
<1>5. CASE /\ mem.canary = "running" /\ ~NoCandidate(mem) /\ cand \notin alive
           /\ StoreFails(AcceptedDead(mem)) /\ UNCHANGED <<route, misled>>
  <2>1. AcceptedDead(mem) \in Journal /\ JournalIn(AcceptedDead(mem), alive, proven, next)
    BY <1>1, <1>5, AcceptedDeadFacts, AcceptedDeadIn
  <2>2. disk' \in {disk, AcceptedDead(mem)} /\ budget' \in 0 .. budget
    BY <1>1, <1>5, StoreFacts
  <2> QED BY <1>1, <1>2, <1>5, <2>1, <2>2
<1> QED BY <1>3, <1>4, <1>5 DEF ReconcileCanary, Step

\* Every end preserves the invariant.
LEMMA ReturnsInv ==
  ASSUME Inv, Next, pc' = "idle"
  PROVE  Inv'
<1>1. /\ TypeOK /\ mem \in Journal /\ disk \in Journal /\ JournalIn(mem, alive, proven, next)
      /\ JournalIn(disk, alive, proven, next) /\ route \subseteq proven /\ budget \in 0 .. budget
      /\ loc.pre \in Journal /\ JournalIn(loc.pre, alive, proven, next) /\ next \in Nat \ {0}
      /\ current \in Version /\ strays \subseteq Inst /\ alive \subseteq Inst
  BY LocalFields DEF Inv, TypeOK, JournalsOK, OnlyProvenRouted
<1>2. misled \in BOOLEAN
  BY DEF Inv, TypeOK
<1>3. /\ mem' = NoJournal /\ loc' = NoLocals /\ proven' = proven /\ next' = next
      /\ current' = current
  BY Returns
<1> DEFINE Kept == /\ alive' \subseteq alive /\ strays' \subseteq Inst
                   /\ route' \subseteq proven /\ misled' \in BOOLEAN /\ budget' \in 0 .. budget
                   /\ result' \in {"none", "refused", "failed", "kept", "deployed", "crashed", "reconciled"}
           Right == disk' \in Journal /\ JournalIn(disk', alive, proven, next)
<1>4. SUFFICES Kept /\ Right
  BY <1>1, <1>3, ReturnInv
<1>5. CASE Refuse /\ UNCHANGED <<alive, route, disk, misled, strays, budget>> /\ result' = "refused"
  BY <1>1, <1>2, <1>5
<1>6. CASE /\ MigrateTo /\ pc = "migrate" /\ StoreFails(Emptied(mem)) /\ strays' = strays \cup mem.replicas
           /\ UNCHANGED <<alive, route, misled>> /\ result' = "refused"
  <2>1. Emptied(mem) \in Journal /\ JournalIn(Emptied(mem), alive, proven, next)
    BY <1>1, EmptiedFacts, EmptiedIn
  <2>2. disk' \in {disk, Emptied(mem)} /\ budget' \in 0 .. budget
    BY <1>1, <1>6, StoreFacts
  <2> QED BY <1>1, <1>2, <1>6, <2>1, <2>2, JournalFields
<1>7. CASE /\ \E S : StopFails(S)
           /\ UNCHANGED <<route, disk, misled>> /\ result' = "refused"
  <2>1. PICK S : StopFails(S)
    BY <1>7
  <2>2. alive' \subseteq alive /\ budget' \in 0 .. budget /\ strays' \subseteq strays \cup alive
    BY <1>1, <2>1, StopFacts
  <2> QED BY <1>1, <1>2, <1>7, <2>2
<1>8. CASE /\ StoreOK(mem) \/ StoreFails(mem)
           /\ UNCHANGED <<alive, route, strays>>
           /\ misled' \in {misled, FALSE} /\ result' \in {"kept", "deployed", "refused", "reconciled"}
  <2>1. disk' \in {disk, mem} /\ budget' \in 0 .. budget
    BY <1>1, <1>8, StoreFacts
  <2>2. UNCHANGED <<alive, route, strays>> /\ misled' \in BOOLEAN
    BY <1>2, <1>8
  <2> QED BY <1>1, <1>8, <2>1, <2>2
<1>9. CASE /\ Settle /\ pc = "settle" /\ StoreFails(Settled)
           /\ UNCHANGED <<alive, route, misled, strays>> /\ result' \in {"kept", "failed"}
  <2>1. disk' \in {disk, Settled} /\ budget' \in 0 .. budget
    BY <1>1, <1>9, StoreFacts
  <2> QED BY <1>1, <1>2, <1>9, <2>1, SettledFacts
<1>10. CASE /\ FinishAbort
            /\ UNCHANGED <<alive, route, disk, misled, strays, budget>> /\ result' \in {"kept", "failed"}
  BY <1>1, <1>2, <1>10
<1>11. CASE /\ UndoMigration /\ pc = "undo"
            /\ UNCHANGED <<alive, route, misled, strays>> /\ result' = "failed"
  <2>1. CASE loc.pre.mode = "rolling"
    <3>1. StoreBestEffort(RestoreMode(mem, loc.pre))
      BY <1>11, <2>1 DEF UndoMigration
    <3>2. disk' \in {disk, RestoreMode(mem, loc.pre)} /\ budget' \in 0 .. budget
      BY <1>1, <3>1, StoreFacts DEF StoreBestEffort
    <3>3. loc.pre.replicas \cap mem.retiring = {}
      BY <1>11, StepSets DEF Inv, HeldOK
    <3>4. RestoreMode(mem, loc.pre) \in Journal /\ JournalIn(RestoreMode(mem, loc.pre), alive, proven, next)
      BY <1>1, <2>1, <3>3, RestoreModeFacts, RestoreModeIn
    <3> QED BY <1>1, <1>2, <1>11, <3>2, <3>4
  <2>2. CASE loc.pre.mode # "rolling"
    BY <1>1, <1>2, <1>11, <2>2 DEF UndoMigration, NoFault
  <2> QED BY <2>1, <2>2
<1>12. CASE /\ ReconcileCanary /\ UNCHANGED <<alive, strays>> /\ result' = "refused"
  BY <1>1, <1>12, ReconcileReturns
<1>13. CASE UNCHANGED <<alive, budget, strays, route, disk, misled>> /\ result' = "reconciled"
  BY <1>1, <1>2, <1>13
<1>14. CASE /\ Fault("crash") /\ UNCHANGED <<alive, route, disk, misled, strays>>
            /\ result' = "crashed"
  <2>1. budget' \in 0 .. budget
    BY <1>1, <1>14, FaultFacts
  <2> QED BY <1>1, <1>2, <1>14, <2>1
<1> HIDE DEF Kept, Right
<1>15. /\ \/ StopFails({mem.slots[Other(mem.active)].pid}) \/ StopFails(loc.legacy)
          \/ StopFails(mem.retiring \ Serving(mem))
       /\ UNCHANGED <<route, disk, misled>> /\ result' = "refused"
       => Kept /\ Right
  BY <1>7
<1>16. /\ StoreBestEffort(mem) /\ UNCHANGED <<alive, route, misled, strays>>
       /\ result' \in {"kept", "refused", "reconciled"}
       => Kept /\ Right
  BY <1>8 DEF StoreBestEffort
<1>17. /\ UNCHANGED <<alive, route, strays>>
       /\ \/ StoreOK(mem) /\ result' = "deployed" /\ misled' = FALSE
          \/ StoreFails(mem) /\ result' = "kept" /\ misled' = misled
       => Kept /\ Right
  BY <1>8
<1>18. RolloutEnds => Kept /\ Right
  BY <1>5, <1>6, <1>9, <1>10, <1>11, <1>15, <1>16, <1>17, Zenon DEF RolloutEnds
<1>19. OtherEnds => Kept /\ Right
  BY <1>12, <1>13, <1>14, <1>15, <1>16, Zenon DEF OtherEnds
<1> QED BY <1>18, <1>19, Returns

-----------------------------------------------------------------------------
(* The beginning of an operation.                                          *)

\* An operation reads the journal.
LEMMA BeginEffect ==
  ASSUME Inv, Begin
  PROVE  /\ pc = "idle" /\ pc' \in {"load", "reconcile"} /\ mem' = disk /\ loc' \in Locals
         /\ loc'.pre = disk /\ loc'.stable = 0 /\ loc'.cand = 0 /\ loc'.step = 0
         /\ loc'.legacy = {}
         /\ misled' = (misled \/ budget + 2 <= MaxFaults) /\ misled' \in BOOLEAN
         /\ budget' = MaxFaults /\ result' = "none" /\ strays' = alive \ Recorded(disk)
         /\ UNCHANGED <<procs, route, files>>
<1>1. /\ pc = "idle" /\ pc' \in {"load", "reconcile"} /\ mem' = disk
      /\ misled' = (misled \/ budget + 2 <= MaxFaults) /\ misled' \in BOOLEAN
      /\ budget' = MaxFaults /\ result' = "none" /\ strays' = alive \ Recorded(disk)
      /\ UNCHANGED <<procs, route, files>> /\ loc' = [NoLocals EXCEPT !.pre = disk]
  BY DEF Begin
<1>2. disk \in Journal
  BY DEF Inv, TypeOK
<1>3. /\ loc' \in Locals /\ loc'.pre = disk /\ loc'.stable = NoLocals.stable
      /\ loc'.cand = NoLocals.cand /\ loc'.step = NoLocals.step /\ loc'.legacy = NoLocals.legacy
  BY <1>1, <1>2, EmptyFacts DEF Locals
<1> QED BY <1>1, <1>3 DEF NoLocals

\* It preserves the invariant.
LEMMA BeginInv == ASSUME Inv, Begin PROVE Inv'
<1> USE BeginEffect
<1>1. TypeOK'
  <2>1. pc' \in Steps /\ strays' \subseteq Inst /\ budget' \in 0 .. MaxFaults
    BY DEF Steps, Inv, TypeOK
  <2>2. /\ alive' \subseteq Inst /\ proven' \subseteq Inst /\ route' \subseteq Inst
        /\ next' \in 1 .. MaxInst + 1 /\ current' \in Version /\ disk' \in Journal
        /\ mem' \in Journal /\ loc' \in Locals
    BY DEF Inv, TypeOK, procs, files
  <2> QED BY <2>1, <2>2 DEF TypeOK
<1>2. JournalsOK' /\ OnlyProvenRouted' /\ Launched'
  BY DEF Inv, JournalsOK, OnlyProvenRouted, Launched, procs, files
<1>3. ReadOK' /\ HeldOK' /\ CanaryOK'
  BY StepSets DEF ReadOK, HeldOK, CanaryOK, ReconcileSteps, PromotedSteps, NotRunning, files
<1> QED BY <1>1, <1>2, <1>3 DEF Inv

\* The stable instance is one the journal calls serving.
LEMMA ResolveStableEffect ==
  ASSUME Inv, ResolveStable
  PROVE  /\ pc = "load" /\ loc'.stable \in Serving(mem) /\ loc'.stable \in alive
         /\ loc'.stable \in proven /\ loc'.stable \notin mem.retiring /\ Apart(mem)
         /\ mem.mode = "rolling" => pc' = "migrate" /\ loc'.stable \in mem.replicas
         /\ mem.mode # "rolling" => /\ pc' = "recoverRoute" /\ mem.active # NoSlot
                                    /\ mem.slots[mem.active].pid = loc'.stable
         /\ loc' \in Locals /\ loc'.pre = loc.pre /\ loc'.cand = loc.cand /\ loc'.step = loc.step
         /\ loc'.legacy = loc.legacy /\ loc'.switched = loc.switched
         /\ UNCHANGED <<procs, route, files, mem, budget, misled, strays, result>>
<1>1. PICK i \in Stable(mem) : loc' = [loc EXCEPT !.stable = i]
  BY DEF ResolveStable
<1>2. /\ pc = "load" /\ pc' = IF mem.mode = "rolling" THEN "migrate" ELSE "recoverRoute"
      /\ UNCHANGED <<procs, route, files, mem, budget, misled, strays, result>>
  BY DEF ResolveStable, Step
<1>3. /\ loc \in Locals /\ mem \in Journal /\ JournalIn(mem, alive, proven, next)
      /\ alive \subseteq Inst /\ proven \subseteq Inst
  BY DEF Inv, TypeOK, JournalsOK
<1>4. i \in Serving(mem) /\ i \in alive /\ i \in Pid /\ i # 0
  <2>1. i \in Serving(mem) /\ i \in alive
    BY DEF Stable, Serving
  <2> QED BY <2>1, <1>3, PidFacts
<1>5. /\ loc' \in Locals /\ loc'.pre = loc.pre /\ loc'.cand = loc.cand /\ loc'.step = loc.step
      /\ loc'.legacy = loc.legacy /\ loc'.switched = loc.switched /\ loc'.stable = i
  BY <1>1, <1>3, <1>4 DEF Locals
<1>6. CASE mem.mode = "rolling"
  <2>1. /\ i \in mem.replicas /\ mem.slots["blue"].pid = 0 /\ mem.slots["green"].pid = 0
        /\ i \in proven /\ i \notin mem.retiring
    BY <1>3, <1>4, <1>6 DEF Serving, JournalIn
  <2>2. Apart(mem)
    BY <1>3, <2>1, JournalFields, PidFacts DEF Apart
  <2> QED BY <1>2, <1>4, <1>5, <1>6, <2>1, <2>2
<1>7. CASE mem.mode # "rolling"
  <2>1. mem.active # NoSlot /\ mem.slots[mem.active].pid = i /\ mem.active \in Slots
    BY <1>3, <1>4, <1>7, JournalFields DEF Serving
  <2>2. Apart(mem) /\ i \in proven
    BY <1>3, <1>4, <2>1 DEF JournalIn, Apart
  <2>3. i \notin mem.retiring
    BY <2>1, <2>2 DEF Apart, Slots
  <2> QED BY <1>2, <1>4, <1>5, <1>7, <2>1, <2>2, <2>3
<1> QED BY <1>6, <1>7

\* The choice preserves the invariant.
LEMMA ResolveStableInv == ASSUME Inv, ResolveStable PROVE Inv'
<1> USE ResolveStableEffect
<1>1. /\ mem \in Journal /\ disk = mem /\ loc.pre = disk /\ loc.cand = 0 /\ loc.step < NSteps
      /\ JournalIn(mem, alive, proven, next) /\ route \subseteq proven
      /\ strays \subseteq Inst /\ current \in Version /\ budget \in 0 .. budget
      /\ loc.legacy = {}
  BY StepSets, LocalFields DEF Inv, TypeOK, JournalsOK, ReadOK, CanaryOK, OnlyProvenRouted
<1>2. misled \in BOOLEAN
  BY DEF Inv, TypeOK
<1>3. pc' \in {"migrate", "recoverRoute"} /\ pc' \in Steps
  BY DEF Steps
<1>4. ReadOK'
  BY <1>1, <1>3 DEF ReadOK, ReconcileSteps, files
<1>5. HeldOK'
  <2>1. SUFFICES ASSUME pc' = "recoverRoute" PROVE HeldOK'
    BY <1>3, StepSets DEF HeldOK
  <2>2. mem.mode = "blue-green" /\ mem.replicas = {} /\ loc'.pre = mem
    BY <1>1, <2>1, JournalFields DEF JournalIn
  <2> QED BY <1>1, <2>1, <2>2 DEF HeldOK, Apart, files, procs, PromotedSteps
<1>6. CanaryOK'
  BY <1>1, <1>3, StepSets DEF CanaryOK, PromotedSteps, NotRunning
<1> QED BY <1>1, <1>2, <1>3, <1>4, <1>5, <1>6, MoveInv DEF procs, files

\* What every step may rely on.
LEMMA InvFacts ==
  ASSUME Inv
  PROVE  /\ TypeOK /\ mem \in Journal /\ disk \in Journal /\ loc \in Locals /\ loc.pre \in Journal
         /\ JournalIn(mem, alive, proven, next) /\ JournalIn(disk, alive, proven, next)
         /\ JournalIn(loc.pre, alive, proven, next) /\ next \in Nat \ {0}
         /\ route \subseteq proven /\ proven \subseteq Inst /\ alive \subseteq Inst
         /\ strays \subseteq Inst /\ current \in Version /\ budget \in 0 .. budget
         /\ loc.slot \in Slots
BY LocalFields DEF Inv, TypeOK, JournalsOK, OnlyProvenRouted

\* A rolling fleet becomes a blue slot and a set of instances to stop later.
LEMMA MigrateToEffect ==
  ASSUME Inv, MigrateTo, pc' # "idle"
  PROVE  /\ pc = "migrate" /\ pc' = "storeAdopted" /\ disk' = Emptied(mem)
         /\ mem' = Adopted(Emptied(mem)) /\ strays' = strays \cup mem.replicas
         /\ loc' \in Locals /\ loc'.legacy = mem.replicas \ {loc.stable}
         /\ loc'.pre = loc.pre /\ loc'.cand = loc.cand /\ loc'.step = loc.step
         /\ loc'.stable = loc.stable /\ loc'.switched = loc.switched
         /\ mem'.mode = "blue-green" /\ mem'.active = "blue" /\ mem'.replicas = {}
         /\ mem'.slots["blue"].pid = loc.stable /\ mem'.slots["green"].pid = 0
         /\ mem'.retiring = mem.retiring /\ mem'.canary = mem.canary
         /\ disk'.mode = "blue-green" /\ disk'.active = NoSlot /\ disk'.replicas = {}
         /\ disk'.retiring = mem.retiring /\ disk'.canary = mem.canary
         /\ UNCHANGED <<procs, route, current, budget, misled, result>>
<1>1. /\ pc = "migrate" /\ pc' = "storeAdopted" /\ disk' = Emptied(mem)
      /\ mem' = Adopted(Emptied(mem)) /\ strays' = strays \cup mem.replicas
      /\ loc' = [loc EXCEPT !.legacy = mem.replicas \ {loc.stable}]
      /\ UNCHANGED <<procs, route, current, budget, misled, result>>
  BY DEF MigrateTo, StoreOK, NoFault, Return
<1>2. mem \in Journal /\ loc \in Locals /\ mem.replicas \subseteq Inst
  BY JournalFields DEF Inv, TypeOK
<1>3. loc.stable \in mem.replicas
  BY <1>1 DEF Inv, ReadOK
<1>4. /\ loc' \in Locals /\ loc'.legacy = mem.replicas \ {loc.stable}
      /\ loc'.pre = loc.pre /\ loc'.cand = loc.cand /\ loc'.step = loc.step
      /\ loc'.stable = loc.stable /\ loc'.switched = loc.switched
  BY <1>1, <1>2 DEF Locals
<1>5. /\ Emptied(mem) \in Journal /\ Emptied(mem).slots["green"].pid = 0
  BY <1>2, EmptiedFacts, EmptyFacts DEF Slots
<1> QED BY <1>1, <1>2, <1>3, <1>4, <1>5, EmptiedFacts, AdoptedFacts

\* It preserves the invariant.
LEMMA MigrateToInv == ASSUME Inv, MigrateTo, pc' # "idle" PROVE Inv'
<1> USE MigrateToEffect
<1>1. misled \in BOOLEAN
  BY DEF Inv, TypeOK
<1>2. /\ loc.pre = mem /\ loc.stable \in mem.replicas /\ mem.mode = "rolling"
      /\ loc.cand = 0 /\ loc.step < NSteps
  BY StepSets DEF Inv, ReadOK, CanaryOK
<1>3. /\ mem' \in Journal /\ JournalIn(mem', alive, proven, next)
      /\ disk' \in Journal /\ JournalIn(disk', alive, proven, next)
  <2>1. loc.stable \in Inst
    BY <1>2, InvFacts, JournalFields
  <2> QED BY <1>2, <2>1, InvFacts, EmptiedFacts, EmptiedIn, AdoptedFacts, AdoptedIn
<1>4. strays' \subseteq Inst /\ 0 \notin mem.retiring
  BY InvFacts, JournalFields, PidFacts
<1>5. loc.stable \in proven /\ loc.stable \notin mem.retiring /\ mem.replicas \cap mem.retiring = {}
  BY <1>2, InvFacts DEF JournalIn
<1>6. ReadOK'
  BY DEF ReadOK, ReconcileSteps
<1>7. HeldOK'
  <2>1. loc'.pre = mem /\ loc'.stable \in Serving(loc'.pre)
    BY <1>2 DEF Serving
  <2>2. /\ mem'.active # NoSlot /\ mem'.slots[mem'.active].pid = loc'.stable
        /\ loc'.stable \in proven'
    BY <1>5 DEF NoSlot, procs
  <2>3. loc'.pre.replicas \cap mem'.retiring = {} /\ loc'.legacy \subseteq loc'.pre.replicas
    BY <1>5, <2>1
  <2> QED BY <1>4, <1>5, <2>1, <2>2, <2>3 DEF HeldOK
<1>8. CanaryOK'
  BY <1>2, StepSets DEF CanaryOK, PromotedSteps, NotRunning
<1>9. pc' \in Steps
  BY DEF Steps
<1> QED BY <1>1, <1>3, <1>4, <1>6, <1>7, <1>8, <1>9, InvFacts, MoveInv DEF procs

\* The traffic of an interrupted rollout goes back to the stable instance.
LEMMA RecoverRouteEffect ==
  ASSUME Inv, RecoverRoute, mem.canary = "running"
  PROVE  /\ pc = "recoverRoute" /\ pc' = "storeAborted" /\ disk.canary = "running"
         /\ mem' \in Journal /\ mem'.mode = mem.mode /\ mem'.active = mem.active
         /\ mem'.slots = mem.slots /\ mem'.replicas = mem.replicas
         /\ mem'.retiring = mem.retiring /\ mem'.canary = "aborted"
         /\ route' \in {route, {loc.stable}} /\ (misled' \/ route' = {loc.stable})
         /\ misled' \in BOOLEAN /\ (misled => misled') /\ budget' \in 0 .. budget
         /\ UNCHANGED <<procs, files, loc, strays, result>>
<1>1. /\ pc = "recoverRoute" /\ pc' = "storeAborted"
      /\ CallOK(StableTargets) \/ RestoreFails
      /\ mem' = [mem EXCEPT !.canary = "aborted"]
      /\ UNCHANGED <<procs, files, loc, strays, result>>
  BY DEF RecoverRoute, Step
<1>2. /\ mem' \in Journal /\ mem'.mode = mem.mode /\ mem'.active = mem.active
      /\ mem'.slots = mem.slots /\ mem'.replicas = mem.replicas
      /\ mem'.retiring = mem.retiring /\ mem'.canary = "aborted"
  BY <1>1, InvFacts, CanaryFacts DEF CanaryStatus
<1>3. disk.canary = "running"
  BY <1>1 DEF Inv, ReadOK
<1>4. misled \in BOOLEAN
  BY DEF Inv, TypeOK
<1>5. CASE CallOK(StableTargets)
  <2>1. route' = {loc.stable} /\ budget' \in 0 .. budget
    BY <1>5, InvFacts DEF CallOK, NoFault, StableTargets
  <2>2. misled' = misled
    BY <1>5 DEF CallOK
  <2> QED BY <1>1, <1>2, <1>3, <1>4, <2>1, <2>2
<1>6. CASE RestoreFails
  BY <1>1, <1>2, <1>3, <1>6, InvFacts, RestoreFacts
<1> QED BY <1>1, <1>5, <1>6

\* It preserves the invariant.
LEMMA RecoverRouteInv == ASSUME Inv, RecoverRoute, mem.canary = "running" PROVE Inv'
<1> USE RecoverRouteEffect
<1>1. /\ mem.mode = "blue-green" /\ mem.active # NoSlot /\ loc.stable \in proven /\ Apart(mem)
      /\ loc.step < NSteps
  BY StepSets DEF Inv, HeldOK, CanaryOK, Apart
<1>2. JournalIn(mem', alive, proven, next)
  BY <1>1, InvFacts, CanaryIn
<1>3. ReadOK' /\ CanaryOK' /\ pc' \in Steps
  BY <1>1, StepSets DEF ReadOK, CanaryOK, PromotedSteps, NotRunning, ReconcileSteps, Steps
<1>4. HeldOK'
  BY StepSets DEF Inv, HeldOK, files, procs, PromotedSteps
<1> QED BY <1>1, <1>2, <1>3, <1>4, InvFacts, MoveInv DEF procs, files

\* What is left in the other slot is stopped.
LEMMA RecoverStaleSlotsEffect ==
  ASSUME Inv, RecoverStaleSlots, pc' # "idle"
  PROVE  /\ pc = "recover" /\ pc' = "probe"
         /\ alive' \subseteq alive /\ alive \ alive' \subseteq {mem.slots[Other(mem.active)].pid}
         /\ mem' \in Journal /\ SameBut(mem', mem)
         /\ mem'.slots[Other(mem.active)].pid = 0
         /\ mem'.slots[mem.active] = mem.slots[mem.active]
         /\ JournalIn(mem', alive, proven, next)
         /\ loc' \in Locals /\ loc'.slot = Other(mem.active)
         /\ loc'.pre = loc.pre /\ loc'.legacy = loc.legacy /\ loc'.stable = loc.stable
         /\ loc'.step = loc.step /\ loc'.switched = loc.switched
         /\ UNCHANGED <<proven, next, route, files, misled, strays, result, budget>>
<1>1. /\ pc = "recover" /\ pc' = "probe" /\ mem' = Reclaimed(mem)
      /\ alive' = alive \ {mem.slots[Other(mem.active)].pid}
      /\ loc' = [loc EXCEPT !.slot = Other(mem.active)]
      /\ UNCHANGED <<proven, next, route, files, misled, strays, result, budget>>
  BY DEF RecoverStaleSlots, Step, Return, StopOK, NoFault
<1>2. mem.active # NoSlot
  BY <1>1, StepSets DEF Inv, HeldOK
<1>3. mem' \in Journal /\ SameBut(mem', mem) /\ mem'.slots[Other(mem.active)].pid = 0
      /\ mem'.slots[mem.active] = mem.slots[mem.active]
  BY <1>1, <1>2, InvFacts, ReclaimedFacts
<1>4. JournalIn(mem', alive, proven, next)
  <2> DEFINE s == Other(mem.active)
             r == [mem.slots[s] EXCEPT !.pid = 0, !.status = "stopped"]
  <2>1. mem' = IF mem.slots[s].pid = 0 THEN mem ELSE SetSlot(mem, s, r)
    BY <1>1 DEF Reclaimed
  <2>2. s \in Slots /\ s = Other(mem.active) /\ mem.slots[s] \in SlotRec
    BY OtherFacts, InvFacts, JournalFields
  <2>3. r \in SlotRec /\ r.pid = 0
    BY <2>2, ClearedFacts
  <2> HIDE DEF s, r
  <2> QED BY <1>2, <2>1, <2>2, <2>3, InvFacts, SetSlotIn
<1>5. /\ loc' \in Locals /\ loc'.slot = Other(mem.active)
      /\ loc'.pre = loc.pre /\ loc'.legacy = loc.legacy /\ loc'.stable = loc.stable
      /\ loc'.step = loc.step /\ loc'.switched = loc.switched
  <2>1. Other(mem.active) \in Slots
    BY OtherFacts
  <2> QED BY <1>1, <2>1, InvFacts DEF Locals
<1> QED BY <1>1, <1>3, <1>4, <1>5

\* It preserves the invariant.
LEMMA RecoverStaleSlotsInv == ASSUME Inv, RecoverStaleSlots, pc' # "idle" PROVE Inv'
<1> USE RecoverStaleSlotsEffect
<1>1. misled \in BOOLEAN
  BY DEF Inv, TypeOK
<1>2. /\ mem.mode = "blue-green" /\ mem.active # NoSlot /\ Apart(mem)
      /\ loc.step < NSteps /\ mem.canary # "running" /\ mem.active \in Slots
      /\ 0 \notin mem.retiring
  BY StepSets, InvFacts, JournalFields, PidFacts DEF Inv, HeldOK, CanaryOK, Apart, NotRunning
<1>3. Apart(mem')
  BY <1>2, OtherFacts DEF Apart, Slots, SameBut
<1>4. ReadOK' /\ pc' \in Steps
  BY DEF ReadOK, ReconcileSteps, Steps
<1>5. HeldOK'
  BY <1>2, <1>3, StepSets DEF Inv, HeldOK, Apart, files, PromotedSteps, SameBut
<1>6. CanaryOK'
  BY <1>2, StepSets DEF CanaryOK, PromotedSteps, NotRunning, SameBut
<1> QED BY <1>1, <1>2, <1>4, <1>5, <1>6, InvFacts, MoveInv DEF files

\* The rollout notes whether the proxy answered that the app is enrolled.
LEMMA CheckEnrolledEffect ==
  ASSUME Inv, CheckEnrolled
  PROVE  /\ pc = "probe" /\ pc' = "build"
         /\ loc' \in Locals /\ SameHold(loc') /\ loc'.step = loc.step /\ loc'.switched = loc.switched
         /\ budget' \in 0 .. budget
         /\ UNCHANGED <<procs, route, files, mem, misled, strays, result>>
<1>1. /\ pc = "probe" /\ pc' = "build"
      /\ \/ NoFault /\ loc' = [loc EXCEPT !.enrolled = (route # {})]
         \/ Fault("status") /\ loc' = loc
      /\ UNCHANGED <<procs, route, files, mem, misled, strays, result>>
  BY DEF CheckEnrolled, Step
<1>2. (route # {}) \in BOOLEAN
  OBVIOUS
<1>3. loc' \in Locals /\ SameHold(loc') /\ loc'.step = loc.step /\ loc'.switched = loc.switched
  BY <1>1, <1>2, InvFacts DEF Locals, SameHold
<1>4. budget' \in 0 .. budget
  BY <1>1, InvFacts, FaultFacts DEF NoFault
<1> QED BY <1>1, <1>3, <1>4

\* It preserves the invariant.
LEMMA CheckEnrolledInv == ASSUME Inv, CheckEnrolled PROVE Inv'
<1> USE CheckEnrolledEffect
<1>1. misled \in BOOLEAN /\ pc' \in Steps
  BY DEF Inv, TypeOK, Steps
<1>2. ReadOK'
  BY DEF ReadOK, ReconcileSteps
<1>3. HeldOK'
  BY StepSets DEF Inv, HeldOK, files, procs, PromotedSteps, SameHold
<1>4. loc.slot = Other(mem.active) /\ mem.canary # "running" /\ loc.step < NSteps
  BY StepSets DEF Inv, CanaryOK, NotRunning
<1>5. CanaryOK'
  BY <1>4, StepSets DEF CanaryOK, PromotedSteps, SameHold
<1> QED BY <1>1, <1>2, <1>3, <1>5, InvFacts, MoveInv DEF files, procs, SameHold

\* The canary is launched into the other slot.
LEMMA LaunchCanaryEffect ==
  ASSUME Inv, LaunchCanary
  PROVE  /\ pc = "build" /\ pc' = "storeStarting" /\ next \in Inst
         /\ alive' = alive \cup {next} /\ next' = next + 1
         /\ mem' \in Journal /\ SameBut(mem', mem) /\ mem'.slots[loc.slot].pid = next
         /\ mem'.slots[Other(loc.slot)] = mem.slots[Other(loc.slot)]
         /\ JournalIn(mem', alive', proven, next')
         /\ loc' \in Locals /\ loc'.cand = next
         /\ loc'.pre = loc.pre /\ loc'.legacy = loc.legacy /\ loc'.stable = loc.stable
         /\ loc'.slot = loc.slot /\ loc'.step = loc.step /\ loc'.switched = loc.switched
         /\ UNCHANGED <<proven, route, files, budget, misled, strays, result>>
<1>1. PICK v \in {0, next} :
        /\ mem' = SetSlot(mem, loc.slot, [pid |-> next, port |-> next, ver |-> v,
                                          status |-> "starting"])
        /\ loc' = [loc EXCEPT !.cand = next, !.tver = v]
  BY DEF LaunchCanary
<1>2. /\ pc = "build" /\ pc' = "storeStarting" /\ next <= MaxInst
      /\ alive' = alive \cup {next} /\ next' = next + 1
      /\ UNCHANGED <<proven, route, files, budget, misled, strays, result>>
  BY DEF LaunchCanary, Launch, Step
<1>3. next \in Inst /\ next \in Pid /\ v \in Version /\ next + 1 \in Nat \ {0} /\ next <= next + 1
  BY <1>2, InvFacts DEF Inst, Pid, Version
<1> DEFINE r == [pid |-> next, port |-> next, ver |-> v, status |-> "starting"]
<1>4. r \in SlotRec /\ r.pid = next
  BY <1>3 DEF SlotRec
<1>5. mem' = SetSlot(mem, loc.slot, r)
  BY <1>1
<1> HIDE DEF r
<1>6. /\ mem' \in Journal /\ SameBut(mem', mem) /\ mem'.slots[loc.slot].pid = next
      /\ mem'.slots[Other(loc.slot)] = mem.slots[Other(loc.slot)]
  BY <1>4, <1>5, InvFacts, SetSlotFacts
<1>7. JournalIn(mem', alive', proven, next')
  <2>1. /\ mem.active # NoSlot /\ loc.slot = Other(mem.active) /\ mem.canary # "running"
    BY <1>2, StepSets DEF Inv, HeldOK, CanaryOK, NotRunning
  <2>2. JournalIn(mem, alive', proven, next + 1)
    BY <1>2, <1>3, InvFacts, JournalKept
  <2>3. next < next + 1 /\ next \notin mem.retiring /\ next # mem.slots[mem.active].pid
    <3>1. \A i \in mem.retiring : i < next /\ i \in Nat
      BY InvFacts, JournalFields DEF JournalIn, Inst
    <3>2. mem.slots[mem.active].pid < next /\ mem.slots[mem.active].pid \in Nat
      BY <2>1, InvFacts, JournalFields DEF JournalIn, Pid, Slots
    <3> QED BY <1>3, <3>1, <3>2, InvFacts
  <2>4. JournalIn(SetSlot(mem, loc.slot, r), alive', proven, next + 1)
    BY <1>3, <1>4, <2>1, <2>2, <2>3, InvFacts, SetSlotIn
  <2> QED BY <1>2, <1>5, <2>4
<1>8. /\ loc' \in Locals /\ loc'.cand = next
      /\ loc'.pre = loc.pre /\ loc'.legacy = loc.legacy /\ loc'.stable = loc.stable
      /\ loc'.slot = loc.slot /\ loc'.step = loc.step /\ loc'.switched = loc.switched
  BY <1>1, <1>3, InvFacts DEF Locals
<1> QED BY <1>2, <1>3, <1>6, <1>7, <1>8

\* It preserves the invariant.
LEMMA LaunchCanaryInv == ASSUME Inv, LaunchCanary PROVE Inv'
<1> USE LaunchCanaryEffect
<1>1. /\ mem.mode = "blue-green" /\ mem.active # NoSlot /\ Apart(mem) /\ loc.slot = Other(mem.active)
      /\ mem.active \in Slots /\ loc.step < NSteps /\ mem.canary # "running"
      /\ loc.stable \in proven /\ loc.stable \in Serving(loc.pre)
      /\ mem.slots[mem.active].pid = loc.stable
      /\ loc.stable \notin mem.retiring \cup disk.retiring
      /\ loc.pre.replicas \cap mem.retiring = {} /\ loc.legacy \subseteq loc.pre.replicas \ {loc.stable}
  BY StepSets, InvFacts, JournalFields DEF Inv, HeldOK, CanaryOK, Apart, NotRunning, PromotedSteps
<1>2. /\ next \notin mem.retiring /\ next \notin disk.retiring /\ next \notin loc.pre.replicas
      /\ next \notin proven /\ next \in Nat
  <2>1. \A i \in mem.retiring \cup disk.retiring \cup loc.pre.replicas : i < next /\ i \in Nat
    BY InvFacts, JournalFields DEF JournalIn, Inst
  <2>2. \A i \in proven : i < next /\ i \in Nat
    BY InvFacts DEF Inv, Launched, Inst
  <2> QED BY <2>1, <2>2, InvFacts
<1>3. TypeOK'
  <2>1. pc' \in Steps /\ alive' \subseteq Inst /\ next' \in 1 .. MaxInst + 1
    BY InvFacts DEF Steps, Inst
  <2>2. /\ proven' \subseteq Inst /\ route' \subseteq Inst /\ strays' \subseteq Inst
        /\ current' \in Version /\ disk' \in Journal /\ budget' \in 0 .. MaxFaults
    BY DEF Inv, TypeOK, files
  <2>3. misled' \in BOOLEAN
    BY DEF Inv, TypeOK
  <2>4. result' \in {"none", "refused", "failed", "kept", "deployed", "crashed", "reconciled"}
    BY DEF Inv, TypeOK
  <2> QED BY <2>1, <2>2, <2>3, <2>4 DEF TypeOK
<1>4. JournalsOK'
  <2>1. next' \in Nat /\ next <= next'
    BY InvFacts
  <2>2. \A j \in Journal : JournalIn(j, alive, proven, next) => JournalIn(j, alive', proven, next')
    BY <2>1, InvFacts, JournalKept
  <2> QED BY <2>2, InvFacts DEF JournalsOK, files
<1>5. OnlyProvenRouted' /\ Launched'
  <2>1. \A i \in alive \cup proven : i < next /\ i \in Nat
    BY InvFacts DEF Inv, Launched, Inst
  <2>2. \A i \in alive' \cup proven : i < next'
    BY <1>2, <2>1
  <2> QED BY <2>2, InvFacts DEF OnlyProvenRouted, Launched
<1>6. ReadOK'
  BY DEF ReadOK, ReconcileSteps
<1>7. HeldOK'
  <2>1. mem'.slots[mem.active] = mem.slots[mem.active]
    BY <1>1, OtherFacts
  <2>2. Apart(mem')
    BY <1>1, <1>2, <2>1, OtherFacts DEF Apart, Slots, SameBut
  <2> QED BY <1>1, <2>1, <2>2 DEF HeldOK, Apart, files, SameBut
<1>8. CanaryOK'
  <2>1. loc.slot = Other(mem.active) /\ mem'.active = Other(loc'.slot)
    BY <1>1, OtherFacts DEF SameBut
  <2>2. loc'.cand < next'
    BY <1>2
  <2>3. /\ loc'.cand \notin mem'.retiring \cup disk'.retiring
        /\ loc'.cand \notin loc'.pre.replicas /\ loc'.cand # loc'.stable
    BY <1>1, <1>2 DEF files, SameBut
  <2> QED BY <1>1, <2>1, <2>2, <2>3, StepSets DEF CanaryOK, PromotedSteps, NotRunning, SameBut, Unrouted
<1> QED BY <1>3, <1>4, <1>5, <1>6, <1>7, <1>8 DEF Inv

\* The canary passes its health gate.
LEMMA HealthPassesEffect ==
  ASSUME Inv, HealthPasses
  PROVE  /\ pc = "health" /\ pc' = "storeRunning" /\ loc.cand \in alive
         /\ proven' = proven \cup {loc.cand}
         /\ mem' \in Journal /\ mem'.mode = mem.mode /\ mem'.active = mem.active
         /\ mem'.replicas = mem.replicas /\ mem'.retiring = mem.retiring
         /\ mem'.canary = "running" /\ mem'.slots[loc.slot].pid = mem.slots[loc.slot].pid
         /\ mem'.slots[Other(loc.slot)] = mem.slots[Other(loc.slot)]
         /\ UNCHANGED <<alive, next, route, files, loc, budget, misled, strays, result>>
<1> DEFINE r == [mem.slots[loc.slot] EXCEPT !.status = "running"]
           k == SetSlot(mem, loc.slot, r)
<1>1. /\ pc = "health" /\ pc' = "storeRunning" /\ loc.cand \in alive
      /\ proven' = proven \cup {loc.cand} /\ mem' = [k EXCEPT !.canary = "running"]
      /\ UNCHANGED <<alive, next, route, files, loc, budget, misled, strays, result>>
  BY DEF HealthPasses, Step
<1>2. r \in SlotRec /\ r.pid = mem.slots[loc.slot].pid
  BY InvFacts, JournalFields, ClearedFacts
<1> HIDE DEF r
<1>3. /\ k \in Journal /\ SameBut(k, mem) /\ k.slots[loc.slot] = r
      /\ k.slots[Other(loc.slot)] = mem.slots[Other(loc.slot)]
  BY <1>2, InvFacts, SetSlotFacts
<1> HIDE DEF k
<1>4. "running" \in CanaryStatus
  BY DEF CanaryStatus
<1>5. /\ mem' \in Journal /\ mem'.mode = k.mode /\ mem'.active = k.active
      /\ mem'.slots = k.slots /\ mem'.replicas = k.replicas /\ mem'.retiring = k.retiring
      /\ mem'.canary = "running"
  BY <1>1, <1>3, <1>4, CanaryFacts
<1> QED BY <1>1, <1>2, <1>3, <1>5 DEF SameBut

\* It preserves the invariant.
LEMMA HealthPassesInv == ASSUME Inv, HealthPasses PROVE Inv'
<1> USE HealthPassesEffect
<1>1. /\ mem.mode = "blue-green" /\ mem.active = Other(loc.slot) /\ Apart(mem)
      /\ loc.step < NSteps /\ mem.slots[loc.slot].pid = loc.cand
      /\ loc.cand \in Inst /\ loc.cand < next /\ Other(mem.active) = loc.slot
      /\ mem.active \in Slots
  BY StepSets, InvFacts, JournalFields, OtherFacts DEF Inv, HeldOK, CanaryOK, Apart, PromotedSteps
<1>2. TypeOK'
  <2>1. pc' \in Steps /\ proven' \subseteq Inst
    BY <1>1, InvFacts DEF Steps
  <2>2. /\ alive' \subseteq Inst /\ route' \subseteq Inst /\ strays' \subseteq Inst
        /\ current' \in Version /\ disk' \in Journal /\ budget' \in 0 .. MaxFaults
        /\ next' \in 1 .. MaxInst + 1 /\ loc' \in Locals
    BY DEF Inv, TypeOK, files
  <2>3. misled' \in BOOLEAN
    BY DEF Inv, TypeOK
  <2>4. result' \in {"none", "refused", "failed", "kept", "deployed", "crashed", "reconciled"}
    BY DEF Inv, TypeOK
  <2> QED BY <2>1, <2>2, <2>3, <2>4 DEF TypeOK
<1>3. JournalsOK'
  <2>1. \A j \in Journal : JournalIn(j, alive, proven, next) => JournalIn(j, alive, proven', next)
    BY InvFacts, JournalKept
  <2>2. JournalIn(mem, alive, proven', next)
    BY <2>1, InvFacts
  <2>3. \A s \in Slots : mem'.slots[s].pid = mem.slots[s].pid
    BY <1>1, InvFacts, OtherFacts DEF Slots
  <2>4. JournalIn(mem', alive, proven', next)
    BY <1>1, <2>2, <2>3, OtherFacts DEF JournalIn, Slots, Apart
  <2> QED BY <2>1, <2>4, InvFacts DEF JournalsOK, files
<1>4. OnlyProvenRouted' /\ Launched'
  BY <1>1, InvFacts DEF OnlyProvenRouted, Launched, Inv
<1>5. ReadOK'
  BY DEF ReadOK, ReconcileSteps
<1>6. HeldOK'
  <2>1. \A s \in Slots : mem'.slots[s].pid = mem.slots[s].pid
    BY <1>1, InvFacts, OtherFacts DEF Slots
  <2> QED BY <1>1, <2>1, StepSets DEF Inv, HeldOK, files, PromotedSteps, Slots
<1>7. CanaryOK'
  BY <1>1, StepSets DEF Inv, CanaryOK, files, PromotedSteps, NotRunning, Unrouted
<1> QED BY <1>2, <1>3, <1>4, <1>5, <1>6, <1>7 DEF Inv

\* An unhealthy canary is stopped.
LEMMA StopUnhealthyEffect ==
  ASSUME Inv, StopUnrouted, pc # "stopUnstarted"
  PROVE  /\ pc = "stopUnhealthy" /\ pc' = "storeFailed" /\ mem' \in Journal /\ SameBut(mem', mem)
         /\ mem'.slots[loc.slot].pid = 0
         /\ mem'.slots[Other(loc.slot)] = mem.slots[Other(loc.slot)]
         /\ alive' \subseteq alive /\ alive \ alive' \subseteq {loc.cand} /\ budget' \in 0 .. budget
         /\ strays \subseteq strays' /\ strays' \subseteq strays \cup alive
         /\ JournalIn(mem', alive, proven, next)
         /\ UNCHANGED <<proven, next, route, files, loc, misled, result>>
<1> DEFINE r == [mem.slots[loc.slot] EXCEPT !.pid = 0, !.status = "failed"]
<1>1. /\ pc = "stopUnhealthy" /\ pc' = "storeFailed" /\ mem' = SetSlot(mem, loc.slot, r)
      /\ StopOK({loc.cand}) \/ StopFails({loc.cand})
      /\ UNCHANGED <<proven, next, route, files, loc, misled, result>>
  BY DEF StopUnrouted, Step
<1>2. r \in SlotRec /\ r.pid = 0
  BY InvFacts, JournalFields, ClearedFacts
<1> HIDE DEF r
<1>3. mem.active # NoSlot /\ loc.slot = Other(mem.active)
  BY <1>1, StepSets, InvFacts, OtherFacts DEF Inv, HeldOK, CanaryOK, PromotedSteps
<1>4. JournalIn(mem', alive, proven, next)
  BY <1>1, <1>2, <1>3, InvFacts, SetSlotIn
<1>5. /\ mem' \in Journal /\ SameBut(mem', mem) /\ mem'.slots[loc.slot].pid = 0
      /\ mem'.slots[Other(loc.slot)] = mem.slots[Other(loc.slot)]
  BY <1>1, <1>2, InvFacts, SetSlotFacts
<1>6. /\ alive' \subseteq alive /\ alive \ alive' \subseteq {loc.cand} /\ budget' \in 0 .. budget
      /\ strays \subseteq strays' /\ strays' \subseteq strays \cup alive
  BY <1>1, InvFacts, StopFacts
<1> QED BY <1>1, <1>4, <1>5, <1>6

\* It preserves the invariant.
LEMMA StopUnhealthyInv == ASSUME Inv, StopUnrouted, pc # "stopUnstarted" PROVE Inv'
<1> USE StopUnhealthyEffect
<1>1. misled \in BOOLEAN
  BY DEF Inv, TypeOK
<1>2. mem.active = Other(loc.slot) /\ 0 \notin mem.retiring /\ loc.slot \in Slots
  BY StepSets, InvFacts, JournalFields, PidFacts DEF Inv, CanaryOK, PromotedSteps
<1>3. ReadOK' /\ CanaryOK' /\ pc' \in Steps
  BY StepSets DEF ReadOK, CanaryOK, PromotedSteps, NotRunning, ReconcileSteps, Steps
<1>4. HeldOK'
  <2>1. Apart(mem')
    BY <1>2, StepSets, OtherFacts DEF Inv, HeldOK, Apart, SameBut, Slots
  <2> QED BY <1>2, <2>1, StepSets DEF Inv, HeldOK, files, PromotedSteps, SameBut, Apart
<1>5. strays' \subseteq Inst
  BY InvFacts
<1> QED BY <1>1, <1>3, <1>4, <1>5, InvFacts, MoveInv DEF files

\* A promotion that failed is taken back.
LEMMA DemoteEffect ==
  ASSUME Inv, RestoreStable, pc = "compensate", pc' # "bestKnown"
  PROVE  /\ pc' = "settle" /\ route' = {loc.stable} /\ misled' = misled /\ budget' = budget
         /\ mem' \in Journal /\ mem'.mode = mem.mode /\ mem'.active = Other(loc.slot)
         /\ mem'.slots = mem.slots /\ mem'.replicas = mem.replicas
         /\ mem'.retiring = mem.retiring /\ mem'.canary = mem.canary
         /\ loc' \in Locals /\ SameHold(loc') /\ SameFlow(loc')
         /\ UNCHANGED <<procs, files, strays, result>>
<1>1. /\ pc' = "settle" /\ route' = {loc.stable} /\ misled' = misled /\ budget' = budget
      /\ loc' = [loc EXCEPT !.status = "failed"]
      /\ mem' = [mem EXCEPT !.active = Other(loc.slot), !.ver = loc.oldVer]
      /\ UNCHANGED <<procs, files, strays, result>>
  BY DEF RestoreStable, Step, CallOK, NoFault, StableTargets
<1>2. loc' \in Locals /\ SameHold(loc') /\ SameFlow(loc')
  BY <1>1, InvFacts DEF Locals, CanaryStatus, SameHold, SameFlow
<1>3. Other(loc.slot) \in Slots /\ loc.oldVer \in Version
  BY OtherFacts, InvFacts, LocalFields
<1>4. /\ mem' \in Journal /\ mem'.mode = mem.mode /\ mem'.active = Other(loc.slot)
      /\ mem'.slots = mem.slots /\ mem'.replicas = mem.replicas
      /\ mem'.retiring = mem.retiring /\ mem'.canary = mem.canary
  BY <1>1, <1>3, InvFacts DEF Journal
<1> QED BY <1>1, <1>2, <1>4

\* It preserves the invariant.
LEMMA DemoteInv == ASSUME Inv, RestoreStable, pc = "compensate", pc' # "bestKnown" PROVE Inv'
<1> USE DemoteEffect
<1>1. misled \in BOOLEAN
  BY DEF Inv, TypeOK
<1>2. /\ mem.mode = "blue-green" /\ mem.active = loc.slot /\ Apart(mem)
      /\ loc.stable \in proven /\ mem.slots[Other(loc.slot)].pid = loc.stable
      /\ mem.slots[loc.slot].pid = loc.cand /\ loc.cand \in proven
      /\ Other(Other(loc.slot)) = loc.slot /\ Other(loc.slot) \in Slots /\ Other(loc.slot) # NoSlot
  BY StepSets, InvFacts, OtherFacts DEF Inv, HeldOK, CanaryOK, Apart, PromotedSteps, Unrouted
<1>3. JournalIn(mem', alive, proven, next)
  BY <1>2, InvFacts, ActiveIn
<1>4. ReadOK' /\ pc' \in Steps
  BY DEF ReadOK, ReconcileSteps, Steps
<1>5. HeldOK'
  BY <1>2, StepSets DEF Inv, HeldOK, Apart, SameHold, files, procs, PromotedSteps
<1>6. CanaryOK'
  BY <1>2, StepSets DEF Inv, CanaryOK, SameHold, files, procs, PromotedSteps, NotRunning, Unrouted
<1> QED BY <1>1, <1>2, <1>3, <1>4, <1>5, <1>6, InvFacts, MoveInv DEF procs, files, SameHold

\* The record of an aborted rollout is written.
LEMMA SettleEffect ==
  ASSUME Inv, Settle, pc' # "idle"
  PROVE  /\ pc = "settle" /\ disk' = Settled /\ mem' = Settled
         /\ pc' = IF loc.keep THEN "finishAbort" ELSE "stopCanary"
         /\ UNCHANGED <<procs, route, current, loc, misled, strays, result, budget>>
BY DEF Settle, StoreOK, NoFault, Return, Settled

\* It preserves the invariant.
LEMMA SettleInv == ASSUME Inv, Settle, pc' # "idle" PROVE Inv'
<1> USE SettleEffect
<1>1. misled \in BOOLEAN
  BY DEF Inv, TypeOK
<1>2. /\ mem.active = Other(loc.slot) /\ mem.slots[mem.active].pid = loc.stable
      /\ loc.cand # loc.stable /\ loc.cand \notin loc.pre.replicas
      /\ loc.stable \in proven /\ loc.stable \in Serving(loc.pre) /\ loc.stable \notin mem.retiring
      /\ loc.pre.replicas \cap mem.retiring = {} /\ loc.legacy \subseteq loc.pre.replicas \ {loc.stable}
      /\ Other(loc.slot) # NoSlot
  BY StepSets, InvFacts, OtherFacts DEF Inv, HeldOK, CanaryOK, PromotedSteps
<1>3. pc' \in {"finishAbort", "stopCanary"} /\ pc' \in Steps
  BY DEF Steps
<1>4. ReadOK' /\ CanaryOK'
  BY <1>3, StepSets DEF ReadOK, ReconcileSteps, CanaryOK, PromotedSteps, NotRunning
<1>5. HeldOK'
  BY <1>2, <1>3, SettledFacts DEF HeldOK, Apart, procs, PromotedSteps
<1> QED BY <1>1, <1>3, <1>4, <1>5, SettledFacts, InvFacts, MoveInv DEF procs

\* The canary becomes the active slot.
LEMMA StorePromotedEffect ==
  ASSUME Inv, StorePromoted
  PROVE  /\ pc = "promote" /\ pc' \in {"promoteVersion", "compensate"}
         /\ mem' = Promoted /\ disk' \in {disk, Promoted} /\ budget' \in 0 .. budget
         /\ pc' = "promoteVersion" => disk' = Promoted
         /\ pc' = "compensate" => StoreFails(Promoted)
         /\ loc' \in Locals /\ SameHold(loc') /\ SameFlow(loc')
         /\ JournalIn(Promoted, alive, proven, next)
         /\ UNCHANGED <<procs, route, current, misled, strays, result>>
<1>1. /\ pc = "promote" /\ pc' \in {"promoteVersion", "compensate"}
      /\ StoreOK(Promoted) \/ StoreFails(Promoted)
      /\ pc' = "promoteVersion" => disk' = Promoted
      /\ pc' = "compensate" => StoreFails(Promoted)
      /\ mem' = Promoted /\ loc' = [loc EXCEPT !.oldVer = mem.ver]
      /\ UNCHANGED <<procs, route, current, misled, strays, result>>
  BY DEF StorePromoted, Step, StoreOK
<1>2. disk' \in {disk, Promoted} /\ budget' \in 0 .. budget
  BY <1>1, InvFacts, StoreFacts
<1>3. loc' \in Locals /\ SameHold(loc') /\ SameFlow(loc')
  <2>1. mem.ver \in Version
    BY InvFacts, JournalFields
  <2> QED BY <1>1, <2>1, InvFacts DEF Locals, SameHold, SameFlow
<1>4. JournalIn(Promoted, alive, proven, next)
  <2>1. /\ mem.mode = "blue-green" /\ Apart(mem) /\ mem.slots[loc.slot].pid = loc.cand
        /\ loc.cand \in proven
    BY <1>1, StepSets DEF Inv, HeldOK, CanaryOK, Apart, PromotedSteps, Unrouted
  <2> QED BY <2>1, InvFacts, PromotedFacts, ActiveIn
<1> QED BY <1>1, <1>2, <1>3, <1>4

\* It preserves the invariant.
LEMMA StorePromotedInv == ASSUME Inv, StorePromoted PROVE Inv'
<1> USE StorePromotedEffect
<1>1. misled \in BOOLEAN
  BY DEF Inv, TypeOK
<1>2. /\ mem' \in Journal /\ mem'.mode = mem.mode /\ mem'.active = loc.slot
      /\ mem'.slots = mem.slots /\ mem'.replicas = mem.replicas
      /\ mem'.retiring = mem.retiring /\ mem'.canary = "promoted"
      /\ disk'.retiring \in {disk.retiring, mem.retiring}
  BY InvFacts, PromotedFacts
<1>3. /\ mem.active = Other(loc.slot) /\ mem.slots[Other(loc.slot)].pid = loc.stable
      /\ loc.slot # NoSlot
  BY StepSets, InvFacts, OtherFacts DEF Inv, HeldOK, CanaryOK, PromotedSteps
<1>4. ReadOK' /\ pc' \in Steps
  BY DEF ReadOK, ReconcileSteps, Steps
<1>5. HeldOK'
  BY <1>2, <1>3, StepSets DEF Inv, HeldOK, Apart, SameHold, procs, PromotedSteps
<1>6. CanaryOK'
  BY <1>2, <1>3, StepSets DEF Inv, CanaryOK, SameHold, procs, PromotedSteps, NotRunning, Unrouted
<1> QED BY <1>1, <1>2, <1>4, <1>5, <1>6, InvFacts, MoveInv DEF procs, SameHold

\* The old stable instance is stopped.
LEMMA DrainOldEffect ==
  ASSUME Inv, DrainOld
  PROVE  /\ pc = "drainOld" /\ pc' = "storeFinal" /\ mem' \in Journal /\ SameBut(mem', mem)
         /\ mem'.slots[Other(loc.slot)].pid = 0 /\ mem'.slots[loc.slot] = mem.slots[loc.slot]
         /\ alive' \subseteq alive /\ alive \ alive' \subseteq {loc.stable} /\ budget' \in 0 .. budget
         /\ strays \subseteq strays' /\ strays' \subseteq strays \cup alive
         /\ JournalIn(mem', alive, proven, next)
         /\ UNCHANGED <<proven, next, route, files, loc, misled, result>>
<1> DEFINE s == Other(loc.slot)
           r == [mem.slots[s] EXCEPT !.pid = 0, !.status = "stopped"]
<1>1. /\ pc = "drainOld" /\ pc' = "storeFinal" /\ mem' = SetSlot(mem, s, r)
      /\ StopOK({loc.stable}) \/ StopFails({loc.stable})
      /\ UNCHANGED <<proven, next, route, files, loc, misled, result>>
  BY DEF DrainOld, Step
<1>2. s \in Slots /\ Other(s) = loc.slot
  BY InvFacts, OtherFacts
<1>3. r \in SlotRec /\ r.pid = 0
  BY <1>2, InvFacts, JournalFields, ClearedFacts
<1>4. mem.active # NoSlot /\ s = Other(mem.active)
  BY <1>1, StepSets DEF Inv, HeldOK, CanaryOK, PromotedSteps
<1> HIDE DEF s, r
<1>5. JournalIn(mem', alive, proven, next)
  BY <1>1, <1>2, <1>3, <1>4, InvFacts, SetSlotIn
<1>6. /\ mem' \in Journal /\ SameBut(mem', mem) /\ mem'.slots[s].pid = 0
      /\ mem'.slots[loc.slot] = mem.slots[loc.slot]
  BY <1>1, <1>2, <1>3, InvFacts, SetSlotFacts
<1>7. /\ alive' \subseteq alive /\ alive \ alive' \subseteq {loc.stable} /\ budget' \in 0 .. budget
      /\ strays \subseteq strays' /\ strays' \subseteq strays \cup alive
  BY <1>1, InvFacts, StopFacts
<1> QED BY <1>1, <1>5, <1>6, <1>7 DEF s

\* It preserves the invariant.
LEMMA DrainOldInv == ASSUME Inv, DrainOld PROVE Inv'
<1> USE DrainOldEffect
<1>1. misled \in BOOLEAN
  BY DEF Inv, TypeOK
<1>2. 0 \notin mem.retiring /\ loc.slot \in Slots
  BY InvFacts, JournalFields, PidFacts
<1>3. ReadOK' /\ pc' \in Steps
  BY DEF ReadOK, ReconcileSteps, Steps
<1>4. HeldOK'
  <2>1. Apart(mem')
    BY <1>2, StepSets, OtherFacts DEF Inv, HeldOK, Apart, SameBut, Slots
  <2> QED BY <2>1, StepSets DEF Inv, HeldOK, files, PromotedSteps, SameBut, Apart
<1>5. CanaryOK'
  BY StepSets DEF Inv, CanaryOK, files, PromotedSteps, NotRunning, Unrouted, SameBut
<1>6. strays' \subseteq Inst
  BY InvFacts
<1> QED BY <1>1, <1>3, <1>4, <1>5, <1>6, InvFacts, MoveInv DEF files

-----------------------------------------------------------------------------
(* The reconciliation.                                                     *)

\* An interrupted rollout is accepted, or there is none.
LEMMA ReconcileCanaryEffect ==
  ASSUME Inv, ReconcileCanary, pc' # "idle"
  PROVE  /\ pc = "reconcile" /\ mem = disk
         /\ UNCHANGED <<procs, current, strays, loc, result, budget, misled>>
         /\ mem' \in Journal /\ JournalIn(mem', alive, proven, next)
         /\ \/ /\ pc' = "drain" /\ mem.canary # "running" /\ UNCHANGED <<route, disk, mem>>
            \/ /\ pc' = "storeAccepted" /\ mem.canary = "running" /\ disk' = disk /\ mem.mode = "blue-green"
               /\ mem.active # NoSlot /\ Apart(mem)
               /\ mem' = Accepted(mem) /\ mem.slots[Other(mem.active)].pid \in alive
               /\ mem.slots[Other(mem.active)].pid \in proven
               /\ route' = {mem.slots[Other(mem.active)].pid}
            \/ /\ pc' = "drain" /\ mem.canary = "running" /\ route' = route /\ mem.mode = "blue-green"
               /\ mem.active # NoSlot /\ mem.slots[Other(mem.active)].pid \notin alive
               /\ mem' = AcceptedDead(mem) /\ disk' = AcceptedDead(mem)
<1> DEFINE cand == mem.slots[Other(mem.active)].pid
<1>1. pc = "reconcile" /\ mem = disk /\ UNCHANGED <<procs, current, strays>>
  BY DEF ReconcileCanary, Inv, ReadOK
<1>2. CASE /\ mem.canary # "running" /\ Step("reconcile", "drain")
           /\ UNCHANGED <<route, disk, mem, loc, budget, misled>>
  BY <1>1, <1>2, InvFacts DEF Step
<1>3. CASE /\ mem.canary = "running" /\ ~NoCandidate(mem) /\ cand \in alive /\ CallOK({cand})
           /\ Step("reconcile", "storeAccepted") /\ mem' = Accepted(mem) /\ UNCHANGED <<loc, disk>>
  <2>1. mem.mode = "blue-green" /\ mem.active # NoSlot
    BY <1>3, InvFacts, JournalFields DEF NoCandidate
  <2>2. cand \in proven
    BY <1>3, InvFacts, PidFacts DEF JournalIn
  <2>3. mem' \in Journal /\ JournalIn(mem', alive, proven, next) /\ Apart(mem)
    BY <1>3, InvFacts, AcceptedFacts, AcceptedIn
  <2> QED BY <1>1, <1>3, <2>1, <2>2, <2>3 DEF Step, CallOK, NoFault
<1>4. CASE /\ mem.canary = "running" /\ ~NoCandidate(mem) /\ cand \notin alive
           /\ StoreOK(AcceptedDead(mem)) /\ Step("reconcile", "drain")
           /\ mem' = AcceptedDead(mem) /\ UNCHANGED <<loc, route, misled>>
  <2>1. mem.mode = "blue-green" /\ mem.active # NoSlot
    BY <1>4, InvFacts, JournalFields DEF NoCandidate
  <2>2. mem' \in Journal /\ JournalIn(mem', alive, proven, next)
    BY <1>4, InvFacts, AcceptedDeadFacts, AcceptedDeadIn
  <2> QED BY <1>1, <1>4, <2>1, <2>2 DEF Step, StoreOK, NoFault
<1> QED BY <1>2, <1>3, <1>4 DEF ReconcileCanary, Return

\* A Store of the reconciled journal.
LEMMA ReconcileStoreEffect ==
  ASSUME Inv, StoreAccepted \/ StoreStopped, pc' # "idle"
  PROVE  /\ (pc = "storeAccepted" /\ pc' = "stopStable") \/ (pc = "storeStopped" /\ pc' = "drain")
         /\ disk' = mem
         /\ UNCHANGED <<procs, route, current, misled, strays, mem, loc, result, budget>>
BY DEF StoreAccepted, StoreStopped, Step, Return, StoreOK, NoFault

\* The instance that was stable is stopped.
LEMMA StopStableEffect ==
  ASSUME Inv, StopStable, pc' # "idle"
  PROVE  /\ pc = "stopStable" /\ pc' = "storeStopped" /\ mem' \in Journal
         /\ mem.active # NoSlot /\ mem.slots[mem.active].pid \in alive'
         /\ mem'.mode = mem.mode /\ mem'.active = mem.active /\ mem'.retiring = mem.retiring
         /\ mem'.replicas = mem.replicas /\ mem'.canary = "promoted"
         /\ mem'.slots[mem.active] = mem.slots[mem.active]
         /\ mem'.slots[Other(mem.active)].pid = 0
         /\ alive' \subseteq alive /\ alive \ alive' \subseteq {mem.slots[Other(mem.active)].pid}
         /\ mem.slots[Other(mem.active)].pid # mem.slots[mem.active].pid
         /\ JournalIn(mem', alive, proven, next)
         /\ UNCHANGED <<proven, next, route, files, misled, loc, strays, result, budget>>
<1> DEFINE s == Other(mem.active)
           r == [mem.slots[s] EXCEPT !.pid = 0, !.status = "stopped"]
           k == [mem EXCEPT !.canary = "promoted"]
<1>1. /\ pc = "stopStable" /\ pc' = "storeStopped" /\ mem' = SetSlot(k, s, r)
      /\ alive' = alive \ {mem.slots[s].pid}
      /\ UNCHANGED <<proven, next, route, files, misled, loc, strays, result, budget>>
  BY DEF StopStable, Step, Return, StopOK, NoFault
<1>2. mem.active # NoSlot /\ mem.slots[mem.active].pid \in alive /\ mem.active \in Slots
  BY <1>1, InvFacts, JournalFields DEF Inv, ReadOK
<1>3. s \in Slots /\ Other(s) = mem.active
  BY <1>2, OtherFacts
<1>4. r \in SlotRec /\ r.pid = 0
  BY <1>3, InvFacts, JournalFields, ClearedFacts
<1>5. mem.slots[s].pid # mem.slots[mem.active].pid
  BY <1>2, InvFacts, PidFacts, OtherFacts DEF JournalIn, Slots
<1>6. /\ k \in Journal /\ k.mode = mem.mode /\ k.active = mem.active /\ k.slots = mem.slots
      /\ k.replicas = mem.replicas /\ k.retiring = mem.retiring /\ k.canary = "promoted"
  BY InvFacts, CanaryFacts DEF CanaryStatus
<1>7. JournalIn(k, alive, proven, next)
  BY <1>2, <1>6, InvFacts DEF JournalIn
<1> HIDE DEF r, k
<1>8. JournalIn(mem', alive, proven, next)
  BY <1>1, <1>2, <1>3, <1>4, <1>6, <1>7, InvFacts, SetSlotIn
<1>9. /\ mem' \in Journal /\ SameBut(mem', k) /\ mem'.slots[s].pid = 0
      /\ mem'.slots[mem.active] = mem.slots[mem.active]
  BY <1>1, <1>3, <1>4, <1>6, SetSlotFacts
<1> QED BY <1>1, <1>2, <1>3, <1>5, <1>6, <1>8, <1>9 DEF SameBut

\* The retired instances are stopped.
LEMMA DrainEffect ==
  ASSUME Inv, Drain, pc' # "idle"
  PROVE  /\ pc = "drain" /\ pc' = "storeDrained" /\ mem' \in Journal
         /\ mem'.mode = mem.mode /\ mem'.active = mem.active /\ mem'.slots = mem.slots
         /\ mem'.replicas = mem.replicas /\ mem'.retiring = {} /\ mem'.canary = mem.canary
         /\ mem.mode = "rolling" \/ Serving(mem) \cap alive # {}
         /\ alive' \subseteq alive /\ alive \ alive' \subseteq mem.retiring \ Serving(mem)
         /\ JournalIn(mem', alive, proven, next)
         /\ UNCHANGED <<proven, next, route, files, misled, loc, strays, result, budget>>
<1>1. /\ pc = "drain" /\ pc' = "storeDrained" /\ mem' = [mem EXCEPT !.retiring = {}]
      /\ mem.mode = "rolling" \/ Serving(mem) \cap alive # {}
      /\ alive' = alive \ (mem.retiring \ Serving(mem))
      /\ UNCHANGED <<proven, next, route, files, misled, loc, strays, result, budget>>
  BY DEF Drain, Step, Return, StopOK, NoFault
<1>2. /\ mem' \in Journal /\ mem'.mode = mem.mode /\ mem'.active = mem.active
      /\ mem'.slots = mem.slots /\ mem'.replicas = mem.replicas /\ mem'.retiring = {}
      /\ mem'.canary = mem.canary
  BY <1>1, InvFacts, RetiringFacts
<1>3. JournalIn(mem', alive, proven, next)
  BY <1>2, InvFacts DEF JournalIn
<1> QED BY <1>1, <1>2, <1>3

\* The steps of a reconciliation preserve the invariant.
LEMMA ReconcileInv == ASSUME Inv, Reconcile, pc' # "idle" PROVE Inv'
<1>1. misled \in BOOLEAN
  BY DEF Inv, TypeOK
<1>2. /\ pc \in ReconcileSteps => loc.stable = 0 /\ loc.cand = 0
      /\ pc \in {"storeAccepted", "stopStable", "storeStopped"} =>
           mem.active # NoSlot /\ mem.slots[mem.active].pid \in alive
  BY DEF Inv, ReadOK
<1>3. \A s \in ReconcileSteps \ {"reconcile"} : s \in Steps /\ s \notin Held /\ s \notin WithCanary
         /\ s \notin Stepping \cup NotRunning \cup PromotedSteps /\ s \notin {"probe", "build"}
         /\ s \notin {"idle", "load", "migrate", "storeAdopted", "recoverRoute"}
  BY DEF ReconcileSteps, Steps, Held, WithCanary, Unrouted, PromotedSteps, Stepping, NotRunning
<1>4. ASSUME pc' \in ReconcileSteps \ {"reconcile"} PROVE HeldOK' /\ CanaryOK'
  BY <1>3, <1>4 DEF HeldOK, CanaryOK, PromotedSteps
<1>5. CASE ReconcileCanary
  <2> USE <1>5, ReconcileCanaryEffect
  <2>1. pc' \in {"drain", "storeAccepted"} /\ pc' \in ReconcileSteps \ {"reconcile"} /\ pc \in ReconcileSteps
    BY DEF ReconcileSteps
  <2>2. route' \subseteq proven
    BY InvFacts
  <2>3. disk' \in Journal /\ JournalIn(disk', alive, proven, next)
    BY InvFacts
  <2>4. pc' = "storeAccepted" => mem'.active # NoSlot /\ mem'.slots[mem'.active].pid \in alive'
    <3>1. Other(mem.active) # NoSlot
      BY OtherFacts
    <3> QED BY <3>1, InvFacts, AcceptedFacts DEF procs
  <2>5. ReadOK'
    BY <1>2, <2>1, <2>4 DEF ReadOK, ReconcileSteps
  <2>6. pc' \in Steps /\ HeldOK' /\ CanaryOK'
    BY <1>3, <1>4, <2>1
  <2> QED BY <1>1, <2>2, <2>3, <2>5, <2>6, InvFacts, MoveInv DEF procs
<1>6. CASE StoreAccepted \/ StoreStopped
  <2> USE <1>6, ReconcileStoreEffect
  <2>1. /\ pc' \in ReconcileSteps \ {"reconcile"} /\ pc \in ReconcileSteps /\ pc' \in {"drain", "stopStable"}
        /\ pc \in {"storeAccepted", "storeStopped"}
    BY DEF ReconcileSteps
  <2>2. ReadOK'
    BY <1>2, <2>1 DEF ReadOK, ReconcileSteps, procs
  <2> QED BY <1>1, <1>3, <1>4, <2>1, <2>2, InvFacts, MoveInv DEF procs
<1>7. CASE StopStable
  <2> USE <1>7, StopStableEffect
  <2>1. pc' \in ReconcileSteps \ {"reconcile"} /\ pc \in ReconcileSteps
    BY DEF ReconcileSteps
  <2>2. ReadOK'
    BY <1>2, <2>1 DEF ReadOK, ReconcileSteps
  <2> QED BY <1>1, <1>3, <1>4, <2>1, <2>2, InvFacts, MoveInv DEF files
<1>8. CASE Drain
  <2> USE <1>8, DrainEffect
  <2>1. pc' \in ReconcileSteps \ {"reconcile"} /\ pc \in ReconcileSteps
    BY DEF ReconcileSteps
  <2>2. ReadOK'
    BY <1>2, <2>1 DEF ReadOK, ReconcileSteps
  <2> QED BY <1>1, <1>3, <1>4, <2>1, <2>2, InvFacts, MoveInv DEF files
<1>9. CASE StoreDrained
  BY <1>9 DEF StoreDrained, Return
<1> QED BY <1>5, <1>6, <1>7, <1>8, <1>9 DEF Reconcile

\* An instance that exits by itself preserves the invariant.
LEMMA InstanceDiesInv == ASSUME Inv, InstanceDies PROVE Inv'
<1>1. PICK i \in {loc.stable, loc.cand} \cap alive : alive' = alive \ {i}
  BY DEF InstanceDies
<1>2. /\ UNCHANGED <<proven, next, route, files, pc, mem, loc, hist>> /\ Fault("die")
  BY DEF InstanceDies
<1>3. budget' \in 0 .. budget
  BY <1>2, InvFacts, FaultFacts
<1>4. pc \notin {"idle", "load"} \cup ReconcileSteps
  BY <1>1, InvFacts, PidFacts DEF Inv, ReadOK
<1>5. ReadOK'
  BY <1>2, <1>4 DEF Inv, ReadOK, ReconcileSteps, files
<1>6. HeldOK' /\ CanaryOK'
  BY <1>2 DEF Inv, HeldOK, CanaryOK, files
<1>7. pc' \in Steps
  BY <1>2 DEF Inv, TypeOK
<1>8. misled' \in BOOLEAN
  BY <1>2 DEF Inv, TypeOK, hist
<1> QED BY <1>1, <1>2, <1>3, <1>5, <1>6, <1>7, <1>8, InvFacts, MoveInv DEF files, hist


-----------------------------------------------------------------------------
(* The invariant.                                                          *)

\* An application with an active blue slot, or with a fleet of two.
LEMMA OriginFacts ==
  ASSUME Init
  PROVE  /\ route = alive /\ proven = alive /\ alive \subseteq Inst /\ next \in 1 .. MaxInst + 1
         /\ \A i \in alive : i < next
         /\ disk \in Journal /\ disk.canary = "none" /\ disk.retiring = {} /\ disk.ver = 1
         /\ \/ disk.mode = "rolling" /\ disk.active = NoSlot /\ disk.slots = EmptySlots
               /\ disk.replicas = alive
            \/ disk.mode = "blue-green" /\ disk.active = "blue" /\ disk.replicas = {}
               /\ disk.slots["blue"].pid = 1 /\ disk.slots["green"].pid = 0 /\ alive = {1}
<1>1. PICK o \in Origins : Origin(o)
  BY DEF Init
<1>2. 1 \in Version /\ 1 \in Inst /\ 1 \in Pid
  BY DEF Version, Inst, Pid
<1>3. route = alive /\ proven = alive /\ next = Cardinality(alive) + 1
  BY DEF Init
<1>4. CASE o = "rolling"
  <2>1. /\ alive = {1, 2}
        /\ disk = [NoJournal EXCEPT !.mode = "rolling", !.replicas = {1, 2}, !.ver = 1]
    BY <1>1, <1>4 DEF Origin
  <2>2. MaxInst >= 2
    BY <1>4
  <2>3. Cardinality(alive) = 2
    <3>1. IsFiniteSet({1}) /\ Cardinality({1}) = 1
      BY FS_Singleton
    <3>2. Cardinality({1} \cup {2}) = 2
      BY <3>1, FS_AddElement
    <3>3. {1, 2} = {1} \cup {2}
      OBVIOUS
    <3> QED BY <2>1, <3>2, <3>3
  <2>4. alive \subseteq Inst /\ next = 3
    BY <1>3, <2>1, <2>2, <2>3 DEF Inst
  <2>5. /\ disk \in Journal /\ disk.canary = "none" /\ disk.retiring = {} /\ disk.ver = 1
        /\ disk.mode = "rolling" /\ disk.active = NoSlot /\ disk.slots = EmptySlots
        /\ disk.replicas = alive
    BY <1>2, <2>1, <2>4, EmptyFacts DEF Journal
  <2> QED BY <1>3, <2>1, <2>2, <2>4, <2>5
<1>5. CASE o # "rolling"
  <2> DEFINE r == [pid |-> 1, port |-> 1, ver |-> 1, status |-> "running"]
             S == [EmptySlots EXCEPT !["blue"] = r]
  <2>1. r \in SlotRec /\ r.pid = 1
    BY <1>2 DEF SlotRec
  <2>2. /\ alive = {1}
        /\ disk = [NoJournal EXCEPT !.active = "blue", !.ver = 1, !.slots["blue"] = r]
    BY <1>1, <1>5 DEF Origin
  <2> HIDE DEF r
  <2>3. S \in [Slots -> SlotRec] /\ S["blue"] = r /\ S["green"] = EmptySlot
    BY <2>1, EmptyFacts DEF Slots
  <2>4. disk = [NoJournal EXCEPT !.active = "blue", !.ver = 1, !.slots = S]
    BY <2>2, EmptyFacts DEF Journal
  <2> HIDE DEF S
  <2>5. /\ disk \in Journal /\ disk.canary = "none" /\ disk.retiring = {} /\ disk.ver = 1
        /\ disk.mode = "blue-green" /\ disk.active = "blue" /\ disk.replicas = {}
        /\ disk.slots = S
    BY <1>2, <2>3, <2>4, EmptyFacts DEF Journal, Slots
  <2>6. Cardinality(alive) = 1
    BY <2>2, FS_Singleton
  <2>7. alive \subseteq Inst /\ next = 2
    BY <1>2, <1>3, <2>2, <2>6
  <2>8. next \in 1 .. MaxInst + 1 /\ \A i \in alive : i < next
    BY <2>2, <2>7
  <2>9. disk.slots["blue"].pid = 1 /\ disk.slots["green"].pid = 0
    BY <2>1, <2>3, <2>5, EmptyFacts
  <2> QED BY <1>3, <2>2, <2>5, <2>7, <2>8, <2>9
<1> QED BY <1>4, <1>5

\* The invariant holds at first.
LEMMA InitInv == Init => Inv
<1> SUFFICES ASSUME Init PROVE Inv
  OBVIOUS
<1>1. /\ current = 1 /\ pc = "idle" /\ mem = NoJournal /\ loc = NoLocals
      /\ budget = MaxFaults /\ strays = {} /\ result = "none"
  BY DEF Init
<1>2. misled \in BOOLEAN
  BY DEF Init
<1>3. TypeOK
  <2>1. pc \in Steps /\ current \in Version /\ budget \in 0 .. MaxFaults
    BY <1>1 DEF Steps, Version
  <2> QED BY <1>1, <1>2, <2>1, OriginFacts, EmptyFacts DEF TypeOK
<1>4. JournalsOK
  <2>1. next \in Nat \ {0} /\ (disk.mode = "blue-green" => 1 < next)
    BY OriginFacts
  <2>2. JournalIn(disk, alive, proven, next)
    <3>1. EmptySlots["blue"].pid = 0 /\ EmptySlots["green"].pid = 0
      BY EmptyFacts DEF Slots
    <3>2. CASE disk.mode = "rolling"
      <4>1. /\ disk.active = NoSlot /\ disk.replicas = alive /\ disk.retiring = {} /\ disk.canary = "none"
            /\ disk.slots["blue"].pid = 0 /\ disk.slots["green"].pid = 0 /\ proven = alive
            /\ \A i \in alive : i < next
        BY <3>1, <3>2, OriginFacts
      <4> QED BY <2>1, <3>2, <4>1 DEF JournalIn
    <3>3. CASE disk.mode = "blue-green"
      <4>1. /\ disk.active = "blue" /\ disk.replicas = {} /\ disk.retiring = {} /\ disk.canary = "none"
            /\ disk.slots["blue"].pid = 1 /\ disk.slots["green"].pid = 0 /\ proven = {1}
        BY <3>3, OriginFacts
      <4> QED BY <2>1, <3>3, <4>1 DEF JournalIn, NoSlot
    <3> QED BY <3>2, <3>3, OriginFacts
  <2>3. JournalIn(NoJournal, alive, proven, next)
    BY <2>1, EmptyIn
  <2> QED BY <1>1, <2>2, <2>3, EmptyFacts DEF JournalsOK
<1>5. OnlyProvenRouted /\ Launched
  BY OriginFacts DEF OnlyProvenRouted, Launched
<1>6. ReadOK /\ HeldOK /\ CanaryOK
  BY <1>1, EmptyFacts, StepSets DEF ReadOK, HeldOK, CanaryOK, ReconcileSteps, PromotedSteps, NotRunning
<1> QED BY <1>3, <1>4, <1>5, <1>6 DEF Inv

\* Every step preserves it.
LEMMA NextInv == Inv /\ [Next]_vars => Inv'
<1> SUFFICES ASSUME Inv, [Next]_vars PROVE Inv'
  OBVIOUS
<1>1. CASE UNCHANGED vars
  <2>1. UNCHANGED <<alive, proven, next, route, disk, current, pc, mem, loc, budget, misled, strays, result>>
    BY <1>1 DEF vars, procs, files, hist
  <2>2. TypeOK' /\ OnlyProvenRouted' /\ Launched'
    BY <2>1 DEF Inv, TypeOK, OnlyProvenRouted, Launched
  <2>3. JournalsOK' /\ ReadOK' /\ HeldOK' /\ CanaryOK'
    BY <2>1 DEF Inv, JournalsOK, ReadOK, HeldOK, CanaryOK
  <2> QED BY <2>2, <2>3 DEF Inv
<1>2. CASE Next /\ pc' = "idle"
  BY <1>2, ReturnsInv
<1>3. CASE Prepare /\ pc' # "idle"
  <2>1. ~Refuse
    BY <1>3 DEF Refuse, Return
  <2>2. CASE RecoverRoute
    BY <2>2, RecoverRouteInv, FlowStepsInv
  <2>3. CASE StopUnrouted
    BY <2>3, StopUnhealthyInv, FlowStepsInv
  <2> QED BY <1>3, <2>1, <2>2, <2>3, BeginInv, ResolveStableInv, MigrateToInv, RecoverStaleSlotsInv,
             CheckEnrolledInv, LaunchCanaryInv, HealthPassesInv, FlowStepsInv, Zenon DEF Prepare
<1>4. CASE TrafficSteps /\ pc' # "idle"
  BY <1>4, FlowStepsInv, Zenon DEF TrafficSteps
<1>5. CASE Finish /\ pc' # "idle"
  <2>1. CASE RestoreStable
    <3>1. pc \in {"abort", "compensate"}
      BY <2>1 DEF RestoreStable, Step
    <3> QED BY <2>1, <3>1, DemoteInv, FlowStepsInv
  <2>2. CASE FinishAbort
    <3>1. ~loc.switched
      BY <1>5, <2>2 DEF FinishAbort, Return
    <3> QED BY <2>2, <3>1, FlowStepsInv
  <2>3. ~StoreBestKnown /\ ~UndoMigration /\ ~StoreFinal
    BY <1>5 DEF StoreBestKnown, UndoMigration, StoreFinal, Return
  <2> QED BY <1>5, <2>1, <2>2, <2>3, SettleInv, StorePromotedInv, DrainOldInv, FlowStepsInv, Zenon DEF Finish
<1>6. CASE Reconcile /\ pc' # "idle"
  BY <1>6, ReconcileInv
<1>7. CASE InstanceDies
  BY <1>7, InstanceDiesInv
<1>8. ~(Crash /\ pc' # "idle")
  BY DEF Crash, Return
<1> QED BY <1>1, <1>2, <1>3, <1>4, <1>5, <1>6, <1>7, <1>8 DEF Next

\* The journals, the stable instance and the canary an operation holds, and the
\* routed instances, are right at every step of rollout.go, whatever fails.
THEOREM RolloutInvariant == Spec => []Inv
BY InitInv, NextInv, PTL DEF Spec

\* Every variable of the rollout stays within its type.
THEOREM TypeCorrect == Spec => []TypeOK
<1>1. Inv => TypeOK
  BY DEF Inv
<1> QED BY <1>1, RolloutInvariant, PTL

\* "Traffic is never routed to the canary before it passed the same health gate
\* blue-green uses" (rollout.go), for every number of instances, steps and faults.
THEOREM NeverRoutedUnproven == Spec => []OnlyProvenRouted
<1>1. Inv => OnlyProvenRouted
  BY DEF Inv
<1> QED BY <1>1, RolloutInvariant, PTL


-----------------------------------------------------------------------------
(* The proxy's targets: what keeps the journal on disk calm.               *)

\* Arithmetic of faults: one more fault leaves one less to meet.
LEMMA OneFault == \A b, c, m \in Int : c = b - 1 /\ b <= m => c + 1 <= m /\ c # m
OBVIOUS

\* Two faults met leave two less.
LEMMA TwoFaults == \A b, c, m \in Int : c = b - 1 /\ b + 1 <= m => c + 2 <= m /\ c + 1 <= m
OBVIOUS

\* The instances a journal calls serving were launched.
LEMMA ServingFacts ==
  ASSUME NEW j \in Journal, NEW A, NEW P, NEW n \in Nat, JournalIn(j, A, P, n)
  PROVE  /\ Serving(j) \subseteq Inst /\ \A i \in Serving(j) : i < n
         /\ j.active # NoSlot => j.slots[j.active].pid < n /\ j.slots[j.active].pid # n
         /\ j.mode = "blue-green" /\ j.active # NoSlot => Serving(j) = {j.slots[j.active].pid} \ {0}
         /\ j.mode = "blue-green" /\ j.active = NoSlot => Serving(j) = {}
         /\ j.mode = "rolling" => Serving(j) = j.replicas
<1>1. j.active # NoSlot => /\ j.slots[j.active].pid \in Pid /\ j.slots[j.active].pid < n
                           /\ j.slots[j.active].pid # n
  BY JournalFields DEF JournalIn, Slots, Pid
<1>2. j.replicas \subseteq Inst /\ \A i \in j.replicas : i < n
  BY JournalFields DEF JournalIn
<1> QED BY <1>1, <1>2, PidFacts, JournalFields DEF Serving

\* Stops, a launch and lost targets disturb nothing.
LEMMA CalmKept ==
  ASSUME Inv, Calm, pc \notin {"idle", "settle"}, disk' = disk, route' \subseteq route,
         \A i \in alive' : i \in alive \/ i = next, misled => misled'
  PROVE  Calm'
<1>1. misled \/ (~SideRouted(disk) /\ ~RetiringRouted(disk))
  BY DEF Calm
<1>2. CASE misled
  BY <1>2, Zenon DEF Calm
<1>3. CASE ~SideRouted(disk) /\ ~RetiringRouted(disk)
  <2>1. /\ disk.active # NoSlot => disk.slots[disk.active].pid # next
        /\ next \notin Serving(disk)
    BY InvFacts, ServingFacts
  <2>2. ~SideRouted(disk)'
    BY <1>3, <2>1 DEF SideRouted
  <2>3. ~RetiringRouted(disk)'
    BY <1>3, <2>1 DEF RetiringRouted, Serving
  <2> QED BY <2>2, <2>3 DEF Calm
<1> QED BY <1>1, <1>2, <1>3

\* A Store of a journal that misplaces nothing.
LEMMA CalmStored ==
  ASSUME Inv, Calm, pc \notin {"idle", "settle"}, UNCHANGED <<alive, route>>, misled => misled',
         NEW j, disk' \in {disk, j}, misled \/ (~SideRouted(j) /\ ~RetiringRouted(j))
  PROVE  Calm'
<1>1. CASE misled
  BY <1>1, Zenon DEF Calm
<1>2. CASE ~SideRouted(j) /\ ~RetiringRouted(j) /\ disk' = j
  <2>1. ~SideRouted(disk)' /\ ~RetiringRouted(disk)'
    BY <1>2 DEF SideRouted, RetiringRouted, Serving
  <2> QED BY <2>1 DEF Calm
<1>3. CASE disk' = disk
  BY <1>3, CalmKept
<1> QED BY <1>1, <1>2, <1>3

\* New targets that are neither retired nor beside the active slot.
LEMMA CalmRouted ==
  ASSUME disk' = disk, disk.canary = "running", disk.retiring \cap route' = {}
  PROVE  Calm'
BY DEF Calm, SideRouted, RetiringRouted

\* Where an operation that goes on leaves the traffic.
Moved == Calm' /\ SplitOK' /\ BackOK' /\ StopsOK' /\ StartOK'

\* The end of an operation asks nothing but calm, and a rollout to converge.
LEMMA IdleTraffic ==
  ASSUME pc' = "idle", Calm', RolloutConverges'
  PROVE  Traffic'
<1>1. SplitOK' /\ BackOK'
  BY DEF SplitOK, BackOK, Unrouted, PromotedSteps
<1>2. StopsOK' /\ StartOK'
  BY StepSets DEF StopsOK, StartOK, Unrouted
<1> QED BY <1>1, <1>2 DEF Traffic

\* An operation that goes on has not ended.
LEMMA MovedTraffic == ASSUME Moved, pc' # "idle" PROVE Traffic'
BY DEF Moved, Traffic, RolloutConverges


-----------------------------------------------------------------------------
(* The traffic, up to the canary's launch.                                 *)

\* An operation that starts after two faults is misled.
LEMMA BeginTraffic == ASSUME Inv, Traffic, Begin PROVE Moved
<1> USE BeginEffect
<1>1. Calm'
  <2>1. CASE misled \/ budget + 2 <= MaxFaults
    BY <2>1, Zenon DEF Calm
  <2>2. CASE ~misled /\ ~(budget + 2 <= MaxFaults)
    <3>1. ~SideRouted(disk) /\ ~RetiringRouted(disk)
      BY <2>2 DEF Traffic, Calm
    <3> QED BY <3>1 DEF Calm, SideRouted, RetiringRouted, Serving, procs, files
  <2> QED BY <2>1, <2>2
<1>2. SplitOK' /\ BackOK'
  BY DEF SplitOK, BackOK, Unrouted, PromotedSteps
<1>3. StopsOK' /\ StartOK'
  BY StepSets DEF StopsOK, StartOK, Unrouted, Recorded, procs, files
<1> QED BY <1>1, <1>2, <1>3 DEF Moved

\* A rollout that finds no interrupted one finds the traffic with the instances
\* the journal calls serving.
LEMMA ResolveStableTraffic == ASSUME Inv, Traffic, ResolveStable PROVE Moved
<1> USE ResolveStableEffect
<1>1. /\ mem = disk /\ loc.pre = disk /\ mem \in Journal /\ strays = alive \ Recorded(mem)
      /\ pc' \in {"migrate", "recoverRoute"} /\ JournalIn(mem, alive, proven, next) /\ next \in Nat
      /\ mem.mode \in {"rolling", "blue-green"}
  BY InvFacts, JournalFields DEF Inv, ReadOK, Traffic, StartOK
<1>2. UNCHANGED <<alive, route, disk, mem, strays>> /\ misled' = misled /\ (misled => misled')
  BY DEF procs, files
<1>3. Calm'
  BY <1>2, CalmKept DEF Traffic
<1>4. misled \/ (~SideRouted(mem) /\ ~RetiringRouted(mem))
  BY <1>1 DEF Traffic, Calm
<1>5. ~RetiringRouted(mem) => mem.retiring \cap route = {}
  BY DEF RetiringRouted
<1>6. mem.mode # "rolling" => /\ mem.slots[mem.active].pid \in alive
                              /\ Serving(mem) = {loc'.stable} /\ mem.replicas = {}
  BY <1>1, InvFacts, PidFacts, ServingFacts DEF JournalIn
<1>7. ~SideRouted(mem) /\ mem.mode # "rolling" /\ mem.canary # "running" =>
        mem.slots[Other(mem.active)].pid \notin route
  BY <1>6 DEF SideRouted
<1>8. SplitOK' /\ BackOK'
  BY <1>1 DEF SplitOK, BackOK, Unrouted, PromotedSteps
<1>9. StopsOK'
  <2>1. pc' = "recoverRoute" => misled \/ mem.canary = "running" \/ mem.slots[Other(mem.active)].pid \notin route
    BY <1>4, <1>7
  <2>2. misled \/ (mem.retiring \cup disk.retiring) \cap route = {}
    BY <1>1, <1>4, <1>5
  <2> QED BY <1>1, <1>2, <2>1, <2>2 DEF StopsOK
<1>10. ~SideRouted(mem) /\ ~RetiringRouted(mem) /\ mem.canary # "running" =>
         (route \cap alive) \ strays \subseteq Serving(mem)
  <2> SUFFICES ASSUME ~SideRouted(mem), ~RetiringRouted(mem), mem.canary # "running",
                      NEW i \in route, i \in alive, i \notin strays
               PROVE  i \in Serving(mem)
    OBVIOUS
  <2>1. i \in Recorded(mem) /\ i \notin mem.retiring /\ i # 0
    BY <1>1, <1>5, InvFacts, PidFacts
  <2>2. i \in mem.replicas \/ i = mem.slots["blue"].pid \/ i = mem.slots["green"].pid
    BY <2>1 DEF Recorded, Slots
  <2>3. CASE mem.mode = "rolling"
    <3>1. mem.slots["blue"].pid = 0 /\ mem.slots["green"].pid = 0
      BY <1>1, <2>3 DEF JournalIn
    <3> QED BY <1>1, <2>1, <2>2, <2>3, <3>1, ServingFacts
  <2>4. CASE mem.mode # "rolling"
    <3>1. mem.active \in Slots
      BY <1>1, <2>4, JournalFields
    <3>2. i = mem.slots[mem.active].pid
      BY <1>6, <1>7, <2>2, <2>4, <3>1, OtherFacts DEF Slots
    <3> QED BY <1>6, <2>4, <3>2
  <2> QED BY <2>3, <2>4
<1>11. StartOK'
  <2>1. mem.canary # "running" => AtRest(Serving(loc.pre))'
    <3>1. CASE misled
      BY <1>2, <3>1, Zenon DEF AtRest
    <3>2. CASE ~misled
      <4>1. Serving(loc.pre)' = Serving(mem)
        BY <1>1 DEF Serving
      <4> QED BY <1>2, <1>4, <1>10, <3>2, <4>1 DEF AtRest
    <3> QED BY <3>1, <3>2
  <2>2. pc' = "recoverRoute" => Serving(disk)' = {loc'.stable}
    <3>1. Serving(disk)' = Serving(mem)
      BY <1>1, <1>2 DEF Serving
    <3> QED BY <1>6, <3>1
  <2> QED BY <1>1, <1>2, <2>1, <2>2 DEF StartOK, Unrouted
<1> QED BY <1>3, <1>8, <1>9, <1>11 DEF Moved

\* A journal without the fleet misplaces nothing.
LEMMA EmptiedCalm == ASSUME NEW j \in Journal PROVE ~SideRouted(Emptied(j)) /\ ~RetiringRouted(Emptied(j))
BY EmptiedFacts DEF SideRouted, RetiringRouted, Serving

\* The migration leaves the traffic where it is.
LEMMA MigrateToTraffic == ASSUME Inv, Traffic, MigrateTo, pc' # "idle" PROVE Moved
<1> USE MigrateToEffect
<1>1. UNCHANGED <<alive, route>> /\ misled' = misled /\ (misled => misled') /\ mem = disk
  BY DEF procs, Inv, ReadOK
<1>2. Calm'
  BY <1>1, InvFacts, EmptiedCalm, CalmStored DEF Traffic
<1>3. SplitOK' /\ BackOK'
  BY DEF SplitOK, BackOK, Unrouted, PromotedSteps
<1>4. StopsOK'
  <2>1. mem'.slots[Other(mem'.active)].pid = 0 /\ 0 \notin route
    BY InvFacts, OtherFacts, PidFacts
  <2>2. misled \/ mem.retiring \cap route = {}
    BY <1>1 DEF Traffic, StopsOK
  <2> QED BY <1>1, <2>1, <2>2 DEF StopsOK
<1>5. StartOK'
  <2>1. loc.pre.mode = "rolling" /\ (mem.canary # "running" => AtRest(Serving(loc.pre)))
    BY DEF Inv, ReadOK, Traffic, StartOK
  <2>2. Serving(loc.pre)' = Serving(loc.pre)
    BY DEF Serving
  <2>3. AtRest(Serving(loc.pre)) => AtRest(Serving(loc.pre))'
    BY <1>1, <2>2 DEF AtRest
  <2> QED BY <2>1, <2>3 DEF StartOK, Unrouted
<1> QED BY <1>2, <1>3, <1>4, <1>5 DEF Moved


\* The traffic is with the instances S when processes stop and strays appear.
LEMMA AtRestKept ==
  ASSUME loc'.pre = loc.pre, AtRest(Serving(loc.pre)), route' = route \/ misled',
         \A i \in alive' \cap route : i \in alive, strays \subseteq strays', misled => misled'
  PROVE  AtRest(Serving(loc.pre))'
<1>1. CASE misled \/ misled'
  <2>1. misled'
    BY <1>1, Zenon
  <2> QED BY <2>1, Zenon DEF AtRest
<1>2. CASE ~misled /\ ~misled'
  <2>1. Serving(loc.pre)' = Serving(loc.pre)
    BY DEF Serving
  <2>2. (route \cap alive) \ strays \subseteq Serving(loc.pre) /\ route' = route
    BY <1>2 DEF AtRest
  <2> QED BY <2>1, <2>2 DEF AtRest
<1> QED BY <1>1, <1>2

\* The journal of a rollout that has not promoted its canary.
LEMMA HeldServing ==
  ASSUME Inv, pc \in Held \ PromotedSteps
  PROVE  /\ Serving(mem) = {loc.stable} /\ loc.stable # 0 /\ mem.active # NoSlot /\ mem.active \in Slots
         /\ mem.slots[mem.active].pid = loc.stable
         /\ mem.slots[Other(mem.active)].pid # loc.stable
         /\ pc \in WithCanary => Other(mem.active) = loc.slot /\ mem.slots[Other(mem.active)].pid = loc.cand
<1>1. /\ mem.mode = "blue-green" /\ mem.active # NoSlot /\ mem.active \in Slots
      /\ mem.slots[mem.active].pid = loc.stable /\ loc.stable \in Inst
  BY InvFacts, JournalFields DEF Inv, HeldOK
<1>2. Serving(mem) = {loc.stable} /\ loc.stable # 0
  BY <1>1, PidFacts DEF Serving
<1>3. mem.slots[Other(mem.active)].pid # loc.stable
  BY <1>1, <1>2, InvFacts, OtherFacts DEF JournalIn, Slots
<1>4. pc \in WithCanary => Other(mem.active) = loc.slot /\ mem.slots[Other(mem.active)].pid = loc.cand
  BY InvFacts, OtherFacts DEF Inv, CanaryOK
<1> QED BY <1>1, <1>2, <1>3, <1>4

\* Such a journal misplaces nothing as long as the canary has no traffic.
LEMMA HeldCalm ==
  ASSUME misled \/ mem.retiring \cap route = {},
         misled \/ mem.canary = "running" \/ mem.slots[Other(mem.active)].pid \notin route
  PROVE  misled \/ (~SideRouted(mem) /\ ~RetiringRouted(mem))
BY DEF SideRouted, RetiringRouted

\* Stores of the journal in memory leave the traffic where it is.
LEMMA StoreTraffic ==
  ASSUME Inv, Traffic,
         StoreAdopted \/ StoreRecoveredAborted \/ StoreStarting \/ StoreRunning \/ StoreFailed
  PROVE  Moved
<1> USE StoreFlow
<1>1. /\ UNCHANGED <<alive, route, strays, mem, loc>> /\ misled' = misled /\ (misled => misled')
      /\ disk' \in {disk, mem} /\ pc \in Held
  BY DEF procs, Flows
<1>2. /\ \/ pc = "storeAdopted" /\ pc' = "recoverRoute"
         \/ pc = "storeAborted" /\ pc' = "recover"
         \/ pc = "storeStarting" /\ pc' \in {"health", "stopUnstarted"}
         \/ pc = "storeRunning" /\ pc' \in {"step", "stopUnhealthy"}
         \/ pc = "storeFailed" /\ pc' = "undo"
      /\ pc' = "step" => disk' = mem
  BY DEF StoreAdopted, StoreRecoveredAborted, StoreStarting, StoreRunning, StoreFailed, Step, StoreOK
<1>3. pc \in Held \ PromotedSteps /\ (pc \in {"storeStarting", "storeRunning"} => pc \in WithCanary)
  BY <1>1, <1>2, StepSets DEF PromotedSteps
<1>4. misled \/ (mem.retiring \cup disk.retiring) \cap route = {}
  BY <1>1 DEF Traffic, StopsOK
<1>5. pc \in {"storeStarting", "storeRunning"} => loc.cand \notin route
  BY DEF Traffic, SplitOK, Unrouted
<1>6. misled \/ mem.canary = "running" \/ mem.slots[Other(mem.active)].pid \notin route
  BY <1>2, <1>3, <1>5, HeldServing DEF Traffic, StopsOK
<1>7. Calm'
  <2>1. misled \/ (~SideRouted(mem) /\ ~RetiringRouted(mem))
    BY <1>1, <1>4, <1>6, HeldCalm
  <2>2. Calm /\ pc \notin {"idle", "settle"}
    BY <1>2 DEF Traffic
  <2> QED BY <1>1, <2>1, <2>2, CalmStored
<1>8. SplitOK'
  <2>1. pc = "storeRunning" => mem.canary = "running"
    BY DEF Traffic, SplitOK
  <2> QED BY <1>1, <1>2, <1>5, <2>1 DEF SplitOK, Unrouted, PromotedSteps
<1>9. BackOK'
  BY <1>2 DEF BackOK
<1>10. StopsOK'
  BY <1>1, <1>2, <1>4, <1>6 DEF StopsOK
<1>11. StartOK'
  <2>1. \/ AtRest(Serving(loc.pre))
        \/ pc = "storeAdopted" /\ mem.canary = "running"
    BY <1>2 DEF Traffic, StartOK, Unrouted
  <2>2. AtRest(Serving(loc.pre)) => AtRest(Serving(loc.pre))'
    BY <1>1, AtRestKept
  <2>3. \/ loc.pre.mode # "blue-green"
        \/ Serving(disk) = {loc.stable}
    BY <1>2 DEF Traffic, StartOK, Unrouted
  <2>4. Serving(disk)' \in {Serving(disk), Serving(mem)}
    BY <1>1 DEF Serving
  <2>5. Serving(mem) = {loc.stable}
    BY <1>3, HeldServing
  <2> QED BY <1>1, <1>2, <2>1, <2>2, <2>3, <2>4, <2>5 DEF StartOK, Unrouted
<1> QED BY <1>7, <1>8, <1>9, <1>10, <1>11 DEF Moved

\* Nor do the decisions that touch nothing.
LEMMA DecideTraffic ==
  ASSUME Inv, Traffic, BuildFails \/ HealthFails \/ Cancelled \/ VerifyPasses \/ VerifyFails
  PROVE  Moved
<1> USE DecideFlow
<1>1. /\ UNCHANGED <<alive, route, strays, mem, disk, budget>> /\ misled' = misled /\ (misled => misled')
      /\ pc \in Held /\ SameHold(loc') /\ loc'.switched = loc.switched
      /\ loc'.pre = loc.pre /\ loc'.cand = loc.cand /\ loc'.stable = loc.stable
  BY DEF procs, files, Flows, SameHold
<1>2. \/ pc = "build" /\ pc' = "undo"
      \/ pc = "health" /\ pc' = "stopUnhealthy"
      \/ pc = "step" /\ pc' = "abort"
      \/ pc = "verify" /\ pc' \in {"abort", "step", "promote", "stopLegacy"}
  BY DEF BuildFails, HealthFails, Cancelled, VerifyPasses, VerifyFails, Step
<1>3. Calm'
  BY <1>1, <1>2, CalmKept DEF Traffic
<1>4. SplitOK'
  <2>1. pc = "verify" => /\ loc.switched /\ route = StepTargets /\ route \subseteq {loc.stable, loc.cand}
                         /\ mem.canary = "running" /\ disk.canary = "running"
    BY DEF Traffic, SplitOK, StepTargets
  <2>2. pc = "verify" /\ loc.step + 1 = NSteps => route = {loc.cand}
    <3>1. loc.step \in Nat
      BY InvFacts, LocalFields
    <3> QED BY <2>1, <3>1 DEF StepTargets
  <2>3. pc = "health" => loc.cand \notin route
    BY DEF Traffic, SplitOK, Unrouted
  <2>4. pc = "step" => mem.canary = "running" /\ disk.canary = "running"
    BY DEF Traffic, SplitOK
  <2> QED BY <1>1, <1>2, <2>1, <2>2, <2>3, <2>4 DEF SplitOK, Unrouted, PromotedSteps
<1>5. BackOK'
  <2>1. pc' = "abort" => loc.switched \/ loc.cand \notin route
    BY <1>2 DEF Traffic, SplitOK
  <2> QED BY <1>1, <1>2, <2>1 DEF BackOK
<1>6. StopsOK'
  <2>1. misled \/ (mem.retiring \cup disk.retiring) \cap route = {}
    BY <1>1 DEF Traffic, StopsOK
  <2> QED BY <1>1, <1>2, <2>1 DEF StopsOK
<1>7. StartOK'
  <2>1. loc.switched \/ AtRest(Serving(loc.pre))
    BY <1>2 DEF Traffic, StartOK, Unrouted, SplitOK
  <2>2. AtRest(Serving(loc.pre)) => AtRest(Serving(loc.pre))'
    BY <1>1, AtRestKept
  <2>3. pc \in {"build", "health"} => (loc.pre.mode = "blue-green" => Serving(disk) = {loc.stable})
    BY DEF Traffic, StartOK, Unrouted
  <2>4. pc \in {"build", "health"} => AtRest(Serving(loc.pre))
    BY DEF Traffic, StartOK, Unrouted
  <2>5. Serving(disk)' = Serving(disk)
    BY <1>1 DEF Serving
  <2> QED BY <1>1, <1>2, <2>1, <2>2, <2>3, <2>4, <2>5 DEF StartOK, Unrouted
<1> QED BY <1>3, <1>4, <1>5, <1>6, <1>7 DEF Moved


\* The traffic of an interrupted rollout goes back to the stable instance.
LEMMA RecoverRouteTraffic == ASSUME Inv, Traffic, RecoverRoute PROVE Moved
<1>1. CASE mem.canary # "running"
  <2> USE <1>1, RecoverRouteFlow
  <2>1. /\ UNCHANGED <<alive, route, strays, mem, disk, loc>> /\ misled' = misled /\ (misled => misled')
        /\ pc \in Held
    BY DEF procs, files, Flows
  <2>2. Calm'
    BY <2>1, CalmKept DEF Traffic
  <2>3. SplitOK' /\ BackOK'
    BY DEF SplitOK, BackOK, Unrouted, PromotedSteps
  <2>4. StopsOK'
    BY <2>1 DEF Traffic, StopsOK
  <2>5. StartOK'
    <3>1. AtRest(Serving(loc.pre)) /\ (loc.pre.mode = "blue-green" => Serving(disk) = {loc.stable})
      BY DEF Traffic, StartOK
    <3>2. AtRest(Serving(loc.pre))' /\ Serving(disk)' = Serving(disk)
      BY <2>1, <3>1, AtRestKept DEF Serving
    <3> QED BY <2>1, <3>1, <3>2 DEF StartOK, Unrouted
  <2> QED BY <2>2, <2>3, <2>4, <2>5 DEF Moved
<1>2. CASE mem.canary = "running"
  <2> USE <1>2, RecoverRouteEffect
  <2>1. UNCHANGED <<alive, strays, disk, loc>> /\ pc \in Held \ PromotedSteps
    BY StepSets DEF procs, files, PromotedSteps
  <2>2. /\ loc.stable \notin mem.retiring \cup disk.retiring /\ loc.stable \in Serving(loc.pre)
        /\ mem.slots[Other(mem.active)].pid # loc.stable
    BY <2>1, HeldServing DEF Inv, HeldOK
  <2>3. Calm'
    <3>1. CASE misled'
      BY <3>1, Zenon DEF Calm
    <3>2. CASE ~misled'
      BY <2>1, <2>2, <3>2, CalmRouted
    <3> QED BY <3>1, <3>2
  <2>4. SplitOK' /\ BackOK'
    BY DEF SplitOK, BackOK, Unrouted, PromotedSteps
  <2>5. StopsOK'
    BY <2>1, <2>2 DEF StopsOK
  <2>6. StartOK'
    <3>1. loc.pre.mode = "blue-green" => Serving(disk) = {loc.stable}
      BY DEF Traffic, StartOK
    <3>2. Serving(disk)' = Serving(disk) /\ Serving(loc.pre)' = Serving(loc.pre)
      BY <2>1 DEF Serving
    <3>3. misled' \/ route' \subseteq Serving(loc.pre)
      BY <2>2
    <3>4. AtRest(Serving(loc.pre))'
      BY <3>2, <3>3 DEF AtRest
    <3> QED BY <2>1, <3>1, <3>2, <3>4 DEF StartOK, Unrouted
  <2> QED BY <2>3, <2>4, <2>5, <2>6 DEF Moved
<1> QED BY <1>1, <1>2

\* The stale instance has no traffic, and the traffic stays.
LEMMA RecoverStaleSlotsTraffic == ASSUME Inv, Traffic, RecoverStaleSlots, pc' # "idle" PROVE Moved
<1> USE RecoverStaleSlotsEffect
<1>1. UNCHANGED <<route, disk, strays>> /\ misled' = misled /\ (misled => misled') /\ pc \in Held
  BY StepSets DEF files
<1>2. Calm'
  BY <1>1, CalmKept DEF Traffic
<1>3. SplitOK' /\ BackOK'
  BY DEF SplitOK, BackOK, Unrouted, PromotedSteps
<1>4. StopsOK'
  <2>1. misled \/ (mem.retiring \cup disk.retiring) \cap route = {}
    BY <1>1 DEF Traffic, StopsOK
  <2> QED BY <1>1, <2>1 DEF StopsOK, SameBut
<1>5. StartOK'
  <2>1. AtRest(Serving(loc.pre)) /\ (loc.pre.mode = "blue-green" => Serving(disk) = {loc.stable})
    BY DEF Traffic, StartOK
  <2>2. AtRest(Serving(loc.pre))' /\ Serving(disk)' = Serving(disk)
    BY <1>1, <2>1, AtRestKept DEF Serving
  <2> QED BY <1>1, <2>1, <2>2 DEF StartOK, Unrouted
<1> QED BY <1>2, <1>3, <1>4, <1>5 DEF Moved

\* The question to the proxy moves nothing.
LEMMA CheckEnrolledTraffic == ASSUME Inv, Traffic, CheckEnrolled PROVE Moved
<1> USE CheckEnrolledEffect
<1>1. /\ UNCHANGED <<alive, route, disk, strays, mem>> /\ misled' = misled /\ (misled => misled')
      /\ pc \in Held
  BY StepSets DEF files, procs
<1>2. Calm'
  BY <1>1, CalmKept DEF Traffic
<1>3. SplitOK' /\ BackOK'
  BY <1>1 DEF SplitOK, BackOK, Unrouted, PromotedSteps
<1>4. StopsOK'
  <2>1. misled \/ (mem.retiring \cup disk.retiring) \cap route = {}
    BY <1>1 DEF Traffic, StopsOK
  <2> QED BY <1>1, <2>1 DEF StopsOK
<1>5. StartOK'
  <2>1. AtRest(Serving(loc.pre)) /\ (loc.pre.mode = "blue-green" => Serving(disk) = {loc.stable})
    BY DEF Traffic, StartOK
  <2>2. AtRest(Serving(loc.pre))' /\ Serving(disk)' = Serving(disk)
    BY <1>1, <2>1, AtRestKept DEF Serving, SameHold
  <2> QED BY <1>1, <2>1, <2>2 DEF StartOK, Unrouted, SameHold
<1> QED BY <1>2, <1>3, <1>4, <1>5 DEF Moved

\* A canary is launched without traffic.
LEMMA LaunchCanaryTraffic == ASSUME Inv, Traffic, LaunchCanary PROVE Moved
<1> USE LaunchCanaryEffect
<1>1. UNCHANGED <<route, disk, strays>> /\ misled' = misled /\ (misled => misled') /\ pc \in Held
  BY StepSets DEF files
<1>2. next \notin route
  BY InvFacts DEF Inv, Launched
<1>3. Calm'
  BY <1>1, CalmKept DEF Traffic
<1>4. SplitOK' /\ BackOK'
  BY <1>1, <1>2 DEF SplitOK, BackOK, Unrouted, PromotedSteps
<1>5. StopsOK'
  <2>1. misled \/ (mem.retiring \cup disk.retiring) \cap route = {}
    BY <1>1 DEF Traffic, StopsOK
  <2> QED BY <1>1, <2>1 DEF StopsOK, SameBut
<1>6. StartOK'
  <2>1. AtRest(Serving(loc.pre)) /\ (loc.pre.mode = "blue-green" => Serving(disk) = {loc.stable})
    BY DEF Traffic, StartOK
  <2>2. AtRest(Serving(loc.pre))' /\ Serving(disk)' = Serving(disk)
    BY <1>1, <1>2, <2>1, AtRestKept DEF Serving
  <2> QED BY <1>1, <2>1, <2>2 DEF StartOK, Unrouted
<1> QED BY <1>3, <1>4, <1>5, <1>6 DEF Moved

\* Passing the health gate moves no traffic.
LEMMA HealthPassesTraffic == ASSUME Inv, Traffic, HealthPasses PROVE Moved
<1> USE HealthPassesEffect
<1>1. /\ UNCHANGED <<alive, route, disk, strays, loc>> /\ misled' = misled /\ (misled => misled')
      /\ pc \in Held
  BY StepSets DEF files
<1>2. loc.cand \notin route
  BY DEF Traffic, SplitOK, Unrouted
<1>3. Calm'
  BY <1>1, CalmKept DEF Traffic
<1>4. SplitOK' /\ BackOK'
  BY <1>1, <1>2 DEF SplitOK, BackOK, Unrouted, PromotedSteps
<1>5. StopsOK'
  <2>1. misled \/ (mem.retiring \cup disk.retiring) \cap route = {}
    BY <1>1 DEF Traffic, StopsOK
  <2> QED BY <1>1, <2>1 DEF StopsOK
<1>6. StartOK'
  <2>1. AtRest(Serving(loc.pre)) /\ (loc.pre.mode = "blue-green" => Serving(disk) = {loc.stable})
    BY DEF Traffic, StartOK, Unrouted
  <2>2. AtRest(Serving(loc.pre))' /\ Serving(disk)' = Serving(disk)
    BY <1>1, <2>1, AtRestKept DEF Serving
  <2> QED BY <1>1, <2>1, <2>2 DEF StartOK, Unrouted
<1> QED BY <1>3, <1>4, <1>5, <1>6 DEF Moved

\* A canary that failed the gate is stopped, or left as a stray.
LEMMA StopUnhealthyTraffic == ASSUME Inv, Traffic, StopUnrouted, pc # "stopUnstarted" PROVE Moved
<1> USE StopUnhealthyEffect
<1>1. UNCHANGED <<route, disk, loc>> /\ misled' = misled /\ (misled => misled') /\ pc \in Held \ PromotedSteps
  BY StepSets DEF files, PromotedSteps
<1>2. Calm'
  BY <1>1, CalmKept DEF Traffic
<1>3. SplitOK' /\ BackOK'
  BY DEF SplitOK, BackOK, Unrouted, PromotedSteps
<1>4. StopsOK'
  <2>1. misled \/ (mem.retiring \cup disk.retiring) \cap route = {}
    BY <1>1 DEF Traffic, StopsOK
  <2>2. mem'.slots[Other(mem'.active)].pid = 0 /\ 0 \notin route
    BY <1>1, InvFacts, PidFacts, HeldServing, StepSets DEF SameBut
  <2> QED BY <1>1, <2>1, <2>2 DEF StopsOK, SameBut
<1>5. StartOK'
  <2>1. AtRest(Serving(loc.pre)) /\ (loc.pre.mode = "blue-green" => Serving(disk) = {loc.stable})
    BY DEF Traffic, StartOK, Unrouted
  <2>2. AtRest(Serving(loc.pre))' /\ Serving(disk)' = Serving(disk)
    BY <1>1, <2>1, AtRestKept DEF Serving
  <2> QED BY <1>1, <2>1, <2>2 DEF StartOK, Unrouted
<1> QED BY <1>2, <1>3, <1>4, <1>5 DEF Moved

\* The other stops: the canary's, and those of the replicas that retire.
LEMMA StopTraffic ==
  ASSUME Inv, Traffic, \/ StopLegacy /\ pc' # "idle"
                       \/ StopCanary
                       \/ StopUnrouted /\ pc = "stopUnstarted"
  PROVE  Moved
<1> USE StopFlow
<1>1. /\ UNCHANGED <<route, disk, mem, loc>> /\ misled' = misled /\ (misled => misled') /\ pc \in Held
  BY DEF files, Flows
<1>2. Calm'
  BY <1>1, CalmKept DEF Traffic
<1>3. SplitOK'
  <2>1. pc = "stopLegacy" => /\ loc.switched /\ mem.canary = "running" /\ disk.canary = "running"
                             /\ loc.step = NSteps => route = {loc.cand}
    BY DEF Traffic, SplitOK
  <2>2. pc' = "promote" => loc.step = NSteps
    BY DEF AfterStep
  <2> QED BY <1>1, <2>1, <2>2 DEF SplitOK, Unrouted, PromotedSteps
<1>4. BackOK'
  <2>1. pc = "stopCanary" => disk = mem /\ (misled \/ ~loc.switched \/ route = {loc.stable})
    BY DEF Traffic, BackOK
  <2> QED BY <1>1, <2>1 DEF BackOK
<1>5. StopsOK'
  <2>1. misled \/ (mem.retiring \cup disk.retiring) \cap route = {}
    BY <1>1 DEF Traffic, StopsOK
  <2> QED BY <1>1, <2>1 DEF StopsOK
<1>6. StartOK'
  <2>1. pc = "stopLegacy" => loc.switched
    BY DEF Traffic, SplitOK
  <2>2. /\ pc = "stopUnstarted" => /\ AtRest(Serving(loc.pre))
                                   /\ loc.pre.mode = "blue-green" => Serving(disk) = {loc.stable}
        /\ pc = "stopCanary" /\ ~loc.switched => AtRest(Serving(loc.pre))
    BY DEF Traffic, StartOK, Unrouted
  <2>3. AtRest(Serving(loc.pre)) => AtRest(Serving(loc.pre))'
    BY <1>1, AtRestKept
  <2>4. Serving(disk)' = Serving(disk)
    BY <1>1 DEF Serving
  <2> QED BY <1>1, <2>1, <2>2, <2>3, <2>4 DEF StartOK, Unrouted
<1> QED BY <1>2, <1>3, <1>4, <1>5, <1>6 DEF Moved


-----------------------------------------------------------------------------
(* The traffic steps, forward and back.                                    *)

\* The canary takes its share, or the old targets stay.
LEMMA SwitchTrafficTraffic == ASSUME Inv, Traffic, SwitchTraffic PROVE Moved
<1> USE SwitchTrafficFlow
<1>1. /\ UNCHANGED <<alive, disk, mem, strays>> /\ pc \in Held \ PromotedSteps /\ pc \in WithCanary
      /\ loc'.cand = loc.cand /\ loc'.stable = loc.stable /\ loc'.pre = loc.pre /\ loc'.step = loc.step
  BY StepSets DEF procs, files, SameHold, PromotedSteps
<1>2. /\ disk.canary = "running" /\ mem.canary = "running"
      /\ loc.switched \/ loc.cand \notin route
  BY DEF Traffic, SplitOK
<1>3. {loc.stable, loc.cand} \cap (mem.retiring \cup disk.retiring) = {} /\ StepTargets \subseteq {loc.stable, loc.cand}
  BY <1>1 DEF Inv, HeldOK, CanaryOK, StepTargets
<1>4. misled' \/ (mem.retiring \cup disk.retiring) \cap route' = {}
  <2>1. misled \/ (mem.retiring \cup disk.retiring) \cap route = {}
    BY <1>1 DEF Traffic, StopsOK
  <2> QED BY <1>3, <2>1
<1>5. Calm'
  <2>1. CASE misled'
    BY <2>1, Zenon DEF Calm
  <2>2. CASE ~misled'
    BY <1>1, <1>2, <1>4, <2>2, CalmRouted
  <2> QED BY <2>1, <2>2
<1>6. SplitOK'
  <2>1. StepTargets' = StepTargets
    BY <1>1 DEF StepTargets
  <2> QED BY <1>1, <1>2, <2>1 DEF SplitOK, Unrouted, PromotedSteps
<1>7. BackOK'
  BY <1>1, <1>2 DEF BackOK
<1>8. StopsOK'
  BY <1>1, <1>4 DEF StopsOK
<1>9. StartOK'
  <2>1. ~loc.switched => AtRest(Serving(loc.pre))
    BY DEF Traffic, StartOK
  <2>2. pc' = "abort" /\ AtRest(Serving(loc.pre)) => AtRest(Serving(loc.pre))'
    BY <1>1, AtRestKept
  <2> QED BY <2>1, <2>2 DEF StartOK, Unrouted
<1> QED BY <1>5, <1>6, <1>7, <1>8, <1>9 DEF Moved

\* The traffic stays when the hand-off of the public port fails.
LEMMA HandOffPublicPortTraffic == ASSUME Inv, Traffic, HandOffPublicPort PROVE Moved
<1> USE HandOffPublicPortFlow
<1>1. /\ UNCHANGED <<route, disk, mem, strays>> /\ misled' = misled /\ (misled => misled') /\ pc \in Held
      /\ loc'.cand = loc.cand /\ loc'.stable = loc.stable /\ loc'.pre = loc.pre
      /\ loc'.switched = loc.switched
  BY StepSets DEF files, SameHold
<1>2. /\ disk.canary = "running" /\ mem.canary = "running"
      /\ loc.switched \/ loc.cand \notin route
  BY DEF Traffic, SplitOK
<1>3. misled \/ (mem.retiring \cup disk.retiring) \cap route = {}
  BY <1>1 DEF Traffic, StopsOK
<1>4. Calm'
  BY <1>1, CalmKept DEF Traffic
<1>5. SplitOK' /\ BackOK'
  BY <1>1, <1>2 DEF SplitOK, BackOK, Unrouted, PromotedSteps
<1>6. StopsOK'
  BY <1>1, <1>3 DEF StopsOK
<1>7. StartOK'
  <2>1. ~loc.switched => AtRest(Serving(loc.pre))
    BY DEF Traffic, StartOK
  <2>2. AtRest(Serving(loc.pre)) => AtRest(Serving(loc.pre))'
    BY <1>1, AtRestKept
  <2> QED BY <1>1, <2>1, <2>2 DEF StartOK, Unrouted
<1> QED BY <1>4, <1>5, <1>6, <1>7 DEF Moved

\* The record of a step is that of a rollout in progress.
LEMMA StoreStepTraffic == ASSUME Inv, Traffic, StoreStep PROVE Moved
<1> USE StoreStepFlow
<1>1. /\ UNCHANGED <<alive, route, mem, strays>> /\ misled' = misled /\ (misled => misled') /\ pc \in Held
      /\ loc'.cand = loc.cand /\ loc'.stable = loc.stable /\ loc'.pre = loc.pre /\ loc'.step = loc.step
      /\ loc'.switched = loc.switched
  BY StepSets DEF procs, SameHold, SameFlow
<1>2. disk.canary = "running" /\ mem.canary = "running" /\ loc.switched /\ route = StepTargets
  BY DEF Traffic, SplitOK
<1>3. misled \/ (mem.retiring \cup disk.retiring) \cap route = {}
  BY <1>1 DEF Traffic, StopsOK
<1>4. Calm'
  <2>1. misled \/ (~SideRouted(mem) /\ ~RetiringRouted(mem))
    BY <1>1, <1>2, <1>3, HeldCalm
  <2> QED BY <1>1, <2>1, CalmStored DEF Traffic
<1>5. SplitOK'
  <2>1. StepTargets' = StepTargets
    BY <1>1 DEF StepTargets
  <2> QED BY <1>1, <1>2, <2>1 DEF SplitOK, Unrouted, PromotedSteps
<1>6. BackOK'
  BY <1>1, <1>2 DEF BackOK
<1>7. StopsOK'
  BY <1>1, <1>3 DEF StopsOK
<1>8. StartOK'
  BY <1>1, <1>2 DEF StartOK, Unrouted
<1> QED BY <1>4, <1>5, <1>6, <1>7, <1>8 DEF Moved

\* The stable instance has the traffic back, or the rollout is misled.
LEMMA RestoreStableTraffic ==
  ASSUME Inv, Traffic, RestoreStable, pc = "abort" \/ pc' = "bestKnown"
  PROVE  Moved
<1> USE RestoreStableFlow
<1>1. /\ UNCHANGED <<alive, disk, mem, strays>> /\ pc \in Held /\ pc \in WithCanary
      /\ loc'.cand = loc.cand /\ loc'.stable = loc.stable /\ loc'.pre = loc.pre /\ loc'.switched = loc.switched
  BY StepSets DEF procs, files, SameHold
<1>2. pc = "abort" => disk.canary = "running" /\ (misled \/ loc.switched \/ loc.cand \notin route)
  BY DEF Traffic, SplitOK, BackOK
<1>3. loc.stable \notin mem.retiring \cup disk.retiring /\ loc.stable # loc.cand
  BY <1>1 DEF Inv, HeldOK, CanaryOK
<1>4. misled' \/ (mem.retiring \cup disk.retiring) \cap route' = {}
  <2>1. misled \/ (mem.retiring \cup disk.retiring) \cap route = {}
    BY <1>1 DEF Traffic, StopsOK
  <2> QED BY <1>3, <2>1
<1>5. Calm'
  <2>1. CASE misled'
    BY <2>1, Zenon DEF Calm
  <2>2. CASE ~misled'
    BY <1>1, <1>2, <1>4, <2>2, CalmRouted
  <2> QED BY <2>1, <2>2
<1>6. SplitOK'
  BY <1>1 DEF SplitOK, Unrouted, PromotedSteps
<1>7. BackOK'
  BY <1>1, <1>2, <1>3 DEF BackOK
<1>8. StopsOK'
  BY <1>1, <1>4 DEF StopsOK
<1>9. StartOK'
  <2>1. pc = "abort" /\ ~loc.switched => AtRest(Serving(loc.pre))
    BY DEF Traffic, StartOK
  <2>2. pc = "abort" /\ ~loc.switched => AtRest(Serving(loc.pre))'
    BY <1>1, <2>1, AtRestKept
  <2> QED BY <1>1, <2>2 DEF StartOK, Unrouted
<1> QED BY <1>5, <1>6, <1>7, <1>8, <1>9 DEF Moved

\* A compensated promotion has given the traffic back.
LEMMA DemoteTraffic ==
  ASSUME Inv, Traffic, RestoreStable, pc = "compensate", pc' # "bestKnown"
  PROVE  Moved
<1> USE DemoteEffect
<1>1. /\ UNCHANGED <<alive, disk, strays>> /\ pc \in Held /\ pc \in WithCanary
      /\ loc'.cand = loc.cand /\ loc'.stable = loc.stable /\ loc'.pre = loc.pre /\ loc'.switched = loc.switched
  BY StepSets DEF procs, files, SameHold, SameFlow
<1>2. budget + 1 <= MaxFaults /\ loc.switched
  BY DEF Traffic, SplitOK, BackOK, PromotedSteps
<1>3. loc.stable \notin mem.retiring \cup disk.retiring /\ loc.stable # loc.cand
  BY <1>1 DEF Inv, HeldOK, CanaryOK
<1>4. Calm'
  BY <1>2 DEF Calm
<1>5. SplitOK' /\ BackOK'
  BY <1>1, <1>2, <1>3 DEF SplitOK, BackOK, Unrouted, PromotedSteps
<1>6. StopsOK'
  BY <1>1, <1>3 DEF StopsOK
<1>7. StartOK'
  BY <1>1, <1>2 DEF StartOK, Unrouted
<1> QED BY <1>4, <1>5, <1>6, <1>7 DEF Moved

\* The journal of an aborted rollout misplaces nothing: the canary has no traffic.
LEMMA SettledCalm ==
  ASSUME Inv, Traffic, pc = "settle"
  PROVE  /\ misled \/ (~SideRouted(Settled) /\ ~RetiringRouted(Settled))
         /\ misled \/ (mem.retiring \cup Settled.retiring) \cap route = {}
<1>1. pc \in Held /\ (misled \/ loc.cand \notin route)
  BY StepSets DEF Traffic, BackOK
<1>2. misled \/ mem.retiring \cap route = {}
  BY <1>1 DEF Traffic, StopsOK
<1>3. misled \/ (mem.retiring \cup Settled.retiring) \cap route = {}
  BY <1>1, <1>2, SettledFacts
<1>4. Settled.slots[Other(Settled.active)].pid \in {loc.cand, 0} /\ 0 \notin route
  BY SettledFacts, InvFacts, PidFacts, OtherFacts
<1> QED BY <1>1, <1>3, <1>4 DEF SideRouted, RetiringRouted

\* The aborted rollout is recorded.
LEMMA SettleTraffic == ASSUME Inv, Traffic, Settle, pc' # "idle" PROVE Moved
<1> USE SettleEffect
<1>1. UNCHANGED <<alive, route, strays, loc>> /\ misled' = misled /\ pc' \in {"finishAbort", "stopCanary"}
  BY DEF procs
<1>2. Calm'
  <2>1. CASE misled
    BY <1>1, <2>1, Zenon DEF Calm
  <2>2. CASE ~misled
    <3>1. ~SideRouted(Settled) /\ ~RetiringRouted(Settled)
      BY <2>2, SettledCalm
    <3>2. ~SideRouted(disk)' /\ ~RetiringRouted(disk)'
      BY <1>1, <3>1 DEF SideRouted, RetiringRouted, Serving
    <3> QED BY <3>2 DEF Calm
  <2> QED BY <2>1, <2>2
<1>3. SplitOK'
  BY <1>1 DEF SplitOK, Unrouted, PromotedSteps
<1>4. BackOK'
  BY <1>1 DEF Traffic, BackOK
<1>5. StopsOK'
  BY <1>1, SettledCalm DEF StopsOK
<1>6. StartOK'
  <2>1. ~loc.switched => AtRest(Serving(loc.pre))
    BY DEF Traffic, StartOK
  <2>2. ~loc.switched => AtRest(Serving(loc.pre))'
    BY <1>1, <2>1, AtRestKept
  <2> QED BY <1>1, <2>2 DEF StartOK, Unrouted
<1> QED BY <1>2, <1>3, <1>4, <1>5, <1>6 DEF Moved

\* An aborted rollout that moved no traffic goes on to undo its migration.
LEMMA FinishAbortTraffic == ASSUME Inv, Traffic, FinishAbort, ~loc.switched PROVE Moved
<1> USE FinishAbortFlow
<1>1. /\ UNCHANGED <<alive, route, strays, mem, disk, loc>> /\ misled' = misled /\ (misled => misled')
      /\ pc \in Held \ PromotedSteps
  BY StepSets DEF procs, files, PromotedSteps
<1>2. Calm'
  BY <1>1, CalmKept DEF Traffic
<1>3. SplitOK' /\ BackOK'
  BY DEF SplitOK, BackOK, Unrouted, PromotedSteps
<1>4. StopsOK'
  BY <1>1 DEF Traffic, StopsOK
<1>5. StartOK'
  <2>1. AtRest(Serving(loc.pre))
    BY DEF Traffic, StartOK
  <2>2. disk = mem
    BY DEF Traffic, BackOK
  <2>3. Serving(disk)' = {loc.stable}
    BY <1>1, <2>2, HeldServing DEF Serving
  <2>4. AtRest(Serving(loc.pre))'
    BY <1>1, <2>1, AtRestKept
  <2> QED BY <1>1, <2>3, <2>4 DEF StartOK, Unrouted
<1> QED BY <1>2, <1>3, <1>4, <1>5 DEF Moved


\* A fault is one fewer to come.
LEMMA FaultMet ==
  ASSUME TypeOK, NEW k, Fault(k)
  PROVE  /\ budget' + 1 <= MaxFaults /\ budget' # MaxFaults
         /\ budget + 1 <= MaxFaults => budget' + 2 <= MaxFaults
<1>1. budget \in Int /\ budget' \in Int /\ MaxFaults \in Int /\ budget <= MaxFaults /\ budget' = budget - 1
  BY DEF TypeOK, Fault
<1>2. budget' + 1 <= MaxFaults /\ budget' # MaxFaults
  BY ONLY <1>1, OneFault, Zenon
<1>3. budget + 1 <= MaxFaults => budget' + 2 <= MaxFaults
  BY ONLY <1>1, TwoFaults, Zenon
<1> QED BY <1>2, <1>3

\* The promoted canary has all of the traffic.
LEMMA StorePromotedTraffic == ASSUME Inv, Traffic, StorePromoted PROVE Moved
<1> USE StorePromotedEffect
<1>1. /\ UNCHANGED <<alive, route, strays>> /\ misled' = misled /\ (misled => misled')
      /\ pc \in Held \ PromotedSteps /\ pc \in WithCanary
      /\ loc'.cand = loc.cand /\ loc'.stable = loc.stable /\ loc'.pre = loc.pre /\ loc'.switched = loc.switched
      /\ loc'.tver = loc.tver
  BY StepSets DEF procs, SameHold, SameFlow, PromotedSteps
<1>2. loc.switched /\ route = {loc.cand}
  BY DEF Traffic, SplitOK, PromotedSteps
<1>3. /\ Promoted.active = loc.slot /\ Promoted.slots = mem.slots /\ Promoted.retiring = mem.retiring
      /\ Promoted.ver = loc.tver
  BY InvFacts, PromotedFacts
<1>4. /\ loc.stable # loc.cand /\ loc.cand \notin mem.retiring \cup disk.retiring
      /\ mem.slots[Other(loc.slot)].pid = loc.stable
  BY <1>1, HeldServing, InvFacts, OtherFacts DEF Inv, CanaryOK
<1>5. ~SideRouted(Promoted) /\ ~RetiringRouted(Promoted)
  BY <1>2, <1>3, <1>4 DEF SideRouted, RetiringRouted
<1>6. Calm'
  BY <1>1, <1>5, CalmStored DEF Traffic
<1>7. SplitOK'
  BY <1>1, <1>2, <1>3 DEF SplitOK, Unrouted, PromotedSteps
<1>8. BackOK'
  <2>1. pc' = "compensate" => budget' + 1 <= MaxFaults
    <3>1. ASSUME pc' = "compensate" PROVE \E k : Fault(k)
      BY <3>1 DEF StoreFails
    <3> QED BY <3>1, InvFacts, FaultMet
  <2> QED BY <2>1 DEF BackOK
<1>9. StopsOK'
  BY <1>1, <1>2, <1>3, <1>4 DEF StopsOK
<1>10. StartOK'
  BY DEF StartOK, Unrouted
<1> QED BY <1>6, <1>7, <1>8, <1>9, <1>10 DEF Moved

\* The version store follows the promotion, or the promotion is compensated.
LEMMA PromoteVersionTraffic == ASSUME Inv, Traffic, PromoteVersion PROVE Moved
<1> USE PromoteVersionFlow
<1>1. /\ UNCHANGED <<alive, route, strays, mem, loc, disk>> /\ misled' = misled /\ (misled => misled')
      /\ pc \in Held
  BY StepSets DEF procs
<1>2. loc.switched /\ route = {loc.cand} /\ mem.ver = loc.tver
  BY DEF Traffic, SplitOK, PromotedSteps
<1>3. Calm'
  BY <1>1, CalmKept DEF Traffic
<1>4. SplitOK'
  BY <1>1, <1>2 DEF SplitOK, Unrouted, PromotedSteps
<1>5. BackOK'
  <2>1. pc' = "compensate" => budget' + 1 <= MaxFaults
    BY InvFacts, FaultMet
  <2> QED BY <2>1 DEF BackOK
<1>6. StopsOK'
  BY <1>1 DEF Traffic, StopsOK
<1>7. StartOK'
  BY DEF StartOK, Unrouted
<1> QED BY <1>3, <1>4, <1>5, <1>6, <1>7 DEF Moved

\* The old stable instance is stopped without traffic.
LEMMA DrainOldTraffic == ASSUME Inv, Traffic, DrainOld PROVE Moved
<1> USE DrainOldEffect
<1>1. /\ UNCHANGED <<route, loc, disk, current>> /\ misled' = misled /\ (misled => misled')
      /\ pc \in Held /\ mem'.ver = mem.ver /\ mem'.retiring = mem.retiring
  BY StepSets DEF files, SameBut
<1>2. loc.switched /\ route = {loc.cand} /\ mem.ver = loc.tver /\ loc.tver \in {0, current}
  BY DEF Traffic, SplitOK, PromotedSteps
<1>3. Calm'
  BY <1>1, CalmKept DEF Traffic
<1>4. SplitOK'
  BY <1>1, <1>2 DEF SplitOK, Unrouted, PromotedSteps
<1>5. BackOK' /\ StartOK'
  BY DEF BackOK, StartOK, Unrouted
<1>6. StopsOK'
  BY <1>1 DEF Traffic, StopsOK
<1> QED BY <1>3, <1>4, <1>5, <1>6 DEF Moved

-----------------------------------------------------------------------------
(* The traffic of a reconciliation.                                        *)

\* The slot beside an active slot that lives is another instance.
LEMMA BesideActive ==
  ASSUME Inv, mem.active # NoSlot, mem.slots[mem.active].pid \in alive
  PROVE  mem.slots[Other(mem.active)].pid # mem.slots[mem.active].pid
<1>1. mem.active \in Slots /\ mem.slots[mem.active].pid # 0
  BY InvFacts, JournalFields, PidFacts
<1> QED BY <1>1, InvFacts, OtherFacts DEF JournalIn, Slots

\* The accepted canary has all of the traffic, or is dead.
LEMMA ReconcileCanaryTraffic == ASSUME Inv, Traffic, ReconcileCanary, pc' # "idle" PROVE Moved
<1> USE ReconcileCanaryEffect
<1>1. /\ alive' = alive /\ misled' = misled /\ (misled => misled') /\ pc' \in {"drain", "storeAccepted"}
  BY DEF procs
<1>2. SplitOK' /\ BackOK' /\ StartOK'
  BY <1>1 DEF SplitOK, BackOK, StartOK, Unrouted, PromotedSteps
<1>3. CASE pc' = "drain" /\ mem.canary # "running" /\ UNCHANGED <<route, disk, mem>>
  <2>1. Calm'
    BY <1>1, <1>3, CalmKept DEF Traffic
  <2>2. StopsOK'
    BY <1>3, StepSets DEF StopsOK
  <2> QED BY <1>2, <2>1, <2>2 DEF Moved
<1>4. CASE pc' = "storeAccepted"
  <2> DEFINE cand == mem.slots[Other(mem.active)].pid
  <2>1. /\ disk' = disk /\ mem.canary = "running" /\ Apart(mem) /\ mem' = Accepted(mem) /\ route' = {cand}
    BY <1>4
  <2>2. cand \notin mem.retiring
    BY <2>1, OtherFacts DEF Apart, Slots
  <2>3. Calm'
    BY <2>1, <2>2, CalmRouted
  <2>4. mem'.slots[mem'.active].pid = cand /\ mem'.retiring = mem.retiring
    BY <2>1, InvFacts, AcceptedFacts
  <2>5. StopsOK'
    BY <1>4, <2>1, <2>2, <2>4, StepSets DEF StopsOK
  <2> QED BY <1>2, <2>3, <2>5 DEF Moved
<1>5. CASE /\ pc' = "drain" /\ mem.canary = "running" /\ route' = route /\ mem.mode = "blue-green"
           /\ mem.active # NoSlot /\ mem.slots[Other(mem.active)].pid \notin alive
           /\ mem' = AcceptedDead(mem) /\ disk' = AcceptedDead(mem)
  <2>1. /\ AcceptedDead(mem).mode = "blue-green" /\ AcceptedDead(mem).active = Other(mem.active)
        /\ AcceptedDead(mem).slots = mem.slots
    BY <1>5, InvFacts, AcceptedDeadFacts
  <2>2. ~SideRouted(AcceptedDead(mem)) /\ ~RetiringRouted(AcceptedDead(mem))
    BY <1>5, <2>1 DEF SideRouted, RetiringRouted, Serving
  <2>3. Calm'
    BY <1>1, <1>5, <2>2, CalmStored DEF Traffic
  <2>4. StopsOK'
    BY <1>5, StepSets DEF StopsOK
  <2> QED BY <1>2, <2>3, <2>4 DEF Moved
<1> QED BY <1>3, <1>4, <1>5

\* A journal whose active slot has all of the traffic misplaces nothing.
LEMMA AcceptedCalm ==
  ASSUME Inv, Traffic, pc \in {"storeAccepted", "stopStable", "storeStopped"}
  PROVE  /\ ~SideRouted(mem) /\ ~RetiringRouted(mem)
         /\ route = {mem.slots[mem.active].pid}
         /\ mem.slots[mem.active].pid \notin mem.retiring \cup disk.retiring
         /\ mem.slots[Other(mem.active)].pid \notin route
<1>1. mem.active # NoSlot /\ mem.slots[mem.active].pid \in alive
  BY DEF Inv, ReadOK
<1>2. /\ route = {mem.slots[mem.active].pid}
      /\ mem.slots[mem.active].pid \notin mem.retiring \cup disk.retiring
  BY DEF Traffic, StopsOK
<1> QED BY <1>1, <1>2, BesideActive DEF SideRouted, RetiringRouted

\* The accepted rollout is recorded.
LEMMA ReconcileStoreTraffic ==
  ASSUME Inv, Traffic, StoreAccepted \/ StoreStopped, pc' # "idle"
  PROVE  Moved
<1> USE ReconcileStoreEffect
<1>1. UNCHANGED <<alive, route, mem>> /\ misled' = misled /\ (misled => misled')
  BY DEF procs
<1>2. Calm'
  BY <1>1, AcceptedCalm, CalmStored DEF Traffic
<1>3. SplitOK' /\ BackOK' /\ StartOK'
  BY DEF SplitOK, BackOK, StartOK, Unrouted, PromotedSteps
<1>4. StopsOK'
  BY <1>1, AcceptedCalm, StepSets DEF StopsOK
<1> QED BY <1>2, <1>3, <1>4 DEF Moved

\* The old stable instance is stopped without traffic.
LEMMA StopStableTraffic == ASSUME Inv, Traffic, StopStable, pc' # "idle" PROVE Moved
<1> USE StopStableEffect
<1>1. UNCHANGED <<route, disk>> /\ misled' = misled /\ (misled => misled')
  BY DEF files
<1>2. Calm'
  BY <1>1, CalmKept DEF Traffic
<1>3. SplitOK' /\ BackOK' /\ StartOK'
  BY DEF SplitOK, BackOK, StartOK, Unrouted, PromotedSteps
<1>4. StopsOK'
  BY <1>1, AcceptedCalm, StepSets DEF StopsOK
<1> QED BY <1>2, <1>3, <1>4 DEF Moved

\* The retired instances are stopped without traffic.
LEMMA DrainTraffic == ASSUME Inv, Traffic, Drain, pc' # "idle" PROVE Moved
<1> USE DrainEffect
<1>1. UNCHANGED <<route, disk>> /\ misled' = misled /\ (misled => misled')
  BY DEF files
<1>2. Calm'
  BY <1>1, CalmKept DEF Traffic
<1>3. SplitOK' /\ BackOK' /\ StartOK'
  BY DEF SplitOK, BackOK, StartOK, Unrouted, PromotedSteps
<1>4. StopsOK'
  <2>1. mem = disk
    BY DEF Traffic, StopsOK
  <2>2. misled \/ ~SideRouted(mem)
    BY <2>1 DEF Traffic, Calm
  <2>3. ~SideRouted(mem) => ~SideRouted(mem)'
    BY <1>1 DEF SideRouted
  <2> QED BY <1>1, <2>2, <2>3, StepSets DEF StopsOK
<1> QED BY <1>2, <1>3, <1>4 DEF Moved

\* An instance that dies by itself takes no traffic anywhere.
LEMMA InstanceDiesTraffic == ASSUME Inv, Traffic, InstanceDies PROVE Moved
<1>1. /\ alive' \subseteq alive /\ Fault("die") /\ misled' = misled /\ (misled => misled')
      /\ UNCHANGED <<proven, next, route, disk, current, pc, mem, loc, strays>>
  BY DEF InstanceDies, files, hist
<1>2. pc \notin {"idle", "load"} \cup ReconcileSteps
  BY InvFacts, PidFacts DEF InstanceDies, Inv, ReadOK
<1>3. budget' + 1 <= MaxFaults
  BY <1>1, InvFacts, FaultMet
<1>4. Calm'
  <2>1. CASE pc = "settle"
    BY <1>1, <1>3, <2>1 DEF Calm
  <2>2. CASE pc # "settle"
    BY <1>1, <1>2, <2>2, CalmKept DEF Traffic
  <2> QED BY <2>1, <2>2
<1>5. SplitOK'
  BY <1>1 DEF Traffic, SplitOK, StepTargets
<1>6. BackOK'
  BY <1>1, <1>3 DEF Traffic, BackOK
<1>7. StopsOK'
  BY <1>1, <1>2 DEF Traffic, StopsOK, ReconcileSteps
<1>8. StartOK'
  <2>1. AtRest(Serving(loc.pre)) => AtRest(Serving(loc.pre))'
    BY <1>1, AtRestKept
  <2>2. Serving(disk)' = Serving(disk)
    BY <1>1 DEF Serving
  <2> QED BY <1>1, <1>2, <2>1, <2>2 DEF Traffic, StartOK
<1> QED BY <1>4, <1>5, <1>6, <1>7, <1>8 DEF Moved


-----------------------------------------------------------------------------
(* The traffic at the end of an operation.                                 *)

\* A fault at the settling of a compensated promotion is the second one.
LEMMA SettleFault ==
  ASSUME Inv, Calm, pc # "idle", pc' = "idle", NEW k, Fault(k), disk' = disk,
         UNCHANGED <<alive, route>>, misled' = misled
  PROVE  Calm'
<1>1. (misled => misled') /\ \A i \in alive' : i \in alive
  OBVIOUS
<1>2. CASE pc # "settle"
  BY <1>1, <1>2, CalmKept
<1>3. CASE pc = "settle" /\ budget + 1 <= MaxFaults
  <2>1. budget' + 2 <= MaxFaults
    BY <1>3, InvFacts, FaultMet
  <2> QED BY <2>1 DEF Calm
<1>4. CASE misled
  <2>1. misled'
    BY <1>1, <1>4, Zenon
  <2> QED BY <2>1, Zenon DEF Calm
<1>5. CASE ~SideRouted(disk) /\ ~RetiringRouted(disk)
  <2>1. ~SideRouted(disk)' /\ ~RetiringRouted(disk)'
    BY <1>5 DEF SideRouted, RetiringRouted, Serving
  <2> QED BY <2>1 DEF Calm
<1> QED BY <1>2, <1>3, <1>4, <1>5 DEF Calm

\* A rollout that could not be settled.
LEMMA SettleReturns ==
  ASSUME Inv, Traffic, pc = "settle", pc' = "idle", StoreFails(Settled),
         UNCHANGED <<alive, route>>, misled' = misled
  PROVE  Calm'
<1>1. CASE Fault("store") /\ disk' = disk
  BY <1>1, SettleFault DEF Traffic
<1>2. CASE disk' = Settled
  <2>1. CASE misled
    <3>1. misled'
      BY <2>1, Zenon
    <3> QED BY <3>1, Zenon DEF Calm
  <2>2. CASE ~SideRouted(Settled) /\ ~RetiringRouted(Settled)
    <3>1. ~SideRouted(disk)' /\ ~RetiringRouted(disk)'
      BY <1>2, <2>2 DEF SideRouted, RetiringRouted, Serving
    <3> QED BY <3>1 DEF Calm
  <2> QED BY <2>1, <2>2, SettledCalm
<1> QED BY <1>1, <1>2 DEF StoreFails

\* What undoMigration leaves behind.
LEMMA UndoMigrationReturns ==
  ASSUME Inv, Traffic, UndoMigration
  PROVE  /\ Calm'
         /\ ~misled' /\ budget' = MaxFaults => (route' \cap alive') \ strays' \subseteq Serving(disk)'
<1>1. /\ pc = "undo" /\ pc \in Held \ PromotedSteps /\ UNCHANGED <<alive, route, strays>>
      /\ misled' = misled /\ (misled => misled')
  BY StepSets DEF UndoMigration, procs, PromotedSteps
<1>2. misled \/ (mem.retiring \cup disk.retiring) \cap route = {}
  BY <1>1 DEF Traffic, StopsOK
<1>3. AtRest(Serving(loc.pre)) /\ (loc.pre.mode = "blue-green" => Serving(disk) = {loc.stable})
  BY <1>1 DEF Traffic, StartOK
<1>4. CASE loc.pre.mode = "rolling"
  <2> DEFINE j == RestoreMode(mem, loc.pre)
  <2>1. StoreBestEffort(j)
    BY <1>4 DEF UndoMigration
  <2>2. /\ j.mode = "rolling" /\ j.active = loc.pre.active /\ j.replicas = loc.pre.replicas
        /\ j.retiring = mem.retiring /\ loc.pre.active = NoSlot
    BY <1>4, InvFacts, RestoreModeFacts DEF JournalIn
  <2> HIDE DEF j
  <2>3. misled \/ (~SideRouted(j) /\ ~RetiringRouted(j))
    BY <1>2, <2>2 DEF SideRouted, RetiringRouted
  <2>4. disk' \in {disk, j}
    BY <2>1, InvFacts, StoreFacts DEF StoreBestEffort
  <2>5. Calm'
    BY <1>1, <2>3, <2>4, CalmStored DEF Traffic
  <2>6. budget' = MaxFaults => disk' = j
    <3>1. StoreFails(j) => \E k : Fault(k)
      BY DEF StoreFails
    <3>2. StoreFails(j) => budget' # MaxFaults
      BY <3>1, InvFacts, FaultMet
    <3> QED BY <2>1, <3>2 DEF StoreBestEffort, StoreOK
  <2>7. disk' = j => Serving(disk)' = Serving(loc.pre)
    BY <1>4, <2>2 DEF Serving
  <2> QED BY <1>1, <1>3, <2>5, <2>6, <2>7 DEF AtRest
<1>5. CASE loc.pre.mode # "rolling"
  <2>1. disk' = disk
    BY <1>5 DEF UndoMigration
  <2>2. Calm'
    BY <1>1, <2>1, CalmKept DEF Traffic
  <2>3. loc.pre.mode = "blue-green" /\ loc.stable \in Serving(loc.pre)
    BY <1>1, <1>5, InvFacts, JournalFields DEF Inv, HeldOK
  <2>4. Serving(loc.pre) = {loc.stable}
    BY <2>3, InvFacts, ServingFacts
  <2>5. Serving(disk)' = {loc.stable}
    BY <1>3, <2>1, <2>3 DEF Serving
  <2> QED BY <1>1, <1>3, <2>2, <2>4, <2>5 DEF AtRest
<1> QED BY <1>4, <1>5

\* What a completed rollout leaves behind, or one whose last Store failed.
LEMMA StoreFinalReturns ==
  ASSUME Inv, Traffic, StoreFinal
  PROVE  /\ Calm'
         /\ result' = "deployed" => route' = Serving(disk)' /\ disk'.ver \in {0, current'}
         /\ result' \in {"deployed", "kept"}
<1>1. /\ pc = "storeFinal" /\ UNCHANGED <<alive, route, strays, current>>
      /\ \/ StoreOK(mem) /\ result' = "deployed"
         \/ StoreFails(mem) /\ result' = "kept" /\ misled' = misled
  BY DEF StoreFinal, Return, procs
<1>2. /\ route = {loc.cand} /\ mem.ver = loc.tver /\ loc.tver \in {0, current}
  BY <1>1 DEF Traffic, SplitOK, PromotedSteps
<1>3. /\ mem.mode = "blue-green" /\ mem.active = loc.slot /\ mem.slots[loc.slot].pid = loc.cand
      /\ mem.slots[Other(loc.slot)].pid = 0 /\ loc.cand \notin mem.retiring /\ loc.cand \in Inst
      /\ loc.slot # NoSlot
  BY <1>1, StepSets, InvFacts, OtherFacts DEF Inv, HeldOK, CanaryOK, PromotedSteps
<1>4. ~SideRouted(mem) /\ ~RetiringRouted(mem) /\ Serving(mem) = route
  BY <1>2, <1>3, PidFacts DEF SideRouted, RetiringRouted, Serving
<1>5. disk' = mem => Serving(disk)' = route' /\ Calm' /\ disk'.ver = mem.ver
  BY <1>1, <1>4 DEF Calm, SideRouted, RetiringRouted, Serving
<1>6. misled' = misled => (misled => misled')
  OBVIOUS
<1>7. StoreFails(mem) => disk' \in {disk, mem}
  BY DEF StoreFails
<1>8. StoreFails(mem) /\ misled' = misled => Calm'
  BY <1>1, <1>4, <1>6, <1>7, CalmStored DEF Traffic
<1> QED BY <1>1, <1>2, <1>5, <1>8 DEF StoreOK

\* What a reconciliation leaves behind that gives up at its first call.
LEMMA ReconcileCanaryReturns == ASSUME Inv, Traffic, ReconcileCanary, pc' = "idle" PROVE Calm'
<1> DEFINE cand == mem.slots[Other(mem.active)].pid
<1>1. mem = disk /\ pc = "reconcile" /\ alive' = alive
  BY DEF Inv, ReadOK, ReconcileCanary, procs
<1>2. CASE UNCHANGED <<route, disk, misled>>
  <2>1. misled => misled'
    BY <1>2, Zenon
  <2> QED BY <1>1, <1>2, <2>1, CalmKept DEF Traffic
<1>3. CASE mem.canary = "running" /\ cand \in alive /\ CallFails({cand}) /\ disk' = disk
  <2>1. (misled => misled') /\ (route' = route \/ misled')
    BY <1>3, InvFacts, CallFacts
  <2>2. CASE misled'
    BY <2>2, Zenon DEF Calm
  <2>3. CASE route' = route
    BY <1>1, <1>3, <2>1, <2>3, CalmKept DEF Traffic
  <2> QED BY <2>1, <2>2, <2>3
<1>4. CASE /\ mem.canary = "running" /\ ~NoCandidate(mem) /\ cand \notin alive
           /\ StoreFails(AcceptedDead(mem)) /\ UNCHANGED <<route, misled>>
  <2>1. /\ AcceptedDead(mem).mode = mem.mode /\ AcceptedDead(mem).active = Other(mem.active)
        /\ AcceptedDead(mem).slots = mem.slots /\ mem.mode = "blue-green"
    BY <1>4, InvFacts, AcceptedDeadFacts, JournalFields DEF NoCandidate
  <2>2. ~SideRouted(AcceptedDead(mem)) /\ ~RetiringRouted(AcceptedDead(mem))
    BY <1>4, <2>1 DEF SideRouted, RetiringRouted, Serving
  <2>3. disk' \in {disk, AcceptedDead(mem)} /\ UNCHANGED <<alive, route>>
    BY <1>1, <1>4 DEF StoreFails
  <2>4. misled => misled'
    BY <1>4, Zenon
  <2> QED BY <1>1, <2>2, <2>3, <2>4, CalmStored DEF Traffic
<1> QED BY <1>2, <1>3, <1>4 DEF ReconcileCanary, Step

\* The Stores after which a reconciliation may end.
LEMMA ReconcileStoreReturns ==
  ASSUME Inv, Traffic, pc \in {"storeAccepted", "storeStopped", "storeDrained"},
         pc' = "idle", StoreBestEffort(mem), UNCHANGED <<alive, route>>, misled' = misled
  PROVE  Calm'
<1>1. pc = "storeDrained" => misled \/ (~SideRouted(mem) /\ ~RetiringRouted(mem))
  <2>1. pc = "storeDrained" => misled \/ ~SideRouted(mem)
    BY DEF Traffic, StopsOK
  <2>2. pc = "storeDrained" => mem.retiring = {}
    BY DEF Traffic, StopsOK
  <2> QED BY <2>1, <2>2 DEF RetiringRouted
<1>2. misled \/ (~SideRouted(mem) /\ ~RetiringRouted(mem))
  BY <1>1, AcceptedCalm
<1>3. disk' \in {disk, mem}
  BY InvFacts, StoreFacts DEF StoreBestEffort
<1>4. misled => misled'
  OBVIOUS
<1> QED BY <1>2, <1>3, <1>4, CalmStored DEF Traffic


\* However an operation ends, the journal on disk is calm.
LEMMA ReturnsCalm == ASSUME Inv, Traffic, Next, pc' = "idle" PROVE Calm'
<1>1. pc # "idle" /\ Calm
  BY Returns DEF Traffic
<1>2. CASE /\ pc # "settle" /\ UNCHANGED <<alive, route, disk>> /\ misled' = misled
  <2>1. misled => misled'
    BY <1>2, Zenon
  <2> QED BY <1>1, <1>2, <2>1, CalmKept
<1>3. CASE (\E S : StopFails(S)) /\ UNCHANGED <<route, disk>> /\ misled' = misled /\ pc # "settle"
  <2>1. alive' \subseteq alive
    BY <1>3, InvFacts, StopFacts
  <2>2. misled => misled'
    BY <1>3, Zenon
  <2> QED BY <1>1, <1>3, <2>1, <2>2, CalmKept
<1>4. CASE MigrateTo /\ pc = "migrate" /\ StoreFails(Emptied(mem)) /\ UNCHANGED <<alive, route>> /\ misled' = misled
  <2>1. disk' \in {disk, Emptied(mem)}
    BY <1>4 DEF StoreFails
  <2>2. misled => misled'
    BY <1>4, Zenon
  <2> QED BY <1>1, <1>4, <2>1, <2>2, InvFacts, EmptiedCalm, CalmStored
<1>5. CASE pc = "bestKnown" /\ misled' = misled
  <2>1. misled
    BY <1>5 DEF Traffic, BackOK
  <2>2. misled'
    BY <1>5, <2>1, Zenon
  <2> QED BY <2>2, Zenon DEF Calm
<1>6. CASE pc = "settle" /\ StoreFails(Settled) /\ UNCHANGED <<alive, route>> /\ misled' = misled
  BY <1>6, SettleReturns
<1>7. CASE Fault("crash") /\ UNCHANGED <<alive, route, disk>> /\ misled' = misled
  BY <1>1, <1>7, SettleFault
<1>8. CASE /\ pc \in {"storeAccepted", "storeStopped", "storeDrained"} /\ StoreBestEffort(mem)
           /\ UNCHANGED <<alive, route>> /\ misled' = misled
  BY <1>8, ReconcileStoreReturns
<1>9. CASE UndoMigration \/ StoreFinal \/ ReconcileCanary
  BY <1>9, UndoMigrationReturns, StoreFinalReturns, ReconcileCanaryReturns
<1>10. Refuse => pc # "settle"
  BY DEF Refuse
<1>11. \A S : StopFails(S) /\ UNCHANGED <<route, disk>> /\ misled' = misled /\ pc # "settle" => Calm'
  BY <1>3
<1>12. ASSUME UNCHANGED <<route, disk, misled>> PROVE UNCHANGED <<route, disk>> /\ misled' = misled
  BY <1>12, Zenon
<1>13. ASSUME UNCHANGED <<alive, route, misled, strays>> PROVE UNCHANGED <<alive, route>> /\ misled' = misled
  BY <1>13, Zenon
<1>14. ASSUME UNCHANGED <<alive, route, misled>> PROVE UNCHANGED <<alive, route>> /\ misled' = misled
  BY <1>14, Zenon
<1>15. ASSUME UNCHANGED <<alive, route, disk, misled, strays>> PROVE UNCHANGED <<alive, route, disk>> /\ misled' = misled
  BY <1>15, Zenon
<1>16. ASSUME UNCHANGED <<alive, route, disk, misled, strays, budget>>
       PROVE  UNCHANGED <<alive, route, disk>> /\ misled' = misled
  BY <1>16, Zenon
<1>17. ASSUME UNCHANGED <<alive, budget, strays>>, UNCHANGED <<route, disk, misled>>
       PROVE  UNCHANGED <<alive, route, disk>> /\ misled' = misled
  BY <1>17, Zenon
<1>18. RolloutEnds => Calm'
  BY <1>2, <1>4, <1>5, <1>6, <1>9, <1>10, <1>11, <1>12, <1>13, <1>14, <1>16, Zenon DEF RolloutEnds
<1>19. OtherEnds => Calm'
  BY <1>2, <1>7, <1>8, <1>9, <1>11, <1>12, <1>13, <1>15, <1>17, Zenon DEF OtherEnds
<1> QED BY <1>18, <1>19, Returns

\* A rollout that ends "failed" without a fault, or "deployed", has converged.
LEMMA ReturnsConverge == ASSUME Inv, Traffic, Next, pc' = "idle" PROVE RolloutConverges'
<1> SUFFICES ASSUME ~misled', (result' = "failed" /\ budget' = MaxFaults) \/ result' = "deployed"
             PROVE  /\ (route' \cap alive') \ strays' \subseteq Serving(disk)'
                    /\ result' = "deployed" => route' = Serving(disk)' /\ disk'.ver \in {0, current'}
  BY DEF RolloutConverges
<1>1. CASE UndoMigration
  <2>1. result' = "failed"
    BY <1>1 DEF UndoMigration, Return
  <2> QED BY <1>1, <2>1, UndoMigrationReturns
<1>2. CASE StoreFinal
  <2>1. result' = "deployed"
    BY <1>2, StoreFinalReturns
  <2> QED BY <1>2, <2>1, StoreFinalReturns
<1>3. CASE /\ pc = "finishAbort" /\ loc.switched /\ UNCHANGED <<alive, route, disk, misled, strays, budget>>
           /\ result' \in {"kept", "failed"}
  <2>1. misled \/ ~loc.switched \/ route = {loc.stable}
    BY <1>3 DEF Traffic, BackOK
  <2>2. misled' = misled
    BY <1>3, Zenon
  <2>3. disk = mem /\ pc \in Held \ PromotedSteps
    BY <1>3, StepSets DEF Traffic, BackOK, PromotedSteps
  <2>4. Serving(disk)' = {loc.stable}
    BY <1>3, <2>3, HeldServing DEF Serving
  <2> QED BY <1>3, <2>1, <2>2, <2>4
<1>4. ~(pc = "settle" /\ StoreFails(Settled) /\ result' \in {"kept", "failed"})
  <2>1. StoreFails(Settled) => \E k : Fault(k)
    BY DEF StoreFails
  <2> QED BY <2>1, InvFacts, FaultMet
<1>5. result' \in {"failed", "deployed"}
  OBVIOUS
<1> QED BY <1>1, <1>2, <1>3, <1>4, <1>5, Returns DEF RolloutEnds, OtherEnds

-----------------------------------------------------------------------------
(* The traffic invariant, and what it shows.                               *)

\* The traffic is right at first.
LEMMA InitTraffic == Init => Traffic
<1> SUFFICES ASSUME Init PROVE Traffic
  OBVIOUS
<1>1. pc = "idle" /\ result = "none"
  BY DEF Init
<1>2. Calm
  <2>1. disk.mode = "blue-green" => disk.slots[Other(disk.active)].pid = 0 /\ 0 \notin route
    BY OriginFacts, OtherFacts, PidFacts
  <2>2. ~SideRouted(disk) /\ ~RetiringRouted(disk)
    BY <2>1, OriginFacts DEF SideRouted, RetiringRouted
  <2> QED BY <2>2 DEF Calm
<1>3. SplitOK /\ BackOK /\ RolloutConverges
  BY <1>1 DEF SplitOK, BackOK, Unrouted, PromotedSteps, RolloutConverges
<1>4. StopsOK /\ StartOK
  BY <1>1, StepSets DEF StopsOK, StartOK, Unrouted
<1> QED BY <1>2, <1>3, <1>4 DEF Traffic

\* Every step preserves that.
LEMMA NextTraffic == Inv /\ Traffic /\ [Next]_vars => Traffic'
<1> SUFFICES ASSUME Inv, Traffic, [Next]_vars PROVE Traffic'
  OBVIOUS
<1>1. CASE UNCHANGED vars
  <2>1. UNCHANGED <<alive, proven, next, route, disk, current, pc, mem, loc, budget, misled, strays, result>>
    BY <1>1 DEF vars, procs, files, hist
  <2>2. Calm' /\ SplitOK' /\ BackOK'
    BY <2>1 DEF Traffic, Calm, SideRouted, RetiringRouted, Serving, SplitOK, BackOK, StepTargets
  <2>3. StopsOK' /\ StartOK' /\ RolloutConverges'
    BY <2>1 DEF Traffic, StopsOK, StartOK, RolloutConverges, SideRouted, Serving, AtRest, Recorded
  <2> QED BY <2>2, <2>3 DEF Traffic
<1>2. CASE Next /\ pc' = "idle"
  BY <1>2, ReturnsCalm, ReturnsConverge, IdleTraffic
<1>3. SUFFICES ASSUME Next, pc' # "idle" PROVE Moved
  BY <1>1, <1>2, MovedTraffic
<1>4. CASE Prepare
  <2>1. ~Refuse
    BY <1>3 DEF Refuse, Return
  <2>2. CASE StopUnrouted
    BY <2>2, StopUnhealthyTraffic, StopTraffic
  <2> QED BY <1>3, <1>4, <2>1, <2>2, BeginTraffic, ResolveStableTraffic, MigrateToTraffic, RecoverRouteTraffic,
             RecoverStaleSlotsTraffic, CheckEnrolledTraffic, LaunchCanaryTraffic, HealthPassesTraffic,
             StoreTraffic, DecideTraffic, Zenon DEF Prepare
<1>5. CASE TrafficSteps
  BY <1>3, <1>5, DecideTraffic, HandOffPublicPortTraffic, SwitchTrafficTraffic, StoreStepTraffic,
     StopTraffic, Zenon DEF TrafficSteps
<1>6. CASE Finish
  <2>1. CASE RestoreStable
    <3>1. pc \in {"abort", "compensate"}
      BY <2>1 DEF RestoreStable, Step
    <3> QED BY <2>1, <3>1, DemoteTraffic, RestoreStableTraffic
  <2>2. CASE FinishAbort
    <3>1. ~loc.switched
      BY <1>3, <2>2 DEF FinishAbort, Return
    <3> QED BY <2>2, <3>1, FinishAbortTraffic
  <2>3. ~StoreBestKnown /\ ~UndoMigration /\ ~StoreFinal
    BY <1>3 DEF StoreBestKnown, UndoMigration, StoreFinal, Return
  <2> QED BY <1>3, <1>6, <2>1, <2>2, <2>3, SettleTraffic, StorePromotedTraffic, DrainOldTraffic,
             PromoteVersionTraffic, StopTraffic, Zenon DEF Finish
<1>7. CASE Reconcile
  <2>1. ~StoreDrained
    BY <1>3 DEF StoreDrained, Return
  <2> QED BY <1>3, <1>7, <2>1, ReconcileCanaryTraffic, ReconcileStoreTraffic, StopStableTraffic,
             DrainTraffic, Zenon DEF Reconcile
<1>8. CASE InstanceDies
  BY <1>8, InstanceDiesTraffic
<1>9. ~Crash
  BY <1>3 DEF Crash, Return
<1> QED BY <1>3, <1>4, <1>5, <1>6, <1>7, <1>8, <1>9 DEF Next

\* At every step of rollout.go the proxy's targets are where its journal, or
\* the record of the rollout in progress, says they are.
THEOREM TrafficInvariant == Spec => [](Inv /\ Traffic)
<1>1. Init => Inv /\ Traffic
  BY InitInv, InitTraffic
<1>2. Inv /\ Traffic /\ [Next]_vars => Inv' /\ Traffic'
  BY NextInv, NextTraffic
<1> QED BY <1>1, <1>2, PTL DEF Spec

\* A rollout that fails without a fault of its own, or completes, leaves the
\* traffic with the instance deploy.json calls active and with no canary beside
\* it, wherever those before it were killed.  That instance is not always the
\* stable one: a reconciliation may have accepted a canary that no rollout has
\* verified (rollout.go deployRollout, see InterruptedStaysStable).
THEOREM RolloutsConverge == Spec => []RolloutConverges
<1>1. Traffic => RolloutConverges
  BY DEF Traffic
<1> QED BY <1>1, TrafficInvariant, PTL


\* What an operation stops: only these actions end a process.
LEMMA Kills ==
  ASSUME Inv, Next, pc' # pc
  PROVE  \/ alive \subseteq alive'
         \/ pc = "recover" /\ alive \ alive' \subseteq {mem.slots[Other(mem.active)].pid}
         \/ pc \in {"stopUnstarted", "stopUnhealthy", "stopCanary"} /\ alive \ alive' \subseteq {loc.cand}
         \/ pc = "stopLegacy" /\ alive \ alive' \subseteq loc.legacy
         \/ pc = "step" /\ ~loc.enrolled
         \/ pc = "drainOld" /\ alive \ alive' \subseteq {loc.stable}
         \/ pc = "stopStable" /\ alive \ alive' \subseteq {mem.slots[Other(mem.active)].pid}
         \/ /\ pc = "drain" /\ alive \ alive' \subseteq mem.retiring
            /\ mem.mode = "rolling" \/ Serving(mem) \cap alive # {}
<1>1. \A S : StopOK(S) \/ StopFails(S) => alive \ alive' \subseteq S
  BY InvFacts, StopFacts
<1>2. CASE Prepare
  <2>1. CASE RecoverStaleSlots
    <3>1. pc = "recover" /\ \/ StopOK({mem.slots[Other(mem.active)].pid})
                            \/ StopFails({mem.slots[Other(mem.active)].pid})
      BY <2>1 DEF RecoverStaleSlots, Step
    <3> QED BY <1>1, <3>1
  <2>2. CASE StopUnrouted
    <3>1. pc \in {"stopUnstarted", "stopUnhealthy"} /\ (StopOK({loc.cand}) \/ StopFails({loc.cand}))
      BY <2>2 DEF StopUnrouted, Step
    <3> QED BY <1>1, <3>1
  <2>3. CASE ~RecoverStaleSlots /\ ~StopUnrouted
    BY <1>2, <2>3 DEF Prepare, Begin, Refuse, ResolveStable, MigrateTo, StoreAdopted, RecoverRoute,
       StoreRecoveredAborted, CheckEnrolled, BuildFails, LaunchCanary, Launch, StoreStarting, HealthFails,
       HealthPasses, StoreRunning, StoreFailed, procs
  <2> QED BY <2>1, <2>2, <2>3
<1>3. CASE TrafficSteps
  <2>1. CASE StopLegacy
    <3>1. pc = "stopLegacy" /\ (StopOK(loc.legacy) \/ StopFails(loc.legacy))
      BY <2>1 DEF StopLegacy, Step
    <3> QED BY <1>1, <3>1
  <2>2. CASE HandOffPublicPort
    BY <2>2 DEF HandOffPublicPort, Step
  <2>3. CASE ~StopLegacy /\ ~HandOffPublicPort
    BY <1>3, <2>3 DEF TrafficSteps, Cancelled, SwitchTraffic, StoreStep, VerifyPasses, VerifyFails, procs
  <2> QED BY <2>1, <2>2, <2>3
<1>4. CASE Finish
  <2>1. CASE StopCanary
    <3>1. pc = "stopCanary" /\ (StopOK({loc.cand}) \/ StopFails({loc.cand}))
      BY <2>1 DEF StopCanary, Step
    <3> QED BY <1>1, <3>1
  <2>2. CASE DrainOld
    <3>1. pc = "drainOld" /\ (StopOK({loc.stable}) \/ StopFails({loc.stable}))
      BY <2>2 DEF DrainOld, Step
    <3> QED BY <1>1, <3>1
  <2>3. CASE ~StopCanary /\ ~DrainOld
    BY <1>4, <2>3 DEF Finish, RestoreStable, StoreBestKnown, Settle, FinishAbort, UndoMigration,
       StorePromoted, PromoteVersion, StoreFinal, procs
  <2> QED BY <2>1, <2>2, <2>3
<1>5. CASE Reconcile
  <2>1. CASE StopStable
    <3>1. pc = "stopStable" /\ \/ StopOK({mem.slots[Other(mem.active)].pid})
                               \/ StopFails({mem.slots[Other(mem.active)].pid})
      BY <2>1 DEF StopStable, Step
    <3> QED BY <1>1, <3>1
  <2>2. CASE Drain
    <3>1. \/ alive' = alive
          \/ /\ pc = "drain" /\ (mem.mode = "rolling" \/ Serving(mem) \cap alive # {})
             /\ StopOK(mem.retiring \ Serving(mem)) \/ StopFails(mem.retiring \ Serving(mem))
      BY <2>2 DEF Drain, Step
    <3> QED BY <1>1, <3>1
  <2>3. CASE ~StopStable /\ ~Drain
    BY <1>5, <2>3 DEF Reconcile, ReconcileCanary, StoreAccepted, StoreStopped, StoreDrained, procs
  <2> QED BY <2>1, <2>2, <2>3
<1>6. CASE Crash
  BY <1>6 DEF Crash, procs
<1>7. ~InstanceDies
  BY DEF InstanceDies
<1> QED BY <1>2, <1>3, <1>4, <1>5, <1>6, <1>7 DEF Next

\* None of them has traffic, unless the operation is misled or hands over the
\* public port after a failing Status.
LEMMA KillsUnrouted ==
  ASSUME Inv, Traffic, [Next]_vars
  PROVE  (alive \ alive') \cap route # {} =>
           misled \/ UNCHANGED pc \/ (pc = "step" /\ ~loc.enrolled)
<1> SUFFICES ASSUME ~misled, pc' # pc, ~(pc = "step" /\ ~loc.enrolled) PROVE (alive \ alive') \cap route = {}
  OBVIOUS
<1>1. Next
  BY DEF vars
<1>2. pc = "recover" => mem.slots[Other(mem.active)].pid \notin route
  BY DEF Inv, CanaryOK, NotRunning, Traffic, StopsOK
<1>3. pc \in {"stopUnstarted", "stopUnhealthy", "stopCanary"} => loc.cand \notin route
  BY DEF Traffic, SplitOK, BackOK, Unrouted
<1>4. pc = "stopLegacy" => loc.legacy \cap route = {}
  <2>1. pc = "stopLegacy" => route \subseteq {loc.stable, loc.cand}
    BY DEF Traffic, SplitOK
  <2>2. pc = "stopLegacy" => loc.stable \notin loc.legacy /\ loc.cand \notin loc.legacy
    BY StepSets DEF Inv, HeldOK, CanaryOK
  <2> QED BY <2>1, <2>2
<1>5. pc = "drainOld" => loc.stable \notin route
  BY StepSets DEF Traffic, SplitOK, PromotedSteps, Inv, CanaryOK
<1>6. pc = "stopStable" => mem.slots[Other(mem.active)].pid \notin route
  BY AcceptedCalm
<1>7. pc = "drain" /\ (mem.mode = "rolling" \/ Serving(mem) \cap alive # {}) => mem.retiring \cap route = {}
  BY DEF Traffic, StopsOK, Calm, RetiringRouted
<1> QED BY <1>1, <1>2, <1>3, <1>4, <1>5, <1>6, <1>7, Kills

\* No rollout and no reconciliation stops an instance that still has a share of
\* the traffic, unless a call that restores the stable routing has failed or an
\* operation before it met two faults.  After a failing Status the hand-off of
\* the public port (rollout.go switchTraffic) is past this: it stops the serving
\* instance that apps.json names.
THEOREM NobodyServingKilled == Spec => NoServingKill
<1>1. Inv /\ Traffic /\ [Next]_vars =>
        [(alive \ alive') \cap route # {} =>
           misled \/ UNCHANGED pc \/ (pc = "step" /\ ~loc.enrolled)]_vars
  BY KillsUnrouted
<1> QED BY <1>1, TrafficInvariant, PTL DEF Spec, NoServingKill

=============================================================================
