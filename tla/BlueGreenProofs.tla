-------------------------- MODULE BlueGreenProofs --------------------------
(***************************************************************************)
(* Proofs about BlueGreen, for any number of instances, any set and number *)
(* of faults and any situations to start from: crashes, lost replies and   *)
(* failing stores included, the proxy never sends a request to an instance *)
(* that has not been proven healthy.                                       *)
(*                                                                         *)
(* A cutover points the proxy at the candidate, a compensation at the slot *)
(* that was active before.  The first needs the candidate to be proven     *)
(* when the cutover is reached; the second needs every journal the         *)
(* operation may have loaded, migrated, or modified to name a proven       *)
(* instance in its active slot, and a deploy never to write to that slot.  *)
(*                                                                         *)
(* The second part is about operations that meet one fault: agreement of   *)
(* the records, no lost or killed instance, and the refinement of Service. *)
(***************************************************************************)
EXTENDS BlueGreen, FiniteSetTheorems, TLAPS

\* The active slot of a journal holds an instance that was proven healthy.
ActiveProven(j) == j.active # NoSlot => j.slots[j.active].port \in proven

\* ... on disk, in memory, and in what captureMode remembers.
JournalsProven == ActiveProven(disk) /\ ActiveProven(mem) /\ ActiveProven(loc.pre)

\* The slot a deploy replaces is not the one it deploys into, and it holds
\* a proven instance until the deploy is over.
OldSlotProven ==
  loc.active # NoSlot => /\ loc.active # loc.slot
                         /\ mem.slots[loc.active].port \in proven

\* Nothing but a deploy has an old slot, and until it commits it and the
\* journal it holds agree on it.
OldSlotActive ==
  /\ pc \in {"drain", "storeDrained", "load", "migrate", "launchActive", "listen",
             "storeStarted", "restoreRoute"} => loc.active = NoSlot
  /\ pc \in {"storeRecovered", "probe", "build"} => mem.active = loc.active

\* From its launch to the commit, the candidate is recorded in its slot.
CandidateRecorded ==
  pc \in {"storeStarting", "health", "cutover", "add", "commit"} =>
    mem.slots[loc.slot].port = loc.cand

\* Once launched, the candidate is an instance.
CandidateLaunched ==
  pc \in {"storeStarting", "health", "cutover", "add", "abort", "commit", "promote",
          "compensate", "demote", "retire", "stopRetired", "listen", "storeStarted",
          "undoStart", "restoreRoute"} => loc.cand \in Inst

\* The proxy is reached only by way of the health check or the listener.
CandidateProven ==
  pc \in {"cutover", "add", "commit", "storeStarted", "restoreRoute"} => loc.cand \in proven

\* An operation that is going to launch has a number left for the instance.
LaunchFits ==
  /\ pc \in {"load", "migrate", "recover", "storeRecovered", "probe", "build", "launchActive"}
       => next <= MaxInst
  /\ pc \in {"drain", "storeDrained"} /\ loc.op \in {"rollback", "start"} => next <= MaxInst

Inv == /\ TypeOK
       /\ OnlyProvenRouted
       /\ JournalsProven
       /\ OldSlotProven
       /\ OldSlotActive
       /\ CandidateRecorded
       /\ CandidateLaunched
       /\ CandidateProven
       /\ LaunchFits

USE MaxInstAssumption, MaxFaultsAssumption, OriginsAssumption, RollingAssumption

-----------------------------------------------------------------------------
(* Journals and slot records.                                              *)

\* PIDs: the numbers of instances and zero.
LEMMA PidFacts ==
  /\ 0 \in Pid /\ Inst \subseteq Pid /\ Pid \ {0} \subseteq Inst
  /\ 0 \in Version /\ \A n \in Inst : 0 .. n \subseteq Version
BY DEF Pid, Inst, Version

\* The slot beside a slot is another slot.
LEMMA SlotFacts ==
  /\ "blue" \in Slots /\ NoSlot \notin Slots
  /\ \A s \in Slots \cup {NoSlot} : Other(s) \in Slots /\ Other(s) # s
<1>1. "blue" \in Slots /\ NoSlot \notin Slots
  BY DEF Slots, NoSlot
<1>2. \A s \in {"blue", "green", ""} : Other(s) \in {"blue", "green"} /\ Other(s) # s
  BY DEF Other
<1> QED BY <1>1, <1>2 DEF Slots, NoSlot

\* Stopping a slot, tearing it down or failing it keeps its port.
LEMMA RecordFacts ==
  ASSUME NEW rec \in SlotRec
  PROVE  /\ Stopped(rec) \in SlotRec /\ Stopped(rec).port = rec.port
         /\ TornDown(rec) \in SlotRec /\ TornDown(rec).port = rec.port
         /\ Failed(rec) \in SlotRec /\ Failed(rec).port = rec.port
BY PidFacts DEF SlotRec, Stopped, TornDown, Failed

\* The other updates of a record keep its port.
LEMMA RecordUpdates ==
  ASSUME NEW rec \in SlotRec
  PROVE  /\ [rec EXCEPT !.status = "running"] \in SlotRec
         /\ [rec EXCEPT !.status = "running"].port = rec.port
         /\ [rec EXCEPT !.pid = 0, !.status = "failed"] \in SlotRec
         /\ [rec EXCEPT !.pid = 0, !.status = "failed"].port = rec.port
         /\ \A i \in Inst :
              /\ [rec EXCEPT !.pid = i, !.port = i, !.status = "running"] \in SlotRec
              /\ [rec EXCEPT !.pid = i, !.port = i, !.status = "running"].port = i
<1>1. /\ [rec EXCEPT !.status = "running"] \in SlotRec
      /\ [rec EXCEPT !.status = "running"].port = rec.port
  BY DEF SlotRec
<1>2. /\ [rec EXCEPT !.pid = 0, !.status = "failed"] \in SlotRec
      /\ [rec EXCEPT !.pid = 0, !.status = "failed"].port = rec.port
  BY PidFacts DEF SlotRec
<1>3. ASSUME NEW i \in Inst
      PROVE  /\ [rec EXCEPT !.pid = i, !.port = i, !.status = "running"] \in SlotRec
             /\ [rec EXCEPT !.pid = i, !.port = i, !.status = "running"].port = i
  BY PidFacts DEF SlotRec
<1> QED BY <1>1, <1>2, <1>3

\* A deploy.json that does not exist has no active slot.
LEMMA EmptyJournal == NoJournal \in Journal /\ NoJournal.active = NoSlot
BY PidFacts DEF NoJournal, Journal, EmptySlots, EmptySlot, SlotRec

\* An operation begins without an old slot, and with nothing captured.
LEMMA EmptyLocals ==
  /\ NoLocals \in Locals /\ NoLocals.active = NoSlot /\ NoLocals.pre = NoJournal
  /\ \A op \in Ops : /\ [NoLocals EXCEPT !.op = op] \in Locals
                     /\ [NoLocals EXCEPT !.op = op].op = op
                     /\ [NoLocals EXCEPT !.op = op].active = NoSlot
                     /\ [NoLocals EXCEPT !.op = op].pre = NoJournal
<1>1. NoLocals \in Locals
  BY EmptyJournal, PidFacts, SlotFacts DEF NoLocals, Locals
<1>2. NoLocals.active = NoSlot /\ NoLocals.pre = NoJournal
  BY DEF NoLocals
<1>3. ASSUME NEW op \in Ops
      PROVE  /\ [NoLocals EXCEPT !.op = op] \in Locals
             /\ [NoLocals EXCEPT !.op = op].op = op
             /\ [NoLocals EXCEPT !.op = op].active = NoLocals.active
             /\ [NoLocals EXCEPT !.op = op].pre = NoLocals.pre
  BY <1>1 DEF Locals
<1> QED BY <1>1, <1>2, <1>3

\* Writing a record changes one slot and nothing else.
LEMMA SetSlotFacts ==
  ASSUME NEW j \in Journal, NEW s \in Slots, NEW rec \in SlotRec
  PROVE  /\ SetSlot(j, s, rec) \in Journal
         /\ SetSlot(j, s, rec).active = j.active
         /\ SetSlot(j, s, rec).slots[s] = rec
         /\ \A t \in Slots \ {s} : SetSlot(j, s, rec).slots[t] = j.slots[t]
BY DEF SetSlot, Journal

\* What reading a journal yields.
LEMMA JournalFacts ==
  ASSUME NEW j \in Journal
  PROVE  /\ j.active \in Slots \cup {NoSlot}
         /\ j.slots \in [Slots -> SlotRec]
         /\ j.ver \in Version /\ j.replicas \subseteq Inst /\ j.retiring \subseteq Inst
         /\ SlotPids(j) \subseteq Inst /\ Serving(j) \subseteq Inst
BY PidFacts DEF Journal, SlotPids, SlotRec, Serving, ActivePid

-----------------------------------------------------------------------------
(* The outcomes of the calls that can fail.                                *)

\* Whatever becomes of a Store, deploy.json has its old or its new contents.
LEMMA StoreFacts ==
  ASSUME TypeOK, NEW j, StoreOK(j) \/ StoreFails(j)
  PROVE  disk' \in {disk, j} /\ budget' \in 0 .. MaxFaults
BY DEF TypeOK, StoreOK, StoreFails, Fault, NoFault

\* Whatever becomes of a stop, it launches nothing.
LEMMA StopFacts ==
  ASSUME TypeOK, NEW stopped, StopOK(stopped) \/ StopFails(stopped)
  PROVE  alive' \subseteq Inst /\ budget' \in 0 .. MaxFaults
BY DEF TypeOK, StopOK, StopFails, Fault, NoFault

\* Whatever becomes of a proxy call, the old or the new targets are routed.
LEMMA CallFacts ==
  ASSUME TypeOK, NEW T, CallOK(T) \/ CallFails(T)
  PROVE  route' \in {route, T} /\ budget' \in 0 .. MaxFaults
BY DEF TypeOK, CallOK, CallFails, Fault, NoFault

\* A step meets at most the faults that are left.
LEMMA FaultFacts ==
  ASSUME TypeOK, NoFault \/ \E kind : Fault(kind)
  PROVE  budget' \in 0 .. MaxFaults
BY DEF TypeOK, Fault, NoFault

-----------------------------------------------------------------------------
(* Steps that change neither the active slot and the ports of the journal  *)
(* in memory nor the old slot, the candidate and its slot.                 *)

\* The steps at which the parts of the invariant say something.
NoOldSlotSteps == {"drain", "storeDrained", "load", "migrate", "launchActive", "listen",
                   "storeStarted", "restoreRoute"}
OldSlotSteps == {"storeRecovered", "probe", "build"}
RecordedSteps == {"storeStarting", "health", "cutover", "add", "commit"}
LaunchedSteps == {"storeStarting", "health", "cutover", "add", "abort", "commit", "promote",
                  "compensate", "demote", "retire", "stopRetired", "listen", "storeStarted",
                  "undoStart", "restoreRoute"}
ProvenSteps == {"cutover", "add", "commit", "storeStarted", "restoreRoute"}

\* What is said at the second step was said at the first one.
Flows(from, to) == /\ to \in Steps
                   /\ to \in NoOldSlotSteps => from \in NoOldSlotSteps
                   /\ to \in OldSlotSteps => from \in OldSlotSteps
                   /\ to \in RecordedSteps => from \in RecordedSteps
                   /\ to \in LaunchedSteps => from \in LaunchedSteps
                   /\ to \in ProvenSteps => from \in ProvenSteps

KeepsLocals == /\ loc' \in Locals
               /\ loc'.active = loc.active /\ loc'.slot = loc.slot
               /\ loc'.cand = loc.cand /\ loc'.pre = loc.pre /\ loc'.op = loc.op

\* The rest of the state stays within its types.
WorldOK == /\ alive' \subseteq Inst /\ route' \subseteq proven
           /\ classic' \in BOOLEAN /\ current' \in Version
           /\ budget' \in 0 .. MaxFaults
           /\ UNCHANGED <<proven, next>>

KeepsPorts == /\ mem' \in Journal /\ mem'.active = mem.active
              /\ \A s \in Slots : mem'.slots[s].port = mem.slots[s].port

\* Such a step preserves the invariant.
LEMMA KeptInv ==
  ASSUME Inv, WorldOK, KeepsLocals, KeepsPorts, disk' \in {disk, mem, mem'},
         Flows(pc, pc'), LaunchFits', UNCHANGED <<removal, result>>, before' \subseteq before
  PROVE  Inv'
<1>1. TypeOK'
  BY DEF Inv, TypeOK, WorldOK, KeepsLocals, KeepsPorts, OnlyProvenRouted, Flows
<1>2. OnlyProvenRouted'
  BY DEF Inv, OnlyProvenRouted, WorldOK
<1>t. mem.active \in Slots \cup {NoSlot} /\ loc.active \in Slots \cup {NoSlot} /\ loc.slot \in Slots
  BY DEF Inv, TypeOK, Journal, Locals
<1>3. JournalsProven'
  BY <1>t DEF Inv, JournalsProven, ActiveProven, KeepsLocals, KeepsPorts, WorldOK
<1>4. OldSlotProven'
  BY <1>t DEF Inv, OldSlotProven, KeepsLocals, KeepsPorts, WorldOK
<1>5. OldSlotActive' /\ CandidateRecorded' /\ CandidateLaunched' /\ CandidateProven'
  BY <1>t DEF Inv, OldSlotActive, CandidateRecorded, CandidateLaunched, CandidateProven,
     Flows, NoOldSlotSteps, OldSlotSteps, RecordedSteps, LaunchedSteps, ProvenSteps,
     KeepsLocals, KeepsPorts, WorldOK
<1> QED BY <1>1, <1>2, <1>3, <1>4, <1>5 DEF Inv

\* An operation that returns leaves nothing but the world and the disk.
LEMMA ReturnInv ==
  ASSUME Inv, WorldOK, NEW r \in {"none", "ok", "deployed", "failed", "crashed"}, Return(r),
         disk' \in Journal, ActiveProven(disk)', removal' \in BOOLEAN, before' = before
  PROVE  Inv'
<1>1. TypeOK'
  BY EmptyJournal, EmptyLocals DEF Inv, TypeOK, WorldOK, OnlyProvenRouted, Return, Steps
<1>2. OnlyProvenRouted' /\ JournalsProven' /\ OldSlotProven'
  BY EmptyJournal, EmptyLocals
  DEF Inv, WorldOK, OnlyProvenRouted, JournalsProven, ActiveProven, OldSlotProven, Return
<1>3. /\ OldSlotActive' /\ CandidateRecorded' /\ CandidateLaunched' /\ CandidateProven'
      /\ LaunchFits'
  BY DEF OldSlotActive, CandidateRecorded, CandidateLaunched, CandidateProven, LaunchFits,
     Return
<1> QED BY <1>1, <1>2, <1>3 DEF Inv

-----------------------------------------------------------------------------
(* Initially.                                                              *)

\* Every situation an application may start from satisfies the invariant.
LEMMA InitInv == Init => Inv
<1> SUFFICES ASSUME NEW o \in Origins, Origin(o), Init PROVE Inv
  BY DEF Init
<1>1. alive \subseteq Inst /\ next \in 1 .. MaxInst + 1 /\ current \in Version
  <2>1. CASE o = "rolling"
    <3>1. alive = {1, 2} BY <2>1 DEF Origin
    <3>2. Cardinality({1, 2}) = 2
      <4>1. {1, 2} = {1} \cup {2} /\ 2 \notin {1} /\ 1 + 1 = 2
        OBVIOUS
      <4>2. IsFiniteSet({1}) /\ Cardinality({1}) = 1
        BY FS_Singleton
      <4>3. Cardinality({1} \cup {2}) = Cardinality({1}) + 1
        BY <4>1, <4>2, FS_AddElement
      <4> QED BY <4>1, <4>2, <4>3
    <3> QED BY <2>1, <3>1, <3>2 DEF Origin, Inst, Version
  <2>2. CASE o = "bluegreen"
    <3>1. alive = {1} BY <2>2 DEF Origin
    <3> QED BY <2>2, <3>1, FS_Singleton DEF Origin, Inst, Version
  <2>3. CASE o \notin {"rolling", "bluegreen"}
    <3>1. alive = {} BY <2>3 DEF Origin
    <3> QED BY <2>3, <3>1, FS_EmptySet DEF Origin, Inst, Version
  <2> QED BY <2>1, <2>2, <2>3
<1>2. disk \in Journal /\ ActiveProven(disk)
  <2>1. CASE o = "rolling"
    <3>1. disk = [NoJournal EXCEPT !.mode = "rolling", !.replicas = {1, 2}, !.ver = 1]
      BY <2>1 DEF Origin
    <3>2. {1, 2} \subseteq Inst /\ 1 \in Version BY <2>1 DEF Inst, Version
    <3> QED BY <3>1, <3>2, EmptyJournal DEF Journal, ActiveProven
  <2>2. CASE o = "bluegreen"
    <3>1. disk = [mode |-> "blue-green", active |-> "blue",
                  slots |-> [EmptySlots EXCEPT !["blue"] = Record(1, 1)],
                  replicas |-> {}, retiring |-> {}, ver |-> 1]
      BY <2>2 DEF Origin, NoJournal
    <3>2. EmptySlots \in [Slots -> SlotRec] BY EmptyJournal DEF NoJournal, Journal
    <3>3. 1 \in Inst /\ 1 \in Version /\ 1 \in Pid BY DEF Inst, Version, Pid
    <3>4. Record(1, 1) \in SlotRec /\ Record(1, 1).port = 1
      BY <3>3 DEF Record, SlotRec
    <3>5. 1 \in proven BY <2>2 DEF Origin, Init
    <3> QED BY <3>1, <3>2, <3>3, <3>4, <3>5, SlotFacts DEF Journal, ActiveProven
  <2>3. CASE o \notin {"rolling", "bluegreen"}
    <3>1. disk = NoJournal BY <2>3 DEF Origin
    <3> QED BY <3>1, EmptyJournal DEF ActiveProven
  <2> QED BY <2>1, <2>2, <2>3
<1>3. TypeOK
  <2>1. classic \in BOOLEAN BY DEF Origin
  <2>2. pc \in Steps /\ budget \in 0 .. MaxFaults BY DEF Init, Steps
  <2> QED BY <1>1, <1>2, <2>1, <2>2, EmptyJournal, EmptyLocals DEF TypeOK, Init
<1>4. OnlyProvenRouted /\ JournalsProven /\ OldSlotProven
  BY <1>2, EmptyJournal, EmptyLocals
  DEF Init, OnlyProvenRouted, JournalsProven, ActiveProven, OldSlotProven
<1>5. /\ OldSlotActive /\ CandidateRecorded /\ CandidateLaunched /\ CandidateProven
      /\ LaunchFits
  BY DEF Init, OldSlotActive, CandidateRecorded, CandidateLaunched, CandidateProven, LaunchFits
<1> QED BY <1>3, <1>4, <1>5 DEF Inv

-----------------------------------------------------------------------------
(* The steps that only store, stop, ask or decide.                         *)

\* A step that changes no local variable and no port, or none that counts.
LEMMA StepKeepsPorts ==
  ASSUME Inv, NEW from, NEW to, Step(from, to), Flows(from, to),
         to \notin {"load", "migrate", "recover", "launchActive", "drain", "storeDrained"},
         WorldOK, KeepsLocals, KeepsPorts, disk' \in {disk, mem, mem'}
  PROVE  Inv'
<1>1. Flows(pc, pc') /\ UNCHANGED <<removal, before, result>>
  BY DEF Step
<1>2. LaunchFits'
  BY DEF Inv, Step, WorldOK, LaunchFits, Flows, OldSlotSteps
<1> QED BY <1>1, <1>2, KeptInv

\* ... and leaves the journal in memory alone.
LEMMA StepKeeps ==
  ASSUME Inv, NEW from, NEW to, Step(from, to), Flows(from, to),
         to \notin {"load", "migrate", "recover", "launchActive", "drain", "storeDrained"},
         WorldOK, KeepsLocals, mem' = mem, disk' \in {disk, mem}
  PROVE  Inv'
<1>1. KeepsPorts
  BY DEF Inv, TypeOK, KeepsPorts
<1> QED BY <1>1, StepKeepsPorts

\* Locals that are unchanged, or in which nothing that counts is changed.
LEMMA SameLocals ==
  ASSUME Inv,
         \/ loc' = loc
         \/ loc' = [loc EXCEPT !.clear = TRUE]
         \/ loc' = [loc EXCEPT !.switched = TRUE]
         \/ \E b, c \in BOOLEAN : loc' = [loc EXCEPT !.proxyOK = b, !.enrolled = c]
  PROVE  KeepsLocals
BY DEF Inv, TypeOK, KeepsLocals, Locals

\* Which steps follow which.
LEMMA FlowFacts ==
  /\ Flows("storeRecovered", "probe") /\ Flows("probe", "build")
  /\ \A from \in Steps : Flows(from, "fail")
  /\ Flows("storeStarting", "health")
  /\ \A from \in {"health", "cutover", "add"} : Flows(from, "abort")
  /\ Flows("cutover", "add") /\ Flows("cutover", "commit")
  /\ Flows("abort", "storeAborted") /\ Flows("retire", "stopRetired")
  /\ Flows("stopOld", "storeFinal") /\ Flows("teardown", "storeTorn")
  /\ Flows("promote", "stopLegacy") /\ Flows("promote", "demote")
  /\ Flows("demote", "bestKnown") /\ Flows("stopLegacy", "stopOld")
  /\ Flows("unroute", "teardown") /\ Flows("listen", "undoStart")
  /\ Flows("storeStarted", "restoreRoute") /\ Flows("storeStarted", "undoStart")
BY DEF Flows, Steps, NoOldSlotSteps, OldSlotSteps, RecordedSteps, LaunchedSteps, ProvenSteps

\* The steps that store the journal in memory, whatever becomes of the write.
LEMMA StoreStepInv ==
  ASSUME Inv, StoreRecovered \/ StoreStarting \/ StoreAborted \/ StoreBestKnown \/ StoreStarted
  PROVE  Inv'
<1>1. disk' \in {disk, mem} /\ budget' \in 0 .. MaxFaults
  BY StoreFacts DEF Inv, StoreBestEffort, StoreRecovered, StoreStarting, StoreAborted,
     StoreBestKnown, StoreStarted
<1>2. mem' = mem /\ loc' = loc /\ UNCHANGED <<world, current>>
  BY DEF StoreRecovered, StoreStarting, StoreAborted, StoreBestKnown, StoreStarted
<1>3. WorldOK /\ KeepsLocals
  BY <1>1, <1>2, SameLocals DEF Inv, TypeOK, OnlyProvenRouted, WorldOK, world
<1>4. \/ Step("storeRecovered", "probe") \/ Step("storeStarting", "health")
      \/ Step("storeAborted", "fail") \/ Step("bestKnown", "fail")
      \/ Step("storeStarted", "restoreRoute") \/ Step("storeStarted", "undoStart")
  BY DEF StoreRecovered, StoreStarting, StoreAborted, StoreBestKnown, StoreStarted
<1>5. "storeAborted" \in Steps /\ "bestKnown" \in Steps
  BY DEF Steps
<1> QED BY <1>1, <1>2, <1>3, <1>4, <1>5, FlowFacts, StepKeeps

\* The steps that stop something and leave the journal in memory alone.
LEMMA StopStepInv ==
  ASSUME Inv, StopRetired \/ StopLegacy
  PROVE  Inv'
<1>1. alive' \subseteq Inst /\ budget' \in 0 .. MaxFaults
  BY StopFacts DEF Inv, StopRetired, StopLegacy
<1>2. mem' = mem /\ loc' = loc /\ UNCHANGED <<proven, classic, next, route, disk, current>>
  BY DEF StopRetired, StopLegacy
<1>3. WorldOK /\ KeepsLocals
  BY <1>1, <1>2, SameLocals DEF Inv, TypeOK, OnlyProvenRouted, WorldOK
<1>4. \/ Step("stopRetired", "fail") \/ Step("stopLegacy", "stopOld") \/ Step("stopLegacy", "fail")
  BY DEF StopRetired, StopLegacy
<1>5. "stopRetired" \in Steps /\ "stopLegacy" \in Steps
  BY DEF Steps
<1> QED BY <1>2, <1>3, <1>4, <1>5, FlowFacts, StepKeeps

\* The steps that ask or decide.
LEMMA DecideStepInv ==
  ASSUME Inv, ProbeProxy \/ BuildFails \/ HealthFails \/ ProxyUnreachable
              \/ HandOffPublicPort \/ Promote \/ ListenFails
  PROVE  Inv'
<1>1. budget' \in 0 .. MaxFaults
  <2>1. budget' = budget \/ \E kind : Fault(kind)
    BY DEF ProbeProxy, BuildFails, HealthFails, ProxyUnreachable, HandOffPublicPort, Promote,
       ListenFails, NoFault
  <2> QED BY <2>1, FaultFacts DEF Inv, NoFault
<1>2. /\ mem' = mem /\ UNCHANGED <<proven, next, route, disk>>
      /\ alive' \subseteq alive /\ classic' \in BOOLEAN
  BY DEF ProbeProxy, BuildFails, HealthFails, ProxyUnreachable, HandOffPublicPort, Promote,
     ListenFails, world, Inv, TypeOK
<1>3. current' \in Version
  BY DEF ProbeProxy, BuildFails, HealthFails, ProxyUnreachable, HandOffPublicPort, Promote,
     ListenFails, Inv, TypeOK, Locals
<1>4. WorldOK
  BY <1>1, <1>2, <1>3 DEF Inv, TypeOK, OnlyProvenRouted, WorldOK
<1>5. KeepsLocals
  BY SameLocals DEF ProbeProxy, BuildFails, HealthFails, ProxyUnreachable, HandOffPublicPort,
     Promote, ListenFails
<1>6. \/ Step("probe", "build") \/ Step("build", "fail") \/ Step("health", "abort")
      \/ Step("cutover", "abort") \/ Step("cutover", "add")
      \/ Step("promote", "stopLegacy") \/ Step("promote", "demote")
      \/ Step("listen", "undoStart")
      \/ pc = "cutover" /\ pc' = "add" /\ before' = before \ {0} /\ UNCHANGED <<removal, result>>
  BY DEF ProbeProxy, BuildFails, HealthFails, ProxyUnreachable, HandOffPublicPort, Promote,
     ListenFails
<1>7. "build" \in Steps
  BY DEF Steps
<1>8. CASE pc = "cutover" /\ pc' = "add" /\ before' = before \ {0}
           /\ UNCHANGED <<removal, result>>
  <2>1. KeepsPorts
    BY <1>2 DEF Inv, TypeOK, KeepsPorts
  <2>2. LaunchFits'
    BY <1>8 DEF LaunchFits
  <2> QED BY <1>2, <1>4, <1>5, <1>8, <2>1, <2>2, FlowFacts, KeptInv
<1> QED BY <1>2, <1>4, <1>5, <1>6, <1>7, <1>8, FlowFacts, StepKeeps

-----------------------------------------------------------------------------
(* The calls to the proxy.                                                 *)

\* Compensation goes back to nobody or to a proven instance.
LEMMA OldTargetProven == ASSUME Inv PROVE OldTarget \subseteq proven
BY DEF Inv, OldSlotProven, OldTarget

\* The route stays proven if the new targets are.
LEMMA CallKeeps ==
  ASSUME Inv, NEW T \in SUBSET proven,
         CallOK(T) \/ CallFails(T) \/ (NoFault /\ UNCHANGED route),
         UNCHANGED <<alive, proven, classic, next, current>>
  PROVE  WorldOK
<1>1. route' \in {route, T} /\ budget' \in 0 .. MaxFaults
  BY CallFacts, FaultFacts DEF Inv
<1> QED BY <1>1 DEF Inv, TypeOK, OnlyProvenRouted, WorldOK

\* Removing the route, which `stop` begins with.
LEMMA RemoveRouteInv == ASSUME Inv, RemoveRoute PROVE Inv'
<1>1. WorldOK
  BY CallKeeps DEF RemoveRoute
<1> QED BY <1>1, SameLocals, FlowFacts, StepKeeps DEF RemoveRoute

\* The cutover of an enrolled application, to a proven candidate.
LEMMA SwitchInv == ASSUME Inv, Switch PROVE Inv'
<1>1. {loc.cand} \subseteq proven /\ "cutover" \in Steps
  BY DEF Inv, CandidateProven, Switch, Step, Steps
<1>2. WorldOK
  BY <1>1, CallKeeps DEF Switch
<1>3. KeepsLocals
  BY SameLocals DEF Switch
<1> QED BY <1>1, <1>2, <1>3, FlowFacts, StepKeeps DEF Switch

\* Once Add has succeeded there is no old slot.
LEMMA AddInv == ASSUME Inv, Add PROVE Inv'
<1>1. {loc.cand} \subseteq proven /\ "add" \in Steps /\ "commit" \in Steps
  BY DEF Inv, CandidateProven, Add, Step, Steps
<1>2. WorldOK
  BY <1>1, CallKeeps DEF Add
<1>3. CASE Step("add", "abort") /\ loc' = loc
  BY <1>1, <1>2, <1>3, SameLocals, FlowFacts, StepKeeps DEF Add
<1>4. CASE Step("add", "commit") /\ loc' = [loc EXCEPT !.active = NoSlot, !.switched = TRUE]
  <2>1. /\ loc' \in Locals /\ loc'.active = NoSlot /\ loc'.slot = loc.slot
        /\ loc'.cand = loc.cand /\ loc'.pre = loc.pre
    BY <1>4 DEF Inv, TypeOK, Locals
  <2>2. mem' = mem /\ disk' = disk /\ pc = "add" /\ pc' = "commit"
        /\ UNCHANGED <<removal, before, result>>
    BY <1>4 DEF Add, Step
  <2>3. TypeOK'
    BY <1>1, <1>2, <2>1, <2>2 DEF Inv, TypeOK, WorldOK, OnlyProvenRouted
  <2>4. OnlyProvenRouted' /\ JournalsProven' /\ OldSlotProven'
    BY <1>2, <2>1, <2>2
    DEF Inv, WorldOK, OnlyProvenRouted, JournalsProven, ActiveProven, OldSlotProven
  <2>5. /\ OldSlotActive' /\ CandidateRecorded' /\ CandidateLaunched' /\ CandidateProven'
        /\ LaunchFits'
    BY <1>2, <2>1, <2>2
    DEF Inv, WorldOK, OldSlotActive, CandidateRecorded, CandidateLaunched, CandidateProven,
        LaunchFits
  <2> QED BY <2>3, <2>4, <2>5 DEF Inv
<1> QED BY <1>3, <1>4 DEF Add

-----------------------------------------------------------------------------
(* The steps that end an operation.                                        *)

\* Every journal an operation may leave on the disk names a proven instance.
LEMMA DiskProven ==
  ASSUME Inv, disk' \in {disk, mem}, proven' = proven
  PROVE  disk' \in Journal /\ ActiveProven(disk)'
BY DEF Inv, TypeOK, JournalsProven, ActiveProven

\* The undone migration puts back what captureMode remembered.
LEMMA RestoreModeFacts ==
  ASSUME NEW j \in Journal, NEW p \in Journal
  PROVE  /\ RestoreMode(j, p) \in Journal
         /\ RestoreMode(j, p).active = p.active /\ RestoreMode(j, p).slots = p.slots
BY DEF RestoreMode, Journal

\* The ends of operations, the undone migration and the crash among them.
LEMMA ReturnStepInv ==
  ASSUME Inv, Reconciled \/ StartEnds \/ UndoStart \/ StoreTorn \/ Crash \/ UndoMigration
  PROVE  Inv'
<1> DEFINE Rest == /\ UNCHANGED <<proven, classic, next, route, current, before>>
                   /\ alive' \subseteq Inst /\ budget' \in 0 .. MaxFaults
                   /\ removal' \in BOOLEAN
<1>1. CASE Reconciled \/ StartEnds \/ Crash
  <2>1. Rest /\ disk' = disk
    BY <1>1 DEF Reconciled, StartEnds, Crash, world, Inv, TypeOK
  <2>2. WorldOK
    BY <2>1 DEF Inv, TypeOK, OnlyProvenRouted, WorldOK
  <2>3. Return("ok") \/ Return("failed") \/ Return("crashed")
    BY <1>1 DEF Reconciled, StartEnds, Crash
  <2> QED BY <2>1, <2>2, <2>3, DiskProven, ReturnInv
<1>2. CASE UndoStart
  <2>1. alive' \subseteq Inst /\ budget' \in 0 .. MaxFaults
    BY <1>2, StopFacts DEF UndoStart, Inv
  <2>2. WorldOK /\ disk' = disk /\ removal' \in BOOLEAN /\ before' = before
    BY <1>2, <2>1 DEF UndoStart, Inv, TypeOK, OnlyProvenRouted, WorldOK
  <2> QED BY <1>2, <2>2, DiskProven, ReturnInv DEF UndoStart, WorldOK
<1>3. CASE StoreTorn
  <2>1. disk' \in {disk, mem} /\ budget' \in 0 .. MaxFaults
    BY <1>3, StoreFacts DEF StoreTorn, Inv
  <2>2. WorldOK /\ removal' \in BOOLEAN /\ before' = before
    BY <1>3, <2>1 DEF StoreTorn, world, Inv, TypeOK, OnlyProvenRouted, WorldOK
  <2>3. Return("ok") \/ Return("failed")
    BY <1>3 DEF StoreTorn
  <2> QED BY <2>1, <2>2, <2>3, DiskProven, ReturnInv DEF WorldOK
<1>4. CASE UndoMigration
  <2>1. disk' \in {disk, RestoreMode(mem, loc.pre)} /\ budget' \in 0 .. MaxFaults
    BY <1>4, StoreFacts, FaultFacts DEF UndoMigration, StoreBestEffort, Inv
  <2>2. WorldOK /\ removal' \in BOOLEAN /\ before' = before
    BY <1>4, <2>1 DEF UndoMigration, world, Inv, TypeOK, OnlyProvenRouted, WorldOK
  <2>3. disk' \in Journal /\ ActiveProven(disk)'
    <3>1. CASE disk' = disk
      BY <2>2, <3>1, DiskProven DEF WorldOK
    <3>2. CASE disk' = RestoreMode(mem, loc.pre)
      <4>1. mem \in Journal /\ loc.pre \in Journal /\ ActiveProven(loc.pre)
        BY DEF Inv, TypeOK, Locals, JournalsProven
      <4> QED BY <2>2, <3>2, <4>1, RestoreModeFacts DEF ActiveProven, WorldOK
    <3> QED BY <2>1, <3>1, <3>2
  <2> QED BY <1>4, <2>2, <2>3, ReturnInv DEF UndoMigration
<1> QED BY <1>1, <1>2, <1>3, <1>4

-----------------------------------------------------------------------------
(* The steps that update a slot of the journal in memory.                  *)

\* A record that keeps its port keeps the ports.
LEMMA SetSlotKeepsPorts ==
  ASSUME Inv, NEW s \in Slots, NEW rec \in SlotRec, rec.port = mem.slots[s].port,
         mem' = SetSlot(mem, s, rec)
  PROVE  KeepsPorts
BY SetSlotFacts DEF Inv, TypeOK, KeepsPorts

\* An aborted candidate keeps its port in its record.
LEMMA StopCandidateInv == ASSUME Inv, StopCandidate PROVE Inv'
<1>1. mem.slots[loc.slot] \in SlotRec /\ loc.slot \in Slots
  BY DEF Inv, TypeOK, Journal, Locals
<1>2. KeepsPorts
  BY <1>1, RecordFacts, SetSlotKeepsPorts DEF StopCandidate
<1>3. alive' \subseteq Inst /\ budget' \in 0 .. MaxFaults
  BY StopFacts DEF StopCandidate, Inv
<1>4. WorldOK /\ KeepsLocals
  BY <1>3, SameLocals DEF StopCandidate, Inv, TypeOK, OnlyProvenRouted, WorldOK
<1> QED BY <1>2, <1>4, FlowFacts, StepKeepsPorts DEF StopCandidate

\* retireFailedCandidate, whether or not its Store succeeds.
LEMMA RetireCandidateInv == ASSUME Inv, RetireCandidate PROVE Inv'
<1>1. mem.slots[loc.slot] \in SlotRec /\ loc.slot \in Slots /\ loc.cand \in Inst
  BY DEF Inv, TypeOK, Journal, Locals, CandidateLaunched, RetireCandidate, Step
<1> DEFINE listed == [mem EXCEPT !.retiring = @ \cup {loc.cand}]
<1>2. listed \in Journal /\ listed.active = mem.active /\ listed.slots = mem.slots
  BY <1>1 DEF Inv, TypeOK, Journal
<1> HIDE DEF listed
<1>r. PICK rec \in SlotRec : /\ rec.port = mem.slots[loc.slot].port
                            /\ Retired = SetSlot(listed, loc.slot, rec)
  BY <1>1, RecordUpdates DEF Retired, listed
<1>3. /\ Retired \in Journal /\ Retired.active = mem.active
      /\ \A s \in Slots : Retired.slots[s].port = mem.slots[s].port
  <2>1. /\ Retired \in Journal /\ Retired.active = listed.active
        /\ Retired.slots[loc.slot] = rec
        /\ \A s \in Slots \ {loc.slot} : Retired.slots[s] = listed.slots[s]
    BY <1>1, <1>2, <1>r, SetSlotFacts
  <2> QED BY <2>1, <1>2, <1>r
<1>4. disk' \in {disk, Retired} /\ budget' \in 0 .. MaxFaults
  BY StoreFacts DEF RetireCandidate, Inv
<1>5. WorldOK /\ KeepsLocals
  BY <1>4, SameLocals DEF RetireCandidate, world, Inv, TypeOK, OnlyProvenRouted, WorldOK
<1>6. CASE Step("retire", "stopRetired") /\ StoreOK(Retired) /\ mem' = Retired
  <2>1. KeepsPorts
    BY <1>3, <1>6 DEF KeepsPorts
  <2> QED BY <1>4, <1>5, <1>6, <2>1, FlowFacts, StepKeepsPorts
<1>7. CASE Step("retire", "fail") /\ StoreFails(Retired) /\ mem' = mem
  <2>1. disk' \in Journal /\ ActiveProven(disk)'
    BY <1>3, <1>4, <1>5 DEF Inv, TypeOK, JournalsProven, ActiveProven, WorldOK, Journal
  <2>2. pc' = "fail" /\ loc' = loc /\ UNCHANGED <<removal, before, result>>
    BY <1>7 DEF Step, RetireCandidate
  <2>3. TypeOK'
    BY <1>5, <1>7, <2>1, <2>2 DEF Inv, TypeOK, WorldOK, OnlyProvenRouted, Steps
  <2>4. OnlyProvenRouted' /\ JournalsProven' /\ OldSlotProven'
    BY <1>5, <1>7, <2>1, <2>2
    DEF Inv, WorldOK, OnlyProvenRouted, JournalsProven, ActiveProven, OldSlotProven
  <2>5. /\ OldSlotActive' /\ CandidateRecorded' /\ CandidateLaunched' /\ CandidateProven'
        /\ LaunchFits'
    BY <2>2 DEF OldSlotActive, CandidateRecorded, CandidateLaunched, CandidateProven, LaunchFits
  <2> QED BY <2>3, <2>4, <2>5 DEF Inv
<1> QED BY <1>6, <1>7 DEF RetireCandidate

\* Stopping the old slot keeps its port on record.
LEMMA StopOldInv == ASSUME Inv, StopOld PROVE Inv'
<1>1. mem' = mem \/ mem' = Drained
  BY DEF StopOld
<1>2. KeepsPorts
  <2>1. CASE mem' = mem
    BY <2>1 DEF Inv, TypeOK, KeepsPorts
  <2>2. CASE mem' = Drained /\ OldPid # {}
    <3>1. loc.active \in Slots /\ mem.slots[loc.active] \in SlotRec
      BY <2>2 DEF Inv, TypeOK, Journal, Locals, OldPid
    <3> QED BY <2>2, <3>1, RecordFacts, SetSlotKeepsPorts DEF Drained
  <2> QED BY <1>1, <2>1, <2>2 DEF Drained
<1>3. alive' \subseteq Inst /\ budget' \in 0 .. MaxFaults
  BY StopFacts DEF StopOld, Inv
<1>4. WorldOK /\ KeepsLocals
  BY <1>3, SameLocals DEF StopOld, Inv, TypeOK, OnlyProvenRouted, WorldOK
<1>5. "stopOld" \in Steps
  BY DEF Steps
<1> QED BY <1>2, <1>4, <1>5, FlowFacts, StepKeepsPorts DEF StopOld

\* So does the teardown of every slot.
LEMMA TeardownInv == ASSUME Inv, Teardown PROVE Inv'
<1>1. KeepsPorts
  <2> DEFINE torn == [s \in Slots |-> TornDown(mem.slots[s])]
  <2>1. mem.slots \in [Slots -> SlotRec]
    BY DEF Inv, TypeOK, Journal
  <2>2. torn \in [Slots -> SlotRec] /\ \A s \in Slots : torn[s].port = mem.slots[s].port
    BY <2>1, RecordFacts
  <2>3. mem' = [mem EXCEPT !.slots = torn, !.replicas = {}]
    BY DEF Teardown
  <2> HIDE DEF torn
  <2> QED BY <2>2, <2>3 DEF Inv, TypeOK, Journal, KeepsPorts
<1>2. alive' \subseteq Inst /\ budget' \in 0 .. MaxFaults
  BY StopFacts DEF Teardown, Inv
<1>3. WorldOK /\ KeepsLocals
  BY <1>2, SameLocals DEF Teardown, Inv, TypeOK, OnlyProvenRouted, WorldOK
<1> QED BY <1>1, <1>3, FlowFacts, StepKeepsPorts DEF Teardown

\* The last Store of a deploy.
LEMMA StoreFinalInv == ASSUME Inv, StoreFinal PROVE Inv'
<1>1. disk' \in {disk, mem} /\ budget' \in 0 .. MaxFaults
  BY StoreFacts DEF StoreFinal, Inv
<1>2. WorldOK
  BY <1>1 DEF StoreFinal, world, Inv, TypeOK, OnlyProvenRouted, WorldOK
<1>3. CASE Step("storeFinal", "fail") /\ mem' = mem /\ loc' = loc
  <2>1. "storeFinal" \in Steps
    BY DEF Steps
  <2> QED BY <1>1, <1>2, <1>3, <2>1, SameLocals, FlowFacts, StepKeeps
<1>4. CASE Return("deployed") /\ UNCHANGED <<removal, before>>
  <2>1. removal' \in BOOLEAN
    BY <1>4 DEF Inv, TypeOK
  <2> QED BY <1>1, <1>2, <1>4, <2>1, DiskProven, ReturnInv DEF WorldOK
<1> QED BY <1>3, <1>4 DEF StoreFinal

-----------------------------------------------------------------------------
(* The steps that begin an operation.                                      *)

\* The journal is loaded before there is an old slot or a candidate.
LEMMA LoadedInv ==
  ASSUME Inv, WorldOK, mem' \in Journal, ActiveProven(mem)', disk' \in Journal,
         ActiveProven(disk)', loc' \in Locals, loc'.active = NoSlot, ActiveProven(loc.pre)',
         pc' \in {"drain", "storeDrained", "load", "migrate", "recover", "launchActive",
                 "unroute", "reconciled"},
         LaunchFits', before' \subseteq Pid, removal' = removal, result' \in {result, "none"}
  PROVE  Inv'
<1>1. TypeOK'
  BY DEF Inv, TypeOK, WorldOK, OnlyProvenRouted, Steps
<1>2. OnlyProvenRouted' /\ JournalsProven' /\ OldSlotProven'
  BY DEF Inv, WorldOK, OnlyProvenRouted, JournalsProven, OldSlotProven
<1>3. OldSlotActive' /\ CandidateRecorded' /\ CandidateLaunched' /\ CandidateProven'
  BY DEF OldSlotActive, CandidateRecorded, CandidateLaunched, CandidateProven
<1> QED BY <1>1, <1>2, <1>3 DEF Inv

\* AcquireDeployLock, for any operation.
LEMMA BeginInv == ASSUME Inv, NEW op \in Ops, Begin(op) PROVE Inv'
<1>1. WorldOK /\ before' \subseteq Pid
  <2>1. WorldOK
    BY DEF Begin, world, Inv, TypeOK, OnlyProvenRouted, WorldOK
  <2>2. Serves \subseteq Pid
    BY PidFacts DEF Serves, Inv, TypeOK, Pid
  <2> QED BY <2>1, <2>2 DEF Begin
<1>2. /\ mem' \in Journal /\ disk' \in Journal /\ ActiveProven(mem)' /\ ActiveProven(disk)'
      /\ removal' = removal /\ result' = "none"
  BY DEF Begin, world, Inv, TypeOK, JournalsProven, ActiveProven
<1>3. loc' \in Locals /\ loc'.op = op /\ loc'.active = NoSlot /\ ActiveProven(loc.pre)'
  BY EmptyLocals, EmptyJournal DEF Begin, ActiveProven
<1>4. pc' \in {"load", "unroute", "drain"}
  BY DEF Begin
<1>5. LaunchFits'
  <2>1. op \in {"deploy", "rollback", "start"} => next' <= MaxInst
    BY DEF Begin, world
  <2>2. pc' = "load" => op = "deploy"
    BY DEF Begin
  <2> QED BY <1>3, <1>4, <2>1, <2>2 DEF LaunchFits
<1> QED BY <1>1, <1>2, <1>3, <1>4, <1>5, LoadedInv

\* Reconciliation hands over to the operation proper.
LEMMA AfterDrainFits ==
  ASSUME Inv, pc \in {"drain", "storeDrained"}, pc' = AfterDrain, next' = next
  PROVE  LaunchFits' /\ pc' \in {"load", "unroute", "launchActive", "reconciled"}
BY DEF Inv, AfterDrain, LaunchFits

\* drainSecretRetirements, whether or not the stops are confirmed.
LEMMA DrainInv == ASSUME Inv, Drain PROVE Inv'
<1>1. CASE /\ Step("drain", AfterDrain) /\ mem' = disk
           /\ UNCHANGED <<world, disk, current, loc, budget>>
  <2>1. WorldOK /\ UNCHANGED <<removal, before, result>> /\ pc = "drain" /\ pc' = AfterDrain
    BY <1>1 DEF Step, world, Inv, TypeOK, OnlyProvenRouted, WorldOK
  <2>2. loc' \in Locals /\ loc'.active = NoSlot /\ before' \subseteq Pid
    BY <1>1, <2>1 DEF Inv, TypeOK, OldSlotActive
  <2>3. /\ mem' \in Journal /\ disk' \in Journal
        /\ ActiveProven(mem)' /\ ActiveProven(disk)' /\ ActiveProven(loc.pre)'
    BY <1>1, <2>1 DEF Inv, TypeOK, JournalsProven, ActiveProven, WorldOK
  <2> QED BY <2>1, <2>2, <2>3, AfterDrainFits, LoadedInv DEF WorldOK
<1> DEFINE retired == mem.retiring \ Serving(mem)
<1>2. CASE /\ StopOK(retired) \/ StopFails(retired)
           /\ UNCHANGED <<proven, classic, next, route, disk, current>>
           /\ \/ /\ Step("drain", "storeDrained")
                 /\ mem' = [mem EXCEPT !.retiring = {}] /\ loc' = loc
              \/ pc = "drain" /\ Return("failed") /\ UNCHANGED <<removal, before>>
  <2>1. alive' \subseteq Inst /\ budget' \in 0 .. MaxFaults
    BY <1>2, StopFacts DEF Inv
  <2>2. WorldOK /\ disk' \in Journal /\ ActiveProven(disk)'
    BY <1>2, <2>1 DEF Inv, TypeOK, OnlyProvenRouted, WorldOK, JournalsProven, ActiveProven
  <2>3. CASE /\ Step("drain", "storeDrained")
             /\ mem' = [mem EXCEPT !.retiring = {}] /\ loc' = loc
    <3>1. mem' \in Journal /\ mem'.active = mem.active /\ mem'.slots = mem.slots
      BY <2>3 DEF Inv, TypeOK, Journal
    <3>2. /\ loc' \in Locals /\ loc'.active = NoSlot /\ before' \subseteq Pid
          /\ pc = "drain" /\ pc' = "storeDrained" /\ removal' = removal /\ result' = result
      BY <2>3 DEF Inv, TypeOK, OldSlotActive, Step
    <3>3. ActiveProven(mem)' /\ ActiveProven(loc.pre)'
      BY <2>2, <2>3, <3>1 DEF Inv, JournalsProven, ActiveProven, WorldOK
    <3>4. LaunchFits'
      BY <2>2, <2>3, <3>2 DEF Inv, LaunchFits, WorldOK
    <3> QED BY <2>2, <3>1, <3>2, <3>3, <3>4, LoadedInv
  <2>4. CASE Return("failed") /\ UNCHANGED <<removal, before>>
    <3>1. removal' \in BOOLEAN
      BY <2>4 DEF Inv, TypeOK
    <3> QED BY <2>2, <2>4, <3>1, ReturnInv
  <2> QED BY <1>2, <2>3, <2>4
<1> QED BY <1>1, <1>2 DEF Drain

\* The Store that follows it.
LEMMA StoreDrainedInv == ASSUME Inv, StoreDrained PROVE Inv'
<1>1. disk' \in {disk, mem} /\ budget' \in 0 .. MaxFaults
  BY StoreFacts DEF StoreDrained, Inv
<1>2. WorldOK /\ pc = "storeDrained"
  BY <1>1 DEF StoreDrained, Step, world, Inv, TypeOK, OnlyProvenRouted, WorldOK
<1>3. disk' \in Journal /\ ActiveProven(disk)'
  BY <1>1, <1>2, DiskProven DEF WorldOK
<1>4. CASE Step("storeDrained", AfterDrain) /\ UNCHANGED <<mem, loc>>
  <2>1. UNCHANGED <<removal, before, result>> /\ pc' = AfterDrain
    BY <1>4 DEF Step
  <2>2. loc' \in Locals /\ loc'.active = NoSlot /\ before' \subseteq Pid /\ mem' \in Journal
    BY <1>2, <1>4, <2>1 DEF Inv, TypeOK, OldSlotActive
  <2>3. ActiveProven(mem)' /\ ActiveProven(loc.pre)'
    BY <1>2, <1>4 DEF Inv, JournalsProven, ActiveProven, WorldOK
  <2> QED BY <1>2, <1>3, <2>1, <2>2, <2>3, AfterDrainFits, LoadedInv DEF WorldOK
<1>5. CASE Return("failed") /\ UNCHANGED <<removal, before>>
  <2>1. removal' \in BOOLEAN
    BY <1>5 DEF Inv, TypeOK
  <2> QED BY <1>2, <1>3, <1>5, <2>1, ReturnInv
<1> QED BY <1>4, <1>5 DEF StoreDrained

\* A freshly initialised or loaded state.
LEMMA LoadOrInitFacts ==
  ASSUME Inv
  PROVE  LoadOrInit \in Journal /\ ActiveProven(LoadOrInit)
<1>1. CASE disk.mode = "absent"
  <2>1. LoadOrInit = [NoJournal EXCEPT !.mode = "blue-green"]
    BY <1>1 DEF LoadOrInit
  <2>2. LoadOrInit \in Journal /\ LoadOrInit.active = NoSlot
    BY <2>1, EmptyJournal DEF Journal
  <2> QED BY <2>2 DEF ActiveProven
<1>2. CASE disk.mode # "absent"
  BY <1>2 DEF LoadOrInit, Inv, TypeOK, JournalsProven
<1> QED BY <1>1, <1>2

\* LoadOrInit and captureMode.
LEMMA LoadStateInv == ASSUME Inv, LoadState PROVE Inv'
<1>1. LoadOrInit \in Journal /\ ActiveProven(LoadOrInit)
  BY LoadOrInitFacts
<1>2. /\ WorldOK /\ pc = "load" /\ pc' \in {"recover", "migrate"}
      /\ UNCHANGED <<disk, removal, before, result>> /\ mem' = LoadOrInit
  BY DEF LoadState, Step, world, Inv, TypeOK, OnlyProvenRouted, WorldOK
<1>3. loc' \in Locals /\ loc'.active = loc.active /\ loc'.pre = LoadOrInit
  BY <1>1 DEF LoadState, Inv, TypeOK, Locals
<1>4. loc'.active = NoSlot /\ before' \subseteq Pid /\ disk' \in Journal
  BY <1>2, <1>3 DEF Inv, TypeOK, OldSlotActive
<1>5. ActiveProven(mem)' /\ ActiveProven(disk)' /\ ActiveProven(loc.pre)'
  BY <1>1, <1>2, <1>3 DEF Inv, JournalsProven, ActiveProven, WorldOK
<1>6. LaunchFits'
  BY <1>2 DEF Inv, LaunchFits, WorldOK
<1> QED BY <1>1, <1>2, <1>3, <1>4, <1>5, <1>6, LoadedInv

\* A migrated journal has no active slot.
LEMMA MigratedFacts ==
  ASSUME NEW j \in Journal
  PROVE  Migrated(j) \in Journal /\ Migrated(j).active = NoSlot
<1>1. EmptySlots \in [Slots -> SlotRec]
  BY EmptyJournal DEF NoJournal, Journal
<1> QED BY <1>1 DEF Migrated, Journal

\* The migration of a rolling deployment.
LEMMA MigrateToInv == ASSUME Inv, MigrateTo PROVE Inv'
<1>1. Migrated(mem) \in Journal /\ Migrated(mem).active = NoSlot
  BY MigratedFacts DEF Inv, TypeOK
<1>2. disk' \in {disk, Migrated(mem)} /\ budget' \in 0 .. MaxFaults
  BY StoreFacts DEF MigrateTo, Inv
<1>3. WorldOK /\ pc = "migrate" /\ UNCHANGED <<removal, before>>
  BY <1>2 DEF MigrateTo, world, Inv, TypeOK, OnlyProvenRouted, WorldOK
<1>4. disk' \in Journal /\ ActiveProven(disk)'
  BY <1>1, <1>2, <1>3 DEF Inv, TypeOK, JournalsProven, ActiveProven, WorldOK
<1>5. CASE /\ pc' = "recover" /\ mem' = Migrated(mem) /\ result' = result
           /\ loc' = [loc EXCEPT !.legacy = SlotPids(mem) \cup mem.replicas]
  <2>1. SlotPids(mem) \cup mem.replicas \subseteq Inst
    BY JournalFacts DEF Inv, TypeOK
  <2>2. loc' \in Locals /\ loc'.active = loc.active /\ loc'.pre = loc.pre
    BY <1>5, <2>1 DEF Inv, TypeOK, Locals
  <2>3. loc'.active = NoSlot /\ before' \subseteq Pid
    BY <1>3, <2>2 DEF Inv, TypeOK, OldSlotActive
  <2>4. ActiveProven(mem)' /\ ActiveProven(loc.pre)'
    BY <1>1, <1>3, <1>5, <2>2 DEF Inv, JournalsProven, ActiveProven, WorldOK
  <2>5. LaunchFits'
    BY <1>3, <1>5 DEF Inv, LaunchFits, WorldOK
  <2> QED BY <1>1, <1>3, <1>4, <1>5, <2>2, <2>3, <2>4, <2>5, LoadedInv
<1>6. CASE Return("failed")
  <2>1. removal' \in BOOLEAN /\ before' = before
    BY <1>3 DEF Inv, TypeOK
  <2> QED BY <1>3, <1>4, <1>6, <2>1, ReturnInv
<1> QED BY <1>5, <1>6 DEF MigrateTo

-----------------------------------------------------------------------------
(* The steps of a deploy that set the old slot, the candidate, the active  *)
(* slot.                                                                   *)

\* Recovery keeps the ports, too.
LEMMA ReclaimedFacts ==
  ASSUME NEW j \in Journal, NEW s \in Slots
  PROVE  Reclaimed(j, s) \in SlotRec /\ Reclaimed(j, s).port = j.slots[s].port
<1>1. j.slots[s] \in SlotRec
  BY DEF Journal
<1> QED BY <1>1, RecordFacts DEF Reclaimed

\* recoverStaleSlots, which fixes the old slot and the one to deploy into.
LEMMA RecoverInv == ASSUME Inv, RecoverStaleSlots PROVE Inv'
<1>1. alive' \subseteq Inst /\ budget' \in 0 .. MaxFaults
  BY StopFacts DEF RecoverStaleSlots, Inv
<1>2. WorldOK /\ disk' = disk /\ pc = "recover"
  BY <1>1 DEF RecoverStaleSlots, Step, Inv, TypeOK, OnlyProvenRouted, WorldOK
<1>3. CASE Step("recover", "fail") /\ UNCHANGED <<mem, loc>>
  <2>1. "recover" \in Steps
    BY DEF Steps
  <2> QED BY <1>2, <1>3, <2>1, SameLocals, FlowFacts, StepKeeps
<1>4. CASE /\ Step("recover", "storeRecovered")
           /\ mem' = [mem EXCEPT !.slots = [s \in Slots |-> Reclaimed(mem, s)]]
           /\ loc' = [loc EXCEPT !.slot = InactiveSlot(mem), !.active = mem.active]
  <2> DEFINE slots == [s \in Slots |-> Reclaimed(mem, s)]
  <2>1. slots \in [Slots -> SlotRec] /\ \A s \in Slots : slots[s].port = mem.slots[s].port
    BY ReclaimedFacts DEF Inv, TypeOK
  <2>2. mem' = [mem EXCEPT !.slots = slots]
    BY <1>4
  <2> HIDE DEF slots
  <2>3. /\ mem' \in Journal /\ mem'.active = mem.active /\ mem'.slots = slots
        /\ mem.active \in Slots \cup {NoSlot}
    BY <2>1, <2>2 DEF Inv, TypeOK, Journal
  <2>4. InactiveSlot(mem) \in Slots /\ InactiveSlot(mem) # mem.active
    BY <2>3, SlotFacts DEF InactiveSlot
  <2>5. /\ loc' \in Locals /\ loc'.active = mem.active /\ loc'.slot = InactiveSlot(mem)
        /\ loc'.pre = loc.pre
    BY <1>4, <2>3, <2>4 DEF Inv, TypeOK, Locals
  <2>6. pc' = "storeRecovered" /\ UNCHANGED <<removal, before, result>>
    BY <1>4 DEF Step
  <2>7. TypeOK'
    BY <1>2, <2>3, <2>5, <2>6 DEF Inv, TypeOK, WorldOK, OnlyProvenRouted, Steps
  <2>8. OnlyProvenRouted' /\ JournalsProven' /\ OldSlotProven'
    BY <1>2, <2>1, <2>3, <2>4, <2>5
    DEF Inv, WorldOK, OnlyProvenRouted, JournalsProven, ActiveProven, OldSlotProven
  <2>9. /\ OldSlotActive' /\ CandidateRecorded' /\ CandidateLaunched' /\ CandidateProven'
        /\ LaunchFits'
    BY <1>2, <2>3, <2>5, <2>6
    DEF Inv, WorldOK, OldSlotActive, CandidateRecorded, CandidateLaunched, CandidateProven,
        LaunchFits
  <2> QED BY <2>7, <2>8, <2>9 DEF Inv
<1> QED BY <1>3, <1>4 DEF RecoverStaleSlots

\* The candidate is written into a slot that is not the active one.
LEMMA LaunchCandidateInv == ASSUME Inv, LaunchCandidate PROVE Inv'
<1>1. next \in Inst /\ next' = next + 1 /\ next' \in 1 .. MaxInst + 1
  BY DEF LaunchCandidate, Step, Inv, TypeOK, LaunchFits, Inst
<1>2. PICK v \in Version : /\ mem' = SetSlot(mem, loc.slot, Launched(v))
                          /\ loc' = [loc EXCEPT !.cand = next, !.tver = v]
  BY <1>1, PidFacts DEF LaunchCandidate
<1>3. Launched(v) \in SlotRec /\ Launched(v).port = next /\ loc.slot \in Slots
  BY <1>1, PidFacts DEF Launched, SlotRec, Inv, TypeOK, Locals
<1>4. /\ mem' \in Journal /\ mem'.active = mem.active /\ mem'.slots[loc.slot] = Launched(v)
      /\ \A t \in Slots \ {loc.slot} : mem'.slots[t] = mem.slots[t]
  BY <1>2, <1>3, SetSlotFacts DEF Inv, TypeOK
<1>5. /\ loc' \in Locals /\ loc'.active = loc.active /\ loc'.slot = loc.slot
      /\ loc'.cand = next /\ loc'.pre = loc.pre
  BY <1>1, <1>2, PidFacts DEF Inv, TypeOK, Locals
<1>6. /\ pc = "build" /\ pc' = "storeStarting" /\ alive' = alive \cup {next}
      /\ UNCHANGED <<proven, classic, route, disk, current, budget, removal, before, result>>
  BY DEF LaunchCandidate, Step
<1>7. /\ mem.active = loc.active /\ loc.active \in Slots \cup {NoSlot}
      /\ loc.active # NoSlot => loc.active # loc.slot
  BY <1>6 DEF Inv, OldSlotActive, OldSlotProven, TypeOK, Locals
<1>8. TypeOK'
  BY <1>1, <1>4, <1>5, <1>6 DEF Inv, TypeOK, Steps
<1>9. OnlyProvenRouted' /\ JournalsProven' /\ OldSlotProven'
  BY <1>4, <1>5, <1>6, <1>7
  DEF Inv, OnlyProvenRouted, JournalsProven, ActiveProven, OldSlotProven
<1>10. /\ OldSlotActive' /\ CandidateRecorded' /\ CandidateLaunched' /\ CandidateProven'
       /\ LaunchFits'
  BY <1>1, <1>3, <1>4, <1>5, <1>6
  DEF OldSlotActive, CandidateRecorded, CandidateLaunched, CandidateProven, LaunchFits
<1> QED BY <1>8, <1>9, <1>10 DEF Inv

\* The health check proves the candidate.
LEMMA HealthPassesInv == ASSUME Inv, HealthPasses PROVE Inv'
<1>1. mem.slots[loc.slot] \in SlotRec /\ loc.slot \in Slots /\ mem.active \in Slots \cup {NoSlot}
      /\ loc.active \in Slots \cup {NoSlot}
  BY DEF Inv, TypeOK, Journal, Locals
<1>2. PICK rec \in SlotRec : /\ rec.port = mem.slots[loc.slot].port
                            /\ mem' = SetSlot(mem, loc.slot, rec)
  BY <1>1, RecordUpdates DEF HealthPasses
<1>3. KeepsPorts
  BY <1>1, <1>2, SetSlotKeepsPorts
<1>4. /\ pc = "health" /\ pc' = "cutover" /\ loc.cand \in Inst
      /\ proven' = proven \cup {loc.cand} /\ loc' = loc
      /\ UNCHANGED <<alive, classic, next, route, disk, current, budget, removal, before, result>>
  BY DEF HealthPasses, Step, Inv, CandidateLaunched
<1>5. TypeOK'
  BY <1>3, <1>4 DEF Inv, TypeOK, KeepsPorts, Steps
<1>6. OnlyProvenRouted' /\ JournalsProven' /\ OldSlotProven'
  BY <1>1, <1>3, <1>4
  DEF Inv, KeepsPorts, OnlyProvenRouted, JournalsProven, ActiveProven, OldSlotProven
<1>7. /\ OldSlotActive' /\ CandidateRecorded' /\ CandidateLaunched' /\ CandidateProven'
      /\ LaunchFits'
  BY <1>1, <1>3, <1>4
  DEF Inv, KeepsPorts, OldSlotActive, CandidateRecorded, CandidateLaunched, CandidateProven,
      LaunchFits
<1> QED BY <1>5, <1>6, <1>7 DEF Inv

\* The commit makes the candidate's slot the active one.
LEMMA CommitInv == ASSUME Inv, Commit PROVE Inv'
<1>1. loc.slot \in Slots /\ loc.tver \in Version /\ loc.cand \in proven
      /\ mem.slots[loc.slot].port = loc.cand
  BY DEF Inv, TypeOK, Locals, Commit, Step, CandidateProven, CandidateRecorded
<1>2. Committed \in Journal /\ Committed.active = loc.slot /\ Committed.slots = mem.slots
  BY <1>1 DEF Committed, Inv, TypeOK, Journal
<1>3. disk' \in {disk, Committed} /\ budget' \in 0 .. MaxFaults
  BY StoreFacts DEF Commit, Inv
<1>4. /\ WorldOK /\ pc = "commit" /\ pc' \in {"promote", "compensate"} /\ mem' = Committed
      /\ UNCHANGED <<removal, before, result>>
  BY <1>3 DEF Commit, Step, world, Inv, TypeOK, OnlyProvenRouted, WorldOK
<1>5. /\ loc' \in Locals /\ loc'.active = loc.active /\ loc'.slot = loc.slot
      /\ loc'.cand = loc.cand /\ loc'.pre = loc.pre
  BY DEF Commit, Inv, TypeOK, Locals, Journal
<1>6. TypeOK'
  BY <1>2, <1>3, <1>4, <1>5 DEF Inv, TypeOK, WorldOK, OnlyProvenRouted, Steps
<1>7. OnlyProvenRouted' /\ JournalsProven' /\ OldSlotProven'
  BY <1>1, <1>2, <1>3, <1>4, <1>5
  DEF Inv, WorldOK, OnlyProvenRouted, JournalsProven, ActiveProven, OldSlotProven
<1>8. /\ OldSlotActive' /\ CandidateRecorded' /\ CandidateLaunched' /\ CandidateProven'
      /\ LaunchFits'
  BY <1>4, <1>5
  DEF Inv, OldSlotActive, CandidateRecorded, CandidateLaunched, CandidateProven, LaunchFits
<1> QED BY <1>6, <1>7, <1>8 DEF Inv

\* Compensation makes the old slot the active one again.
LEMMA CompensateInv == ASSUME Inv, Compensate PROVE Inv'
<1>1. WorldOK /\ disk' = disk
  BY OldTargetProven, CallKeeps DEF Compensate
<1>2. pc \in {"compensate", "demote"} /\ pc \in Steps
  BY DEF Compensate, Steps
<1>3. CASE Step(pc, IF pc = "demote" THEN "bestKnown" ELSE "fail") /\ UNCHANGED <<mem, loc>>
  BY <1>1, <1>2, <1>3, SameLocals, FlowFacts, StepKeeps
<1>4. CASE /\ Step(pc, "retire") /\ loc' = [loc EXCEPT !.switched = FALSE]
           /\ mem' = [mem EXCEPT !.active = loc.active, !.ver = loc.oldVer]
  <2>1. loc.active \in Slots \cup {NoSlot} /\ loc.oldVer \in Version
    BY DEF Inv, TypeOK, Locals
  <2>2. mem' \in Journal /\ mem'.active = loc.active /\ mem'.slots = mem.slots
    BY <1>4, <2>1 DEF Inv, TypeOK, Journal
  <2>3. /\ loc' \in Locals /\ loc'.active = loc.active /\ loc'.slot = loc.slot
        /\ loc'.cand = loc.cand /\ loc'.pre = loc.pre
    BY <1>4 DEF Inv, TypeOK, Locals
  <2>4. pc' = "retire" /\ UNCHANGED <<removal, before, result>>
    BY <1>4 DEF Step
  <2>5. TypeOK'
    BY <1>1, <2>2, <2>3, <2>4 DEF Inv, TypeOK, WorldOK, OnlyProvenRouted, Steps
  <2>6. OnlyProvenRouted' /\ JournalsProven' /\ OldSlotProven'
    BY <1>1, <2>2, <2>3
    DEF Inv, WorldOK, OnlyProvenRouted, JournalsProven, ActiveProven, OldSlotProven
  <2>7. /\ OldSlotActive' /\ CandidateRecorded' /\ CandidateLaunched' /\ CandidateProven'
        /\ LaunchFits'
    BY <1>2, <2>3, <2>4
    DEF Inv, OldSlotActive, CandidateRecorded, CandidateLaunched, CandidateProven, LaunchFits
  <2> QED BY <2>5, <2>6, <2>7 DEF Inv
<1> QED BY <1>3, <1>4 DEF Compensate

-----------------------------------------------------------------------------
(* The steps of start that launch and route.                               *)

\* `start` launches into the active slot, and no old slot is affected.
LEMMA LaunchActiveInv == ASSUME Inv, LaunchActive PROVE Inv'
<1>1. /\ pc = "launchActive" /\ pc' = "listen" /\ alive' = alive \cup {next}
      /\ mem' = mem /\ mem.active # NoSlot
      /\ UNCHANGED <<proven, classic, route, disk, current, budget, removal, before, result>>
  BY DEF LaunchActive, Step
<1>2. next \in Inst /\ next' \in 1 .. MaxInst + 1 /\ mem.active \in Slots
  BY <1>1 DEF LaunchActive, Inv, TypeOK, LaunchFits, Inst, Journal
<1>3. /\ loc' \in Locals /\ loc'.active = loc.active /\ loc'.slot = mem.active
      /\ loc'.cand = next /\ loc'.pre = loc.pre
  BY <1>2, PidFacts DEF LaunchActive, Inv, TypeOK, Locals
<1>4. loc'.active = NoSlot
  BY <1>1, <1>3 DEF Inv, OldSlotActive
<1>5. TypeOK'
  BY <1>1, <1>2, <1>3 DEF Inv, TypeOK, Steps
<1>6. OnlyProvenRouted' /\ JournalsProven' /\ OldSlotProven'
  BY <1>1, <1>3, <1>4
  DEF Inv, OnlyProvenRouted, JournalsProven, ActiveProven, OldSlotProven
<1>7. /\ OldSlotActive' /\ CandidateRecorded' /\ CandidateLaunched' /\ CandidateProven'
      /\ LaunchFits'
  BY <1>1, <1>2, <1>3, <1>4
  DEF OldSlotActive, CandidateRecorded, CandidateLaunched, CandidateProven, LaunchFits
<1> QED BY <1>5, <1>6, <1>7 DEF Inv

\* The restored instance is proven before the journal names it.
LEMMA ListensInv == ASSUME Inv, Listens PROVE Inv'
<1>1. /\ mem.slots[loc.slot] \in SlotRec /\ loc.slot \in Slots
      /\ mem.active \in Slots \cup {NoSlot}
  BY DEF Inv, TypeOK, Journal, Locals
<1>2. /\ pc = "listen" /\ pc' = "storeStarted" /\ proven' = proven \cup {loc.cand}
      /\ loc' = loc /\ loc.cand \in Inst /\ loc.active = NoSlot
      /\ UNCHANGED <<alive, classic, next, route, disk, current, budget, removal, before, result>>
  BY DEF Listens, Step, Inv, CandidateLaunched, OldSlotActive
<1>3. PICK rec \in SlotRec : rec.port = loc.cand /\ mem' = SetSlot(mem, loc.slot, rec)
  BY <1>1, <1>2, RecordUpdates DEF Listens
<1>4. /\ mem' \in Journal /\ mem'.active = mem.active /\ mem'.slots[loc.slot] = rec
      /\ \A t \in Slots \ {loc.slot} : mem'.slots[t] = mem.slots[t]
  <2>1. mem \in Journal
    BY DEF Inv, TypeOK
  <2>2. /\ SetSlot(mem, loc.slot, rec) \in Journal
        /\ SetSlot(mem, loc.slot, rec).active = mem.active
        /\ SetSlot(mem, loc.slot, rec).slots[loc.slot] = rec
        /\ \A t \in Slots \ {loc.slot} : SetSlot(mem, loc.slot, rec).slots[t] = mem.slots[t]
    BY <1>1, <2>1, SetSlotFacts
  <2> QED BY <1>3, <2>2
<1>5. TypeOK'
  BY <1>2, <1>4 DEF Inv, TypeOK, Steps
<1>6. OnlyProvenRouted' /\ JournalsProven' /\ OldSlotProven'
  BY <1>1, <1>2, <1>3, <1>4
  DEF Inv, OnlyProvenRouted, JournalsProven, ActiveProven, OldSlotProven
<1>7. /\ OldSlotActive' /\ CandidateRecorded' /\ CandidateLaunched' /\ CandidateProven'
      /\ LaunchFits'
  BY <1>2
  DEF Inv, OldSlotActive, CandidateRecorded, CandidateLaunched, CandidateProven, LaunchFits
<1> QED BY <1>5, <1>6, <1>7 DEF Inv

\* The route is restored to a proven instance.
LEMMA RestoreProxyRouteInv == ASSUME Inv, RestoreProxyRoute PROVE Inv'
<1>1. pc = "restoreRoute" /\ {loc.cand} \subseteq proven /\ loc.active = NoSlot
  BY DEF RestoreProxyRoute, Step, Inv, CandidateProven, OldSlotActive
<1>2. WorldOK /\ disk' = disk
  BY <1>1, CallKeeps DEF RestoreProxyRoute
<1>3. disk' \in Journal /\ ActiveProven(disk)'
  BY <1>2, DiskProven DEF WorldOK
<1>4. CASE /\ Step("restoreRoute", "drain") /\ loc' = [loc EXCEPT !.op = "reconcile"]
           /\ mem' = disk
  <2>1. pc' = "drain" /\ UNCHANGED <<removal, before, result>>
    BY <1>4 DEF Step
  <2>2. /\ loc' \in Locals /\ loc'.active = NoSlot /\ loc'.pre = loc.pre
        /\ loc'.op = "reconcile"
    BY <1>1, <1>4 DEF Inv, TypeOK, Locals, Ops
  <2>3. /\ mem' \in Journal /\ before' \subseteq Pid
        /\ ActiveProven(mem)' /\ ActiveProven(loc.pre)'
    BY <1>2, <1>4, <2>1, <2>2 DEF Inv, TypeOK, JournalsProven, ActiveProven, WorldOK
  <2>4. LaunchFits'
    BY <2>1, <2>2 DEF LaunchFits
  <2> QED BY <1>2, <1>3, <2>1, <2>2, <2>3, <2>4, LoadedInv
<1>5. CASE Return("failed") /\ UNCHANGED <<removal, before>>
  <2>1. removal' \in BOOLEAN
    BY <1>5 DEF Inv, TypeOK
  <2> QED BY <1>2, <1>3, <1>5, <2>1, ReturnInv
<1> QED BY <1>4, <1>5 DEF RestoreProxyRoute

-----------------------------------------------------------------------------
(* The environment.                                                        *)

\* Dying instances, forgotten routes and the unlocked RemoveState.
LEMMA EnvironmentInv == ASSUME Inv, InstanceDies \/ ProxyReset \/ RemoveState PROVE Inv'
<1>1. UNCHANGED <<proven, classic, next, current, pc, mem, loc>> /\ alive' \subseteq alive
  BY DEF InstanceDies, ProxyReset, RemoveState, world
<1>2. disk' \in {disk, NoJournal} /\ route' \subseteq route /\ before' \subseteq before
  BY DEF InstanceDies, ProxyReset, RemoveState, world
<1>3. budget' \in 0 .. MaxFaults
  BY FaultFacts DEF InstanceDies, ProxyReset, RemoveState, NoFault, Inv
<1>4. removal' \in BOOLEAN /\ result' \in {result, "none"}
  BY DEF InstanceDies, ProxyReset, RemoveState, Inv, TypeOK
<1>5. TypeOK'
  BY <1>1, <1>2, <1>3, <1>4, EmptyJournal DEF Inv, TypeOK
<1>6. OnlyProvenRouted' /\ JournalsProven' /\ OldSlotProven'
  BY <1>1, <1>2, EmptyJournal
  DEF Inv, OnlyProvenRouted, JournalsProven, ActiveProven, OldSlotProven
<1>7. /\ OldSlotActive' /\ CandidateRecorded' /\ CandidateLaunched' /\ CandidateProven'
      /\ LaunchFits'
  BY <1>1
  DEF Inv, OldSlotActive, CandidateRecorded, CandidateLaunched, CandidateProven, LaunchFits
<1> QED BY <1>5, <1>6, <1>7 DEF Inv

-----------------------------------------------------------------------------
(* The theorems.                                                           *)

\* Every step preserves the invariant.
LEMMA NextInv == Inv /\ [Next]_vars => Inv'
<1> SUFFICES ASSUME Inv, [Next]_vars PROVE Inv'
  OBVIOUS
<1>1. CASE Prepare
  BY <1>1, BeginInv, DrainInv, StoreDrainedInv, ReturnStepInv DEF Prepare
<1>2. CASE Deploy
  BY <1>2, LoadStateInv, MigrateToInv, RecoverInv, StoreStepInv, DecideStepInv,
     LaunchCandidateInv, HealthPassesInv, AddInv, SwitchInv, StopCandidateInv, CommitInv,
     CompensateInv, RetireCandidateInv, StopStepInv, StopOldInv, StoreFinalInv, ReturnStepInv
  DEF Deploy
<1>3. CASE StopApp
  BY <1>3, RemoveRouteInv, TeardownInv, ReturnStepInv DEF StopApp
<1>4. CASE StartApp
  BY <1>4, ReturnStepInv, LaunchActiveInv, ListensInv, DecideStepInv, StoreStepInv,
     RestoreProxyRouteInv DEF StartApp
<1>5. CASE Environment
  BY <1>5, ReturnStepInv, EnvironmentInv DEF Environment
<1>6. CASE UNCHANGED vars
  BY <1>6 DEF vars, Inv, TypeOK, OnlyProvenRouted, JournalsProven, ActiveProven, OldSlotProven,
     OldSlotActive, CandidateRecorded, CandidateLaunched, CandidateProven, LaunchFits
<1> QED BY <1>1, <1>2, <1>3, <1>4, <1>5, <1>6 DEF Next

\* The invariant holds in every reachable state.
THEOREM DeploymentInvariant == Spec => []Inv
BY InitInv, NextInv, PTL DEF Spec

\* Every variable keeps its type, whatever fails: no PID, port, slot or version
\* outside the ones that exist is ever recorded or routed.
THEOREM TypeCorrect == Spec => []TypeOK
<1>1. Inv => TypeOK
  BY DEF Inv
<1> QED BY <1>1, DeploymentInvariant, PTL

\* Whatever faults an operation meets and wherever it is killed, the proxy is
\* never pointed at an instance that has not been proven healthy.
THEOREM NeverRoutedUnproven == Spec => []OnlyProvenRouted
<1>1. Inv => OnlyProvenRouted
  BY DEF Inv
<1> QED BY <1>1, DeploymentInvariant, PTL

-----------------------------------------------------------------------------
(* A deploy that completes leaves everything in agreement.                 *)

\* The steps after which the proxy is (or was) pointed at the candidate, the
\* journal in memory names it, and versions.json has its version.
PromotedSteps == {"stopLegacy", "stopOld", "storeFinal"}
CommittedSteps == PromotedSteps \cup {"promote"}
SwitchedSteps == CommittedSteps \cup {"commit"}
HeldSteps == SwitchedSteps \cup {"storeStarting", "health", "cutover", "add"}

\* From the launch on, a deploy that has not failed holds the candidate's PID;
\* the proxy knows the candidate or, if it was reset, nobody; then the journal
\* and last the version store follow.  Compensation is none of these steps.
Following ==
  /\ pc \in HeldSteps => mem.slots[loc.slot].pid = loc.cand
  /\ pc \in SwitchedSteps => route \in {{}, {loc.cand}}
  /\ pc \in CommittedSteps => mem.active = loc.slot /\ mem.ver = loc.tver
  /\ pc \in PromotedSteps => loc.tver = 0 \/ current = loc.tver
  /\ DeployRestoresAgreement

\* Most steps lead to where nothing is said.
LEMMA SilentStep ==
  ASSUME pc' \notin HeldSteps, pc' # "idle" \/ result' # "deployed"
  PROVE  Following'
BY DEF Following, HeldSteps, SwitchedSteps, CommittedSteps, PromotedSteps,
   DeployRestoresAgreement

\* A step of a deploy under way that keeps the records, the candidate and the
\* version keeps what has been established.
LEMMA FollowingStep ==
  ASSUME Inv, Following, NEW from \in HeldSteps, NEW to \in HeldSteps, pc = from, pc' = to,
         to \in SwitchedSteps => route' \in {{}, {loc'.cand}},
         to \in CommittedSteps => mem'.active = loc.slot /\ mem'.ver = loc.tver,
         to \in PromotedSteps => loc.tver = 0 \/ current' = loc.tver,
         mem'.slots[loc.slot].pid = mem.slots[loc.slot].pid,
         loc'.slot = loc.slot, loc'.cand = loc.cand, loc'.tver = loc.tver
  PROVE  Following'
<1>1. pc' = to /\ to # "idle" /\ pc = from
  BY DEF Step, HeldSteps, SwitchedSteps, CommittedSteps, PromotedSteps
<1> QED BY <1>1 DEF Following, DeployRestoresAgreement

\* The steps of the happy path, from the launch to the last Store.
LEMMA LaunchFollowing == ASSUME Inv, LaunchCandidate PROVE Following'
<1>1. next \in Inst
  BY DEF LaunchCandidate, Step, Inv, TypeOK, LaunchFits, Inst
<1>2. PICK v \in Version : /\ mem' = SetSlot(mem, loc.slot, Launched(v))
                          /\ loc' = [loc EXCEPT !.cand = next, !.tver = v]
  BY <1>1, PidFacts DEF LaunchCandidate
<1>3. Launched(v) \in SlotRec /\ Launched(v).pid = next /\ loc.slot \in Slots
  BY <1>1, <1>2, PidFacts DEF Launched, SlotRec, Inv, TypeOK, Locals
<1>4. mem'.slots[loc.slot] = Launched(v)
  BY <1>2, <1>3, SetSlotFacts DEF Inv, TypeOK
<1>5. loc'.slot = loc.slot /\ loc'.cand = next
  BY <1>2 DEF Inv, TypeOK, Locals
<1>6. pc' = "storeStarting"
  BY DEF LaunchCandidate, Step
<1> QED BY <1>3, <1>4, <1>5, <1>6
    DEF Following, DeployRestoresAgreement, HeldSteps, SwitchedSteps, CommittedSteps, PromotedSteps

\* Recording the launch, proving the candidate, freeing the port.
LEMMA PrepareFollowing ==
  ASSUME Inv, Following, StoreStarting \/ HealthPasses \/ HandOffPublicPort
  PROVE  Following'
<1>1. CASE StoreStarting
  <2>1. Step("storeStarting", "health") /\ mem' = mem /\ loc' = loc
    BY <1>1 DEF StoreStarting
  <2> QED BY <2>1, FollowingStep DEF Step, HeldSteps, SwitchedSteps, CommittedSteps, PromotedSteps
<1>2. CASE HealthPasses
  <2>1. Step("health", "cutover") /\ loc' = loc
        /\ mem' = SetSlot(mem, loc.slot, [mem.slots[loc.slot] EXCEPT !.status = "running"])
    BY <1>2 DEF HealthPasses
  <2>2. mem \in Journal /\ loc.slot \in Slots /\ mem.slots[loc.slot] \in SlotRec
    BY DEF Inv, TypeOK, Locals, Journal
  <2>3. [mem.slots[loc.slot] EXCEPT !.status = "running"].pid = mem.slots[loc.slot].pid
    BY <2>2 DEF SlotRec
  <2> DEFINE rec == [mem.slots[loc.slot] EXCEPT !.status = "running"]
  <2>r. rec \in SlotRec /\ mem' = SetSlot(mem, loc.slot, rec)
    BY <2>1, <2>2, RecordUpdates
  <2> HIDE DEF rec
  <2>s. mem'.slots[loc.slot] = rec
    BY <2>2, <2>r, SetSlotFacts
  <2>4. mem'.slots[loc.slot].pid = mem.slots[loc.slot].pid
    BY <2>3, <2>s DEF rec
  <2> QED BY <2>1, <2>4, FollowingStep DEF Step, HeldSteps, SwitchedSteps, CommittedSteps, PromotedSteps
<1>3. CASE HandOffPublicPort
  <2>1. CASE Step("cutover", "add") /\ loc' = loc
    <3>1. mem' = mem
      BY <1>3 DEF HandOffPublicPort
    <3> QED BY <2>1, <3>1, FollowingStep
        DEF Step, HeldSteps, SwitchedSteps, CommittedSteps, PromotedSteps
  <2>2. CASE Step("cutover", "abort")
    BY <2>2, SilentStep DEF Step, HeldSteps, SwitchedSteps, CommittedSteps, PromotedSteps
  <2>3. CASE pc = "cutover" /\ pc' = "add" /\ UNCHANGED loc
    <3>1. mem' = mem
      BY <1>3 DEF HandOffPublicPort
    <3> QED BY <2>3, <3>1, FollowingStep
        DEF Step, HeldSteps, SwitchedSteps, CommittedSteps, PromotedSteps
  <2> QED BY <1>3, <2>1, <2>2, <2>3 DEF HandOffPublicPort
<1> QED BY <1>1, <1>2, <1>3

\* The cutover, by Add or by Switch, is to the candidate or it is an abort.
LEMMA CutoverFollowing == ASSUME Inv, Following, Add \/ Switch PROVE Following'
<1>1. CASE pc' = "abort"
  BY <1>1, SilentStep DEF HeldSteps, SwitchedSteps, CommittedSteps, PromotedSteps
<1>2. CASE pc' = "commit"
  <2>1. /\ Step("add", "commit") \/ Step("cutover", "commit")
        /\ CallOK({loc.cand}) /\ mem' = mem
        /\ \/ loc' = [loc EXCEPT !.active = NoSlot, !.switched = TRUE]
           \/ loc' = [loc EXCEPT !.switched = TRUE]
    BY <1>2 DEF Add, Switch, Step
  <2>2. loc'.slot = loc.slot /\ loc'.cand = loc.cand /\ loc'.tver = loc.tver
    BY <2>1 DEF Inv, TypeOK, Locals
  <2>3. route' = {loc'.cand}
    BY <2>1, <2>2 DEF CallOK
  <2> QED BY <2>1, <2>2, <2>3, FollowingStep DEF Step, HeldSteps, SwitchedSteps, CommittedSteps, PromotedSteps
<1> QED BY <1>1, <1>2 DEF Add, Switch, Step

\* Commit and Promote, or the compensation they fall back to.
LEMMA CommitFollowing == ASSUME Inv, Following, Commit \/ Promote PROVE Following'
<1>1. CASE pc' \in {"compensate", "demote"}
  BY <1>1, SilentStep DEF HeldSteps, SwitchedSteps, CommittedSteps, PromotedSteps
<1>2. CASE Commit /\ pc' = "promote"
  <2>1. Step("commit", "promote") /\ mem' = Committed /\ route' = route
        /\ loc' = [loc EXCEPT !.oldVer = mem.ver]
    BY <1>2 DEF Commit, Step, world
  <2>2. Committed.active = loc.slot /\ Committed.ver = loc.tver /\ Committed.slots = mem.slots
    BY DEF Committed, Inv, TypeOK, Journal
  <2>3. loc'.slot = loc.slot /\ loc'.cand = loc.cand /\ loc'.tver = loc.tver
    BY <2>1 DEF Inv, TypeOK, Locals
  <2>4. route \in {{}, {loc.cand}}
    BY <2>1 DEF Following, Step, SwitchedSteps
  <2> QED BY <2>1, <2>2, <2>3, <2>4, FollowingStep
      DEF Step, HeldSteps, SwitchedSteps, CommittedSteps, PromotedSteps
<1>3. CASE Promote /\ pc' = "stopLegacy"
  <2>1. /\ Step("promote", "stopLegacy") /\ mem' = mem /\ loc' = loc /\ route' = route
        /\ loc.tver = 0 \/ current' = loc.tver
    BY <1>3 DEF Promote, Step, world
  <2>2. /\ route \in {{}, {loc.cand}} /\ mem.active = loc.slot /\ mem.ver = loc.tver
    BY <2>1 DEF Following, Step, SwitchedSteps, CommittedSteps
  <2> QED BY <2>1, <2>2, FollowingStep
      DEF Step, HeldSteps, SwitchedSteps, CommittedSteps, PromotedSteps
<1> QED BY <1>1, <1>2, <1>3 DEF Commit, Promote, Step

\* Stopping what the deploy replaced leaves the candidate's record alone.
LEMMA StopFollowing == ASSUME Inv, Following, StopLegacy \/ StopOld PROVE Following'
<1>1. CASE pc' = "fail"
  BY <1>1, SilentStep DEF HeldSteps, SwitchedSteps, CommittedSteps, PromotedSteps
<1>2. CASE pc' # "fail"
  <2>1. /\ Step("stopLegacy", "stopOld") \/ Step("stopOld", "storeFinal")
        /\ loc' = loc /\ UNCHANGED <<route, current>>
        /\ mem' = mem \/ (mem' = Drained /\ OldPid # {})
    BY <1>2 DEF StopLegacy, StopOld, Step, Drained
  <2>2. /\ route \in {{}, {loc.cand}} /\ mem.active = loc.slot /\ mem.ver = loc.tver
        /\ loc.tver = 0 \/ current = loc.tver
    BY <2>1 DEF Following, Step, SwitchedSteps, CommittedSteps, PromotedSteps
  <2>3. /\ mem'.active = mem.active /\ mem'.ver = mem.ver
        /\ mem'.slots[loc.slot] = mem.slots[loc.slot]
    <3>1. CASE mem' = mem
      BY <3>1
    <3>2. CASE mem' = Drained /\ OldPid # {}
      <4>1. loc.active \in Slots /\ loc.active # loc.slot /\ loc.slot \in Slots
        BY <3>2 DEF OldPid, Inv, TypeOK, Locals, OldSlotProven
      <4>2. mem \in Journal /\ Stopped(mem.slots[loc.active]) \in SlotRec
        BY <4>1, RecordFacts DEF Inv, TypeOK, Journal
      <4>3. mem' = SetSlot(mem, loc.active, Stopped(mem.slots[loc.active]))
        BY <3>2 DEF Drained
      <4> HIDE DEF Stopped
      <4> QED BY <4>1, <4>2, <4>3, SetSlotFacts DEF SetSlot, Journal
    <3> QED BY <2>1, <3>1, <3>2
  <2> QED BY <2>1, <2>2, <2>3, FollowingStep
      DEF Step, HeldSteps, SwitchedSteps, CommittedSteps, PromotedSteps
<1> QED BY <1>1, <1>2

\* The last Store writes what the proxy and the version store say.
LEMMA FinalFollowing == ASSUME Inv, Following, StoreFinal PROVE Following'
<1>1. CASE pc' = "fail"
  BY <1>1, SilentStep DEF HeldSteps, SwitchedSteps, CommittedSteps, PromotedSteps
<1>2. CASE pc' = "idle"
  <2>1. pc = "storeFinal" /\ disk' = mem /\ UNCHANGED <<route, current>>
    BY <1>2 DEF StoreFinal, Step, StoreOK, world
  <2>2. /\ route \in {{}, {loc.cand}} /\ mem.active = loc.slot /\ mem.ver = loc.tver
        /\ loc.tver = 0 \/ current = loc.tver
        /\ mem.slots[loc.slot].pid = loc.cand
    BY <2>1 DEF Following, HeldSteps, SwitchedSteps, CommittedSteps, PromotedSteps
  <2>3. route # {} => loc.cand # 0 /\ loc.slot # NoSlot
    <3>1. route \subseteq Inst /\ 0 \notin Inst /\ loc.slot \in Slots
      BY DEF Inv, TypeOK, Locals, Inst
    <3> QED BY <2>2, <3>1, SlotFacts
  <2>4. route # {} => route = ActivePid(mem)
    BY <2>2, <2>3, SlotFacts DEF ActivePid
  <2>5. DeployRestoresAgreement'
    BY <2>1, <2>2, <2>4 DEF DeployRestoresAgreement, ActivePid
  <2> QED BY <1>2, <2>5 DEF Following, HeldSteps, SwitchedSteps, CommittedSteps, PromotedSteps
<1> QED BY <1>1, <1>2 DEF StoreFinal, Step, Return

\* What happens beside the operation.
LEMMA EnvironmentFollowing ==
  ASSUME Inv, Following, InstanceDies \/ ProxyReset \/ RemoveState \/ UNCHANGED vars
  PROVE  Following'
<1>1. /\ UNCHANGED <<pc, mem, loc, current>> /\ route' \in {route, {}}
      /\ (disk' = disk /\ result' = result) \/ result' = "none"
  BY DEF InstanceDies, ProxyReset, RemoveState, world, vars
<1>2. DeployRestoresAgreement'
  BY <1>1 DEF Following, DeployRestoresAgreement, ActivePid
<1> QED BY <1>1, <1>2 DEF Following

\* Every step preserves it.
LEMMA NextFollowing == Inv /\ Following /\ [Next]_vars => Following'
<1> SUFFICES ASSUME Inv, Following, [Next]_vars PROVE Following'
  OBVIOUS
<1> USE DEF HeldSteps, SwitchedSteps, CommittedSteps, PromotedSteps
<1>1. CASE \/ \E op \in Ops : Begin(op)
           \/ Drain \/ StoreDrained \/ Reconciled
  <2>1. pc' \notin HeldSteps /\ (pc' # "idle" \/ result' # "deployed")
    BY <1>1 DEF Begin, Drain, StoreDrained, Reconciled, AfterDrain, Step, Return
  <2> QED BY <2>1, SilentStep
<1>2. CASE \/ LoadState \/ MigrateTo \/ RecoverStaleSlots \/ StoreRecovered \/ ProbeProxy
           \/ BuildFails \/ HealthFails \/ ProxyUnreachable
           \/ StopCandidate \/ StoreAborted \/ Compensate \/ StoreBestKnown
           \/ RetireCandidate \/ StopRetired \/ UndoMigration
  <2>1. pc' \notin HeldSteps /\ (pc' # "idle" \/ result' # "deployed")
    BY <1>2 DEF LoadState, MigrateTo, RecoverStaleSlots, StoreRecovered, ProbeProxy, BuildFails,
       HealthFails, ProxyUnreachable, StopCandidate, StoreAborted, Compensate, StoreBestKnown,
       RetireCandidate, StopRetired, UndoMigration, Step, Return
  <2> QED BY <2>1, SilentStep
<1>3. CASE StopApp \/ StartApp \/ Crash
  <2>1. pc' \notin HeldSteps /\ (pc' # "idle" \/ result' # "deployed")
    BY <1>3 DEF StopApp, StartApp, RemoveRoute, Teardown, StoreTorn, StartEnds, LaunchActive,
       Listens, ListenFails, StoreStarted, UndoStart, RestoreProxyRoute, Crash, Step, Return
  <2> QED BY <2>1, SilentStep
<1>4. CASE InstanceDies \/ ProxyReset \/ RemoveState \/ UNCHANGED vars
  BY <1>4, EnvironmentFollowing
<1>5. CASE \/ LaunchCandidate \/ StoreStarting \/ HealthPasses \/ HandOffPublicPort
           \/ Add \/ Switch \/ Commit \/ Promote \/ StopLegacy \/ StopOld \/ StoreFinal
  BY <1>5, LaunchFollowing, PrepareFollowing, CutoverFollowing, CommitFollowing,
     StopFollowing, FinalFollowing
<1> QED BY <1>1, <1>2, <1>3, <1>4, <1>5 DEF Next, Prepare, Deploy, Environment

\* It holds initially.
LEMMA InitFollowing == Init => Following
BY DEF Init, Following, DeployRestoresAgreement, HeldSteps, SwitchedSteps, CommittedSteps,
   PromotedSteps

\* However the operations before it ended, crashes, lost replies and failing
\* stops included, when a deploy reports success the proxy, deploy.json and
\* versions.json agree.
THEOREM DeployAgrees == Spec => []DeployRestoresAgreement
<1>1. Following => DeployRestoresAgreement
  BY DEF Following
<1> QED BY <1>1, InitFollowing, NextFollowing, DeploymentInvariant, PTL DEF Spec

-----------------------------------------------------------------------------
(* Single faults.  Without kills and with at most one fault per operation: *)
(* what a deployment that compensates a single failure promises, for any   *)
(* number of instances.                                                    *)

-----------------------------------------------------------------------------
(* deploy.json and versions.json.                                          *)

\* What a journal says of the version is what versions.json says.
VersionOf(j) == j.ver # 0 => current = j.ver

\* The steps between the cutover and the end of the compensation.
Uncertain == {"promote", "compensate", "demote"}

\* Until the commit, and again once it is promoted or compensated, the journals
\* carry the current version.  The compensation cannot fail: the one fault was
\* what it answers, so the proxy still knows the app and takes the old target
\* back, and the Store that follows succeeds.
Versions ==
  /\ pc \notin Uncertain \cup {"retire"} => VersionOf(disk)
  /\ pc \notin Uncertain => VersionOf(mem)
  /\ pc \in Uncertain => /\ mem.ver = loc.tver
                         /\ loc.oldVer # 0 => current = loc.oldVer
  /\ pc = "promote" => disk.ver \in {0, loc.tver}
  /\ pc \in {"commit", "promote"} => route # {} \/ budget = 0
  /\ pc \in {"compensate", "demote"} => route # {} /\ budget = 0
  /\ pc = "retire" => budget = 0
  /\ pc # "bestKnown"

USE MaxInstAssumption, MaxFaultsAssumption, OriginsAssumption, RollingAssumption

\* No operation on a journal but the commit and its compensation touches the
\* version.
LEMMA VersionKept ==
  ASSUME NEW j \in Journal
  PROVE  /\ \A s, rec : SetSlot(j, s, rec).ver = j.ver
         /\ Migrated(j).ver = j.ver
         /\ \A p : RestoreMode(j, p).ver = j.ver
         /\ \A f : [j EXCEPT !.slots = f, !.replicas = {}].ver = j.ver
         /\ NoJournal.ver = 0
BY DEF Journal, SetSlot, Migrated, RestoreMode, NoJournal

\* A missing deploy.json is initialised without a version.
LEMMA LoadedVersion == ASSUME Inv PROVE LoadOrInit.ver \in {disk.ver, 0}
BY DEF LoadOrInit, NoJournal, Inv, TypeOK, Journal

\* A Store writes the journal it was given, or nothing.
LEMMA StoreWrites ==
  ASSUME NEW j, StoreOK(j) \/ StoreFails(j) PROVE disk' \in {disk, j}
BY DEF StoreOK, StoreFails

\* A step that moves versions between the journals, away from the commit.
LEMMA CalmStep ==
  ASSUME Versions, pc \notin Uncertain \cup {"retire"},
         pc' \notin Uncertain \cup {"commit", "retire", "bestKnown"},
         current' = current,
         mem'.ver \in {mem.ver, disk.ver, 0}, disk'.ver \in {disk.ver, mem.ver, 0}
  PROVE  Versions'
<1>1. VersionOf(disk)' /\ VersionOf(mem)'
  BY DEF Versions, VersionOf
<1> QED BY <1>1 DEF Versions, Uncertain

\* What an operation begins with.
LEMMA PrepareVersions == ASSUME Inv, Versions, Prepare PROVE Versions'
<1> USE VersionKept DEF Inv, TypeOK, Uncertain
<1>1. CASE \E op \in Ops : Begin(op)
  <2>1. /\ pc \notin Uncertain \cup {"retire"} /\ pc' \in {"load", "unroute", "drain"}
        /\ current' = current /\ mem' = disk /\ disk' = disk
    BY <1>1 DEF Begin
  <2> QED BY <2>1, CalmStep
<1>2. CASE Drain
  <2>1. /\ pc = "drain" /\ current' = current /\ disk' = disk
        /\ \/ mem' = disk \/ mem' = [mem EXCEPT !.retiring = {}] \/ mem' = NoJournal
    BY <1>2 DEF Drain, Step, Return
  <2>2. pc' \in {"idle", "storeDrained", "load", "unroute", "launchActive", "reconciled"}
    BY <1>2 DEF Drain, Step, Return, AfterDrain
  <2>3. mem'.ver \in {mem.ver, disk.ver, 0}
    BY <2>1 DEF Journal
  <2> QED BY <2>1, <2>2, <2>3, CalmStep
<1>3. CASE StoreDrained
  <2>1. pc = "storeDrained" /\ current' = current /\ mem' \in {mem, NoJournal}
    BY <1>3 DEF StoreDrained, Step, Return
  <2>2. pc' \in {"idle", "load", "unroute", "launchActive", "reconciled"}
    BY <1>3 DEF StoreDrained, Step, Return, AfterDrain
  <2>3. disk' \in {disk, mem}
    BY <1>3, StoreWrites DEF StoreDrained
  <2> QED BY <2>1, <2>2, <2>3, CalmStep
<1>4. CASE Reconciled
  <2>1. /\ pc = "reconciled" /\ current' = current /\ mem' = NoJournal /\ disk' = disk
        /\ pc' = "idle"
    BY <1>4 DEF Reconciled, Return
  <2> QED BY <2>1, CalmStep
<1> QED BY <1>1, <1>2, <1>3, <1>4 DEF Prepare

\* stop and start never touch a version.
LEMMA StopStartVersions == ASSUME Inv, Versions, StopApp \/ StartApp PROVE Versions'
<1>1. /\ pc \in {"unroute", "teardown", "storeTorn", "launchActive", "listen", "storeStarted",
                 "undoStart", "restoreRoute"}
      /\ pc' \in {"teardown", "storeTorn", "idle", "listen", "storeStarted", "undoStart",
                  "restoreRoute", "drain"}
      /\ current' = current
  BY DEF StopApp, StartApp, RemoveRoute, Teardown, StoreTorn, StartEnds, LaunchActive, Listens,
     ListenFails, StoreStarted, UndoStart, RestoreProxyRoute, Step, Return, world
<1>2. disk' \in {disk, mem}
  BY StoreWrites DEF StopApp, StartApp, RemoveRoute, Teardown, StoreTorn, StartEnds,
     LaunchActive, Listens, ListenFails, StoreStarted, UndoStart, RestoreProxyRoute, world
<1>3. mem'.ver \in {mem.ver, disk.ver, 0}
  <2>1. CASE Teardown
    BY <2>1, VersionKept DEF Teardown, Inv, TypeOK
  <2>2. CASE Listens
    BY <2>2, VersionKept DEF Listens, Inv, TypeOK
  <2>3. CASE ~Teardown /\ ~Listens
    <3>1. mem' \in {mem, disk, NoJournal}
      BY <2>3 DEF StopApp, StartApp, RemoveRoute, StoreTorn, StartEnds,
         LaunchActive, ListenFails, StoreStarted, UndoStart, RestoreProxyRoute, Return
    <3> QED BY <3>1, VersionKept DEF Inv, TypeOK
  <2> QED BY <2>1, <2>2, <2>3
<1> QED BY <1>1, <1>2, <1>3, CalmStep DEF Uncertain

\* A deploy up to its cutover, and its ends.
LEMMA DeployVersions ==
  ASSUME Inv, Versions,
         \/ LoadState \/ MigrateTo \/ RecoverStaleSlots \/ StoreRecovered \/ ProbeProxy
         \/ BuildFails \/ LaunchCandidate \/ StoreStarting \/ HealthPasses \/ HealthFails
         \/ ProxyUnreachable \/ HandOffPublicPort \/ StopCandidate \/ StoreAborted
         \/ StopRetired \/ StopLegacy \/ StopOld \/ StoreFinal \/ UndoMigration
  PROVE  Versions'
<1>1. /\ pc \in {"load", "migrate", "recover", "storeRecovered", "probe", "build", "storeStarting",
                 "health", "cutover", "abort", "storeAborted", "stopRetired", "stopLegacy",
                 "stopOld", "storeFinal", "fail"}
      /\ current' = current
  BY DEF LoadState, MigrateTo, RecoverStaleSlots, StoreRecovered, ProbeProxy, BuildFails,
     LaunchCandidate, StoreStarting, HealthPasses, HealthFails, ProxyUnreachable,
     HandOffPublicPort, StopCandidate, StoreAborted, StopRetired, StopLegacy, StopOld,
     StoreFinal, UndoMigration, Step
<1>2. pc' \in {"migrate", "recover", "storeRecovered", "probe", "build", "storeStarting",
               "health", "cutover", "add", "abort", "storeAborted", "stopOld", "storeFinal",
               "fail", "idle"}
  BY DEF LoadState, MigrateTo, RecoverStaleSlots, StoreRecovered, ProbeProxy, BuildFails,
     LaunchCandidate, StoreStarting, HealthPasses, HealthFails, ProxyUnreachable,
     HandOffPublicPort, StopCandidate, StoreAborted, StopRetired, StopLegacy, StopOld,
     StoreFinal, UndoMigration, Step, Return
<1>3. disk' \in {disk, mem, Migrated(mem), RestoreMode(mem, loc.pre)}
  BY StoreWrites DEF LoadState, MigrateTo, RecoverStaleSlots, StoreRecovered, ProbeProxy,
     BuildFails, LaunchCandidate, StoreStarting, HealthPasses, HealthFails, ProxyUnreachable,
     HandOffPublicPort, StopCandidate, StoreAborted, StopRetired, StopLegacy, StopOld,
     StoreFinal, UndoMigration, StoreBestEffort
<1>4. disk'.ver \in {disk.ver, mem.ver}
  BY <1>3, VersionKept DEF Inv, TypeOK
<1>5. mem'.ver \in {mem.ver, disk.ver, 0}
  <2>1. CASE LoadState
    BY <2>1, LoadedVersion DEF LoadState
  <2>2. CASE MigrateTo
    BY <2>2, VersionKept DEF MigrateTo, Return, Inv, TypeOK
  <2>3. CASE RecoverStaleSlots
    <3> DEFINE reclaimed == [s \in Slots |-> Reclaimed(mem, s)]
    <3>1. mem' = mem \/ mem' = [mem EXCEPT !.slots = reclaimed]
      BY <2>3 DEF RecoverStaleSlots
    <3> HIDE DEF reclaimed
    <3> QED BY <3>1 DEF Inv, TypeOK, Journal
  <2>4. CASE LaunchCandidate \/ HealthPasses \/ StopCandidate \/ StopOld
    <3>1. mem' = mem \/ \E s, rec : mem' = SetSlot(mem, s, rec)
      BY <2>4 DEF LaunchCandidate, HealthPasses, StopCandidate, StopOld, Drained
    <3> QED BY <3>1, VersionKept DEF Inv, TypeOK
  <2>5. CASE ~(LoadState \/ MigrateTo \/ RecoverStaleSlots
               \/ LaunchCandidate \/ HealthPasses \/ StopCandidate \/ StopOld)
    <3>1. mem' \in {mem, NoJournal}
      BY <2>5 DEF StoreRecovered, ProbeProxy, BuildFails, StoreStarting, HealthFails,
         ProxyUnreachable, HandOffPublicPort, StoreAborted, StopRetired, StopLegacy,
         StoreFinal, UndoMigration, Return
    <3> QED BY <3>1, VersionKept DEF Inv, TypeOK
  <2> QED BY <2>1, <2>2, <2>3, <2>4, <2>5
<1> QED BY <1>1, <1>2, <1>4, <1>5, CalmStep DEF Uncertain

\* The cutover leaves the app enrolled.
LEMMA CutoverVersions == ASSUME Inv, Versions, Add \/ Switch PROVE Versions'
<1>1. /\ pc \in {"add", "cutover"} /\ pc' \in {"abort", "commit"}
      /\ UNCHANGED <<current, mem, disk>>
      /\ pc' = "commit" => route' = {loc.cand}
  BY DEF Add, Switch, Step, CallOK
<1>2. VersionOf(disk)' /\ VersionOf(mem)'
  BY <1>1 DEF Versions, VersionOf, Uncertain
<1> QED BY <1>1, <1>2 DEF Versions, Uncertain

\* Committing: if the Store fails, that was the fault.
LEMMA CommitVersions ==
  ASSUME Inv, Versions, MaxFaults <= 1, Commit PROVE Versions'
<1>1. /\ pc = "commit" /\ UNCHANGED <<current, route>> /\ mem' = Committed
      /\ loc' = [loc EXCEPT !.oldVer = mem.ver]
  BY DEF Commit, Step, world
<1>2. loc'.oldVer = mem.ver /\ loc'.tver = loc.tver /\ Committed.ver = loc.tver
  BY <1>1 DEF Inv, TypeOK, Locals, Journal, Committed
<1>3. \/ pc' = "promote" /\ disk' = Committed /\ budget' = budget
      \/ pc' = "compensate" /\ budget > 0 /\ budget' = budget - 1
  BY DEF Commit, StoreOK, StoreFails, NoFault, Fault, Step
<1>4. budget \in Nat /\ budget <= 1
  BY DEF Inv, TypeOK
<1>5. VersionOf(mem) /\ (route # {} \/ budget = 0)
  BY <1>1 DEF Versions, Uncertain
<1> QED BY <1>1, <1>2, <1>3, <1>4, <1>5 DEF Versions, VersionOf, Uncertain

\* Promoting: if it fails, that was the fault.
LEMMA PromoteVersions ==
  ASSUME Inv, Versions, MaxFaults <= 1, Promote PROVE Versions'
<1>1. pc = "promote" /\ UNCHANGED <<route, disk, mem, loc>>
  BY DEF Promote, Step, world
<1>2. \/ pc' = "stopLegacy" /\ (loc.tver # 0 => current' = loc.tver)
      \/ pc' = "demote" /\ current' = current /\ budget > 0 /\ budget' = budget - 1
  BY DEF Promote, Step, Fault
<1>3. budget \in Nat /\ budget <= 1
  BY DEF Inv, TypeOK
<1>4. /\ mem.ver = loc.tver /\ disk.ver \in {0, loc.tver}
      /\ route # {} \/ budget = 0
      /\ loc.oldVer # 0 => current = loc.oldVer
  BY <1>1 DEF Versions, Uncertain
<1> QED BY <1>1, <1>2, <1>3, <1>4 DEF Versions, VersionOf, Uncertain

\* The compensation succeeds and puts the old version back.
LEMMA CompensateVersions == ASSUME Inv, Versions, Compensate PROVE Versions'
<1>1. pc \in {"compensate", "demote"} /\ current' = current /\ disk' = disk
  BY DEF Compensate
<1>2. route # {} /\ budget = 0
  BY <1>1 DEF Versions
<1>3. ~CallFails(OldTarget)
  BY <1>2 DEF CallFails, Fault
<1>4. /\ pc' = "retire" /\ mem' = [mem EXCEPT !.active = loc.active, !.ver = loc.oldVer]
      /\ budget' = budget
  BY <1>2, <1>3 DEF Compensate, SwitchAccepted, Step, CallOK, NoFault
<1>5. mem'.ver = loc.oldVer
  BY <1>4 DEF Inv, TypeOK, Journal
<1>6. loc.oldVer # 0 => current = loc.oldVer
  BY <1>1 DEF Versions, Uncertain
<1> QED BY <1>1, <1>2, <1>4, <1>5, <1>6 DEF Versions, VersionOf, Uncertain

\* So does the Store that retires the candidate.
LEMMA RetireVersions == ASSUME Inv, Versions, RetireCandidate PROVE Versions'
<1>1. pc = "retire" /\ current' = current
  BY DEF RetireCandidate, Step
<1>2. budget = 0 /\ VersionOf(mem)
  BY <1>1 DEF Versions, Uncertain
<1>3. pc' = "stopRetired" /\ mem' = Retired /\ disk' = Retired
  BY <1>2 DEF RetireCandidate, StoreFails, StoreOK, Fault, Step
<1>4. Retired.ver = mem.ver
  BY DEF Retired, SetSlot, Inv, TypeOK, Journal
<1> QED BY <1>1, <1>2, <1>3, <1>4 DEF Versions, VersionOf, Uncertain

\* What happens beside the operation: a reset is a fault too.
LEMMA BesideVersions ==
  ASSUME Inv, Versions, MaxFaults <= 1,
         InstanceDies \/ ProxyReset \/ RemoveState \/ UNCHANGED vars
  PROVE  Versions'
<1>1. UNCHANGED <<current, pc, mem, loc>> /\ disk' \in {disk, NoJournal}
  BY DEF InstanceDies, ProxyReset, RemoveState, world, vars
<1>2. disk'.ver \in {disk.ver, 0}
  BY <1>1, VersionKept DEF Inv, TypeOK
<1>3. budget \in Nat /\ budget <= 1
  BY DEF Inv, TypeOK
<1>4. \/ UNCHANGED <<route, budget>>
      \/ budget > 0 /\ budget' = budget - 1
  BY DEF InstanceDies, ProxyReset, RemoveState, world, vars, Fault
<1>5. (pc \notin Uncertain \cup {"retire"} => VersionOf(disk)')
  BY <1>1, <1>2 DEF Versions, VersionOf
<1>6. (pc \notin Uncertain => VersionOf(mem)')
  BY <1>1, <1>2 DEF Versions, VersionOf
<1>7. pc = "promote" => disk'.ver \in {0, loc.tver}
  BY <1>2 DEF Versions
<1>8. /\ pc \in {"commit", "promote"} => route' # {} \/ budget' = 0
      /\ pc \in {"compensate", "demote"} => route' # {} /\ budget' = 0
      /\ pc = "retire" => budget' = 0
  BY <1>3, <1>4 DEF Versions
<1> QED BY <1>1, <1>5, <1>6, <1>7, <1>8 DEF Versions, Uncertain

\* Every step preserves it.
LEMMA NextVersions ==
  ASSUME "crash" \notin Faults, MaxFaults <= 1
  PROVE  Inv /\ Versions /\ [Next]_vars => Versions'
<1> SUFFICES ASSUME Inv, Versions, [Next]_vars PROVE Versions'
  OBVIOUS
<1>1. CASE Prepare
  BY <1>1, PrepareVersions
<1>2. CASE Deploy
  <2>1. ~StoreBestKnown
    BY DEF StoreBestKnown, Step, Versions
  <2> QED BY <1>2, <2>1, DeployVersions, CutoverVersions, CommitVersions, PromoteVersions,
             CompensateVersions, RetireVersions DEF Deploy
<1>3. CASE StopApp \/ StartApp
  BY <1>3, StopStartVersions
<1>4. CASE Environment \/ UNCHANGED vars
  BY <1>4, BesideVersions DEF Environment, Crash
<1> QED BY <1>1, <1>2, <1>3, <1>4 DEF Next

\* It holds initially.
LEMMA InitVersions == Init => Versions
<1> SUFFICES ASSUME Init PROVE Versions
  OBVIOUS
<1>1. PICK o \in Origins : Origin(o)
  BY DEF Init
<1>2. VersionOf(disk)
  BY <1>1 DEF Origin, VersionOf, NoJournal
<1> QED BY <1>2 DEF Init, Versions, VersionOf, Uncertain, NoJournal

\* Whatever single fault an operation meets, an unconfirmed stop, a lost reply
\* or a deploy.json deleted under it included, between operations versions.json
\* and deploy.json agree on the version.
THEOREM VersionsAgree ==
  ASSUME "crash" \notin Faults, MaxFaults <= 1
  PROVE  Spec => []VersionAgrees
<1>1. Versions => VersionAgrees
  BY DEF Versions, VersionAgrees, VersionOf, Uncertain
<1> QED BY <1>1, InitVersions, NextVersions, DeploymentInvariant, PTL DEF Spec

-----------------------------------------------------------------------------
(* Who serves, and who is on record.                                       *)

\* The process is not killed, every stop is confirmed, nothing removes
\* deploy.json, an operation meets at most one fault, and no app comes from a
\* rolling deploy.
OneFault == /\ Faults \cap {"crash", "stop", "remove"} = {}
            /\ MaxFaults <= 1
            /\ "rolling" \notin Origins

\* A journal no rolling deploy ever wrote to.
Plain(j) == /\ j.mode # "rolling" /\ j.replicas = {}
            /\ j.mode = "absent" => j = NoJournal

\* A record's PID is that of the instance on its port, or cleared; no two slots
\* share an instance; and every instance on record has been launched.
Records(j, n) ==
  /\ \A s \in Slots : j.slots[s].pid \in {0, j.slots[s].port} /\ j.slots[s].port < n
  /\ \A s, t \in Slots : s # t => j.slots[s].port = 0 \/ j.slots[s].port # j.slots[t].port
  /\ \A i \in j.retiring : i < n

\* If the instance on the port of slot s runs, its PID is on record.
Held(j, s, running) ==
  s # NoSlot /\ j.slots[s].port \in running => j.slots[s].pid = j.slots[s].port

GoodJournal(j, n, running) == Plain(j) /\ Records(j, n) /\ Held(j, j.active, running)

\* This holds of deploy.json and of the journal in memory, and of the slot a
\* deploy replaces, until it is over.
Journals ==
  /\ GoodJournal(disk, next, alive) /\ GoodJournal(mem, next, alive)
  /\ Held(mem, loc.active, alive) /\ Plain(loc.pre)

\* An operation that needs a blue-green journal has one.
Modes ==
  /\ pc = "drain" => /\ mem = disk
                     /\ loc.op \in {"rollback", "stop", "start"} => mem.mode = "blue-green"
  /\ pc \notin {"idle", "drain", "reconciled", "load"} => mem.mode = "blue-green"
  /\ loc.legacy = {} /\ loc.op # "classicize" /\ ~removal /\ pc # "migrate"

\* Nothing carries the number of an instance that is yet to be launched.
Numbered == (\A i \in alive \cup route : i < next) /\ loc.cand < next

\* Up to the cutover, and after a compensation, the old slot is the active one.
OldActive == {"storeStarting", "health", "cutover", "add", "abort", "retire"}

\* What the operation knows of its candidate, and of the slot it is meant for.
CandidateKept ==
  /\ pc \in OldActive => mem.active = loc.active
  /\ pc \in {"abort", "compensate", "demote", "retire", "storeStarted", "restoreRoute"} =>
       mem.slots[loc.slot].pid = loc.cand
  /\ pc \in {"storeStarting", "health", "cutover", "add", "abort", "commit", "promote",
             "compensate", "demote", "retire"} => mem.slots[loc.slot].port = loc.cand
  /\ pc \in {"storeRecovered", "probe", "build", "listen"} => mem.slots[loc.slot].pid \notin alive
  /\ pc \in {"listen", "storeStarted", "restoreRoute"} => mem.active = loc.slot
  /\ pc = "listen" => \A s \in Slots : mem.slots[s].port # loc.cand
  /\ pc = "restoreRoute" => disk = mem

\* A running instance that one journal has on record is on record in the other.
Covers(k, j, running) == Recorded(j) \cap running \subseteq Recorded(k)

\* What is stored next forgets no running instance.
Covered == pc # "idle" => Covers(mem, disk, alive)

\* The journal names whoever serves.
Names(j, serving) == serving \subseteq ActivePid(j)

\* The steps at which deploy.json may not, the ones at which the journal in
\* memory does, and the ones at which nobody serves.
Unsettled == {"abort", "commit", "compensate", "demote", "retire"}
Ahead == {"drain", "storeDrained", "load", "recover", "storeRecovered", "probe", "build",
          "storeStarting", "health", "cutover", "add", "storeAborted", "unroute", "teardown",
          "launchActive", "retire"}
Unserved == {"storeTorn", "listen", "storeStarted", "undoStart", "restoreRoute"}

\* An abort whose Switch took effect unnoticed is about to stop who serves.
Agreement ==
  /\ pc \notin Unsettled => Names(disk, route \cap alive)
  /\ pc \in Ahead => Names(mem, route \cap alive)
  /\ pc = "abort" => \/ Names(disk, route \cap alive) /\ Names(mem, route \cap alive)
                     \/ route = {loc.cand}
  /\ pc \in Unserved => route \cap alive = {}

Tidy == Journals /\ Modes /\ Numbered /\ CandidateKept /\ Covered /\ Agreement

-----------------------------------------------------------------------------
(* Journals, again.                                                        *)

\* What is said of a journal stays true while instances stop.
LEMMA GoodStays ==
  ASSUME NEW j \in Journal, NEW n \in Nat, NEW A, NEW B \in SUBSET A, GoodJournal(j, n, A)
  PROVE  GoodJournal(j, n, B) /\ \A s : Held(j, s, A) => Held(j, s, B)
BY DEF GoodJournal, Held

\* ... and when the next one is launched.
LEMMA GoodLaunch ==
  ASSUME NEW j \in Journal, NEW n \in Nat, NEW A, GoodJournal(j, n, A)
  PROVE  /\ GoodJournal(j, n + 1, A \cup {n})
         /\ \A s \in Slots \cup {NoSlot} : Held(j, s, A) => Held(j, s, A \cup {n})
<1>1. \A s \in Slots : j.slots[s].port \in Nat /\ j.slots[s].port < n
  BY DEF GoodJournal, Records, Journal, SlotRec, Pid
<1>2. j.active \in Slots \cup {NoSlot}
  BY DEF Journal
<1>3. Records(j, n + 1)
  <2>1. \A i \in j.retiring : i \in Nat
    BY DEF Journal, Inst
  <2> QED BY <1>1, <2>1 DEF GoodJournal, Records
<1>4. \A s \in Slots \cup {NoSlot} : Held(j, s, A) => Held(j, s, A \cup {n})
  BY <1>1 DEF Held
<1> QED BY <1>2, <1>3, <1>4 DEF GoodJournal

\* A journal that has not been written.
LEMMA EmptyGood ==
  /\ \A n \in Nat \ {0} : \A A : GoodJournal(NoJournal, n, A)
  /\ Recorded(NoJournal) = {} /\ ActivePid(NoJournal) = {} /\ NoJournal.mode = "absent"
<1>1. \A s \in Slots : NoJournal.slots[s].pid = 0 /\ NoJournal.slots[s].port = 0
  BY DEF NoJournal, EmptySlots, EmptySlot
<1>2. NoJournal.mode = "absent" /\ NoJournal.replicas = {} /\ NoJournal.retiring = {}
      /\ NoJournal.active = NoSlot
  BY DEF NoJournal
<1> QED BY <1>1, <1>2 DEF GoodJournal, Plain, Records, Held, Recorded, SlotPids, ActivePid

\* Writing a record of a blue-green journal.
LEMMA SetSlotGood ==
  ASSUME NEW j \in Journal, NEW s \in Slots, NEW rec \in SlotRec, NEW n \in Nat, NEW A,
         GoodJournal(j, n, A), j.mode = "blue-green",
         rec.pid \in {0, rec.port}, rec.port < n,
         \A t \in Slots \ {s} : rec.port = 0 \/ rec.port # j.slots[t].port,
         s = j.active => (rec.port \in A => rec.pid = rec.port)
  PROVE  GoodJournal(SetSlot(j, s, rec), n, A)
<1> DEFINE k == SetSlot(j, s, rec)
<1>1. /\ k \in Journal /\ k.active = j.active /\ k.slots[s] = rec
      /\ \A t \in Slots \ {s} : k.slots[t] = j.slots[t]
  BY SetSlotFacts
<1>2. k.mode = "blue-green" /\ k.replicas = j.replicas /\ k.retiring = j.retiring
  BY DEF SetSlot, Journal
<1>3. j.active \in Slots \cup {NoSlot}
  BY DEF Journal
<1> HIDE DEF k
<1>4. Plain(k)
  BY <1>2 DEF GoodJournal, Plain
<1>5. Records(k, n)
  <2>1. \A t \in Slots : k.slots[t].pid \in {0, k.slots[t].port} /\ k.slots[t].port < n
    BY <1>1 DEF GoodJournal, Records
  <2>2. ASSUME NEW t \in Slots, NEW u \in Slots, t # u
        PROVE  k.slots[t].port = 0 \/ k.slots[t].port # k.slots[u].port
    <3>1. CASE t = s
      BY <1>1, <2>2, <3>1
    <3>2. CASE u = s
      <4>1. rec.port = 0 \/ rec.port # j.slots[t].port
        BY <2>2, <3>2
      <4> QED BY <1>1, <2>2, <3>2, <4>1
    <3>3. CASE t # s /\ u # s
      BY <1>1, <2>2, <3>3 DEF GoodJournal, Records
    <3> QED BY <3>1, <3>2, <3>3
  <2> QED BY <1>2, <2>1, <2>2 DEF GoodJournal, Records
<1>6. Held(k, k.active, A)
  BY <1>1, <1>3 DEF GoodJournal, Held
<1> QED BY <1>4, <1>5, <1>6 DEF GoodJournal, k

\* What it does to what is on record.
LEMMA SetSlotRecorded ==
  ASSUME NEW j \in Journal, NEW s \in Slots, NEW rec \in SlotRec
  PROVE  /\ SetSlot(j, s, rec).mode = j.mode /\ SetSlot(j, s, rec).retiring = j.retiring
         /\ SetSlot(j, s, rec).replicas = j.replicas
         /\ \A x \in Recorded(j) : x \in Recorded(SetSlot(j, s, rec)) \/ x = j.slots[s].pid
         /\ rec.pid # 0 => rec.pid \in Recorded(SetSlot(j, s, rec))
         /\ s # j.active => ActivePid(SetSlot(j, s, rec)) = ActivePid(j)
         /\ s = j.active => ActivePid(SetSlot(j, s, rec)) = {rec.pid} \ {0}
<1> DEFINE k == SetSlot(j, s, rec)
<1>1. /\ k \in Journal /\ k.active = j.active /\ k.slots[s] = rec
      /\ \A t \in Slots \ {s} : k.slots[t] = j.slots[t]
  BY SetSlotFacts
<1>2. k.mode = j.mode /\ k.replicas = j.replicas /\ k.retiring = j.retiring
  BY DEF SetSlot, Journal
<1>3. j.active \in Slots \cup {NoSlot} /\ NoSlot \notin Slots
  BY SlotFacts DEF Journal
<1> HIDE DEF k
<1>4. ASSUME NEW x \in Recorded(j) PROVE x \in Recorded(k) \/ x = j.slots[s].pid
  <2>1. CASE x \in j.replicas \cup j.retiring
    BY <1>2, <2>1 DEF Recorded
  <2>2. CASE x \in SlotPids(j)
    <3>1. PICK t \in Slots : x = j.slots[t].pid /\ x # 0
      BY <2>2 DEF SlotPids
    <3>2. t # s => x = k.slots[t].pid
      BY <1>1, <3>1
    <3> QED BY <3>1, <3>2 DEF Recorded, SlotPids
  <2> QED BY <2>1, <2>2 DEF Recorded
<1>5. rec.pid # 0 => rec.pid \in Recorded(k)
  BY <1>1 DEF Recorded, SlotPids
<1>6. /\ s # j.active => ActivePid(k) = ActivePid(j)
      /\ s = j.active => ActivePid(k) = {rec.pid} \ {0}
  BY <1>1, <1>3 DEF ActivePid
<1> QED BY <1>2, <1>4, <1>5, <1>6 DEF k

\* The journal in memory and the one on disk, for the provers.
LEMMA TypeFacts ==
  ASSUME Inv
  PROVE  /\ disk \in Journal /\ mem \in Journal /\ loc \in Locals /\ loc.pre \in Journal
         /\ next \in Nat \ {0} /\ next \in Nat /\ loc.cand \in Nat /\ alive \subseteq Inst
         /\ route \subseteq Inst /\ 0 \notin Inst /\ Inst \subseteq Nat
         /\ loc.slot \in Slots /\ loc.active \in Slots \cup {NoSlot} /\ NoSlot \notin Slots
         /\ mem.active \in Slots \cup {NoSlot} /\ disk.active \in Slots \cup {NoSlot}
         /\ mem.slots \in [Slots -> SlotRec] /\ budget \in Nat /\ budget <= MaxFaults
         /\ \A s \in Slots : mem.slots[s] \in SlotRec /\ mem.slots[s].port \in Nat
                             /\ mem.slots[s].pid \in Nat
<1>1. mem.slots \in [Slots -> SlotRec]
  BY DEF Inv, TypeOK, Journal
<1>2. \A s \in Slots : mem.slots[s] \in SlotRec
  BY <1>1
<1>3. \A s \in Slots : mem.slots[s].port \in Nat /\ mem.slots[s].pid \in Nat
  BY <1>2 DEF SlotRec, Pid
<1> QED BY <1>1, <1>2, <1>3, SlotFacts DEF Inv, TypeOK, Locals, Journal, Pid, Inst

\* The active slot of the committed journal is the candidate's, which serves.
LEMMA CommittedNames ==
  ASSUME Inv, Following, pc \in CommittedSteps PROVE Names(mem, route \cap alive)
<1>1. route \in {{}, {loc.cand}} /\ mem.active = loc.slot /\ mem.slots[loc.slot].pid = loc.cand
  BY DEF Following, HeldSteps, SwitchedSteps, CommittedSteps
<1>2. route # {} => ActivePid(mem) = {loc.cand}
  BY <1>1, TypeFacts DEF ActivePid
<1> QED BY <1>1, <1>2 DEF Names

\* Confirmed stops, when every stop is.
LEMMA Confirmed ==
  ASSUME OneFault, NEW gone, StopOK(gone) \/ StopFails(gone)
  PROVE  alive' = alive \ gone /\ budget' = budget
BY DEF OneFault, StopOK, StopFails, Fault, NoFault

-----------------------------------------------------------------------------
(* Steps that leave the journal in memory and the route alone.             *)

PidSteps == {"abort", "compensate", "demote", "retire", "storeStarted", "restoreRoute"}
PortSteps == {"storeStarting", "health", "cutover", "add", "abort", "commit", "promote",
              "compensate", "demote", "retire"}
FreeSteps == {"storeRecovered", "probe", "build", "listen"}
StartSteps == {"listen", "storeStarted", "restoreRoute"}
Modeless == {"idle", "drain", "reconciled", "load"}

\* What is said at the second step was said at the first one.
Moves(from, to) ==
  /\ to \in OldActive => from \in OldActive
  /\ to \in PidSteps => from \in PidSteps \cup (HeldSteps \ {"storeFinal"})
  /\ to \in PortSteps => from \in PortSteps
  /\ to \in FreeSteps => from \in FreeSteps
  /\ to \in StartSteps => from \in StartSteps
  /\ to = "listen" => from = "listen"
  /\ to \notin Modeless => from \notin Modeless
  /\ to # "migrate"
  /\ to \in Ahead => from \in Ahead
  /\ to \in Unserved => from \in Unserved
  /\ to \in {"abort", "drain", "reconciled", "load"} => from = to \/ from \in Ahead \ Unsettled

\* Such a step, if it stores nothing that does not name who serves.
LEMMA KeptTidy ==
  ASSUME Inv, Following, Tidy, KeepsLocals, loc'.legacy = loc.legacy, mem' = mem, next' = next,
         route' = route, alive' \in SUBSET alive, disk' \in {disk, mem}, removal' = removal,
         Moves(pc, pc'), pc = "idle" => pc' = "idle",
         pc' = "drain" => pc = "drain" /\ disk' = disk,
         pc' = "restoreRoute" => disk' = mem,
         pc' = "abort" => disk' = disk,
         pc' \notin Unsettled => Names(disk', route \cap alive)
  PROVE  Tidy'
<1> USE TypeFacts
<1>1. Journals'
  BY GoodStays DEF Tidy, Journals, KeepsLocals
<1>2. Modes'
  BY DEF Tidy, Modes, KeepsLocals, Moves, Modeless
<1>3. Numbered'
  BY DEF Tidy, Numbered, KeepsLocals
<1>4. CandidateKept'
  <2>1. pc' \in PidSteps => mem.slots[loc.slot].pid = loc.cand
    BY DEF Tidy, CandidateKept, Following, Moves, PidSteps
  <2>2. /\ pc' \in OldActive => mem.active = loc.active
        /\ pc' \in PortSteps => mem.slots[loc.slot].port = loc.cand
        /\ pc' \in FreeSteps => mem.slots[loc.slot].pid \notin alive
        /\ pc' \in StartSteps => mem.active = loc.slot
        /\ pc' = "listen" => \A s \in Slots : mem.slots[s].port # loc.cand
    BY DEF Tidy, CandidateKept, Moves, PortSteps, FreeSteps, StartSteps
  <2> QED BY <2>1, <2>2 DEF CandidateKept, KeepsLocals, PidSteps, PortSteps, FreeSteps, StartSteps
<1>5. Covered'
  BY DEF Tidy, Covered, Covers
<1>6. Agreement'
  <2>1. pc' \notin Unsettled => Names(disk', route' \cap alive')
    BY DEF Names
  <2>2. pc' \in Ahead => Names(mem', route' \cap alive')
    BY DEF Tidy, Agreement, Moves, Names
  <2>3. pc' \in Unserved => route' \cap alive' = {}
    BY DEF Tidy, Agreement, Moves
  <2>4. pc' = "abort" => \/ Names(disk', route' \cap alive') /\ Names(mem', route' \cap alive')
                         \/ route' = {loc'.cand}
    BY DEF Tidy, Agreement, Moves, Names, KeepsLocals
  <2> QED BY <2>1, <2>2, <2>3, <2>4 DEF Agreement
<1> QED BY <1>1, <1>2, <1>3, <1>4, <1>5, <1>6 DEF Tidy

\* Which steps follow which.
LEMMA MoveFacts ==
  /\ Moves("storeRecovered", "probe") /\ Moves("probe", "build")
  /\ \A from \in Steps \ Modeless : Moves(from, "fail")
  /\ Moves("storeStarting", "health")
  /\ Moves("health", "abort") /\ Moves("cutover", "abort") /\ Moves("cutover", "add")
  /\ Moves("promote", "stopLegacy") /\ Moves("promote", "demote") /\ Moves("stopLegacy", "stopOld")
  /\ Moves("listen", "undoStart")
  /\ Moves("storeStarted", "restoreRoute") /\ Moves("storeStarted", "undoStart")
  /\ \A p \in Steps : p # "migrate" => Moves(p, p)
<1> USE DEF Moves, OldActive, PidSteps, PortSteps, FreeSteps, StartSteps, Modeless, Ahead, Unserved,
       Unsettled, HeldSteps, SwitchedSteps, CommittedSteps, PromotedSteps
<1>1. /\ Moves("storeRecovered", "probe") /\ Moves("probe", "build")
      /\ Moves("storeStarting", "health")
      /\ Moves("health", "abort") /\ Moves("cutover", "abort") /\ Moves("cutover", "add")
  OBVIOUS
<1>2. /\ Moves("promote", "stopLegacy") /\ Moves("promote", "demote")
      /\ Moves("stopLegacy", "stopOld") /\ Moves("listen", "undoStart")
      /\ Moves("storeStarted", "restoreRoute") /\ Moves("storeStarted", "undoStart")
  OBVIOUS
<1>3. \A from \in Steps \ Modeless : Moves(from, "fail")
  OBVIOUS
<1>4. \A p \in Steps : p # "migrate" => Moves(p, p)
  OBVIOUS
<1> QED BY <1>1, <1>2, <1>3, <1>4

\* The steps that store the journal in memory: it names who serves.
LEMMA StoreStepTidy ==
  ASSUME Inv, Following, Tidy, StoreRecovered \/ StoreStarting \/ StoreAborted \/ StoreStarted
  PROVE  Tidy'
<1>1. disk' \in {disk, mem}
  BY StoreWrites DEF StoreBestEffort, StoreRecovered, StoreStarting, StoreAborted, StoreStarted
<1>2. /\ mem' = mem /\ loc' = loc /\ UNCHANGED world /\ removal' = removal
      /\ pc' = "restoreRoute" => disk' = mem
  BY DEF StoreRecovered, StoreStarting, StoreAborted, StoreStarted, Step, StoreOK
<1>3. \/ pc = "storeRecovered" /\ pc' = "probe"
      \/ pc = "storeStarting" /\ pc' = "health"
      \/ pc = "storeAborted" /\ pc' = "fail"
      \/ pc = "storeStarted" /\ pc' \in {"restoreRoute", "undoStart"}
  BY DEF StoreRecovered, StoreStarting, StoreAborted, StoreStarted, Step
<1>4. Names(disk, route \cap alive) /\ Names(mem, route \cap alive)
  BY <1>3 DEF Tidy, Agreement, Ahead, Unsettled, Unserved, Names
<1>5. Moves(pc, pc')
  BY <1>3, MoveFacts DEF Steps, Modeless
<1>6. KeepsLocals /\ loc'.legacy = loc.legacy
  BY <1>2, SameLocals
<1> QED BY <1>1, <1>2, <1>3, <1>4, <1>5, <1>6, KeptTidy DEF world

\* The steps that ask, decide or stop, and the deaths.
LEMMA QuietStepTidy ==
  ASSUME OneFault, Inv, Following, Tidy,
         \/ ProbeProxy \/ BuildFails \/ HealthFails \/ ProxyUnreachable \/ HandOffPublicPort
         \/ Promote \/ ListenFails \/ StopRetired \/ StopLegacy \/ InstanceDies \/ UNCHANGED vars
  PROVE  Tidy'
<1>1. /\ mem' = mem /\ disk' = disk /\ UNCHANGED <<next, route, removal>>
  BY DEF ProbeProxy, BuildFails, HealthFails, ProxyUnreachable, HandOffPublicPort, Promote,
     ListenFails, StopRetired, StopLegacy, InstanceDies, world, vars, Step
<1>2. alive' \in SUBSET alive
  BY Confirmed DEF ProbeProxy, BuildFails, HealthFails, ProxyUnreachable, HandOffPublicPort,
     Promote, ListenFails, StopRetired, StopLegacy, InstanceDies, world, vars
<1>3. \/ pc = "probe" /\ pc' = "build"
      \/ pc = "build" /\ pc' = "fail"
      \/ pc = "health" /\ pc' = "abort"
      \/ pc = "cutover" /\ pc' \in {"abort", "add"}
      \/ pc = "promote" /\ pc' \in {"stopLegacy", "demote"}
      \/ pc = "listen" /\ pc' = "undoStart"
      \/ pc = "stopRetired" /\ pc' = "fail"
      \/ pc = "stopLegacy" /\ pc' \in {"stopOld", "fail"}
      \/ pc' = pc
  BY DEF ProbeProxy, BuildFails, HealthFails, ProxyUnreachable, HandOffPublicPort, Promote,
     ListenFails, StopRetired, StopLegacy, InstanceDies, vars, Step
<1>4. pc' \notin Unsettled => Names(disk', route \cap alive)
  BY <1>1, <1>3 DEF Tidy, Agreement, Unsettled
<1>5. Moves(pc, pc')
  BY <1>3, MoveFacts DEF Steps, Modeless, Inv, TypeOK, Tidy, Modes
<1>6. \/ loc' = loc \/ loc' = [loc EXCEPT !.clear = TRUE]
      \/ \E b, c \in BOOLEAN : loc' = [loc EXCEPT !.proxyOK = b, !.enrolled = c]
  BY DEF ProbeProxy, BuildFails, HealthFails, ProxyUnreachable, HandOffPublicPort, Promote,
     ListenFails, StopRetired, StopLegacy, InstanceDies, vars
<1>7. KeepsLocals
  BY <1>6, SameLocals
<1>8. loc'.legacy = loc.legacy
  BY <1>6 DEF Inv, TypeOK, Locals
<1>9. pc' = "restoreRoute" => disk' = mem
  BY <1>1, <1>3 DEF Tidy, CandidateKept
<1>10. /\ pc = "idle" => pc' = "idle"
       /\ pc' = "drain" => pc = "drain"
  BY <1>3
<1> QED BY <1>1, <1>2, <1>4, <1>5, <1>7, <1>8, <1>9, <1>10, KeptTidy

-----------------------------------------------------------------------------
(* The steps that begin and end an operation.                              *)

\* Listing other instances as retiring changes nothing else.
LEMMA RetiringFacts ==
  ASSUME NEW j \in Journal, NEW R \in SUBSET Inst
  PROVE  LET k == [j EXCEPT !.retiring = R] IN
         /\ k \in Journal /\ k.active = j.active /\ k.slots = j.slots /\ k.mode = j.mode
         /\ k.retiring = R /\ k.replicas = j.replicas
         /\ SlotPids(k) = SlotPids(j) /\ ActivePid(k) = ActivePid(j)
         /\ \A n, A : GoodJournal(j, n, A) /\ j.mode # "absent" /\ (\A i \in R : i < n)
                        => GoodJournal(k, n, A)
<1> DEFINE k == [j EXCEPT !.retiring = R]
<1>1. /\ k \in Journal /\ k.active = j.active /\ k.slots = j.slots /\ k.mode = j.mode
      /\ k.retiring = R /\ k.replicas = j.replicas
  BY DEF Journal
<1> HIDE DEF k
<1>2. SlotPids(k) = SlotPids(j) /\ ActivePid(k) = ActivePid(j)
  BY <1>1 DEF SlotPids, ActivePid
<1>3. ASSUME NEW n, NEW A, GoodJournal(j, n, A), j.mode # "absent", \A i \in R : i < n
      PROVE  GoodJournal(k, n, A)
  BY <1>1, <1>3 DEF GoodJournal, Plain, Records, Held
<1> QED BY <1>1, <1>2, <1>3 DEF k

\* An operation that returns leaves deploy.json and the world behind.
LEMMA ReturnTidy ==
  ASSUME Inv, Tidy, NEW r, Return(r), next' = next, alive' \in SUBSET alive, removal' = removal,
         \A i \in route' : i < next, disk' \in Journal,
         GoodJournal(disk', next, alive), Names(disk', route' \cap alive')
  PROVE  Tidy'
<1> USE TypeFacts
<1>1. /\ pc' = "idle" /\ mem' = NoJournal /\ loc' = NoLocals
      /\ loc'.active = NoSlot /\ loc'.pre = NoJournal /\ loc'.cand = 0 /\ loc'.legacy = {}
      /\ loc'.op = "none"
  BY DEF Return, NoLocals
<1>2. Journals'
  <2>1. GoodJournal(disk', next', alive')
    BY GoodStays
  <2>2. GoodJournal(mem', next', alive')
    BY <1>1, EmptyGood
  <2>3. Plain(NoJournal)
    BY EmptyGood DEF GoodJournal
  <2> QED BY <1>1, <2>1, <2>2, <2>3 DEF Journals, Held
<1>3. Modes' /\ Numbered' /\ CandidateKept' /\ Covered'
  BY <1>1 DEF Tidy, Modes, Numbered, CandidateKept, Covered, OldActive
<1>4. Agreement'
  BY <1>1 DEF Agreement, Unsettled, Ahead, Unserved
<1> QED BY <1>2, <1>3, <1>4 DEF Tidy

\* The steps that return.
LEMMA ReturnStepTidy ==
  ASSUME OneFault, Inv, Following, Tidy,
         \/ Reconciled \/ StartEnds \/ UndoStart \/ StoreTorn \/ UndoMigration
         \/ pc' = "idle" /\ (Drain \/ StoreDrained \/ StoreFinal \/ RestoreProxyRoute)
  PROVE  Tidy'
<1> USE TypeFacts
<1>g. GoodJournal(disk, next, alive) /\ GoodJournal(mem, next, alive)
      /\ \A i \in route : i < next
  BY DEF Tidy, Journals, Numbered
<1>1. CASE Reconciled \/ StartEnds \/ UndoStart \/ UndoMigration
  <2>1. /\ \E r : Return(r)
        /\ UNCHANGED <<next, route, disk, removal>>
        /\ pc \in {"reconciled", "launchActive", "undoStart", "fail"}
    <3>1. loc.pre.mode # "rolling"
      BY DEF Tidy, Journals, Plain
    <3> QED BY <1>1, <3>1 DEF Reconciled, StartEnds, UndoStart, UndoMigration, world
  <2>2. alive' \in SUBSET alive
    BY <1>1, Confirmed DEF Reconciled, StartEnds, UndoStart, UndoMigration, world
  <2>3. Names(disk, route \cap alive)
    BY <2>1 DEF Tidy, Agreement, Unsettled
  <2> QED BY <1>g, <2>1, <2>2, <2>3, ReturnTidy DEF Names
<1>2. CASE StoreTorn \/ (pc' = "idle" /\ (StoreDrained \/ StoreFinal))
  <2>1. /\ \E r : Return(r)
        /\ UNCHANGED <<world, removal>>
        /\ pc \in {"storeTorn", "storeDrained", "storeFinal"}
    <3>1. loc.op # "classicize"
      BY DEF Tidy, Modes
    <3>2. AfterDrain # "idle"
      BY DEF AfterDrain
    <3> QED BY <1>2, <3>1, <3>2 DEF StoreTorn, StoreDrained, StoreFinal, Step, Return, Inv, TypeOK
  <2>2. disk' \in {disk, mem}
    BY <1>2, StoreWrites DEF StoreTorn, StoreDrained, StoreFinal
  <2>3. Names(disk, route \cap alive)
    BY <2>1 DEF Tidy, Agreement, Unsettled
  <2>4. Names(mem, route \cap alive)
    <3>1. CASE pc = "storeTorn"
      BY <3>1 DEF Tidy, Agreement, Unserved, Names
    <3>2. CASE pc = "storeDrained"
      BY <3>2 DEF Tidy, Agreement, Ahead
    <3>3. CASE pc = "storeFinal"
      BY <3>3, CommittedNames DEF CommittedSteps, PromotedSteps
    <3> QED BY <2>1, <3>1, <3>2, <3>3
  <2> QED BY <1>g, <2>1, <2>2, <2>3, <2>4, ReturnTidy DEF world
<1>3. CASE pc' = "idle" /\ Drain
  <2>1. AfterDrain # "idle"
    BY DEF AfterDrain
  <2> QED BY <1>3, <2>1 DEF Drain, Step, StopFails, Fault, OneFault
<1>4. CASE pc' = "idle" /\ RestoreProxyRoute
  <2>1. /\ \E r : Return(r)
        /\ UNCHANGED <<alive, next, disk, removal>> /\ pc = "restoreRoute"
        /\ route' \in {route, {loc.cand}}
    BY <1>4 DEF RestoreProxyRoute, Step, CallFails
  <2>2. /\ disk = mem /\ mem.active = loc.slot /\ mem.slots[loc.slot].pid = loc.cand
        /\ loc.cand < next
    BY <2>1 DEF Tidy, CandidateKept, Numbered
  <2>3. loc.cand \in Inst
    BY <2>1 DEF Inv, CandidateLaunched
  <2>4. ActivePid(disk) = {loc.cand}
    BY <2>2, <2>3 DEF ActivePid
  <2>5. Names(disk, route \cap alive)
    BY <2>1 DEF Tidy, Agreement, Unsettled
  <2>6. Names(disk', route' \cap alive')
    BY <2>1, <2>4, <2>5 DEF Names
  <2> QED BY <1>g, <2>1, <2>2, <2>6, ReturnTidy
<1> QED BY <1>1, <1>2, <1>3, <1>4

\* An operation that has loaded its journal, and launched nothing.
LEMMA LoadedTidy ==
  ASSUME Inv, Tidy, next' = next, alive' \in SUBSET alive, removal' = removal,
         \A i \in route' : i < next, disk' \in Journal, mem' \in Journal,
         GoodJournal(disk', next, alive), GoodJournal(mem', next, alive),
         Names(disk', route' \cap alive'), Names(mem', route' \cap alive'),
         Covers(mem', disk', alive'),
         Plain(loc'.pre), loc'.active = NoSlot, loc'.cand < next, loc'.legacy = {},
         loc'.op # "classicize",
         pc' \in {"drain", "storeDrained", "load", "recover", "unroute", "launchActive",
                 "reconciled"},
         pc' = "drain" =>
           mem' = disk' /\ (loc'.op \in {"rollback", "stop", "start"} => mem'.mode = "blue-green"),
         pc' \notin Modeless => mem'.mode = "blue-green"
  PROVE  Tidy'
<1> USE TypeFacts
<1>1. Journals'
  <2>1. GoodJournal(disk', next', alive') /\ GoodJournal(mem', next', alive')
    BY GoodStays
  <2> QED BY <2>1 DEF Journals, Held
<1>2. Modes' /\ Numbered'
  BY DEF Tidy, Modes, Numbered, Modeless
<1>3. CandidateKept' /\ Covered'
  BY DEF CandidateKept, Covered, OldActive
<1>4. Agreement'
  BY DEF Agreement, Unsettled, Ahead, Unserved
<1> QED BY <1>1, <1>2, <1>3, <1>4 DEF Tidy

\* AcquireDeployLock.
LEMMA BeginTidy == ASSUME OneFault, Inv, Tidy, NEW op \in Ops, Begin(op) PROVE Tidy'
<1> USE TypeFacts
<1>1. /\ pc = "idle" /\ mem' = disk /\ disk' = disk /\ loc' = [NoLocals EXCEPT !.op = op]
      /\ UNCHANGED <<world, removal>>
      /\ op # "classicize"
  BY DEF Begin, OneFault
<1>2. /\ loc'.pre = NoJournal /\ loc'.active = NoSlot /\ loc'.cand = 0 /\ loc'.legacy = {}
      /\ loc'.op = op
  BY <1>1 DEF NoLocals
<1>3. Plain(NoJournal) /\ 0 < next
  BY EmptyGood DEF GoodJournal
<1>4. pc' \in {"load", "drain"}
  BY <1>1 DEF Begin
<1>5. GoodJournal(disk, next, alive) /\ Names(disk, route \cap alive) /\ \A i \in route : i < next
  BY <1>1 DEF Tidy, Journals, Agreement, Unsettled, Numbered
<1>6. op \in {"rollback", "stop", "start"} => disk.mode = "blue-green"
  <2>1. disk.mode \in {"absent", "rolling", "blue-green"} /\ disk.mode # "rolling"
    BY <1>5 DEF Journal, GoodJournal, Plain
  <2> QED BY <2>1 DEF Begin
<1> QED BY <1>1, <1>2, <1>3, <1>4, <1>5, <1>6, LoadedTidy DEF world, Covers, Modeless

\* The operation proper needs the journal that reconciliation has checked.
LEMMA DrainTidy ==
  ASSUME OneFault, Inv, Tidy, pc' # "idle", Drain \/ StoreDrained PROVE Tidy'
<1> USE TypeFacts
<1>1. /\ GoodJournal(disk, next, alive) /\ GoodJournal(mem, next, alive) /\ Plain(loc.pre)
      /\ loc.cand < next /\ loc.legacy = {} /\ loc.op # "classicize"
      /\ \A i \in route : i < next
      /\ pc \in {"drain", "storeDrained"}
  BY DEF Tidy, Journals, Numbered, Modes, Drain, StoreDrained, Step
<1>2. /\ Names(disk, route \cap alive) /\ Names(mem, route \cap alive)
      /\ loc.active = NoSlot /\ Covers(mem, disk, alive)
      /\ pc = "drain" => mem = disk /\ (loc.op \in {"rollback", "stop", "start"}
                                        => mem.mode = "blue-green")
      /\ pc = "storeDrained" => mem.mode = "blue-green"
  BY <1>1 DEF Tidy, Agreement, Unsettled, Ahead, Inv, OldSlotActive, Covered, Modes
<1>3. /\ AfterDrain \in {"load", "unroute", "launchActive", "reconciled"}
      /\ AfterDrain \notin Modeless => loc.op \in {"rollback", "stop", "start"}
  BY DEF AfterDrain, Modeless
<1>4. CASE /\ Step("drain", AfterDrain) /\ mem' = disk
           /\ UNCHANGED <<world, disk, current, loc, budget>>
  <2>1. Covers(disk, disk, alive)
    BY DEF Covers
  <2>2. pc = "drain" /\ pc' = AfterDrain /\ removal' = removal
    BY <1>4 DEF Step
  <2> QED BY <1>1, <1>2, <1>3, <1>4, <2>1, <2>2, LoadedTidy DEF world
<1>5. CASE Drain /\ ~(/\ Step("drain", AfterDrain) /\ mem' = disk
                      /\ UNCHANGED <<world, disk, current, loc, budget>>)
  <2> DEFINE retired == mem.retiring \ Serving(mem)
  <2>1. /\ pc = "drain" /\ pc' = "storeDrained" /\ ~NothingToDrain(mem)
        /\ alive' = alive \ retired /\ mem' = [mem EXCEPT !.retiring = {}]
        /\ UNCHANGED <<next, route, disk, loc, removal>>
    BY <1>5 DEF Drain, Step, Return, StopOK
  <2>2. /\ mem' \in Journal /\ mem'.mode = mem.mode /\ mem'.retiring = {}
        /\ mem'.replicas = mem.replicas
        /\ SlotPids(mem') = SlotPids(mem) /\ ActivePid(mem') = ActivePid(mem)
        /\ mem.mode # "absent" => GoodJournal(mem', next, alive)
    BY <1>1, <2>1, RetiringFacts
  <2>3. mem.mode = "blue-green"
    <3>1. mem.retiring # {} /\ mem.mode \in {"absent", "rolling", "blue-green"}
      BY <2>1 DEF NothingToDrain, Journal
    <3>2. NoJournal.retiring = {}
      BY DEF NoJournal
    <3> QED BY <1>1, <3>1, <3>2 DEF GoodJournal, Plain
  <2>4. Serving(mem) = ActivePid(mem) /\ ActivePid(mem) \subseteq SlotPids(mem)
    BY <2>3 DEF Serving, ActivePid, SlotPids
  <2>5. Covers(mem', disk', alive')
    <3>1. disk = mem
      BY <1>2, <2>1
    <3>2. ASSUME NEW x \in Recorded(mem), x \in alive' PROVE x \in Recorded(mem')
      BY <2>1, <2>2, <2>4, <3>2 DEF Recorded
    <3> QED BY <2>1, <3>1, <3>2 DEF Covers
  <2>6. Names(disk', route' \cap alive') /\ Names(mem', route' \cap alive')
    BY <1>2, <2>1, <2>2 DEF Names
  <2> QED BY <1>1, <1>2, <2>1, <2>2, <2>3, <2>5, <2>6, LoadedTidy DEF Modeless
<1>6. CASE StoreDrained
  <2>1. /\ pc = "storeDrained" /\ pc' = AfterDrain /\ disk' = mem
        /\ UNCHANGED <<world, mem, loc, removal>>
    BY <1>6 DEF StoreDrained, Step, Return, StoreOK
  <2>2. Covers(mem, mem, alive)
    BY DEF Covers
  <2> QED BY <1>1, <1>2, <1>3, <2>1, <2>2, LoadedTidy DEF world
<1> QED BY <1>4, <1>5, <1>6

\* LoadOrInit.
LEMMA LoadStateTidy == ASSUME Inv, Tidy, LoadState PROVE Tidy'
<1> USE TypeFacts
<1>1. /\ pc = "load" /\ mem' = LoadOrInit /\ loc' = [loc EXCEPT !.pre = LoadOrInit]
      /\ pc' = IF LoadOrInit.mode = "blue-green" THEN "recover" ELSE "migrate"
      /\ UNCHANGED <<world, disk, removal>>
  BY DEF LoadState, Step
<1>2. /\ GoodJournal(disk, next, alive) /\ loc.cand < next /\ loc.legacy = {}
      /\ loc.op # "classicize" /\ \A i \in route : i < next
  BY DEF Tidy, Journals, Numbered, Modes
<1>3. Names(disk, route \cap alive) /\ loc.active = NoSlot
  BY <1>1 DEF Tidy, Agreement, Unsettled, Inv, OldSlotActive
<1>4. /\ LoadOrInit \in Journal /\ LoadOrInit.mode = "blue-green"
      /\ GoodJournal(LoadOrInit, next, alive)
      /\ Recorded(LoadOrInit) = Recorded(disk) /\ ActivePid(LoadOrInit) = ActivePid(disk)
  <2>1. CASE disk.mode = "absent"
    <3> DEFINE k == [NoJournal EXCEPT !.mode = "blue-green"]
    <3>1. disk = NoJournal /\ LoadOrInit = k
      BY <1>2, <2>1 DEF GoodJournal, Plain, LoadOrInit
    <3>2. /\ k \in Journal /\ k.mode = "blue-green" /\ k.active = NoJournal.active
          /\ k.slots = NoJournal.slots /\ k.retiring = NoJournal.retiring
          /\ k.replicas = NoJournal.replicas
      BY EmptyJournal DEF Journal
    <3>3. Recorded(k) = Recorded(NoJournal) /\ ActivePid(k) = ActivePid(NoJournal)
      BY <3>2 DEF Recorded, SlotPids, ActivePid
    <3>4. GoodJournal(k, next, alive)
      BY <1>2, <3>1, <3>2 DEF GoodJournal, Plain, Records, Held
    <3> QED BY <3>1, <3>2, <3>3, <3>4
  <2>2. CASE disk.mode # "absent"
    <3>1. LoadOrInit = disk
      BY <2>2 DEF LoadOrInit
    <3>2. disk.mode \in {"absent", "rolling", "blue-green"} /\ disk.mode # "rolling"
      BY <1>2 DEF Journal, GoodJournal, Plain
    <3> QED BY <1>2, <2>2, <3>1, <3>2
  <2> QED BY <2>1, <2>2
<1>5. /\ loc'.pre = LoadOrInit /\ loc'.active = loc.active /\ loc'.cand = loc.cand
      /\ loc'.legacy = loc.legacy /\ loc'.op = loc.op
  BY <1>1 DEF Locals
<1>6. Names(mem', route' \cap alive') /\ Covers(mem', disk', alive')
  BY <1>1, <1>3, <1>4 DEF Names, Covers, world
<1>7. Plain(loc'.pre)
  BY <1>4, <1>5 DEF GoodJournal
<1> HIDE DEF LoadOrInit
<1> QED BY <1>1, <1>2, <1>3, <1>4, <1>5, <1>6, <1>7, LoadedTidy DEF world

\* The end of `start`, which reconciles once more.
LEMMA RestoreRouteTidy == ASSUME Inv, Tidy, RestoreProxyRoute, pc' # "idle" PROVE Tidy'
<1> USE TypeFacts
<1>1. /\ pc = "restoreRoute" /\ pc' = "drain" /\ mem' = disk /\ route' = {loc.cand}
      /\ loc' = [loc EXCEPT !.op = "reconcile"]
      /\ UNCHANGED <<alive, next, disk, removal>>
  BY DEF RestoreProxyRoute, Step, Return, CallOK
<1>2. /\ disk = mem /\ mem.active = loc.slot /\ mem.slots[loc.slot].pid = loc.cand
      /\ loc.cand < next /\ loc.active = NoSlot /\ loc.cand \in Inst
      /\ GoodJournal(disk, next, alive) /\ Plain(loc.pre) /\ loc.legacy = {}
  BY <1>1 DEF Tidy, Journals, CandidateKept, Numbered, Modes, Inv, OldSlotActive,
     CandidateLaunched
<1>3. ActivePid(disk) = {loc.cand}
  BY <1>2 DEF ActivePid
<1>4. Names(disk', route' \cap alive') /\ Covers(mem', disk', alive')
  BY <1>1, <1>3 DEF Names, Covers
<1>5. /\ loc'.pre = loc.pre /\ loc'.active = loc.active /\ loc'.cand = loc.cand
      /\ loc'.legacy = loc.legacy /\ loc'.op = "reconcile"
  BY <1>1 DEF Locals
<1> QED BY <1>1, <1>2, <1>4, <1>5, LoadedTidy DEF Modeless

-----------------------------------------------------------------------------
(* A deploy up to its cutover.                                             *)

\* What recovery makes of a record.
LEMMA ReclaimedKeeps ==
  ASSUME Inv, NEW s \in Slots
  PROVE  LET rec == Reclaimed(mem, s) IN
         /\ rec \in SlotRec /\ rec.port = mem.slots[s].port /\ rec.pid \in {0, mem.slots[s].pid}
         /\ rec.pid # mem.slots[s].pid \/ s # mem.active =>
              rec.pid \notin alive \ {mem.slots[t].pid : t \in StaleSlots(mem)}
         /\ s = mem.active => rec = mem.slots[s]
         /\ rec.pid # mem.slots[s].pid => s \in StaleSlots(mem)
<1> USE TypeFacts
<1> DEFINE old == mem.slots[s]
<1>1. old \in SlotRec
  OBVIOUS
<1>2. Stopped(old) \in SlotRec /\ Stopped(old).port = old.port
  BY RecordFacts
<1>3. Stopped(old).pid = 0
  BY DEF Stopped, SlotRec
<1>4. Reclaimed(mem, s) \in {old, Stopped(old)}
  BY DEF Reclaimed
<1>5. s = mem.active => s \notin StaleSlots(mem)
  BY DEF StaleSlots
<1>6. s \notin StaleSlots(mem) => Reclaimed(mem, s) = old
  BY DEF Reclaimed
<1>7. s # mem.active /\ s \notin StaleSlots(mem) => old.pid = 0
  BY DEF StaleSlots
<1>8. 0 \notin alive
  OBVIOUS
<1>9. s \in StaleSlots(mem) => old.pid \in {mem.slots[t].pid : t \in StaleSlots(mem)}
  OBVIOUS
<1> HIDE DEF old
<1> QED BY <1>1, <1>2, <1>3, <1>4, <1>5, <1>6, <1>7, <1>8, <1>9 DEF old

\* recoverStaleSlots frees every slot but the active one.
LEMMA RecoverTidy == ASSUME OneFault, Inv, Tidy, RecoverStaleSlots PROVE Tidy'
<1> USE TypeFacts
<1> DEFINE stale == {mem.slots[t].pid : t \in StaleSlots(mem)}
           reclaimed == [s \in Slots |-> Reclaimed(mem, s)]
           k == [mem EXCEPT !.slots = reclaimed]
<1>0. alive' = alive \ stale
  <2>1. alive' = alive \ (stale \cap alive)
    BY Confirmed DEF RecoverStaleSlots
  <2> QED BY <2>1
<1>1. /\ pc = "recover" /\ pc' = "storeRecovered" /\ mem' = k
      /\ loc' = [loc EXCEPT !.slot = InactiveSlot(mem), !.active = mem.active]
      /\ UNCHANGED <<next, route, disk, removal>>
  BY DEF RecoverStaleSlots, Step, StopFails, Fault, OneFault
<1>2. \A s \in Slots :
        /\ reclaimed[s] \in SlotRec /\ reclaimed[s].port = mem.slots[s].port
        /\ reclaimed[s].pid \in {0, mem.slots[s].pid}
        /\ s # mem.active => reclaimed[s].pid \notin alive \ stale
        /\ s = mem.active => reclaimed[s] = mem.slots[s]
        /\ reclaimed[s].pid # mem.slots[s].pid => mem.slots[s].pid \in stale
  BY ReclaimedKeeps
<1> HIDE DEF stale
<1>3. reclaimed \in [Slots -> SlotRec]
  BY <1>2
<1> HIDE DEF reclaimed
<1>4. /\ k \in Journal /\ k.active = mem.active /\ k.slots = reclaimed /\ k.mode = mem.mode
      /\ k.retiring = mem.retiring /\ k.replicas = mem.replicas
  BY <1>3 DEF Journal
<1> HIDE DEF k
<1>5. InactiveSlot(mem) \in Slots /\ InactiveSlot(mem) # mem.active
  BY SlotFacts DEF InactiveSlot
<1>6. /\ loc'.slot = InactiveSlot(mem) /\ loc'.active = mem.active /\ loc'.cand = loc.cand
      /\ loc'.pre = loc.pre /\ loc'.legacy = loc.legacy /\ loc'.op = loc.op
  BY <1>1, <1>5 DEF Locals
<1>7. /\ GoodJournal(disk, next, alive) /\ GoodJournal(mem, next, alive) /\ Plain(loc.pre)
      /\ mem.mode = "blue-green"
  BY <1>1 DEF Tidy, Journals, Modes
<1>8. GoodJournal(k, next, alive)
  <2>1. Plain(k)
    BY <1>4, <1>7 DEF GoodJournal, Plain
  <2>2. Records(k, next)
    BY <1>2, <1>4, <1>7 DEF GoodJournal, Records
  <2>3. Held(k, k.active, alive)
    BY <1>2, <1>4, <1>7 DEF GoodJournal, Held
  <2> QED BY <2>1, <2>2, <2>3 DEF GoodJournal
<1>9. ActivePid(k) = ActivePid(mem)
  BY <1>2, <1>4 DEF ActivePid
<1>10. Journals'
  <2>1. GoodJournal(disk, next, alive') /\ GoodJournal(k, next, alive')
    BY <1>0, <1>7, <1>8, <1>4, GoodStays
  <2>2. Held(k, k.active, alive')
    BY <2>1 DEF GoodJournal
  <2> QED BY <1>1, <1>4, <1>6, <1>7, <2>1, <2>2 DEF Journals
<1>11. Modes' /\ Numbered'
  BY <1>0, <1>1, <1>4, <1>6, <1>7 DEF Tidy, Modes, Numbered
<1>12. CandidateKept'
  BY <1>0, <1>1, <1>2, <1>4, <1>5, <1>6 DEF CandidateKept, OldActive
<1>13. Covered'
  <2>1. Covers(mem, disk, alive)
    BY <1>1 DEF Tidy, Covered
  <2>2. ASSUME NEW x \in Recorded(mem), x \in alive' PROVE x \in Recorded(k)
    <3>1. CASE x \in mem.replicas \cup mem.retiring
      BY <1>4, <3>1 DEF Recorded
    <3>2. CASE x \in SlotPids(mem)
      <4>1. PICK s \in Slots : x = mem.slots[s].pid /\ x # 0
        BY <3>2 DEF SlotPids
      <4>2. reclaimed[s].pid = x
        BY <1>0, <1>2, <2>2, <4>1
      <4> QED BY <1>4, <4>1, <4>2 DEF Recorded, SlotPids
    <3> QED BY <2>2, <3>1, <3>2 DEF Recorded
  <2> QED BY <1>0, <1>1, <2>1, <2>2 DEF Covered, Covers
<1>14. Agreement'
  <2>1. Names(disk, route \cap alive) /\ Names(mem, route \cap alive)
    BY <1>1 DEF Tidy, Agreement, Unsettled, Ahead
  <2> QED BY <1>0, <1>1, <1>9, <2>1 DEF Agreement, Names, Unsettled, Ahead, Unserved
<1> QED BY <1>10, <1>11, <1>12, <1>13, <1>14 DEF Tidy

\* The candidate takes the free slot and a number of its own.
LEMMA LaunchCandidateTidy == ASSUME Inv, Tidy, LaunchCandidate PROVE Tidy'
<1>t. /\ mem \in Journal /\ disk \in Journal /\ loc.slot \in Slots /\ next \in Nat
      /\ loc.active \in Slots \cup {NoSlot} /\ loc \in Locals /\ NoSlot \notin Slots
      /\ \A s \in Slots : mem.slots[s].port \in Nat
      /\ alive \subseteq Nat /\ route \subseteq Nat /\ 0 \notin Inst
  BY TypeFacts
<1>1. next \in Inst
  BY DEF LaunchCandidate, Step, Inv, TypeOK, LaunchFits, Inst
<1>2. PICK v \in Version : /\ mem' = SetSlot(mem, loc.slot, Launched(v))
                          /\ loc' = [loc EXCEPT !.cand = next, !.tver = v]
  BY <1>1, PidFacts DEF LaunchCandidate
<1> DEFINE rec == Launched(v)
<1>3. rec \in SlotRec /\ rec.pid = next /\ rec.port = next
  BY <1>1, <1>2, PidFacts DEF Launched, SlotRec
<1> HIDE DEF rec
<1>4. /\ pc = "build" /\ pc' = "storeStarting" /\ alive' = alive \cup {next} /\ next' = next + 1
      /\ UNCHANGED <<route, disk, removal>>
      /\ mem' = SetSlot(mem, loc.slot, rec)
  BY <1>2 DEF LaunchCandidate, Step, rec
<1>5. /\ loc'.slot = loc.slot /\ loc'.active = loc.active /\ loc'.cand = next
      /\ loc'.pre = loc.pre /\ loc'.legacy = loc.legacy /\ loc'.op = loc.op
  BY <1>t, <1>2 DEF Locals
<1>6. /\ GoodJournal(disk, next, alive) /\ GoodJournal(mem, next, alive) /\ Plain(loc.pre)
      /\ Held(mem, loc.active, alive)
      /\ mem.mode = "blue-green" /\ \A i \in alive \cup route : i < next
      /\ mem.slots[loc.slot].pid \notin alive /\ Covers(mem, disk, alive)
      /\ Names(disk, route \cap alive) /\ Names(mem, route \cap alive)
  BY <1>4 DEF Tidy, Journals, Modes, Numbered, CandidateKept, Covered, Agreement, Unsettled, Ahead
<1>7. mem.active = loc.active /\ mem.active # loc.slot
  BY <1>t, <1>4 DEF Inv, OldSlotActive, OldSlotProven
<1>8. /\ mem' \in Journal /\ mem'.active = mem.active /\ mem'.slots[loc.slot] = rec
      /\ \A t \in Slots \ {loc.slot} : mem'.slots[t] = mem.slots[t]
  <2>1. /\ SetSlot(mem, loc.slot, rec) \in Journal
        /\ SetSlot(mem, loc.slot, rec).active = mem.active
        /\ SetSlot(mem, loc.slot, rec).slots[loc.slot] = rec
        /\ \A t \in Slots \ {loc.slot} : SetSlot(mem, loc.slot, rec).slots[t] = mem.slots[t]
    BY <1>3, <1>t, SetSlotFacts
  <2> QED BY <1>4, <2>1
<1>9. /\ mem'.mode = mem.mode
      /\ \A x \in Recorded(mem) : x \in Recorded(mem') \/ x = mem.slots[loc.slot].pid
      /\ ActivePid(mem') = ActivePid(mem)
      /\ next \in Recorded(mem')
  <2>1. /\ SetSlot(mem, loc.slot, rec).mode = mem.mode
        /\ \A x \in Recorded(mem) :
             x \in Recorded(SetSlot(mem, loc.slot, rec)) \/ x = mem.slots[loc.slot].pid
        /\ rec.pid # 0 => rec.pid \in Recorded(SetSlot(mem, loc.slot, rec))
        /\ loc.slot # mem.active => ActivePid(SetSlot(mem, loc.slot, rec)) = ActivePid(mem)
    BY <1>3, <1>t, SetSlotRecorded
  <2>2. next # 0
    BY <1>1, <1>t
  <2> QED BY <1>3, <1>4, <1>7, <2>1, <2>2
<1>10. next + 1 \in Nat /\ GoodJournal(mem, next + 1, alive \cup {next})
       /\ GoodJournal(disk, next + 1, alive \cup {next})
  <2>1. next + 1 \in Nat
    BY <1>t
  <2>2. GoodJournal(mem, next + 1, alive \cup {next})
    BY <1>6, <1>t, GoodLaunch
  <2>3. GoodJournal(disk, next + 1, alive \cup {next})
    BY <1>6, <1>t, GoodLaunch
  <2> QED BY <2>1, <2>2, <2>3
<1>11. GoodJournal(mem', next + 1, alive \cup {next})
  <2>1. \A t \in Slots \ {loc.slot} : rec.port # mem.slots[t].port
    BY <1>3, <1>6, <1>t DEF GoodJournal, Records
  <2> QED BY <1>3, <1>4, <1>6, <1>7, <1>10, <1>t, <2>1, SetSlotGood
<1>12. Journals'
  <2>1. Held(mem', mem'.active, alive \cup {next})
    BY <1>11 DEF GoodJournal
  <2> QED BY <1>4, <1>5, <1>6, <1>7, <1>8, <1>10, <1>11, <2>1 DEF Journals
<1>13. Modes'
  BY <1>4, <1>5, <1>6, <1>9 DEF Tidy, Modes
<1>14. Numbered'
  BY <1>4, <1>5, <1>6, <1>t DEF Numbered
<1>15. CandidateKept'
  BY <1>3, <1>4, <1>5, <1>7, <1>8 DEF CandidateKept, OldActive
<1>16. Covered'
  BY <1>4, <1>6, <1>9 DEF Covered, Covers
<1>17. Agreement'
  <2>1. route \cap (alive \cup {next}) = route \cap alive
    BY <1>6, <1>t
  <2> QED BY <1>4, <1>6, <1>9, <2>1 DEF Agreement, Names, Unsettled, Ahead, Unserved
<1> QED BY <1>12, <1>13, <1>14, <1>15, <1>16, <1>17 DEF Tidy

\* Writing a record of the journal in memory.
LEMMA SlotStep ==
  ASSUME Inv, NEW s \in Slots, NEW rec \in SlotRec, mem' = SetSlot(mem, s, rec)
  PROVE  /\ mem' \in Journal /\ mem'.active = mem.active /\ mem'.mode = mem.mode
         /\ mem'.retiring = mem.retiring /\ mem'.replicas = mem.replicas
         /\ mem'.slots[s] = rec
         /\ \A t \in Slots \ {s} : mem'.slots[t] = mem.slots[t]
         /\ \A x \in Recorded(mem) : x \in Recorded(mem') \/ x = mem.slots[s].pid
         /\ rec.pid # 0 => rec.pid \in Recorded(mem')
         /\ s # mem.active => ActivePid(mem') = ActivePid(mem)
         /\ s = mem.active => ActivePid(mem') = {rec.pid} \ {0}
<1>1. mem \in Journal
  BY TypeFacts
<1>2. /\ SetSlot(mem, s, rec) \in Journal
      /\ SetSlot(mem, s, rec).active = mem.active
      /\ SetSlot(mem, s, rec).slots[s] = rec
      /\ \A t \in Slots \ {s} : SetSlot(mem, s, rec).slots[t] = mem.slots[t]
  BY <1>1, SetSlotFacts
<1>3. /\ SetSlot(mem, s, rec).mode = mem.mode /\ SetSlot(mem, s, rec).retiring = mem.retiring
      /\ SetSlot(mem, s, rec).replicas = mem.replicas
      /\ \A x \in Recorded(mem) : x \in Recorded(SetSlot(mem, s, rec)) \/ x = mem.slots[s].pid
      /\ rec.pid # 0 => rec.pid \in Recorded(SetSlot(mem, s, rec))
      /\ s # mem.active => ActivePid(SetSlot(mem, s, rec)) = ActivePid(mem)
      /\ s = mem.active => ActivePid(SetSlot(mem, s, rec)) = {rec.pid} \ {0}
  BY <1>1, SetSlotRecorded
<1> QED BY <1>2, <1>3

\* Clearing the PID of an instance that has stopped, or changing a status.
LEMMA ClearedSlot ==
  ASSUME Inv, Tidy, NEW s \in Slots, NEW rec \in SlotRec, mem' = SetSlot(mem, s, rec),
         rec.port = mem.slots[s].port, rec.pid \in {0, mem.slots[s].pid},
         rec.pid # mem.slots[s].pid => mem.slots[s].pid \notin alive',
         mem.mode = "blue-green", mem.active # s, pc # "idle", alive' \in SUBSET alive,
         KeepsLocals, loc'.legacy = loc.legacy, UNCHANGED <<next, route, disk, removal>>,
         pc' \notin {"drain", "migrate", "idle"}
  PROVE  /\ Journals' /\ Modes' /\ Numbered' /\ Covered'
         /\ mem'.active = mem.active /\ ActivePid(mem') = ActivePid(mem)
         /\ mem'.slots[s] = rec /\ \A t \in Slots \ {s} : mem'.slots[t] = mem.slots[t]
<1>1. /\ mem' \in Journal /\ mem'.active = mem.active /\ mem'.mode = mem.mode
      /\ mem'.slots[s] = rec
      /\ \A t \in Slots \ {s} : mem'.slots[t] = mem.slots[t]
      /\ \A x \in Recorded(mem) : x \in Recorded(mem') \/ x = mem.slots[s].pid
      /\ rec.pid # 0 => rec.pid \in Recorded(mem')
      /\ ActivePid(mem') = ActivePid(mem)
  BY SlotStep
<1>2. /\ mem \in Journal /\ disk \in Journal /\ next \in Nat /\ 0 \notin alive
      /\ mem.active \in Slots \cup {NoSlot} /\ loc.active \in Slots \cup {NoSlot}
  BY TypeFacts
<1>3. /\ GoodJournal(disk, next, alive) /\ GoodJournal(mem, next, alive) /\ Plain(loc.pre)
      /\ Held(mem, loc.active, alive) /\ Covers(mem, disk, alive)
  BY DEF Tidy, Journals, Covered
<1>4. GoodJournal(mem', next, alive')
  <2>1. \A t \in Slots \ {s} : rec.port = 0 \/ rec.port # mem.slots[t].port
    BY <1>3 DEF GoodJournal, Records
  <2>2. rec.pid \in {0, rec.port} /\ rec.port < next
    BY <1>3 DEF GoodJournal, Records
  <2>3. GoodJournal(SetSlot(mem, s, rec), next, alive)
    BY <1>2, <1>3, <2>1, <2>2, SetSlotGood
  <2> QED BY <1>1, <1>2, <2>3, GoodStays
<1>5. Journals'
  <2>1. GoodJournal(disk, next, alive')
    BY <1>2, <1>3, GoodStays
  <2>2. Held(mem', loc.active, alive')
    <3>1. CASE loc.active # s
      BY <1>1, <1>2, <1>3, <3>1 DEF Held
    <3>2. CASE loc.active = s
      <4> SUFFICES ASSUME rec.port \in alive' PROVE rec.pid = rec.port
        BY <1>1, <3>2 DEF Held
      <4>1. mem.slots[s].pid = rec.port
        BY <1>2, <1>3, <3>2, SlotFacts DEF Held
      <4> QED BY <4>1
    <3> QED BY <3>1, <3>2
  <2> QED BY <1>3, <1>4, <2>1, <2>2 DEF Journals, KeepsLocals
<1>6. Modes' /\ Numbered'
  BY <1>1 DEF Tidy, Modes, Numbered, KeepsLocals
<1>7. Covered'
  <2>1. ASSUME NEW x \in Recorded(mem), x \in alive' PROVE x \in Recorded(mem')
    BY <1>1, <1>2, <2>1
  <2> QED BY <1>3, <2>1 DEF Covered, Covers
<1> QED BY <1>1, <1>5, <1>6, <1>7

\* The health check, which the candidate passes.
LEMMA HealthPassesTidy == ASSUME Inv, Following, Tidy, HealthPasses PROVE Tidy'
<1>1. /\ pc = "health" /\ pc' = "cutover" /\ loc' = loc /\ UNCHANGED <<alive, next, route, disk, removal>>
      /\ mem' = SetSlot(mem, loc.slot, [mem.slots[loc.slot] EXCEPT !.status = "running"])
  BY DEF HealthPasses, Step
<1>2. /\ loc.slot \in Slots /\ mem.slots[loc.slot] \in SlotRec
      /\ loc.active \in Slots \cup {NoSlot} /\ mem.active \in Slots \cup {NoSlot}
  BY TypeFacts
<1>3. PICK rec \in SlotRec : /\ rec.port = mem.slots[loc.slot].port
                            /\ rec.pid = mem.slots[loc.slot].pid
                            /\ mem' = SetSlot(mem, loc.slot, rec)
  BY <1>1, <1>2, RecordUpdates DEF SlotRec
<1>4. /\ mem.active = loc.active /\ mem.active # loc.slot /\ mem.mode = "blue-green"
      /\ mem.slots[loc.slot].port = loc.cand
  BY <1>1, <1>2, SlotFacts DEF Tidy, CandidateKept, OldActive, Inv, OldSlotProven, Modes
<1>5. KeepsLocals /\ loc'.legacy = loc.legacy
  BY <1>1, SameLocals
<1>6. /\ Journals' /\ Modes' /\ Numbered' /\ Covered'
      /\ mem'.active = mem.active /\ ActivePid(mem') = ActivePid(mem)
      /\ mem'.slots[loc.slot] = rec
  BY <1>1, <1>2, <1>3, <1>4, <1>5, ClearedSlot
<1>7. CandidateKept'
  BY <1>1, <1>3, <1>4, <1>6 DEF CandidateKept, OldActive
<1>8. Agreement'
  BY <1>1, <1>6 DEF Tidy, Agreement, Names, Unsettled, Ahead, Unserved
<1> QED BY <1>6, <1>7, <1>8 DEF Tidy

\* The candidate of an aborted deploy is stopped; if it served, nobody does now.
LEMMA StopCandidateTidy == ASSUME OneFault, Inv, Following, Tidy, StopCandidate PROVE Tidy'
<1>1. /\ pc = "abort" /\ pc' = "storeAborted" /\ loc' = loc /\ alive' = alive \ {loc.cand}
      /\ UNCHANGED <<next, route, disk, removal>>
      /\ mem' = SetSlot(mem, loc.slot, Failed(mem.slots[loc.slot]))
  BY Confirmed DEF StopCandidate, Step
<1>2. /\ loc.slot \in Slots /\ mem.slots[loc.slot] \in SlotRec
      /\ loc.active \in Slots \cup {NoSlot} /\ mem.active \in Slots \cup {NoSlot}
  BY TypeFacts
<1>3. PICK rec \in SlotRec : /\ rec.port = mem.slots[loc.slot].port
                            /\ rec.pid \in {0, mem.slots[loc.slot].pid}
                            /\ mem' = SetSlot(mem, loc.slot, rec)
  <2>1. Failed(mem.slots[loc.slot]).pid \in {0, mem.slots[loc.slot].pid}
    BY <1>2 DEF Failed, SlotRec
  <2> QED BY <1>1, <1>2, <2>1, RecordFacts
<1>4. /\ mem.active = loc.active /\ mem.active # loc.slot /\ mem.mode = "blue-green"
      /\ mem.slots[loc.slot].pid = loc.cand
  BY <1>1, <1>2, SlotFacts DEF Tidy, CandidateKept, OldActive, Inv, OldSlotProven, Modes
<1>5. KeepsLocals /\ loc'.legacy = loc.legacy
  BY <1>1, SameLocals
<1>6. /\ Journals' /\ Modes' /\ Numbered' /\ Covered'
      /\ mem'.active = mem.active /\ ActivePid(mem') = ActivePid(mem)
  BY <1>1, <1>2, <1>3, <1>4, <1>5, ClearedSlot
<1>7. CandidateKept'
  BY <1>1 DEF CandidateKept, OldActive
<1>8. Agreement'
  <2>1. \/ Names(disk, route \cap alive) /\ Names(mem, route \cap alive)
        \/ route = {loc.cand}
    BY <1>1 DEF Tidy, Agreement
  <2> QED BY <1>1, <1>6, <2>1 DEF Agreement, Names, Unsettled, Ahead, Unserved
<1> QED BY <1>6, <1>7, <1>8 DEF Tidy

\* The old slot is stopped when the candidate has taken over.
LEMMA StopOldTidy == ASSUME OneFault, Inv, Following, Tidy, StopOld PROVE Tidy'
<1>1. /\ pc = "stopOld" /\ pc' = "storeFinal" /\ loc' = loc /\ alive' = alive \ OldPid
      /\ UNCHANGED <<next, route, disk, removal>> /\ mem' = Drained
  BY DEF StopOld, Step, StopOK, StopFails, Fault, OneFault
<1>2. /\ \A s \in Slots : mem.slots[s] \in SlotRec
      /\ loc.active \in Slots \cup {NoSlot} /\ loc.slot \in Slots
  BY TypeFacts
<1>3. /\ mem.active = loc.slot /\ loc.active # loc.slot /\ mem.mode = "blue-green"
      /\ Names(disk, route \cap alive)
  BY <1>1, <1>2, SlotFacts DEF Following, CommittedSteps, PromotedSteps, Inv, OldSlotProven,
     Tidy, Modes, Agreement, Unsettled
<1>4. KeepsLocals /\ loc'.legacy = loc.legacy
  BY <1>1, SameLocals
<1>5. /\ Journals' /\ Modes' /\ Numbered' /\ Covered'
  <2>1. CASE OldPid = {}
    <3>1. mem' = mem /\ alive' = alive
      BY <1>1, <2>1 DEF Drained
    <3> QED BY <1>1, <3>1 DEF Tidy, Journals, Modes, Numbered, Covered
  <2>2. CASE OldPid # {}
    <3>1. loc.active \in Slots
      BY <1>2, <2>2 DEF OldPid
    <3>2. /\ Stopped(mem.slots[loc.active]) \in SlotRec
          /\ Stopped(mem.slots[loc.active]).port = mem.slots[loc.active].port
      BY <1>2, <3>1, RecordFacts
    <3>3. Stopped(mem.slots[loc.active]).pid = 0
      BY <1>2, <3>1 DEF Stopped, SlotRec
    <3>4. mem' = SetSlot(mem, loc.active, Stopped(mem.slots[loc.active]))
      BY <1>1, <2>2 DEF Drained
    <3>5. mem.slots[loc.active].pid \notin alive'
      BY <1>1, <2>2 DEF OldPid
    <3> QED BY <1>1, <1>3, <1>4, <3>1, <3>2, <3>3, <3>4, <3>5, ClearedSlot
  <2> QED BY <2>1, <2>2
<1>6. CandidateKept'
  BY <1>1 DEF CandidateKept, OldActive
<1>7. Agreement'
  BY <1>1, <1>3 DEF Agreement, Names, Unsettled, Ahead, Unserved
<1> QED BY <1>5, <1>6, <1>7 DEF Tidy

\* The last Store fails.
LEMMA StoreFinalTidy == ASSUME Inv, Following, Tidy, StoreFinal, pc' # "idle" PROVE Tidy'
<1>1. /\ pc = "storeFinal" /\ pc' = "fail" /\ loc' = loc /\ mem' = mem
      /\ UNCHANGED <<world, removal>>
  BY DEF StoreFinal, Step, Return
<1>2. disk' \in {disk, mem}
  BY StoreWrites DEF StoreFinal
<1>3. Names(disk, route \cap alive) /\ Names(mem, route \cap alive)
  BY <1>1, CommittedNames DEF CommittedSteps, PromotedSteps, Tidy, Agreement, Unsettled
<1>4. KeepsLocals /\ loc'.legacy = loc.legacy
  BY <1>1, SameLocals
<1>5. Moves(pc, pc')
  BY <1>1, MoveFacts DEF Steps, Modeless
<1> QED BY <1>1, <1>2, <1>3, <1>4, <1>5, KeptTidy DEF world

-----------------------------------------------------------------------------
(* The cutover, the commit and the compensation.                           *)

\* The candidate takes over, or the deploy aborts with or without it serving.
LEMMA CutoverTidy == ASSUME Inv, Following, Tidy, Add \/ Switch PROVE Tidy'
<1>1. /\ pc \in {"add", "cutover"} /\ UNCHANGED <<alive, next, disk, mem, removal>>
      /\ \/ pc' = "abort" /\ loc' = loc /\ route' \in {route, {loc.cand}}
         \/ pc' = "commit" /\ route' = {loc.cand}
            /\ \/ loc' = [loc EXCEPT !.active = NoSlot, !.switched = TRUE]
               \/ loc' = [loc EXCEPT !.switched = TRUE]
  BY DEF Add, Switch, Step, CallOK, CallFails
<1>2. /\ loc'.slot = loc.slot /\ loc'.cand = loc.cand /\ loc'.pre = loc.pre /\ loc'.op = loc.op
      /\ loc'.legacy = loc.legacy /\ loc'.active \in {loc.active, NoSlot}
      /\ pc' = "abort" => loc'.active = loc.active
  BY <1>1, TypeFacts DEF Locals
<1>3. /\ mem.active = loc.active /\ mem.slots[loc.slot].port = loc.cand
      /\ mem.slots[loc.slot].pid = loc.cand
      /\ Names(disk, route \cap alive) /\ Names(mem, route \cap alive)
  BY <1>1 DEF Tidy, CandidateKept, OldActive, Agreement, Unsettled, Ahead, Following, HeldSteps
<1>4. Journals'
  BY <1>1, <1>2 DEF Tidy, Journals, Held
<1>5. Modes' /\ Covered'
  BY <1>1, <1>2 DEF Tidy, Modes, Covered
<1>6. Numbered'
  BY <1>1, <1>2 DEF Tidy, Numbered
<1>7. CandidateKept'
  BY <1>1, <1>2, <1>3 DEF CandidateKept, OldActive
<1>8. Agreement'
  BY <1>1, <1>2, <1>3 DEF Agreement, Unsettled, Ahead, Unserved
<1> QED BY <1>4, <1>5, <1>6, <1>7, <1>8 DEF Tidy

\* A journal that differs in the active slot and the version only.
LEMMA ActiveFacts ==
  ASSUME NEW j \in Journal, NEW k \in Journal, k.slots = j.slots, k.mode = j.mode,
         k.retiring = j.retiring, k.replicas = j.replicas, NEW n, NEW A,
         GoodJournal(j, n, A), j.mode # "absent", Held(j, k.active, A)
  PROVE  Recorded(k) = Recorded(j) /\ GoodJournal(k, n, A)
BY DEF Recorded, SlotPids, GoodJournal, Plain, Records, Held

\* The commit names the candidate.
LEMMA CommitTidy == ASSUME Inv, Following, Tidy, Commit PROVE Tidy'
<1>t. /\ mem \in Journal /\ disk \in Journal /\ loc.slot \in Slots /\ loc.slot # NoSlot
      /\ loc.active \in Slots \cup {NoSlot} /\ loc \in Locals /\ route \subseteq Inst /\ 0 \notin Inst
  BY TypeFacts
<1>1. /\ pc = "commit" /\ mem' = Committed /\ UNCHANGED <<world, removal>>
      /\ loc' = [loc EXCEPT !.oldVer = mem.ver]
      /\ \/ pc' = "promote" /\ disk' = Committed
         \/ pc' = "compensate" /\ disk' \in {disk, Committed}
  BY StoreWrites DEF Commit, Step, StoreOK
<1>2. /\ loc'.slot = loc.slot /\ loc'.cand = loc.cand /\ loc'.pre = loc.pre /\ loc'.op = loc.op
      /\ loc'.legacy = loc.legacy /\ loc'.active = loc.active
  BY <1>1, <1>t DEF Locals
<1>3. /\ GoodJournal(disk, next, alive) /\ GoodJournal(mem, next, alive) /\ Plain(loc.pre)
      /\ Held(mem, loc.active, alive) /\ Covers(mem, disk, alive) /\ mem.mode = "blue-green"
      /\ mem.slots[loc.slot].port = loc.cand /\ mem.slots[loc.slot].pid = loc.cand
      /\ route \in {{}, {loc.cand}}
  BY <1>1 DEF Tidy, Journals, Covered, Modes, CandidateKept, Following, HeldSteps, SwitchedSteps
<1>4. Held(mem, loc.slot, alive)
  BY <1>3 DEF Held
<1>5. /\ Committed \in Journal /\ Committed.active = loc.slot /\ Committed.slots = mem.slots
      /\ Committed.mode = mem.mode /\ Recorded(Committed) = Recorded(mem)
      /\ GoodJournal(Committed, next, alive)
  <2>1. loc.tver \in Version /\ loc.slot \in Slots \cup {NoSlot}
    BY <1>t DEF Locals
  <2>2. /\ Committed \in Journal /\ Committed.active = loc.slot
        /\ Committed.slots = mem.slots /\ Committed.mode = mem.mode
        /\ Committed.retiring = mem.retiring /\ Committed.replicas = mem.replicas
    BY <1>t, <2>1 DEF Committed, Journal
  <2> QED BY <1>t, <1>3, <1>4, <2>2, ActiveFacts
<1>6. Journals'
  <2>1. Held(Committed, loc.active, alive)
    BY <1>3, <1>5 DEF Held
  <2> QED BY <1>1, <1>2, <1>3, <1>5, <2>1 DEF Journals, world
<1>7. Modes' /\ Numbered'
  BY <1>1, <1>2, <1>3, <1>5 DEF Tidy, Modes, Numbered, world
<1>8. CandidateKept'
  BY <1>1, <1>2, <1>3, <1>5 DEF CandidateKept, OldActive
<1>9. Covered'
  BY <1>1, <1>3, <1>5 DEF Covered, Covers, world
<1>10. Agreement'
  <2>1. route # {} => ActivePid(Committed) = {loc.cand}
    BY <1>3, <1>5, <1>t DEF ActivePid
  <2>2. Names(Committed, route \cap alive)
    BY <1>3, <2>1 DEF Names
  <2> QED BY <1>1, <2>2 DEF Agreement, Unsettled, Ahead, Unserved, world
<1> QED BY <1>6, <1>7, <1>8, <1>9, <1>10 DEF Tidy

\* The compensation goes back to the old slot.
LEMMA CompensateTidy == ASSUME Inv, Following, Versions, Tidy, Compensate PROVE Tidy'
<1>t. /\ mem \in Journal /\ disk \in Journal /\ loc.slot \in Slots /\ 0 \notin Inst
      /\ loc.active \in Slots \cup {NoSlot} /\ loc \in Locals /\ alive \subseteq Inst
      /\ NoSlot \notin Slots
  BY TypeFacts
<1>1. pc \in {"compensate", "demote"} /\ UNCHANGED <<alive, next, disk, removal>>
  BY DEF Compensate, Step
<1>2. route # {} /\ budget = 0
  BY <1>1 DEF Versions
<1>3. ~CallFails(OldTarget)
  BY <1>2 DEF CallFails, Fault
<1>4. /\ pc' = "retire" /\ mem' = [mem EXCEPT !.active = loc.active, !.ver = loc.oldVer]
      /\ loc' = [loc EXCEPT !.switched = FALSE] /\ route' = OldTarget
  BY <1>1, <1>2, <1>3 DEF Compensate, SwitchAccepted, Step, CallOK
<1>5. KeepsLocals /\ loc'.legacy = loc.legacy
  BY <1>4, <1>t DEF KeepsLocals, Locals
<1>6. /\ GoodJournal(disk, next, alive) /\ GoodJournal(mem, next, alive) /\ Plain(loc.pre)
      /\ Held(mem, loc.active, alive) /\ Covers(mem, disk, alive) /\ mem.mode = "blue-green"
      /\ mem.slots[loc.slot].port = loc.cand /\ mem.slots[loc.slot].pid = loc.cand
  BY <1>1 DEF Tidy, Journals, Covered, Modes, CandidateKept
<1>7. /\ mem' \in Journal /\ mem'.active = loc.active /\ mem'.slots = mem.slots
      /\ mem'.mode = mem.mode /\ Recorded(mem') = Recorded(mem)
      /\ GoodJournal(mem', next, alive)
  <2>1. loc.oldVer \in Version
    BY <1>t DEF Locals
  <2>2. /\ mem' \in Journal /\ mem'.active = loc.active
        /\ mem'.slots = mem.slots /\ mem'.mode = mem.mode
        /\ mem'.retiring = mem.retiring /\ mem'.replicas = mem.replicas
    BY <1>t, <1>4, <2>1 DEF Journal
  <2> QED BY <1>t, <1>6, <2>2, ActiveFacts
<1>8. Journals'
  <2>1. Held(mem', loc.active, alive)
    BY <1>6, <1>7 DEF Held
  <2> QED BY <1>1, <1>5, <1>6, <1>7, <2>1 DEF Journals, KeepsLocals
<1>9. Modes'
  BY <1>1, <1>4, <1>5, <1>6, <1>7 DEF Tidy, Modes, KeepsLocals
<1>10. Numbered'
  <2>1. \A i \in OldTarget : i < next
    BY <1>6, <1>t DEF OldTarget, GoodJournal, Records
  <2> QED BY <1>1, <1>4, <1>5, <2>1 DEF Tidy, Numbered, KeepsLocals
<1>11. CandidateKept'
  BY <1>4, <1>5, <1>6, <1>7 DEF CandidateKept, OldActive, KeepsLocals
<1>12. Covered'
  BY <1>1, <1>6, <1>7 DEF Covered, Covers
<1>13. Agreement'
  <2>1. OldTarget \cap alive \subseteq ActivePid(mem')
    BY <1>6, <1>7, <1>t DEF OldTarget, ActivePid, Held
  <2> QED BY <1>1, <1>4, <2>1 DEF Agreement, Names, Unsettled, Ahead, Unserved
<1> QED BY <1>8, <1>9, <1>10, <1>11, <1>12, <1>13 DEF Tidy

\* retireFailedCandidate takes the candidate's PID to the retiring list, and
\* stores a journal that still has everybody on record.
LEMMA RetireCandidateTidy ==
  ASSUME Inv, Following, Versions, Tidy, RetireCandidate
  PROVE  Tidy' /\ Recorded(mem) \subseteq Recorded(disk')
<1>t. /\ mem \in Journal /\ disk \in Journal /\ loc.slot \in Slots /\ 0 \notin Inst
      /\ loc.active \in Slots \cup {NoSlot} /\ loc \in Locals /\ alive \subseteq Inst
      /\ NoSlot \notin Slots /\ next \in Nat /\ mem.slots[loc.slot] \in SlotRec
  BY TypeFacts
<1>1. pc = "retire" /\ UNCHANGED <<world, removal>> /\ loc' = loc
  BY DEF RetireCandidate, Step
<1>2. budget = 0
  BY <1>1 DEF Versions
<1>3. pc' = "stopRetired" /\ disk' = Retired /\ mem' = Retired
  BY <1>2 DEF RetireCandidate, StoreOK, StoreFails, Fault, Step
<1>4. /\ GoodJournal(disk, next, alive) /\ GoodJournal(mem, next, alive) /\ Plain(loc.pre)
      /\ Held(mem, loc.active, alive) /\ Covers(mem, disk, alive) /\ mem.mode = "blue-green"
      /\ mem.slots[loc.slot].pid = loc.cand /\ mem.active = loc.active /\ loc.cand < next
      /\ Names(mem, route \cap alive)
  BY <1>1 DEF Tidy, Journals, Covered, Modes, CandidateKept, OldActive, Agreement, Ahead, Numbered
<1>5. mem.active # loc.slot /\ loc.cand \in Inst
  BY <1>1, <1>4, <1>t DEF Inv, OldSlotProven, CandidateLaunched
<1> DEFINE R == mem.retiring \cup {loc.cand}
           k == [mem EXCEPT !.retiring = R]
           rec == [mem.slots[loc.slot] EXCEPT !.pid = 0, !.status = "failed"]
<1>6. /\ k \in Journal /\ k.active = mem.active /\ k.slots = mem.slots /\ k.mode = mem.mode
      /\ k.retiring = R /\ k.replicas = mem.replicas
      /\ SlotPids(k) = SlotPids(mem) /\ ActivePid(k) = ActivePid(mem)
      /\ GoodJournal(k, next, alive)
  <2>1. R \subseteq Inst
    BY <1>5, <1>t DEF Journal
  <2>2. \A i \in R : i < next
    BY <1>4 DEF GoodJournal, Records
  <2> QED BY <1>4, <1>t, <2>1, <2>2, RetiringFacts
<1>7. rec \in SlotRec /\ rec.port = mem.slots[loc.slot].port /\ rec.pid = 0
  BY <1>t, RecordUpdates DEF SlotRec
<1>8. Retired = SetSlot(k, loc.slot, rec)
  BY DEF Retired
<1> HIDE DEF k, rec
<1>9. /\ Retired \in Journal /\ Retired.active = k.active
      /\ Retired.mode = k.mode /\ Retired.retiring = k.retiring
      /\ \A x \in Recorded(k) : x \in Recorded(Retired) \/ x = k.slots[loc.slot].pid
      /\ ActivePid(Retired) = ActivePid(k)
      /\ \A t \in Slots \ {loc.slot} : Retired.slots[t] = k.slots[t]
  <2>1. /\ SetSlot(k, loc.slot, rec) \in Journal
        /\ SetSlot(k, loc.slot, rec).active = k.active
        /\ \A t \in Slots \ {loc.slot} : SetSlot(k, loc.slot, rec).slots[t] = k.slots[t]
    <3>1. k \in Journal /\ rec \in SlotRec /\ loc.slot \in Slots
      BY <1>6, <1>7, <1>t
    <3> QED BY <3>1, SetSlotFacts
  <2>2. /\ SetSlot(k, loc.slot, rec).mode = k.mode
        /\ SetSlot(k, loc.slot, rec).retiring = k.retiring
        /\ \A x \in Recorded(k) :
             x \in Recorded(SetSlot(k, loc.slot, rec)) \/ x = k.slots[loc.slot].pid
        /\ loc.slot # k.active => ActivePid(SetSlot(k, loc.slot, rec)) = ActivePid(k)
    BY <1>6, <1>7, <1>t, SetSlotRecorded
  <2> QED BY <1>5, <1>6, <1>8, <2>1, <2>2
<1>10. GoodJournal(Retired, next, alive)
  <2>1. /\ rec.pid \in {0, rec.port} /\ rec.port < next
        /\ \A t \in Slots \ {loc.slot} : rec.port = 0 \/ rec.port # k.slots[t].port
    BY <1>6, <1>7, <1>t DEF GoodJournal, Records
  <2> QED BY <1>4, <1>5, <1>6, <1>7, <1>8, <1>t, <2>1, SetSlotGood
<1>11. Journals'
  <2>1. Held(Retired, loc.active, alive)
    BY <1>4, <1>6, <1>9, <1>10 DEF GoodJournal
  <2> QED BY <1>1, <1>3, <1>4, <1>10, <2>1 DEF Journals, world
<1>12. Modes' /\ Numbered' /\ CandidateKept'
  BY <1>1, <1>3, <1>4, <1>6, <1>9 DEF Tidy, Modes, Numbered, CandidateKept, OldActive, world
<1>13. Covered'
  BY <1>1, <1>3 DEF Covered, Covers, world
<1>14. Agreement'
  BY <1>1, <1>3, <1>4, <1>6, <1>9 DEF Agreement, Names, Unsettled, Ahead, Unserved, world
<1>15. Recorded(mem) \subseteq Recorded(disk')
  <2>1. \A x \in Recorded(mem) : x \in Recorded(k)
    BY <1>6 DEF Recorded
  <2>2. k.slots[loc.slot].pid = loc.cand /\ loc.cand \in Recorded(Retired)
    BY <1>4, <1>6, <1>9 DEF Recorded
  <2> QED BY <1>3, <1>9, <2>1, <2>2
<1> QED BY <1>11, <1>12, <1>13, <1>14, <1>15 DEF Tidy

-----------------------------------------------------------------------------
(* Stop and start, and a proxy that forgets.                               *)

\* The route is withdrawn, or a proxy that cannot be reached keeps it.
LEMMA UnrouteTidy ==
  ASSUME Inv, Following, Tidy, RemoveRoute \/ ProxyReset PROVE Tidy'
<1>1. /\ UNCHANGED <<alive, next, disk, mem, loc, removal>> /\ route' \in {route, {}}
      /\ \/ pc = "unroute" /\ pc' = "teardown"
         \/ pc' = pc /\ route' = {}
  BY DEF RemoveRoute, ProxyReset, Step, CallOK, CallFails
<1>2. Journals' /\ Modes' /\ Covered'
  BY <1>1 DEF Tidy, Journals, Modes, Covered
<1>3. Numbered'
  BY <1>1 DEF Tidy, Numbered
<1>4. CandidateKept'
  <2>1. CASE pc' = pc
    BY <1>1, <2>1 DEF Tidy, CandidateKept
  <2>2. CASE pc' = "teardown"
    BY <2>2 DEF CandidateKept, OldActive
  <2> QED BY <1>1, <2>1, <2>2
<1>5. Agreement'
  <2>1. CASE route' = {}
    BY <2>1 DEF Agreement, Names
  <2>2. CASE pc = "unroute" /\ pc' = "teardown" /\ route' = route
    BY <1>1, <2>2 DEF Tidy, Agreement, Unsettled, Ahead, Unserved
  <2> QED BY <1>1, <2>1, <2>2
<1> QED BY <1>2, <1>3, <1>4, <1>5 DEF Tidy

\* Every instance on record is stopped, whoever serves among them.
LEMMA TeardownTidy == ASSUME OneFault, Inv, Following, Tidy, Teardown PROVE Tidy'
<1>t. /\ mem \in Journal /\ disk \in Journal /\ loc.active \in Slots \cup {NoSlot}
      /\ mem.active \in Slots \cup {NoSlot} /\ next \in Nat /\ 0 \notin alive
      /\ NoSlot \notin Slots
      /\ \A s \in Slots : mem.slots[s] \in SlotRec
  BY TypeFacts
<1> DEFINE gone == SlotPids(mem) \cup mem.replicas
           torn == [s \in Slots |-> TornDown(mem.slots[s])]
<1>1. /\ pc = "teardown" /\ pc' = "storeTorn" /\ alive' = alive \ gone
      /\ mem' = [mem EXCEPT !.slots = torn, !.replicas = {}]
      /\ UNCHANGED <<next, route, disk, loc, removal>>
  BY Confirmed DEF Teardown, Step
<1>2. /\ GoodJournal(disk, next, alive) /\ GoodJournal(mem, next, alive) /\ Plain(loc.pre)
      /\ Held(mem, loc.active, alive) /\ Covers(mem, disk, alive) /\ mem.mode = "blue-green"
      /\ Names(mem, route \cap alive)
  BY <1>1 DEF Tidy, Journals, Covered, Modes, Agreement, Ahead
<1>3. \A s \in Slots : /\ torn[s] \in SlotRec /\ torn[s].port = mem.slots[s].port
                       /\ torn[s].pid = 0
  <2>1. ASSUME NEW s \in Slots PROVE TornDown(mem.slots[s]).pid = 0
    BY <1>t DEF TornDown, Stopped, SlotRec
  <2> QED BY <1>t, <2>1, RecordFacts
<1>4. torn \in [Slots -> SlotRec]
  BY <1>3
<1> HIDE DEF torn
<1>5. /\ mem' \in Journal /\ mem'.active = mem.active /\ mem'.slots = torn /\ mem'.mode = mem.mode
      /\ mem'.replicas = {} /\ mem'.retiring = mem.retiring
  BY <1>1, <1>4, <1>t DEF Journal
<1>6. \A s \in Slots : mem.slots[s].pid \notin alive'
  BY <1>1, <1>t DEF SlotPids
<1>7. ASSUME NEW s \in Slots \cup {NoSlot}, Held(mem, s, alive) PROVE Held(mem', s, alive')
  <2> SUFFICES ASSUME s # NoSlot, torn[s].port \in alive' PROVE FALSE
    BY <1>5 DEF Held
  <2>1. mem.slots[s].port = mem.slots[s].pid
    BY <1>1, <1>3, <1>7 DEF Held
  <2> QED BY <1>3, <1>6, <2>1
<1>8. GoodJournal(mem', next, alive')
  <2>1. Plain(mem')
    BY <1>2, <1>5 DEF Plain
  <2>2. Records(mem', next)
    BY <1>2, <1>3, <1>5 DEF GoodJournal, Records
  <2>3. Held(mem', mem'.active, alive')
    BY <1>2, <1>5, <1>7, <1>t DEF GoodJournal
  <2> QED BY <2>1, <2>2, <2>3 DEF GoodJournal
<1>9. Journals'
  <2>1. GoodJournal(disk, next, alive')
    BY <1>1, <1>2, <1>t, GoodStays
  <2> QED BY <1>1, <1>2, <1>7, <1>8, <1>t, <2>1 DEF Journals
<1>10. Modes' /\ Numbered' /\ CandidateKept'
  BY <1>1, <1>2, <1>5 DEF Tidy, Modes, Numbered, CandidateKept, OldActive
<1>11. Covered'
  <2>1. ASSUME NEW x \in Recorded(mem), x \in alive' PROVE x \in Recorded(mem')
    BY <1>1, <1>5, <2>1 DEF Recorded
  <2> QED BY <1>1, <1>2, <2>1 DEF Covered, Covers
<1>12. Agreement'
  <2>1. ActivePid(mem) \subseteq SlotPids(mem)
    BY <1>t DEF ActivePid, SlotPids
  <2>2. route \cap alive' = {}
    BY <1>1, <1>2, <2>1 DEF Names
  <2> QED BY <1>1, <2>2 DEF Agreement, Names, Unsettled, Ahead, Unserved
<1> QED BY <1>9, <1>10, <1>11, <1>12 DEF Tidy

\* `start` launches when nobody serves.
LEMMA LaunchActiveTidy == ASSUME Inv, Following, Tidy, LaunchActive PROVE Tidy'
<1>t. /\ mem \in Journal /\ disk \in Journal /\ loc.active \in Slots \cup {NoSlot}
      /\ mem.active \in Slots \cup {NoSlot} /\ next \in Nat /\ next # 0 /\ 0 \notin alive
      /\ NoSlot \notin Slots /\ loc \in Locals /\ alive \subseteq Nat /\ route \subseteq Nat
      /\ \A s \in Slots : mem.slots[s].port \in Nat
  BY TypeFacts
<1>1. /\ pc = "launchActive" /\ pc' = "listen" /\ alive' = alive \cup {next} /\ next' = next + 1
      /\ loc' = [loc EXCEPT !.cand = next, !.slot = mem.active]
      /\ mem.active # NoSlot /\ Serving(mem) \cap alive = {}
      /\ UNCHANGED <<route, disk, mem, removal>>
  BY DEF LaunchActive, Step
<1>2. /\ loc'.slot = mem.active /\ loc'.active = loc.active /\ loc'.cand = next
      /\ loc'.pre = loc.pre /\ loc'.legacy = loc.legacy /\ loc'.op = loc.op
  BY <1>1, <1>t DEF Locals
<1>3. /\ GoodJournal(disk, next, alive) /\ GoodJournal(mem, next, alive) /\ Plain(loc.pre)
      /\ Held(mem, loc.active, alive) /\ Covers(mem, disk, alive) /\ mem.mode = "blue-green"
      /\ Names(mem, route \cap alive) /\ \A i \in alive \cup route : i < next
  BY <1>1 DEF Tidy, Journals, Covered, Modes, Agreement, Ahead, Numbered
<1>4. /\ GoodJournal(disk, next + 1, alive \cup {next})
      /\ GoodJournal(mem, next + 1, alive \cup {next})
      /\ Held(mem, loc.active, alive \cup {next})
  <2>1. GoodJournal(disk, next + 1, alive \cup {next})
    BY <1>3, <1>t, GoodLaunch
  <2>2. GoodJournal(mem, next + 1, alive \cup {next})
    BY <1>3, <1>t, GoodLaunch
  <2>3. Held(mem, loc.active, alive \cup {next})
    BY <1>3, <1>t, GoodLaunch
  <2> QED BY <2>1, <2>2, <2>3
<1>5. Journals' /\ Modes' /\ Numbered'
  BY <1>1, <1>2, <1>3, <1>4, <1>t DEF Journals, Tidy, Modes, Numbered
<1>6. \A s \in Slots : mem.slots[s].port # next /\ mem.slots[s].pid # next
  BY <1>3, <1>t DEF GoodJournal, Records
<1>7. /\ ActivePid(mem) \cap alive = {}
      /\ mem.slots[mem.active].pid \notin alive
  BY <1>1, <1>3, <1>t DEF Serving, ActivePid
<1>8. CandidateKept'
  BY <1>1, <1>2, <1>6, <1>7, <1>t DEF CandidateKept, OldActive
<1>9. Covered'
  <2>1. next \notin Recorded(disk)
    BY <1>3, <1>t DEF Recorded, SlotPids, GoodJournal, Plain, Records
  <2> QED BY <1>1, <1>3, <2>1 DEF Covered, Covers
<1>10. Agreement'
  <2>1. route \cap (alive \cup {next}) = {}
    BY <1>3, <1>7, <1>t DEF Names
  <2> QED BY <1>1, <2>1 DEF Agreement, Names, Unsettled, Ahead, Unserved
<1> QED BY <1>5, <1>8, <1>9, <1>10 DEF Tidy

\* The restored instance takes the active slot, in which nothing runs.
LEMMA ListensTidy == ASSUME Inv, Following, Tidy, Listens PROVE Tidy'
<1>t. /\ mem \in Journal /\ disk \in Journal /\ loc.active \in Slots \cup {NoSlot}
      /\ mem.active \in Slots \cup {NoSlot} /\ next \in Nat /\ loc.slot \in Slots
      /\ NoSlot \notin Slots /\ loc \in Locals /\ 0 \notin Inst
      /\ mem.slots[loc.slot] \in SlotRec
  BY TypeFacts
<1>1. /\ pc = "listen" /\ pc' = "storeStarted" /\ loc' = loc
      /\ UNCHANGED <<alive, next, route, disk, removal>>
      /\ mem' = SetSlot(mem, loc.slot, [mem.slots[loc.slot] EXCEPT
                    !.pid = loc.cand, !.port = loc.cand, !.status = "running"])
  BY DEF Listens, Step
<1>2. loc.cand \in Inst /\ loc.active = NoSlot
  BY <1>1 DEF Inv, CandidateLaunched, OldSlotActive
<1>3. PICK rec \in SlotRec : /\ rec.port = loc.cand /\ rec.pid = loc.cand
                            /\ mem' = SetSlot(mem, loc.slot, rec)
  <2>1. /\ [mem.slots[loc.slot] EXCEPT !.pid = loc.cand, !.port = loc.cand,
                                       !.status = "running"] \in SlotRec
        /\ [mem.slots[loc.slot] EXCEPT !.pid = loc.cand, !.port = loc.cand,
                                       !.status = "running"].port = loc.cand
    BY <1>2, <1>t, RecordUpdates
  <2>2. [mem.slots[loc.slot] EXCEPT !.pid = loc.cand, !.port = loc.cand,
                                    !.status = "running"].pid = loc.cand
    BY <1>t DEF SlotRec
  <2> QED BY <1>1, <2>1, <2>2
<1>4. /\ GoodJournal(disk, next, alive) /\ GoodJournal(mem, next, alive) /\ Plain(loc.pre)
      /\ Covers(mem, disk, alive) /\ mem.mode = "blue-green" /\ loc.cand < next
      /\ mem.active = loc.slot /\ mem.slots[loc.slot].pid \notin alive
      /\ \A s \in Slots : mem.slots[s].port # loc.cand
      /\ route \cap alive = {}
  BY <1>1 DEF Tidy, Journals, Covered, Modes, Numbered, CandidateKept, Agreement, Unserved
<1>5. /\ mem' \in Journal /\ mem'.active = mem.active /\ mem'.mode = mem.mode
      /\ mem'.slots[loc.slot] = rec
      /\ \A x \in Recorded(mem) : x \in Recorded(mem') \/ x = mem.slots[loc.slot].pid
  BY <1>3, <1>t, SlotStep
<1>6. GoodJournal(mem', next, alive)
  <2>1. \A t \in Slots \ {loc.slot} : rec.port # mem.slots[t].port
    BY <1>3, <1>4
  <2> QED BY <1>3, <1>4, <1>t, <2>1, SetSlotGood
<1>7. Journals' /\ Modes' /\ Numbered'
  BY <1>1, <1>2, <1>4, <1>5, <1>6 DEF Tidy, Journals, Held, Modes, Numbered
<1>8. CandidateKept'
  BY <1>1, <1>3, <1>4, <1>5 DEF CandidateKept, OldActive
<1>9. Covered'
  BY <1>1, <1>4, <1>5 DEF Covered, Covers
<1>10. Agreement'
  BY <1>1, <1>4 DEF Agreement, Names, Unsettled, Ahead, Unserved
<1> QED BY <1>7, <1>8, <1>9, <1>10 DEF Tidy

-----------------------------------------------------------------------------
(* The journal names who serves, and loses nobody.                         *)

\* Every step preserves the invariant.
LEMMA NextTidy ==
  ASSUME OneFault PROVE Inv /\ Following /\ Versions /\ Tidy /\ [Next]_vars => Tidy'
<1> SUFFICES ASSUME Inv, Following, Versions, Tidy, [Next]_vars PROVE Tidy'
  OBVIOUS
<1>1. CASE Prepare
  <2>1. CASE \E op \in Ops : Begin(op)
    BY <2>1, BeginTidy
  <2>2. CASE Drain \/ StoreDrained \/ Reconciled
    BY <2>2, DrainTidy, ReturnStepTidy
  <2> QED BY <1>1, <2>1, <2>2 DEF Prepare
<1>2. CASE Deploy
  <2>1. ~StoreBestKnown /\ ~MigrateTo
    BY DEF StoreBestKnown, MigrateTo, Step, Versions, Tidy, Modes
  <2> QED BY <1>2, <2>1, LoadStateTidy, RecoverTidy, StoreStepTidy, QuietStepTidy,
             LaunchCandidateTidy, HealthPassesTidy, CutoverTidy, StopCandidateTidy, CommitTidy,
             CompensateTidy, RetireCandidateTidy, StopOldTidy, StoreFinalTidy, ReturnStepTidy
      DEF Deploy
<1>3. CASE StopApp
  BY <1>3, UnrouteTidy, TeardownTidy, ReturnStepTidy DEF StopApp
<1>4. CASE StartApp
  BY <1>4, ReturnStepTidy, LaunchActiveTidy, ListensTidy, QuietStepTidy, StoreStepTidy,
     RestoreRouteTidy DEF StartApp
<1>5. CASE Environment
  <2>1. ~Crash /\ ~RemoveState
    BY DEF Crash, RemoveState, OneFault, Tidy, Modes
  <2> QED BY <1>5, <2>1, QuietStepTidy, UnrouteTidy DEF Environment
<1>6. CASE UNCHANGED vars
  BY <1>6, QuietStepTidy
<1> QED BY <1>1, <1>2, <1>3, <1>4, <1>5, <1>6 DEF Next

\* Apps that were never deployed, that run classically or that have an active
\* slot satisfy it.
LEMMA InitTidy == ASSUME OneFault PROVE Init => Tidy
<1> SUFFICES ASSUME Init PROVE Tidy
  OBVIOUS
<1>i. Inv
  BY InitInv
<1>1. PICK o \in Origins : Origin(o)
  BY DEF Init
<1>2. o # "rolling" /\ pc = "idle" /\ mem = NoJournal /\ loc = NoLocals /\ route = alive /\ ~removal
  BY <1>1 DEF Init, OneFault
<1>3. /\ loc.pre = NoJournal /\ loc.active = NoSlot /\ loc.legacy = {} /\ loc.op = "none"
      /\ loc.cand = 0
  BY <1>2 DEF NoLocals
<1>4. next \in Nat \ {0}
  BY <1>i, TypeFacts
<1>5. GoodJournal(NoJournal, next, alive)
  BY <1>4, EmptyGood
<1>6. /\ GoodJournal(disk, next, alive) /\ Names(disk, alive) /\ \A i \in alive : i < next
  <2>1. CASE o = "bluegreen"
    <3>1. alive = {1} /\ next = 2
      <4>1. alive = {1} /\ next = Cardinality(alive) + 1
        BY <1>1, <2>1 DEF Origin
      <4> QED BY <4>1, FS_Singleton
    <3>2. disk = [mode |-> "blue-green", active |-> "blue",
                  slots |-> [EmptySlots EXCEPT !["blue"] = Record(1, 1)],
                  replicas |-> {}, retiring |-> {}, ver |-> 1]
      BY <1>1, <2>1 DEF Origin, NoJournal
    <3>3. /\ disk.slots["blue"].pid = 1 /\ disk.slots["blue"].port = 1
          /\ disk.slots["green"].pid = 0 /\ disk.slots["green"].port = 0
      BY <3>2 DEF EmptySlots, EmptySlot, Record, Slots
    <3>4. Plain(disk)
      BY <3>2 DEF Plain
    <3>5. Records(disk, 2)
      BY <3>2, <3>3 DEF Records, Slots
    <3>6. Held(disk, disk.active, alive) /\ Names(disk, alive)
      BY <3>1, <3>2, <3>3 DEF Held, Names, ActivePid, NoSlot
    <3> QED BY <3>1, <3>4, <3>5, <3>6 DEF GoodJournal
  <2>2. CASE o # "bluegreen"
    <3>1. alive = {} /\ disk = NoJournal
      BY <1>1, <1>2, <2>2 DEF Origin
    <3> QED BY <1>5, <3>1 DEF Names
  <2> QED BY <2>1, <2>2
<1>7. Journals /\ Modes
  BY <1>2, <1>3, <1>5, <1>6 DEF Journals, Modes, Held, GoodJournal
<1>8. Numbered /\ CandidateKept /\ Covered /\ Agreement
  BY <1>2, <1>3, <1>4, <1>6 DEF Numbered, CandidateKept, OldActive, Covered, Agreement, Names,
     Unsettled, Ahead, Unserved
<1> QED BY <1>7, <1>8 DEF Tidy

\* The invariant holds in every reachable state.
THEOREM SingleFaultInvariant ==
  ASSUME OneFault PROVE Spec => [](Inv /\ Following /\ Versions /\ Tidy)
<1>1. "crash" \notin Faults /\ MaxFaults <= 1
  BY DEF OneFault
<1>2. Inv /\ Versions /\ [Next]_vars => Versions'
  BY <1>1, NextVersions
<1>3. Inv /\ Following /\ Versions /\ Tidy /\ [Next]_vars => Tidy'
  BY NextTidy
<1>4. Init => Inv /\ Following /\ Versions /\ Tidy
  BY InitInv, InitFollowing, InitVersions, InitTidy
<1> QED BY <1>2, <1>3, <1>4, NextInv, NextFollowing, PTL DEF Spec

\* Whatever single call of an operation fails, is answered too late or takes
\* effect unnoticed, and whichever instances die, between operations whoever
\* serves is the active instance of deploy.json.
THEOREM JournalNames == ASSUME OneFault PROVE Spec => []JournalNamesServing
<1>1. Inv /\ Following /\ Versions /\ Tidy => JournalNamesServing
  BY DEF Tidy, Agreement, Names, Unsettled, JournalNamesServing
<1> QED BY <1>1, SingleFaultInvariant, PTL

\* No step of theirs takes a running instance out of deploy.json.
LEMMA NextRecorded ==
  ASSUME OneFault, Inv, Following, Versions, Tidy, [Next]_vars
  PROVE  Recorded(disk) \cap alive \subseteq Recorded(disk')
<1> DEFINE kept == Recorded(disk) \cap alive \subseteq Recorded(disk')
<1>a. disk' = disk => kept
  OBVIOUS
<1>b. pc # "idle" /\ disk' \in {disk, mem} => kept
  BY DEF Tidy, Covered, Covers
<1>1. CASE Prepare
  <2>1. CASE \E op \in Ops : Begin(op)
    BY <1>a, <2>1 DEF Begin
  <2>2. CASE Drain \/ StoreDrained \/ Reconciled
    BY <1>b, <2>2, StoreWrites DEF Drain, StoreDrained, Reconciled, Step, StoreOK
  <2> QED BY <1>1, <2>1, <2>2 DEF Prepare
<1>2. CASE Deploy
  <2>1. ~StoreBestKnown /\ ~MigrateTo
    BY DEF StoreBestKnown, MigrateTo, Step, Versions, Tidy, Modes
  <2>2. CASE \/ LoadState \/ RecoverStaleSlots \/ ProbeProxy \/ BuildFails
             \/ LaunchCandidate \/ HealthPasses \/ HealthFails \/ ProxyUnreachable
    BY <1>a, <2>2 DEF LoadState, RecoverStaleSlots, ProbeProxy, BuildFails, LaunchCandidate,
       HealthPasses, HealthFails, ProxyUnreachable
  <2>3. CASE \/ HandOffPublicPort \/ Add \/ Switch \/ StopCandidate \/ Promote
             \/ Compensate \/ StopRetired \/ StopLegacy \/ StopOld
    BY <1>a, <2>3 DEF HandOffPublicPort, Add, Switch, StopCandidate, Promote, Compensate,
       StopRetired, StopLegacy, StopOld
  <2>4. CASE StoreRecovered \/ StoreStarting \/ StoreAborted \/ StoreFinal
    <3>1. pc # "idle" /\ disk' \in {disk, mem}
      BY <2>4, StoreWrites DEF StoreRecovered, StoreStarting, StoreAborted, StoreFinal, Step,
         StoreBestEffort, StoreOK
    <3> QED BY <1>b, <3>1
  <2>5. CASE Commit
    <3>1. /\ Covers(mem, disk, alive) /\ mem \in Journal
          /\ disk' \in {disk, Committed}
      BY <2>5, TypeFacts, StoreWrites DEF Commit, Step, Tidy, Covered, StoreOK
    <3>2. /\ Committed.slots = mem.slots /\ Committed.retiring = mem.retiring
          /\ Committed.replicas = mem.replicas
      BY <3>1 DEF Committed, Journal
    <3>3. Recorded(Committed) = Recorded(mem)
      BY <3>2 DEF Recorded, SlotPids
    <3> QED BY <1>a, <3>1, <3>3 DEF Covers
  <2>6. CASE RetireCandidate
    <3>1. Covers(mem, disk, alive)
      BY <2>6 DEF RetireCandidate, Step, Tidy, Covered
    <3>2. Recorded(mem) \subseteq Recorded(disk')
      BY <2>6, RetireCandidateTidy
    <3> QED BY <3>1, <3>2 DEF Covers
  <2>7. CASE UndoMigration
    <3>1. disk' = disk
      BY <2>7 DEF UndoMigration, Tidy, Journals, Plain
    <3> QED BY <1>a, <3>1
  <2> QED BY <1>2, <2>1, <2>2, <2>3, <2>4, <2>5, <2>6, <2>7 DEF Deploy
<1>3. CASE StopApp
  <2>1. pc # "idle" /\ disk' \in {disk, mem}
    BY <1>3, StoreWrites DEF StopApp, RemoveRoute, Teardown, StoreTorn, Step, StoreOK
  <2> QED BY <1>b, <2>1
<1>4. CASE StartApp
  <2>1. CASE StoreStarted
    BY <1>b, <2>1, StoreWrites DEF StoreStarted, Step, StoreOK
  <2>2. CASE ~StoreStarted
    BY <1>4, <1>a, <2>2 DEF StartApp, StartEnds, LaunchActive, Listens, ListenFails, UndoStart,
       RestoreProxyRoute
  <2> QED BY <2>1, <2>2
<1>5. CASE Environment
  <2>1. ~RemoveState
    BY DEF RemoveState, Tidy, Modes
  <2> QED BY <1>5, <1>a, <2>1 DEF Environment, Crash, InstanceDies, ProxyReset
<1>6. CASE UNCHANGED vars
  BY <1>6, <1>a DEF vars
<1> QED BY <1>1, <1>2, <1>3, <1>4, <1>5, <1>6 DEF Next

\* Under the same faults no Store of deploy.json forgets an instance that runs:
\* it stays on record, in a slot or as retiring, until it is stopped.
THEOREM NobodyForgotten == ASSUME OneFault PROVE Spec => NoLiveRecordDropped
<1>1. Inv /\ Following /\ Versions /\ Tidy /\ [Next]_vars
        => [Recorded(disk) \cap alive \subseteq Recorded(disk') \/ disk.mode = "absent"]_vars
  BY NextRecorded
<1> QED BY <1>1, SingleFaultInvariant, PTL DEF Spec, NoLiveRecordDropped

-----------------------------------------------------------------------------
(* Nobody who serves is stopped.                                           *)

\* No reply of the proxy is lost, and Status answers whenever Ping does.
HonestProxy == Faults \cap {"lostReply", "status"} = {}

\* The operations that withdraw the service, and their steps.
Withdraws == {"stop", "classicize"}
WithdrawSteps == {"drain", "storeDrained", "unroute", "teardown", "storeTorn"}

\* The steps between the probe of the proxy and the cutover, and those at which
\* the candidate is not (or no longer) routed.
Probed == {"build", "storeStarting", "health", "cutover"}
Apart == {"storeStarting", "health", "cutover", "add", "abort", "retire", "stopRetired"}

\* An app the proxy was asked about and does not know is not routed, the
\* candidate is apart, and only a withdrawal goes the way of a withdrawal.
Unrouted ==
  /\ pc \in Probed /\ loc.proxyOK /\ ~loc.enrolled => route = {}
  /\ pc \in Apart => loc.cand \notin route
  /\ pc \in {"unroute", "teardown"} => loc.op \in Withdraws
  /\ loc.op \in Withdraws => pc \in WithdrawSteps

\* What these steps know of the operation.
KeepsProbe == /\ loc'.cand = loc.cand /\ loc'.op = loc.op
              /\ loc'.proxyOK = loc.proxyOK /\ loc'.enrolled = loc.enrolled

\* Most of them note something else.
LEMMA SameProbe ==
  ASSUME loc \in Locals,
         \/ loc' = loc
         \/ loc' = [loc EXCEPT !.clear = TRUE]
         \/ \E b : loc' = [loc EXCEPT !.switched = b]
         \/ \E v : loc' = [loc EXCEPT !.oldVer = v]
         \/ \E j : loc' = [loc EXCEPT !.pre = j]
         \/ \E s, t : loc' = [loc EXCEPT !.slot = s, !.active = t]
         \/ \E s, b : loc' = [loc EXCEPT !.active = s, !.switched = b]
  PROVE  KeepsProbe
BY DEF KeepsProbe, Locals

\* Where such a step may lead.
Apartness(from, to) ==
  /\ to \in Probed => from \in Probed
  /\ to \in Apart => from \in Apart
  /\ to \in {"unroute", "teardown"} => from \in {"unroute", "teardown"}
  /\ from \in WithdrawSteps => to \in WithdrawSteps

\* A step that leaves the route alone or withdraws it.
LEMMA UnroutedKept ==
  ASSUME Unrouted, KeepsProbe, route' \in {route, {}}, Apartness(pc, pc')
  PROVE  Unrouted'
BY DEF Unrouted, KeepsProbe, Apartness

\* The end of an operation.
LEMMA UnroutedReturn == ASSUME NEW r, Return(r) PROVE Unrouted'
BY DEF Return, Unrouted, NoLocals, Apart, Probed, Withdraws

\* The probe of the proxy is right about the routing.
LEMMA ProbeUnrouted == ASSUME HonestProxy, Inv, Unrouted, ProbeProxy PROVE Unrouted'
<1>1. /\ pc = "probe" /\ pc' = "build" /\ route' = route
  BY DEF ProbeProxy, Step, world
<1>2. PICK ping \in BOOLEAN, status \in BOOLEAN :
        /\ CASE ping /\ status -> NoFault
             [] ping /\ ~status -> Fault("status")
             [] OTHER -> Fault("rpc")
        /\ loc' = [loc EXCEPT !.proxyOK = ping, !.enrolled = status /\ route # {}]
  BY DEF ProbeProxy
<1>3. ping => status
  BY <1>2 DEF HonestProxy, Fault
<1>4. /\ loc'.proxyOK = ping /\ loc'.enrolled = (status /\ route # {}) /\ loc'.op = loc.op
  BY <1>2, TypeFacts DEF Locals
<1>5. loc.op \notin Withdraws
  BY <1>1 DEF Unrouted, WithdrawSteps
<1> QED BY <1>1, <1>3, <1>4, <1>5 DEF Unrouted, Apart

\* A number that was never given out is not routed.
LEMMA LaunchUnrouted == ASSUME Inv, Tidy, Unrouted, LaunchCandidate PROVE Unrouted'
<1>1. /\ pc = "build" /\ pc' = "storeStarting" /\ route' = route
      /\ \E v \in 0 .. next : loc' = [loc EXCEPT !.cand = next, !.tver = v]
  BY DEF LaunchCandidate, Step
<1>2. /\ loc'.cand = next /\ loc'.op = loc.op
      /\ loc'.proxyOK = loc.proxyOK /\ loc'.enrolled = loc.enrolled
  BY <1>1, TypeFacts DEF Locals
<1>3. next \notin route
  BY TypeFacts DEF Tidy, Numbered
<1> QED BY <1>1, <1>2, <1>3 DEF Unrouted, Probed, Apart, WithdrawSteps

\* A compensated cutover points the proxy at another instance.
LEMMA OldTargetApart ==
  ASSUME Inv, Tidy, pc \in {"compensate", "demote"} PROVE loc.cand \notin OldTarget
<1>1. /\ mem.slots[loc.slot].port = loc.cand /\ loc.cand \in Inst
      /\ Records(mem, next)
  BY DEF Tidy, CandidateKept, Inv, CandidateLaunched, Journals, GoodJournal
<1>2. CASE loc.active # NoSlot
  <2>1. loc.active \in Slots /\ loc.slot \in Slots /\ loc.active # loc.slot
    BY <1>2, TypeFacts DEF Inv, OldSlotProven
  <2>2. mem.slots[loc.active].port # mem.slots[loc.slot].port
    BY <1>1, <2>1, TypeFacts DEF Records
  <2> QED BY <1>1, <1>2, <2>2 DEF OldTarget
<1> QED BY <1>2 DEF OldTarget

\* The steps that change the route.
LEMMA RouteUnrouted ==
  ASSUME HonestProxy, Inv, Following, Tidy, Unrouted, Add \/ Switch \/ Compensate PROVE Unrouted'
<1>h. \A targets : CallFails(targets) => route' = route
  BY DEF CallFails, Fault, HonestProxy
<1>1. KeepsProbe
  <2>1. \/ loc' = loc
        \/ \E b : loc' = [loc EXCEPT !.switched = b]
        \/ \E s, b : loc' = [loc EXCEPT !.active = s, !.switched = b]
    BY DEF Add, Switch, Compensate
  <2> QED BY <2>1, TypeFacts, SameProbe
<1>2. CASE Add \/ Switch
  <2>1. \/ pc' = "commit"
        \/ pc' = "abort" /\ pc \in {"add", "cutover"} /\ route' = route
    BY <1>2, <1>h DEF Add, Switch, Step
  <2>2. pc \in {"add", "cutover"}
    BY <1>2 DEF Add, Switch, Step
  <2> QED BY <1>1, <2>1, <2>2 DEF Unrouted, KeepsProbe, Apart, Probed, WithdrawSteps
<1>3. CASE Compensate
  <2>1. /\ pc \in {"compensate", "demote"} /\ pc' \in {"retire", "bestKnown", "fail"}
        /\ pc' = "retire" => route' = OldTarget
    BY <1>3 DEF Compensate, Step, CallOK
  <2>2. loc.cand \notin OldTarget
    BY <2>1, OldTargetApart
  <2> QED BY <1>1, <2>1, <2>2 DEF Unrouted, KeepsProbe, Apart, Probed, WithdrawSteps
<1> QED BY <1>2, <1>3

\* Every step keeps it.
LEMMA NextUnrouted ==
  ASSUME OneFault, HonestProxy, Inv, Following, Versions, Tidy, Unrouted, [Next]_vars
  PROVE  Unrouted'
<1>l. loc \in Locals /\ pc \in Steps
  BY TypeFacts DEF Inv, TypeOK
<1>1. CASE Prepare
  <2>1. CASE \E op \in Ops : Begin(op)
    <3>1. PICK op \in Ops : Begin(op)
      BY <2>1
    <3>2. loc'.op = op
      BY <3>1 DEF Begin, NoLocals
    <3>3. /\ op = "deploy" => pc' = "load"
          /\ op = "classicize" => pc' = "unroute"
          /\ op \notin {"deploy", "classicize"} => pc' = "drain"
      BY <3>1 DEF Begin
    <3> QED BY <3>2, <3>3 DEF Unrouted, Probed, Apart, Withdraws, WithdrawSteps, Ops
  <2>2. CASE \E r : Return(r)
    BY <2>2, UnroutedReturn
  <2>3. CASE (Drain \/ StoreDrained \/ Reconciled) /\ ~ \E r : Return(r)
    <3>1. /\ loc' = loc /\ route' = route
          /\ pc \in {"drain", "storeDrained"} /\ pc' \in {"storeDrained", AfterDrain}
      BY <2>3 DEF Drain, StoreDrained, Reconciled, Step, world
    <3>2. CASE pc' = "storeDrained"
      BY <3>1, <3>2 DEF Unrouted, Probed, Apart, WithdrawSteps
    <3>3. CASE pc' = AfterDrain
      <4>1. /\ AfterDrain \in {"load", "unroute", "launchActive", "reconciled"}
            /\ AfterDrain = "unroute" <=> loc.op = "stop"
            /\ loc.op # "classicize"
        BY DEF AfterDrain, Tidy, Modes
      <4> QED BY <3>1, <3>3, <4>1 DEF Unrouted, Probed, Apart, Withdraws, WithdrawSteps
    <3> QED BY <3>1, <3>2, <3>3
  <2> QED BY <1>1, <2>1, <2>2, <2>3 DEF Prepare
<1>2. CASE Deploy
  <2>1. ~StoreBestKnown /\ ~MigrateTo
    BY DEF StoreBestKnown, MigrateTo, Step, Versions, Tidy, Modes
  <2>2. CASE \/ LoadState \/ RecoverStaleSlots \/ StoreRecovered \/ BuildFails \/ StoreStarting
             \/ HealthPasses \/ HealthFails \/ ProxyUnreachable \/ HandOffPublicPort
    <3>1. KeepsProbe
      BY <2>2, <1>l, SameProbe DEF LoadState, RecoverStaleSlots, StoreRecovered, BuildFails,
         StoreStarting, HealthPasses, HealthFails, ProxyUnreachable, HandOffPublicPort
    <3>2. route' = route
      BY <2>2 DEF LoadState, RecoverStaleSlots, StoreRecovered, BuildFails, StoreStarting,
         HealthPasses, HealthFails, ProxyUnreachable, HandOffPublicPort, world
    <3>3. \/ pc = "load" /\ pc' \in {"recover", "migrate"}
          \/ pc = "recover" /\ pc' \in {"storeRecovered", "fail"}
          \/ pc = "storeRecovered" /\ pc' = "probe"
          \/ pc = "build" /\ pc' = "fail"
          \/ pc = "storeStarting" /\ pc' = "health"
          \/ pc = "health" /\ pc' \in {"cutover", "abort"}
          \/ pc = "cutover" /\ pc' \in {"abort", "add"}
      BY <2>2 DEF LoadState, RecoverStaleSlots, StoreRecovered, BuildFails, StoreStarting,
         HealthPasses, HealthFails, ProxyUnreachable, HandOffPublicPort, Step
    <3>4. Apartness(pc, pc')
      BY <3>3 DEF Apartness, Probed, Apart, WithdrawSteps
    <3> QED BY <3>1, <3>2, <3>4, UnroutedKept
  <2>3. CASE \/ StopCandidate \/ StoreAborted \/ Commit \/ Promote \/ RetireCandidate
             \/ StopRetired \/ StopLegacy \/ StopOld
    <3>1. KeepsProbe
      BY <2>3, <1>l, SameProbe DEF StopCandidate, StoreAborted, Commit, Promote, RetireCandidate,
         StopRetired, StopLegacy, StopOld
    <3>2. route' = route
      BY <2>3 DEF StopCandidate, StoreAborted, Commit, Promote, RetireCandidate, StopRetired,
         StopLegacy, StopOld, world
    <3>3. \/ pc = "abort" /\ pc' = "storeAborted"
          \/ pc \in {"storeAborted", "retire", "stopRetired", "stopLegacy", "stopOld"} /\ pc' = "fail"
          \/ pc = "commit" /\ pc' \in {"promote", "compensate"}
          \/ pc = "promote" /\ pc' \in {"stopLegacy", "demote"}
          \/ pc = "retire" /\ pc' = "stopRetired"
          \/ pc = "stopLegacy" /\ pc' = "stopOld"
          \/ pc = "stopOld" /\ pc' = "storeFinal"
      BY <2>3 DEF StopCandidate, StoreAborted, Commit, Promote, RetireCandidate, StopRetired,
         StopLegacy, StopOld, Step
    <3>4. Apartness(pc, pc')
      BY <3>3 DEF Apartness, Probed, Apart, WithdrawSteps
    <3> QED BY <3>1, <3>2, <3>4, UnroutedKept
  <2>4. CASE StoreFinal
    <3>1. CASE \E r : Return(r)
      BY <3>1, UnroutedReturn
    <3>2. CASE ~ \E r : Return(r)
      <4>1. loc' = loc /\ route' = route /\ pc = "storeFinal" /\ pc' = "fail"
        BY <2>4, <3>2 DEF StoreFinal, Step, world
      <4>2. KeepsProbe
        BY <4>1 DEF KeepsProbe
      <4>3. Apartness(pc, pc')
        BY <4>1 DEF Apartness, Probed, Apart, WithdrawSteps
      <4> QED BY <4>1, <4>2, <4>3, UnroutedKept
    <3> QED BY <3>1, <3>2
  <2>5. CASE UndoMigration
    BY <2>5, UnroutedReturn DEF UndoMigration
  <2> QED BY <1>2, <2>1, <2>2, <2>3, <2>4, <2>5, ProbeUnrouted, LaunchUnrouted, RouteUnrouted
      DEF Deploy
<1>3. CASE StopApp
  <2>1. CASE RemoveRoute \/ Teardown
    <3>1. loc' = loc /\ route' \in {route, {}}
      BY <2>1 DEF RemoveRoute, Teardown, CallOK, CallFails
    <3>2. \/ pc = "unroute" /\ pc' = "teardown"
          \/ pc = "teardown" /\ pc' = "storeTorn"
      BY <2>1 DEF RemoveRoute, Teardown, Step
    <3>3. Apartness(pc, pc') /\ KeepsProbe
      BY <3>1, <3>2 DEF Apartness, Probed, Apart, WithdrawSteps, KeepsProbe
    <3> QED BY <3>1, <3>3, UnroutedKept
  <2>2. CASE StoreTorn
    BY <2>2, UnroutedReturn DEF StoreTorn
  <2> QED BY <1>3, <2>1, <2>2 DEF StopApp
<1>4. CASE StartApp
  <2>1. CASE \E r : Return(r)
    BY <2>1, UnroutedReturn
  <2>2. CASE Listens \/ ListenFails \/ StoreStarted
    <3>1. /\ loc' = loc /\ route' = route
          /\ pc \in {"listen", "storeStarted"}
          /\ pc' \in {"storeStarted", "undoStart", "restoreRoute"}
      BY <2>2 DEF Listens, ListenFails, StoreStarted, Step, world
    <3>2. Apartness(pc, pc') /\ KeepsProbe
      BY <3>1 DEF Apartness, Probed, Apart, WithdrawSteps, KeepsProbe
    <3> QED BY <3>1, <3>2, UnroutedKept
  <2>3. CASE LaunchActive
    <3>1. pc = "launchActive" /\ pc' = "listen" /\ loc'.op = loc.op
      BY <2>3, <1>l DEF LaunchActive, Step, Locals
    <3> QED BY <3>1 DEF Unrouted, Probed, Apart, Withdraws, WithdrawSteps
  <2>4. CASE RestoreProxyRoute /\ ~ \E r : Return(r)
    <3>1. pc' = "drain" /\ loc'.op = "reconcile"
      BY <2>4, <1>l DEF RestoreProxyRoute, Step, Locals
    <3> QED BY <3>1 DEF Unrouted, Probed, Apart, Withdraws, WithdrawSteps
  <2> QED BY <1>4, <2>1, <2>2, <2>3, <2>4 DEF StartApp, StartEnds, UndoStart
<1>5. CASE Environment \/ UNCHANGED vars
  <2>1. ~Crash /\ ~RemoveState
    BY DEF Crash, RemoveState, OneFault, Tidy, Modes
  <2>2. loc' = loc /\ pc' = pc /\ route' \in {route, {}}
    BY <1>5, <2>1 DEF Environment, InstanceDies, ProxyReset, vars
  <2>3. Apartness(pc, pc') /\ KeepsProbe
    BY <2>2 DEF Apartness, KeepsProbe
  <2> QED BY <2>2, <2>3, UnroutedKept
<1> QED BY <1>1, <1>2, <1>3, <1>4, <1>5 DEF Next

\* It holds initially.
LEMMA InitUnrouted == Init => Unrouted
BY DEF Init, Unrouted, NoLocals, Probed, Apart, Withdraws

\* What the slots beside the active one record is not what it records.
LEMMA ActiveApart ==
  ASSUME NEW j \in Journal, NEW n, Records(j, n), NEW s \in Slots, s # j.active
  PROVE  j.slots[s].pid \notin ActivePid(j)
<1>1. CASE j.active = NoSlot
  BY <1>1 DEF ActivePid
<1>2. CASE j.active # NoSlot /\ j.slots[s].pid # 0
  <2>1. j.active \in Slots
    BY <1>2 DEF Journal
  <2>2. /\ j.slots[s].pid = j.slots[s].port
        /\ j.slots[j.active].pid \in {0, j.slots[j.active].port}
        /\ j.slots[s].port # j.slots[j.active].port
    BY <1>2, <2>1 DEF Records
  <2> QED BY <1>2, <2>2 DEF ActivePid
<1>3. CASE j.slots[s].pid = 0
  BY <1>3 DEF ActivePid
<1> QED BY <1>1, <1>2, <1>3

\* No step of an operation stops an instance that is routed, a withdrawal's aside.
LEMMA StopsApart ==
  ASSUME OneFault, HonestProxy, Inv, Following, Versions, Tidy, Unrouted, Next
  PROVE  \/ (alive \ alive') \cap route = {}
         \/ loc.op \in Withdraws /\ loc' = loc
         \/ InstanceDies
<1> DEFINE apart == (alive \ alive') \cap route = {}
<1>g. /\ Names(mem, route \cap alive) \/ pc \notin Ahead
      /\ Records(mem, next) /\ mem \in Journal
  BY TypeFacts DEF Tidy, Agreement, Journals, GoodJournal
<1>0. alive \subseteq alive' => apart
  OBVIOUS
<1>1. CASE Prepare
  <2>1. CASE Drain
    <3>1. CASE alive' = alive
      BY <3>1
    <3>2. CASE alive' # alive
      <4>1. pc = "drain" /\ alive' = alive \ (mem.retiring \ Serving(mem))
        BY <2>1, <3>2, Confirmed DEF Drain, Step, world
      <4>2. Names(mem, route \cap alive)
        BY <1>g, <4>1 DEF Ahead
      <4>3. mem.mode = "blue-green" \/ mem = NoJournal
        BY DEF Tidy, Journals, GoodJournal, Plain, Journal, TypeOK, Inv
      <4>4. mem = NoJournal => mem.retiring = {}
        BY DEF NoJournal
      <4> QED BY <4>1, <4>2, <4>3, <4>4 DEF Names, Serving
    <3> QED BY <3>1, <3>2
  <2> QED BY <1>1, <1>0, <2>1 DEF Prepare, Begin, StoreDrained, Reconciled, world
<1>2. CASE Deploy
  <2>1. ~StoreBestKnown /\ ~MigrateTo
    BY DEF StoreBestKnown, MigrateTo, Step, Versions, Tidy, Modes
  <2>2. CASE RecoverStaleSlots
    <3>1. pc = "recover" /\ alive' = alive \ ({mem.slots[s].pid : s \in StaleSlots(mem)} \cap alive)
      BY <2>2, Confirmed DEF RecoverStaleSlots, Step
    <3>2. Names(mem, route \cap alive)
      BY <1>g, <3>1 DEF Ahead
    <3>3. \A s \in StaleSlots(mem) : mem.slots[s].pid \notin ActivePid(mem)
      BY <1>g, ActiveApart DEF StaleSlots
    <3> QED BY <3>1, <3>2, <3>3 DEF Names
  <2>3. CASE HandOffPublicPort
    <3>1. pc = "cutover" /\ loc.proxyOK
      BY <2>3 DEF HandOffPublicPort, Step
    <3>2. \/ alive' = alive
          \/ ~loc.enrolled /\ route # {}
      BY <2>3 DEF HandOffPublicPort
    <3> QED BY <3>1, <3>2 DEF Unrouted, Probed
  <2>4. CASE StopCandidate \/ StopRetired
    <3>1. /\ pc \in {"abort", "stopRetired"} /\ alive' = alive \ {loc.cand}
      BY <2>4, Confirmed DEF StopCandidate, StopRetired, Step
    <3> QED BY <3>1 DEF Unrouted, Apart
  <2>5. CASE StopLegacy
    <3>1. alive' = alive \ loc.legacy
      BY <2>5, Confirmed DEF StopLegacy
    <3> QED BY <3>1 DEF Tidy, Modes
  <2>6. CASE StopOld
    <3>1. pc = "stopOld" /\ alive' = alive \ OldPid
      BY <2>6, Confirmed DEF StopOld, Step
    <3>2. /\ route \in {{}, {loc.cand}} /\ mem.slots[loc.slot].pid = loc.cand
          /\ mem.active = loc.slot
      BY <3>1 DEF Following, HeldSteps, SwitchedSteps, CommittedSteps, PromotedSteps
    <3>3. loc.cand \notin OldPid
      <4>1. CASE loc.active # NoSlot
        <5>1. loc.active \in Slots /\ loc.active # mem.active
          BY <4>1, <3>2, TypeFacts DEF Inv, OldSlotProven
        <5>2. mem.slots[loc.active].pid \notin ActivePid(mem)
          BY <1>g, <5>1, ActiveApart
        <5>3. loc.cand = 0 \/ loc.cand \in ActivePid(mem)
          BY <3>2, TypeFacts DEF ActivePid
        <5> QED BY <4>1, <5>2, <5>3 DEF OldPid
      <4> QED BY <4>1 DEF OldPid
    <3> QED BY <3>1, <3>2, <3>3
  <2> QED BY <1>2, <1>0, <2>1, <2>2, <2>3, <2>4, <2>5, <2>6 DEF Deploy, LoadState, StoreRecovered,
         ProbeProxy, BuildFails, LaunchCandidate, StoreStarting, HealthPasses, HealthFails,
         ProxyUnreachable, Add, Switch, StoreAborted, Commit, Promote, Compensate,
         RetireCandidate, StoreFinal, UndoMigration, world
<1>3. CASE StopApp
  <2>1. CASE RemoveRoute \/ StoreTorn
    BY <1>0, <2>1 DEF RemoveRoute, StoreTorn, world
  <2>2. CASE Teardown
    BY <2>2 DEF Teardown, Step, Unrouted
  <2> QED BY <1>3, <2>1, <2>2 DEF StopApp
<1>4. CASE StartApp
  <2>1. CASE UndoStart
    BY <2>1, Confirmed DEF UndoStart, Tidy, Agreement, Unserved
  <2> QED BY <1>4, <1>0, <2>1 DEF StartApp, StartEnds, LaunchActive, Listens, ListenFails,
         StoreStarted, RestoreProxyRoute, world
<1>5. CASE Environment
  BY <1>5, <1>0 DEF Environment, Crash, ProxyReset, RemoveState, world
<1> QED BY <1>1, <1>2, <1>3, <1>4, <1>5 DEF Next

\* The whole invariant holds in every reachable state.
THEOREM RoutedInvariant ==
  ASSUME OneFault, HonestProxy
  PROVE  Spec => [](Inv /\ Following /\ Versions /\ Tidy /\ Unrouted)
<1>1. Inv /\ Following /\ Versions /\ Tidy /\ Unrouted /\ [Next]_vars => Unrouted'
  BY NextUnrouted
<1> QED BY <1>1, InitUnrouted, SingleFaultInvariant, PTL DEF Spec

\* Whatever single call fails, and whichever instances die, no operation but
\* `stop` and a migration to classic stops an instance that the proxy sends
\* requests to: not as a failed candidate, a stale slot, a retired instance, the
\* holder of the public port or the instance a deploy has replaced.
THEOREM NobodyServingKilled == ASSUME OneFault, HonestProxy PROVE Spec => NoServingKill
<1>1. Inv /\ Following /\ Versions /\ Tidy /\ Unrouted /\ [Next]_vars
        => [ (alive \ alive') \cap route # {} =>
               loc.op \in {"stop", "classicize"} \/ (UNCHANGED loc /\ UNCHANGED pc) ]_vars
  BY StopsApart DEF Withdraws, InstanceDies
<1> QED BY <1>1, RoutedInvariant, PTL DEF Spec, NoServingKill
-----------------------------------------------------------------------------
(* What the operations promise: they implement Service.                    *)

\* The app is wanted, as Service sees it.
Wanted == loc.op \notin {"stop", "classicize"}

\* The steps that neither launch, prove nor route: they stop somebody nobody is
\* routed to, or touch nothing Service speaks of but the wish for the app.
LEMMA StopServes ==
  ASSUME alive' \in SUBSET alive, UNCHANGED <<proven, route>>, Wanted' = Wanted,
         Wanted => (alive \ alive') \cap route = {}
  PROVE  S!Next
<1>1. alive \ alive' \in SUBSET alive /\ alive' = alive \ (alive \ alive')
  OBVIOUS
<1> QED BY <1>1 DEF S!Next, S!Retire, Wanted

LEMMA WantServes ==
  ASSUME UNCHANGED <<alive, proven, route>>
  PROVE  S!Next
BY DEF S!Next, S!Want

LEMMA RouteServes ==
  ASSUME Inv', UNCHANGED <<alive, proven>>, Wanted' = Wanted
  PROVE  S!Next
BY DEF S!Next, S!Cutover, Wanted, Inv, OnlyProvenRouted

LEMMA LaunchServes ==
  ASSUME Inv', alive' = alive \cup {next}, UNCHANGED <<proven, route>>, Wanted' = Wanted
  PROVE  S!Next
<1>1. next \in 1 .. MaxInst
  BY DEF Inv, TypeOK, Inst
<1> QED BY <1>1 DEF S!Next, S!Launch, Wanted

LEMMA ProveServes ==
  ASSUME loc.cand \in alive, proven' = proven \cup {loc.cand}, UNCHANGED <<alive, route>>,
         Wanted' = Wanted
  PROVE  S!Next
BY DEF S!Next, S!Prove, Wanted

\* Every step of an operation is a step of Service.
LEMMA NextServes ==
  ASSUME OneFault, HonestProxy, "die" \notin Faults,
         Inv, Following, Versions, Tidy, Unrouted, Next, Inv'
  PROVE  S!Next
<1>d. ~InstanceDies /\ ~Crash /\ ~RemoveState /\ ~StoreBestKnown /\ ~MigrateTo
  BY DEF InstanceDies, Crash, RemoveState, StoreBestKnown, MigrateTo, Step, OneFault, Versions,
     Tidy, Modes
<1>a. Wanted => (alive \ alive') \cap route = {}
  BY <1>d, StopsApart DEF Wanted, Withdraws
<1>w. pc \notin WithdrawSteps => Wanted
  BY DEF Unrouted, Withdraws, Wanted
<1>s. KeepsProbe => Wanted' = Wanted
  BY DEF KeepsProbe, Wanted
<1>l. loc \in Locals
  BY TypeFacts
<1>n. loc' = NoLocals => Wanted'
  BY DEF NoLocals, Wanted
<1>1. CASE Prepare
  <2>1. CASE Drain
    <3>1. loc' = loc /\ alive' \in SUBSET alive /\ UNCHANGED <<proven, route>>
      BY <2>1 DEF Drain, StopOK, StopFails, Fault, OneFault, world
    <3> QED BY <3>1, <1>a, StopServes DEF Wanted
  <2> QED BY <1>1, <2>1, WantServes DEF Prepare, Begin, StoreDrained, Reconciled, world
<1>2. CASE Deploy
  <2>1. CASE \/ LoadState \/ StoreRecovered \/ ProbeProxy \/ BuildFails \/ StoreStarting
             \/ HealthFails \/ ProxyUnreachable \/ StoreAborted \/ Commit \/ Promote
             \/ RetireCandidate \/ StoreFinal \/ UndoMigration
    BY <2>1, WantServes DEF LoadState, StoreRecovered, ProbeProxy, BuildFails, StoreStarting,
       HealthFails, ProxyUnreachable, StoreAborted, Commit, Promote, RetireCandidate, StoreFinal,
       UndoMigration, world
  <2>2. CASE \/ RecoverStaleSlots \/ HandOffPublicPort \/ StopCandidate \/ StopRetired
             \/ StopLegacy \/ StopOld
    <3>1. /\ alive' \in SUBSET alive /\ UNCHANGED <<proven, route>>
      BY <2>2 DEF RecoverStaleSlots, HandOffPublicPort, StopCandidate, StopRetired, StopLegacy,
         StopOld, StopOK, StopFails
    <3>2. KeepsProbe
      BY <2>2, <1>l, SameProbe DEF RecoverStaleSlots, HandOffPublicPort, StopCandidate,
         StopRetired, StopLegacy, StopOld
    <3> QED BY <3>1, <3>2, <1>a, <1>s, StopServes
  <2>3. CASE Add \/ Switch \/ Compensate
    <3>1. UNCHANGED <<alive, proven>>
      BY <2>3 DEF Add, Switch, Compensate
    <3>2. \/ loc' = loc
          \/ \E b : loc' = [loc EXCEPT !.switched = b]
          \/ \E s, b : loc' = [loc EXCEPT !.active = s, !.switched = b]
      BY <2>3 DEF Add, Switch, Compensate
    <3>3. KeepsProbe
      BY <3>2, <1>l, SameProbe
    <3> QED BY <3>1, <3>3, <1>s, RouteServes
  <2>4. CASE LaunchCandidate
    <3>1. alive' = alive \cup {next} /\ UNCHANGED <<proven, route>> /\ loc'.op = loc.op
      BY <2>4, <1>l DEF LaunchCandidate, Locals
    <3> QED BY <3>1, LaunchServes DEF Wanted
  <2>5. CASE HealthPasses
    BY <2>5, ProveServes DEF HealthPasses, Wanted
  <2> QED BY <1>2, <1>d, <2>1, <2>2, <2>3, <2>4, <2>5 DEF Deploy
<1>3. CASE StopApp
  <2>1. CASE RemoveRoute
    BY <2>1, RouteServes DEF RemoveRoute, Wanted
  <2>2. CASE Teardown
    <3>1. loc' = loc /\ alive' \in SUBSET alive /\ UNCHANGED <<proven, route>>
      BY <2>2 DEF Teardown, StopOK, StopFails
    <3> QED BY <3>1, <1>a, StopServes DEF Wanted
  <2>3. CASE StoreTorn
    BY <2>3, WantServes DEF StoreTorn, world
  <2> QED BY <1>3, <2>1, <2>2, <2>3 DEF StopApp
<1>4. CASE StartApp
  <2>1. CASE StartEnds \/ ListenFails \/ StoreStarted
    BY <2>1, WantServes DEF StartEnds, ListenFails, StoreStarted, world
  <2>2. CASE LaunchActive
    <3>1. alive' = alive \cup {next} /\ UNCHANGED <<proven, route>> /\ loc'.op = loc.op
      BY <2>2, <1>l DEF LaunchActive, Locals
    <3> QED BY <3>1, LaunchServes DEF Wanted
  <2>3. CASE Listens
    BY <2>3, ProveServes DEF Listens, Wanted
  <2>4. CASE UndoStart
    <3>1. /\ alive' \in SUBSET alive /\ UNCHANGED <<proven, route>>
          /\ pc \notin WithdrawSteps /\ loc' = NoLocals
      BY <2>4 DEF UndoStart, Return, StopOK, StopFails, WithdrawSteps
    <3>2. Wanted' = Wanted
      BY <3>1, <1>w, <1>n DEF Wanted
    <3> QED BY <3>1, <3>2, <1>a, StopServes
  <2>5. CASE RestoreProxyRoute
    <3>1. UNCHANGED <<alive, proven>> /\ pc \notin WithdrawSteps
      BY <2>5 DEF RestoreProxyRoute, Step, WithdrawSteps
    <3>2. loc' = NoLocals \/ loc'.op = "reconcile"
      BY <2>5, <1>l DEF RestoreProxyRoute, Return, Locals
    <3>3. Wanted' = Wanted
      BY <3>1, <3>2, <1>w, <1>n DEF Wanted
    <3> QED BY <3>1, <3>3, RouteServes
  <2> QED BY <1>4, <2>1, <2>2, <2>3, <2>4, <2>5 DEF StartApp
<1>5. CASE Environment
  BY <1>5, <1>d, RouteServes DEF Environment, ProxyReset, Wanted
<1> QED BY <1>1, <1>2, <1>3, <1>4, <1>5 DEF Next

\* While no instance dies by itself and a single call fails, BlueGreen implements
\* Service: its initial states are Service's, and each of its steps launches,
\* proves, re-points to proven instances, stops instances nobody is routed to, or
\* is nothing Service speaks of.
THEOREM ServiceImplemented ==
  ASSUME OneFault, HonestProxy, "die" \notin Faults
  PROVE  Spec => ImplementsService
<1>1. Init => S!Init
  <2> SUFFICES ASSUME Init PROVE S!Init
    OBVIOUS
  <2>1. alive \subseteq 1 .. MaxInst
    BY InitInv DEF Inv, TypeOK, Inst
  <2>2. loc.op = "none" /\ proven = alive /\ route = alive
    BY DEF Init, NoLocals
  <2> QED BY <2>1, <2>2 DEF S!Init
<1>2. ASSUME Inv, Following, Versions, Tidy, Unrouted, [Next]_vars, Inv'
      PROVE  [S!Next]_(S!svars)
  <2>1. CASE Next
    BY <1>2, <2>1, NextServes
  <2>2. CASE UNCHANGED vars
    BY <2>2 DEF vars, S!svars
  <2> QED BY <1>2, <2>1, <2>2
<1>3. Inv /\ Following /\ Versions /\ Tidy /\ Unrouted /\ [Next]_vars /\ Inv'
        => [S!Next]_(S!svars)
  BY <1>2
<1> QED BY <1>1, <1>3, RoutedInvariant, PTL DEF Spec, ImplementsService, S!Spec

-----------------------------------------------------------------------------
(* A deploy that fails leaves the app served.                              *)

\* Up to the cutover, and while a cutover may still be compensated.
Undecided == {"drain", "storeDrained", "reconciled", "load", "recover", "storeRecovered", "probe",
              "build", "storeStarting", "health", "cutover", "launchActive"}
Revocable == {"commit", "promote", "compensate", "demote"}

\* The steps that only an app that was not served comes to.
Fresh == {"add", "listen", "storeStarted", "undoStart", "restoreRoute", "unroute", "teardown",
          "storeTorn"}

\* Who of the proxied instances served when the operation began.
Was == before \ {0}

\* Whoever served when the operation began, and did not die since, serves until
\* the cutover and is what a compensation brings back; in between the candidate
\* serves, which lives if anybody is served at all.
Served ==
  /\ Was # {} => route \cap alive # {}
  /\ pc \in Undecided => Was \subseteq route \cap alive
  /\ pc = "cutover" /\ Was # {} => loc.cand \in alive
  /\ pc \in Revocable => Was \subseteq OldTarget \cap alive
  /\ pc \in Fresh \/ loc.op \in Withdraws => Was = {}

\* Only the hand-off of the public port ends a classic process, and says so.
ClassicServes == 0 \in before => classic

LEMMA NextClassic == ASSUME Inv, ClassicServes, [Next]_vars PROVE ClassicServes'
<1>1. ASSUME NEW op \in Ops, Begin(op) PROVE 0 \in before' => classic'
  <2>1. 0 \notin route \cap alive
    BY TypeFacts
  <2> QED BY <1>1, <2>1 DEF Begin, Serves, world
<1>2. CASE HandOffPublicPort
  BY <1>2 DEF HandOffPublicPort, Step, ClassicServes
<1>3. CASE Prepare
  BY <1>1, <1>3 DEF ClassicServes, Prepare, Drain, StoreDrained, Reconciled, Step, world
<1>4. CASE Deploy /\ ~HandOffPublicPort
  <2>1. CASE LoadState \/ MigrateTo \/ RecoverStaleSlots \/ StoreRecovered \/ ProbeProxy
             \/ BuildFails \/ LaunchCandidate \/ StoreStarting
    BY <2>1 DEF ClassicServes, LoadState, MigrateTo, RecoverStaleSlots, StoreRecovered,
       ProbeProxy, BuildFails, LaunchCandidate, StoreStarting, Step, world
  <2>2. CASE HealthPasses \/ HealthFails \/ ProxyUnreachable \/ Add \/ Switch
             \/ StopCandidate \/ StoreAborted
    BY <2>2 DEF ClassicServes, HealthPasses, HealthFails, ProxyUnreachable, Add, Switch,
       StopCandidate, StoreAborted, Step, world
  <2>3. CASE Commit \/ Promote \/ Compensate \/ StoreBestKnown \/ RetireCandidate
             \/ StopRetired
    BY <2>3 DEF ClassicServes, Commit, Promote, Compensate, StoreBestKnown, RetireCandidate,
       StopRetired, Step, world
  <2>4. CASE StopLegacy \/ StopOld \/ StoreFinal \/ UndoMigration
    BY <2>4 DEF ClassicServes, StopLegacy, StopOld, StoreFinal, UndoMigration, Step, world
  <2> QED BY <1>4, <2>1, <2>2, <2>3, <2>4 DEF Deploy
<1>5. CASE StopApp \/ StartApp
  BY <1>5 DEF ClassicServes, StopApp, RemoveRoute, Teardown, StoreTorn, StartApp, StartEnds,
     LaunchActive, Listens, ListenFails, StoreStarted, UndoStart, RestoreProxyRoute, Step, world
<1>6. CASE Environment
  BY <1>6 DEF ClassicServes, Environment, Crash, InstanceDies, ProxyReset, RemoveState, world
<1>7. CASE UNCHANGED vars
  BY <1>7 DEF ClassicServes, vars
<1> QED BY <1>2, <1>3, <1>4, <1>5, <1>6, <1>7 DEF Next

\* Where a step that neither routes nor launches may lead.
Decides(from, to) ==
  /\ to \in Undecided => from \in Undecided
  /\ to = "cutover" => from = "cutover"
  /\ to \in Revocable => from \in Revocable
  /\ to \in Fresh => from \in Fresh

\* Such a step, if it stops nobody who is routed.
LEMMA ServedKept ==
  ASSUME Served, alive' \in SUBSET alive, (alive \ alive') \cap route = {}, route' = route,
         Was' = Was, loc'.op = loc.op, Decides(pc, pc'),
         pc' = "cutover" => loc'.cand = loc.cand /\ alive' = alive,
         pc' \in Revocable => loc'.active = loc.active /\ alive' = alive
                              /\ (loc.active # NoSlot => mem'.slots[loc.active].port
                                                           = mem.slots[loc.active].port)
  PROVE  Served'
<1>1. Was # {} => route' \cap alive' # {}
  BY DEF Served
<1>2. pc' \in Undecided => Was \subseteq route' \cap alive'
  BY DEF Served, Decides
<1>3. pc' = "cutover" /\ Was # {} => loc'.cand \in alive'
  BY DEF Served, Decides
<1>4. pc' \in Revocable => Was \subseteq OldTarget' \cap alive'
  BY DEF Served, Decides, OldTarget
<1>5. pc' \in Fresh \/ loc'.op \in Withdraws => Was = {}
  BY DEF Served, Decides
<1> QED BY <1>1, <1>2, <1>3, <1>4, <1>5 DEF Served

\* The end of an operation that stops nobody who is routed.
LEMMA ServedReturn ==
  ASSUME Served, NEW r, Return(r), alive' \in SUBSET alive, (alive \ alive') \cap route = {},
         route' = route \/ Was = {}, Was' = Was
  PROVE  Served'
BY DEF Served, Return, NoLocals, Undecided, Revocable, Fresh, Withdraws

\* An operation that was not served has nothing to lose.
LEMMA ServedNothing == ASSUME Was' = {} PROVE Served'
BY DEF Served

\* The cutover replaces who serves by the candidate.
LEMMA CutoverServed ==
  ASSUME HonestProxy, Inv, Following, Tidy, Served, Add \/ Switch PROVE Served'
<1>u. /\ UNCHANGED <<alive, Was, mem>> /\ loc'.op = loc.op /\ loc'.cand = loc.cand
  BY TypeFacts DEF Was, Add, Switch, Step, Locals
<1>h. \A targets : CallFails(targets) => route' = route
  BY DEF CallFails, Fault, HonestProxy
<1>1. CASE Add
  <2>1. Was = {}
    BY <1>1 DEF Add, Step, Served, Fresh
  <2> QED BY <1>u, <2>1, ServedNothing
<1>2. CASE Switch /\ pc' = "abort"
  <2>1. pc = "cutover" /\ route' = route
    BY <1>2, <1>h DEF Switch, Step
  <2> QED BY <1>2, <1>u, <2>1, ServedKept DEF Decides, Undecided, Revocable, Fresh
<1>3. CASE Switch /\ pc' # "abort"
  <2>1. /\ pc = "cutover" /\ pc' = "commit" /\ route' = {loc.cand} /\ loc'.active = loc.active
        /\ loc.active # NoSlot
    BY <1>3, TypeFacts DEF Switch, Step, UsesAdd, CallOK, Locals
  <2>2. Was \subseteq route \cap alive /\ (Was # {} => loc.cand \in alive)
        /\ (loc.op \in Withdraws => Was = {})
    BY <2>1 DEF Served, Undecided
  <2>3. mem.active = loc.active /\ Names(mem, route \cap alive) /\ Records(mem, next)
    BY <2>1 DEF Tidy, CandidateKept, OldActive, Agreement, Ahead, Journals, GoodJournal
  <2>4. route \cap alive \subseteq OldTarget
    BY <2>1, <2>3, TypeFacts DEF Names, ActivePid, OldTarget, Records
  <2>5. OldTarget' = OldTarget
    BY <1>u, <2>1 DEF OldTarget
  <2>6. Was \subseteq OldTarget' \cap alive'
    BY <1>u, <2>2, <2>4, <2>5
  <2> QED BY <1>u, <2>1, <2>2, <2>6 DEF Served, Undecided, Fresh
<1> QED BY <1>1, <1>2, <1>3

\* The compensation brings them back.
LEMMA CompensateServed ==
  ASSUME Inv, Following, Versions, Served, Compensate PROVE Served'
<1>1. /\ pc \in {"compensate", "demote"} /\ UNCHANGED <<alive, Was>>
      /\ loc'.op = loc.op
  BY TypeFacts DEF Was, Compensate, Step, Locals
<1>2. Was \subseteq OldTarget \cap alive /\ (loc.op \in Withdraws => Was = {})
      /\ route # {} /\ budget = 0
  BY <1>1 DEF Served, Revocable, Versions
<1>3. pc' = "retire" /\ route' = OldTarget
  BY <1>2 DEF Compensate, Step, CallOK, CallFails, Fault, SwitchAccepted
<1> QED BY <1>1, <1>2, <1>3 DEF Served, Undecided, Revocable, Fresh

\* Every step keeps it.
LEMMA NextServed ==
  ASSUME OneFault, HonestProxy, Inv, Following, Versions, Tidy, Unrouted, Served, [Next]_vars
  PROVE  Served'
<1>d. ~Crash /\ ~RemoveState /\ ~StoreBestKnown /\ ~MigrateTo
  BY DEF Crash, RemoveState, StoreBestKnown, MigrateTo, Step, OneFault, Versions, Tidy, Modes
<1>a. Next => \/ (alive \ alive') \cap route = {}
              \/ loc.op \in Withdraws /\ loc' = loc
              \/ InstanceDies
  BY StopsApart
<1>l. loc \in Locals /\ mem \in Journal
  BY TypeFacts
<1>1. CASE Prepare
  <2>1. CASE \E op \in Ops : Begin(op)
    <3>1. PICK op \in Ops : Begin(op)
      BY <2>1
    <3>2. /\ UNCHANGED <<alive, route>> /\ loc'.op = op
          /\ op \in Withdraws \/ pc' \in {"load", "drain"}
      BY <3>1 DEF Begin, NoLocals, Withdraws, world, Ops
    <3>3. 0 \notin route \cap alive
      BY TypeFacts
    <3>4. Was' = IF op \in Withdraws THEN {} ELSE route \cap alive
      BY <3>1, <3>3 DEF Was, Begin, Serves, Withdraws
    <3> QED BY <3>2, <3>4 DEF Served, Undecided, Revocable, Fresh
  <2>2. CASE Drain \/ StoreDrained \/ Reconciled
    <3>1. /\ alive' \in SUBSET alive /\ UNCHANGED <<route, Was>>
          /\ pc \in {"drain", "storeDrained", "reconciled"}
      BY <2>2 DEF Was, Drain, StoreDrained, Reconciled, StopOK, StopFails, Step, world
    <3>2. loc.op \in Withdraws => Was = {}
      BY DEF Served
    <3>3. CASE loc.op \in Withdraws
      BY <3>1, <3>2, <3>3, ServedNothing
    <3>4. CASE loc.op \notin Withdraws
      <4>1. (alive \ alive') \cap route = {}
        <5>1. ~InstanceDies \/ pc' = pc
          BY DEF InstanceDies
        <5>2. pc' # pc
          BY <2>2, <3>1 DEF Drain, StoreDrained, Reconciled, Step, Return, AfterDrain
        <5> QED BY <1>1, <1>a, <3>4, <5>1, <5>2 DEF Next
      <4>2. CASE \E r : Return(r)
        BY <3>1, <4>1, <4>2, ServedReturn
      <4>3. CASE ~ \E r : Return(r)
        <5>1. loc' = loc /\ pc' \in {"storeDrained", AfterDrain}
          BY <2>2, <4>3 DEF Drain, StoreDrained, Reconciled, Step
        <5>2. AfterDrain \in {"load", "launchActive", "reconciled"}
          BY <3>4 DEF AfterDrain, Withdraws
        <5> QED BY <3>1, <4>1, <5>1, <5>2, ServedKept DEF Decides, Undecided, Revocable, Fresh
      <4> QED BY <4>2, <4>3
    <3> QED BY <3>3, <3>4
  <2> QED BY <1>1, <2>1, <2>2 DEF Prepare
<1>2. CASE Deploy
  <2>n. Next
    BY <1>2 DEF Next
  <2>1. CASE \/ LoadState \/ RecoverStaleSlots \/ StoreRecovered \/ ProbeProxy \/ BuildFails
             \/ StoreStarting \/ HealthFails \/ ProxyUnreachable
    <3>1. /\ alive' \in SUBSET alive /\ UNCHANGED <<route, Was>>
      BY <2>1 DEF Was, LoadState, RecoverStaleSlots, StoreRecovered, ProbeProxy, BuildFails,
         StoreStarting, HealthFails, ProxyUnreachable, StopOK, StopFails, Step, world
    <3>2. \/ pc = "load" /\ pc' \in {"recover", "migrate"}
          \/ pc = "recover" /\ pc' \in {"storeRecovered", "fail"}
          \/ pc = "storeRecovered" /\ pc' = "probe"
          \/ pc = "probe" /\ pc' = "build"
          \/ pc = "build" /\ pc' = "fail"
          \/ pc = "storeStarting" /\ pc' = "health"
          \/ pc \in {"health", "cutover"} /\ pc' = "abort"
      BY <2>1 DEF LoadState, RecoverStaleSlots, StoreRecovered, ProbeProxy, BuildFails,
         StoreStarting, HealthFails, ProxyUnreachable, Step
    <3>3. loc'.op = loc.op
      BY <2>1, <1>l DEF LoadState, RecoverStaleSlots, StoreRecovered, ProbeProxy, BuildFails,
         StoreStarting, HealthFails, ProxyUnreachable, Locals
    <3>4. (alive \ alive') \cap route = {}
      <4>1. loc.op \notin Withdraws /\ pc' # pc
        BY <3>2 DEF Unrouted, WithdrawSteps
      <4> QED BY <1>a, <2>n, <4>1 DEF InstanceDies
    <3>5. Decides(pc, pc') /\ pc' # "cutover" /\ pc' \notin Revocable
      BY <3>2 DEF Decides, Undecided, Revocable, Fresh
    <3> QED BY <3>1, <3>3, <3>4, <3>5, ServedKept
  <2>2. CASE LaunchCandidate
    <3>1. /\ pc = "build" /\ pc' = "storeStarting" /\ alive \subseteq alive' /\ loc'.op = loc.op
          /\ UNCHANGED <<route, Was>>
      BY <2>2, <1>l DEF Was, LaunchCandidate, Step, Locals
    <3> QED BY <3>1 DEF Served, Undecided, Revocable, Fresh
  <2>3. CASE HealthPasses
    <3>1. /\ pc = "health" /\ pc' = "cutover" /\ loc' = loc /\ loc.cand \in alive
          /\ UNCHANGED <<alive, route, Was>>
      BY <2>3 DEF Was, HealthPasses, Step
    <3> QED BY <3>1 DEF Served, Undecided, Revocable, Fresh
  <2>4. CASE HandOffPublicPort
    <3>1. /\ pc = "cutover" /\ pc' \in {"add", "abort"} /\ UNCHANGED <<route, Was>>
          /\ alive' \in SUBSET alive /\ UsesAdd /\ loc.proxyOK /\ loc'.op = loc.op
      BY <2>4, <1>l DEF Was, HandOffPublicPort, Step, Locals
    <3>2. Was \subseteq route \cap alive
      BY <3>1 DEF Served, Undecided
    <3>3. CASE ~loc.enrolled
      BY <3>1, <3>2, <3>3, ServedNothing DEF Unrouted, Probed
    <3>4. CASE loc.active = NoSlot
      <4>1. ActivePid(mem) = {} /\ Names(mem, route \cap alive)
        BY <3>1, <3>4 DEF ActivePid, Tidy, CandidateKept, OldActive, Agreement, Ahead
      <4> QED BY <3>1, <3>2, <4>1, ServedNothing DEF Names
    <3> QED BY <3>1, <3>3, <3>4 DEF UsesAdd
  <2>5. CASE \/ StopCandidate \/ StoreAborted \/ RetireCandidate \/ StopRetired \/ StopLegacy
             \/ StopOld
    <3>1. /\ alive' \in SUBSET alive /\ UNCHANGED <<route, Was>> /\ loc' = loc
      BY <2>5 DEF Was, StopCandidate, StoreAborted, RetireCandidate, StopRetired, StopLegacy,
         StopOld, StopOK, StopFails, Step, world
    <3>2. /\ pc \in {"abort", "storeAborted", "retire", "stopRetired", "stopLegacy", "stopOld"}
          /\ pc' \in {"storeAborted", "fail", "stopRetired", "stopOld", "storeFinal"} /\ pc' # pc
      BY <2>5 DEF StopCandidate, StoreAborted, RetireCandidate, StopRetired, StopLegacy, StopOld,
         Step
    <3>4. (alive \ alive') \cap route = {}
      <4>1. loc.op \notin Withdraws
        BY <3>2 DEF Unrouted, WithdrawSteps
      <4> QED BY <1>a, <2>n, <3>2, <4>1 DEF InstanceDies
    <3>5. Decides(pc, pc') /\ pc' # "cutover" /\ pc' \notin Revocable
      BY <3>2 DEF Decides, Undecided, Revocable, Fresh
    <3> QED BY <3>1, <3>4, <3>5, ServedKept
  <2>6. CASE Commit \/ Promote
    <3>1. /\ UNCHANGED <<alive, route, Was>> /\ loc'.op = loc.op /\ loc'.active = loc.active
          /\ mem' \in {mem, Committed}
      BY <2>6, <1>l DEF Was, Commit, Promote, Step, world, Locals
    <3>2. /\ pc \in {"commit", "promote"} /\ pc' \in {"promote", "compensate", "stopLegacy", "demote"}
      BY <2>6 DEF Commit, Promote, Step
    <3>3. mem'.slots = mem.slots
      BY <3>1, <1>l DEF Committed, Journal
    <3>4. Decides(pc, pc') /\ pc' # "cutover"
      BY <3>2 DEF Decides, Undecided, Revocable, Fresh
    <3> QED BY <3>1, <3>3, <3>4, ServedKept
  <2>7. CASE StoreFinal \/ UndoMigration
    <3>1. /\ UNCHANGED <<alive, route, Was>> /\ pc \in {"storeFinal", "fail"}
      BY <2>7 DEF Was, StoreFinal, UndoMigration, Step, world
    <3>2. CASE \E r : Return(r)
      BY <3>1, <3>2, ServedReturn
    <3>3. CASE ~ \E r : Return(r)
      <4>1. loc' = loc /\ pc' = "fail"
        BY <2>7, <3>3 DEF StoreFinal, UndoMigration, Step
      <4> QED BY <3>1, <4>1, ServedKept DEF Decides, Undecided, Revocable, Fresh
    <3> QED BY <3>2, <3>3
  <2> QED BY <1>2, <1>d, <2>1, <2>2, <2>3, <2>4, <2>5, <2>6, <2>7, CutoverServed, CompensateServed
      DEF Deploy
<1>3. CASE StopApp
  <2>1. pc \in {"unroute", "teardown", "storeTorn"} /\ Was' = Was
    BY <1>3 DEF Was, StopApp, RemoveRoute, Teardown, StoreTorn, Step
  <2>2. Was = {}
    BY <2>1 DEF Served, Fresh
  <2> QED BY <2>1, <2>2, ServedNothing
<1>4. CASE StartApp
  <2>1. CASE StartEnds
    BY <2>1, ServedReturn DEF Was, StartEnds, world
  <2>2. CASE LaunchActive
    <3>1. /\ pc = "launchActive" /\ Was' = Was /\ Serving(mem) \cap alive = {}
      BY <2>2 DEF Was, LaunchActive, Step
    <3>2. Was \subseteq route \cap alive
      BY <3>1 DEF Served, Undecided
    <3>3. Names(mem, route \cap alive) /\ Serving(mem) = ActivePid(mem)
      BY <3>1 DEF Tidy, Agreement, Ahead, Modes, Serving
    <3> QED BY <3>1, <3>2, <3>3, ServedNothing DEF Names
  <2>3. CASE Listens \/ ListenFails \/ StoreStarted \/ UndoStart \/ RestoreProxyRoute
    <3>1. pc \in Fresh /\ Was' = Was
      BY <2>3 DEF Was, Listens, ListenFails, StoreStarted, UndoStart, RestoreProxyRoute, Step,
         Fresh
    <3>2. Was = {}
      BY <3>1 DEF Served
    <3> QED BY <3>1, <3>2, ServedNothing
  <2> QED BY <1>4, <2>1, <2>2, <2>3 DEF StartApp
<1>5. CASE InstanceDies
  <2>1. PICK i \in alive : /\ alive' = alive \ {i}
                           /\ Was' = IF i \in route \cup {loc.cand} THEN {} ELSE Was \ {i}
    BY <1>5 DEF Was, InstanceDies
  <2>2. CASE Was' = {}
    BY <2>2, ServedNothing
  <2>3. CASE Was' # {}
    <3>1. i \notin route /\ i # loc.cand /\ Was' = Was \ {i}
      BY <2>1, <2>3
    <3>2. UNCHANGED <<route, pc, loc, mem>> /\ OldTarget' = OldTarget
      BY <1>5 DEF InstanceDies, OldTarget
    <3>3. /\ Was' # {} => route' \cap alive' # {}
          /\ pc' \in Undecided => Was' \subseteq route' \cap alive'
          /\ pc' = "cutover" /\ Was' # {} => loc'.cand \in alive'
      BY <2>1, <3>1, <3>2 DEF Served
    <3>4. /\ pc' \in Revocable => Was' \subseteq OldTarget' \cap alive'
          /\ pc' \in Fresh \/ loc'.op \in Withdraws => Was' = {}
      BY <2>1, <3>1, <3>2 DEF Served
    <3> QED BY <3>3, <3>4 DEF Served
  <2> QED BY <2>2, <2>3
<1>6. CASE ProxyReset
  BY <1>6, ServedNothing DEF Was, ProxyReset
<1>7. CASE UNCHANGED vars
  BY <1>7 DEF Was, vars, Served, OldTarget
<1> QED BY <1>1, <1>2, <1>3, <1>4, <1>5, <1>6, <1>7, <1>d DEF Next, Environment

\* Whatever single call fails, a deploy that fails leaves somebody serving, if
\* somebody served when it began: the proxy's instances, unless they, or the
\* candidate once it is routed, died or were forgotten by a proxy that
\* restarted; or a classic process, unless the public port was taken from it.
\* Past that hand-off (a first enrolment) the theorem promises nothing.
THEOREM FailuresKeepService ==
  ASSUME OneFault, HonestProxy PROVE Spec => []FailedDeployKeepsService
<1>1. Inv /\ Following /\ Versions /\ Tidy /\ Unrouted /\ Served /\ [Next]_vars => Served'
  BY NextServed
<1>2. Inv /\ ClassicServes /\ [Next]_vars => ClassicServes'
  BY NextClassic
<1>3. Init => Served /\ ClassicServes
  BY DEF Was, ClassicServes, Init, Served, NoLocals, Undecided, Revocable, Fresh
<1>4. Served /\ ClassicServes => FailedDeployKeepsService
  BY DEF Was, ClassicServes, Serves, Served, FailedDeployKeepsService
<1> QED BY <1>1, <1>2, <1>3, <1>4, RoutedInvariant, PTL DEF Spec

=============================================================================
