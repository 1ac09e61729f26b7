--------------------------- MODULE RollingProofs ---------------------------
(***************************************************************************)
(* Proofs about Rolling, for any number of replicas and instances, any set *)
(* and number of faults and any situations to start from.                  *)
(*                                                                         *)
(* The inductive invariant comes in layers, each proved on top of the ones *)
(* before it:                                                              *)
(*   Inv        types, who may be routed, who may be recorded and whom the *)
(*              running operation still holds;                             *)
(*   EnrolledOK when a deploy believes that the proxy does not serve it;   *)
(*   RolledOK   the replicas a rollout has passed run what it deploys;     *)
(*   OwedOK     the replicas a rollout still owes service are in service;  *)
(*   ModesOK, NoneYetOK, KnownOK   what the journals know of the live      *)
(*              instances when at most one call has failed.                *)
(* For each action an Effect lemma lists what the action changes, without  *)
(* EXCEPT; the layers are proved from those lists.                         *)
(***************************************************************************)
EXTENDS Rolling, FiniteSetTheorems, TLAPS

\* The steps between the launch of a replacement and the end of rollOne.
FreshSteps == {"storeReplacing", "health", "swap", "discard", "abandon"}
SwappedSteps == {"commit", "drainOld", "bestKnown"}
RevertedSteps == {"compensate", "storeBack", "stopCandidate"}
ReplicaSteps == FreshSteps \cup SwappedSteps \cup RevertedSteps

StopSteps == {"unroute", "teardown", "storeTorn"}
StartSteps == {"start", "storeStarted", "undoStart"}
DeploySteps == Steps \ (StopSteps \cup StartSteps \cup {"idle"})

Ports(reps) == {reps[k].port : k \in Keys}

-----------------------------------------------------------------------------
(* Who may be routed, and who may be stopped.                              *)

\* The records of a journal name instances of P, each its own.
JournalIn(j, P) ==
  /\ j.slot \in P \cup {0}
  /\ \A k \in Keys : /\ j.reps[k].port \in P \cup {0}
                     /\ j.reps[k].pid \in {0, j.reps[k].port}
  /\ \A k, m \in Keys : k # m /\ j.reps[k].port = j.reps[m].port => j.reps[k].port = 0

JournalsOK == JournalIn(disk, proven) /\ JournalIn(mem, proven) /\ JournalIn(loc.pre, proven)

\* Instances have numbers below the next one.
Launched == \A i \in alive \cup proven : i < next

\* Which operation is at which step, and with how many replicas.
OpOK ==
  /\ pc \in StopSteps => loc.op = "stop"
  /\ pc \in StartSteps => loc.op = "start"
  /\ pc \in DeploySteps => loc.op = "deploy" /\ loc.n >= 1
  /\ pc \in ReplicaSteps => loc.key < loc.n
  /\ pc \in {"load", "migrate", "plan", "build", "roll"} /\ ~loc.progressed => loc.key = 0
  /\ pc \in {"load", "migrate", "plan", "build"} => ~loc.progressed
  /\ pc \in {"stopLegacy", "storeFinal", "promote"} => loc.progressed
  /\ pc \in {"storeFinal", "promote"} => loc.key = loc.n

\* What is going to be stopped is no replica any more.
RetiredOK ==
  /\ loc.legacy \cup loc.surplus \subseteq proven
  /\ pc \in {"load", "migrate"} => loc.legacy = {} /\ loc.surplus = {}
  /\ pc \in DeploySteps \ {"load", "migrate"} =>
       (loc.legacy \cup loc.surplus) \cap Ports(mem.reps) = {}

\* The replica that is being replaced, if there is one.
OldOK ==
  /\ loc.old.port \in proven \cup {0} /\ loc.old.pid \in {0, loc.old.port}
  /\ loc.old.port \notin loc.legacy \cup loc.surplus
  /\ pc \in {"load", "migrate", "plan"} => loc.old.port = 0

\* The replacement, before it is in the journal, while it is, and after that.
CandOK ==
  /\ pc \in ReplicaSteps \cup {"storeStarted", "undoStart"} => loc.cand \in Inst /\ loc.cand < next
  /\ pc \in ReplicaSteps => loc.cand \notin loc.legacy \cup loc.surplus \cup {loc.old.port}
  /\ pc \in FreshSteps \cup RevertedSteps =>
       /\ loc.cand \notin Ports(mem.reps)
       /\ mem.reps[loc.key].port = loc.old.port /\ mem.reps[loc.key].pid = loc.old.pid
  /\ pc \in RevertedSteps => mem.reps[loc.key] = loc.old
  /\ pc \in SwappedSteps =>
       /\ mem.reps[loc.key] = Candidate
       /\ loc.old.port # 0 => loc.old.port \notin Ports(mem.reps)
  /\ pc \in SwappedSteps \cup RevertedSteps \cup {"swap"} => loc.cand \in proven

\* Who is routed.
RouteOK ==
  /\ route \subseteq proven \cup {0}
  /\ pc \in FreshSteps /\ ~misled => loc.cand \notin route
  /\ pc \in {"storeBack", "stopCandidate", "storeStarted", "undoStart"} => loc.cand \notin route
  /\ pc \in {"commit", "drainOld", "stopLegacy", "storeFinal", "promote"}
       => route = HealthyTargets(mem.reps)
  /\ pc = "roll" /\ loc.progressed => route = HealthyTargets(mem.reps)

Inv == TypeOK /\ JournalsOK /\ Launched /\ OpOK /\ RetiredOK /\ OldOK /\ CandOK /\ RouteOK

-----------------------------------------------------------------------------
(* Whether the application is enrolled.                                    *)

\* A deploy that takes its app for one the proxy does not serve is right, or a
\* failed call told it so; and it has replaced no replica yet.
EnrolledOK ==
  /\ pc \in {"build", "roll", "storeReplacing", "health", "swap"} =>
       loc.enrolled \/ (loc.key = 0 /\ (route = {} \/ misled))
  /\ pc \in {"commit", "drainOld", "stopLegacy"} => loc.enrolled

-----------------------------------------------------------------------------
(* What a deploy that completes leaves.                                    *)

\* The replicas rolled so far run the new version.
RolledOK ==
  /\ pc \in DeploySteps \ {"load", "migrate", "plan"} =>
       \A k \in Keys : k >= loc.n => mem.reps[k] = NoReplica
  /\ pc \in DeploySteps =>
       \A k \in Keys : k < loc.key =>
         /\ mem.reps[k].pid \in alive /\ mem.reps[k].ver = loc.tver
         /\ mem.reps[k].port = mem.reps[k].pid /\ mem.reps[k].status = "running"
  /\ pc \in ReplicaSteps \ {"stopCandidate", "discard"} => loc.cand \in alive
  /\ pc \in {"storeFinal", "promote"} => mem.ver = loc.tver
  /\ pc = "promote" => disk = mem

-----------------------------------------------------------------------------
(* Capacity.                                                               *)

\* The replicas that were serving when the deploy began, and stay.
Owing == {k \in Keys : k < loc.n /\ loc.pre.reps[k].pid # 0}

Serves(rec) == rec.status = "running" /\ rec.pid = rec.port /\ rec.pid \in alive

OwedOK ==
  /\ owed # 0 => pc = "idle" \/ loc.op = "deploy"
  /\ pc = "load" /\ owed # 0 =>
       /\ Whole(disk) /\ owed = Cardinality({k \in Keys : k < loc.n /\ disk.reps[k].pid # 0})
  /\ pc \in DeploySteps \ {"load"} /\ owed # 0 /\ ~misled =>
       /\ owed = Cardinality(Owing)
       /\ pc # "migrate"
       /\ pc \in {"plan", "build"} => route # {}
       /\ pc # "plan" => loc.enrolled /\ (pc \in SwappedSteps \cup RevertedSteps => loc.was)
       /\ \A k \in Owing : k # loc.key \/ pc \notin ReplicaSteps => Serves(mem.reps[k])
       /\ pc \in ReplicaSteps \ {"drainOld"} /\ loc.key \in Owing => Serves(loc.old)

-----------------------------------------------------------------------------
(* Nothing is lost.                                                        *)

OneFault == budget + 1 >= MaxFaults

\* A journal keeps a blue-green slot or replicas, as its mode says.
Modes(j) == /\ j.mode # "rolling" => j.reps = NoReplicas
            /\ j.mode # "blue-green" => j.slot = 0

ModesOK ==
  /\ Modes(disk) /\ Modes(mem) /\ Modes(loc.pre)
  /\ pc \notin {"idle", "load", "migrate"} => mem.mode = "rolling"
  /\ pc = "migrate" => mem.mode = "blue-green"
  /\ pc = "undo" => ~loc.progressed

\* Until its first replica is in rotation, a deploy that migrated an app has
\* recorded none, so that undoMigration forgets none.
NoneYetOK ==
  OneFault /\ ~loc.progressed /\ loc.pre.mode = "blue-green" /\ pc \in DeploySteps \ {"load", "migrate"}
    => /\ loc.old.pid = 0
       /\ \A k \in Keys : k # loc.key \/ pc \notin {"commit", "drainOld"} => mem.reps[k].pid = 0

\* The instances that live and are not in memory, or not in deploy.json, yet.
Unlisted == IF pc \in FreshSteps \cup RevertedSteps \cup {"undoStart"} THEN {loc.cand}
            ELSE IF pc \in {"commit", "drainOld"} THEN {loc.old.pid} ELSE {}

Unwritten == IF pc \in FreshSteps \cup {"commit", "stopCandidate", "undoStart", "storeStarted"}
               THEN {loc.cand}
             ELSE IF pc = "drainOld" THEN {loc.old.pid} ELSE {}

\* Compensation follows a first fault, its failure a second one.
KnownOK ==
  /\ pc \in RevertedSteps => budget < MaxFaults
  /\ pc = "bestKnown" => budget + 1 < MaxFaults
  /\ OneFault /\ pc # "idle" =>
       /\ alive \subseteq Recorded(mem) \cup strays \cup Unlisted
       /\ pc \notin {"compensate", "storeBack"} => alive \subseteq Recorded(disk) \cup strays \cup Unwritten

USE MaxInstAssumption, MaxFaultsAssumption, MaxReplicasAssumption, OriginsAssumption, FleetAssumption

-----------------------------------------------------------------------------
(* Records.                                                                *)

\* PIDs: the numbers of instances and zero.
LEMMA PidFacts ==
  /\ 0 \in Pid /\ Inst \subseteq Pid /\ Pid \ {0} \subseteq Inst
  /\ Version = Pid
BY DEF Pid, Inst, Version

\* The fields of a replica.
LEMMA ReplicaFields ==
  ASSUME NEW r \in Replica
  PROVE  /\ r.pid \in Pid /\ r.port \in Pid /\ r.ver \in Version
         /\ r.status \in {"stopped", "replacing", "running"}
         /\ r = [pid |-> r.pid, port |-> r.port, ver |-> r.ver, status |-> r.status]
BY DEF Replica

\* The fields of a journal.
LEMMA JournalFields ==
  ASSUME NEW j \in Journal
  PROVE  /\ j.mode \in {"absent", "rolling", "blue-green"} /\ j.slot \in Pid
         /\ j.reps \in [Keys -> Replica] /\ j.ver \in Version
BY DEF Journal

\* The fields of the local variables.
LEMMA LocalFields ==
  ASSUME NEW v \in Locals
  PROVE  /\ v.op \in Ops \cup {"none"} /\ v.n \in 0 .. MaxReplicas /\ v.pre \in Journal
         /\ v.legacy \subseteq Inst /\ v.surplus \subseteq Inst
         /\ v.enrolled \in BOOLEAN /\ v.was \in BOOLEAN /\ v.key \in 0 .. MaxReplicas
         /\ v.old \in Replica /\ v.cand \in Pid /\ v.tver \in Version
         /\ v.progressed \in BOOLEAN
BY DEF Locals

\* Nothing recorded, nothing held.
LEMMA EmptyFacts ==
  /\ NoReplica \in Replica /\ NoReplicas \in [Keys -> Replica]
  /\ NoJournal \in Journal /\ NoLocals \in Locals
  /\ NoReplica.pid = 0 /\ NoReplica.port = 0
  /\ NoJournal.reps = NoReplicas /\ NoJournal.slot = 0 /\ NoJournal.mode = "absent"
  /\ NoLocals.pre = NoJournal /\ NoLocals.old = NoReplica
  /\ NoLocals.legacy = {} /\ NoLocals.surplus = {} /\ NoLocals.op = "none"
<1>1. NoReplica \in Replica /\ NoReplicas \in [Keys -> Replica]
  BY PidFacts DEF NoReplica, NoReplicas, Replica
<1>2. NoJournal \in Journal
  BY <1>1, PidFacts DEF NoJournal, Journal
<1>3. NoLocals \in Locals
  BY <1>1, <1>2, PidFacts DEF NoLocals, Locals
<1> QED BY <1>1, <1>2, <1>3 DEF NoReplica, NoJournal, NoLocals

\* Writing a record changes one replica and nothing else.
LEMMA SetReplicaFacts ==
  ASSUME NEW j \in Journal, NEW k \in Keys, NEW rec \in Replica
  PROVE  /\ SetReplica(j, k, rec) \in Journal
         /\ SetReplica(j, k, rec).mode = j.mode /\ SetReplica(j, k, rec).slot = j.slot
         /\ SetReplica(j, k, rec).ver = j.ver
         /\ SetReplica(j, k, rec).reps[k] = rec
         /\ \A m \in Keys \ {k} : SetReplica(j, k, rec).reps[m] = j.reps[m]
BY DEF SetReplica, Journal

\* A replica that is being replaced keeps its instance.
LEMMA ReplacingFacts ==
  ASSUME NEW r \in Replica
  PROVE  /\ [r EXCEPT !.status = "replacing"] \in Replica
         /\ [r EXCEPT !.status = "replacing"].port = r.port
         /\ [r EXCEPT !.status = "replacing"].pid = r.pid
BY DEF Replica

\* A replica is restarted on a new instance.
LEMMA RestartedFacts ==
  ASSUME NEW r \in Replica, NEW i \in Inst
  PROVE  LET t == [r EXCEPT !.pid = i, !.port = i, !.status = "running"] IN
           t \in Replica /\ t.port = i /\ t.pid = i
BY PidFacts DEF Replica

\* Reaping takes the PID of a dead process, and nothing from a live one.
LEMMA ReapedFacts ==
  ASSUME NEW r \in Replica
  PROVE  /\ Reaped(r) \in Replica /\ Reaped(r).port = r.port /\ Reaped(r).pid \in {0, r.pid}
         /\ r.pid \in alive => Reaped(r) = r
         /\ r = NoReplica => Reaped(r) = r
         /\ Reaped(r).pid \in alive \cup {0}
<1>1. CASE r.pid \in alive \cup {0}
  BY <1>1 DEF Reaped
<1>2. CASE r.pid \notin alive \cup {0}
  <2>1. Reaped(r) \in Replica /\ Reaped(r).port = r.port /\ Reaped(r).pid = 0
    BY <1>2, PidFacts DEF Replica, Reaped
  <2> QED BY <1>2, <2>1, EmptyFacts
<1> QED BY <1>1, <1>2

\* A torn down replica keeps its port.
LEMMA TornDownFacts ==
  ASSUME NEW r \in Replica
  PROVE  TornDown(r) \in Replica /\ TornDown(r).port = r.port /\ TornDown(r).pid = 0
BY PidFacts DEF Replica, TornDown

\* A journal keeps its instances when more are proven.
LEMMA JournalGrows ==
  ASSUME NEW P, NEW Q, P \subseteq Q, NEW j, JournalIn(j, P)
  PROVE  JournalIn(j, Q)
BY DEF JournalIn

\* A journal whose ports are those of another one, or none, and so its PIDs.
LEMMA JournalShrinks ==
  ASSUME NEW P, NEW j, NEW i, JournalIn(j, P), i.slot \in {0, j.slot},
         \A k \in Keys : /\ i.reps[k].port \in {0, j.reps[k].port}
                         /\ i.reps[k].pid \in {0, i.reps[k].port}
  PROVE  JournalIn(i, P)
BY DEF JournalIn

\* An empty journal names nobody.
LEMMA EmptyIn == ASSUME NEW P PROVE JournalIn(NoJournal, P)
BY DEF JournalIn, NoJournal, NoReplicas, NoReplica

\* A record with an instance of its own may be written.
LEMMA SetReplicaIn ==
  ASSUME NEW P, NEW j \in Journal, JournalIn(j, P), NEW k \in Keys, NEW rec \in Replica,
         rec.port \in P \cup {0}, rec.pid \in {0, rec.port},
         rec.port # 0 => \A m \in Keys \ {k} : j.reps[m].port # rec.port
  PROVE  JournalIn(SetReplica(j, k, rec), P)
<1>1. PICK i : /\ i = SetReplica(j, k, rec)
               /\ i.slot = j.slot /\ i.reps[k] = rec
               /\ \A m \in Keys \ {k} : i.reps[m] = j.reps[m]
  <2>1. /\ SetReplica(j, k, rec).slot = j.slot /\ SetReplica(j, k, rec).reps[k] = rec
        /\ \A m \in Keys \ {k} : SetReplica(j, k, rec).reps[m] = j.reps[m]
    BY SetReplicaFacts
  <2> QED BY <2>1, Zenon
<1>2. i.slot \in P \cup {0}
  BY <1>1 DEF JournalIn
<1>3. \A m \in Keys : i.reps[m].port \in P \cup {0} /\ i.reps[m].pid \in {0, i.reps[m].port}
  BY <1>1 DEF JournalIn
<1>4. \A m, q \in Keys : m # q /\ i.reps[m].port = i.reps[q].port => i.reps[m].port = 0
  BY <1>1 DEF JournalIn
<1> QED BY <1>1, <1>2, <1>3, <1>4 DEF JournalIn

\* healthyTargets are ports of replicas, or :0.
LEMMA HealthyFacts ==
  ASSUME NEW reps
  PROVE  /\ HealthyTargets(reps) \subseteq Ports(reps) \cup {0}
         /\ HealthyTargets(reps) # {}
         /\ \A k \in Keys : reps[k].status = "running" /\ reps[k].port # 0
              => reps[k].port \in HealthyTargets(reps)
BY DEF HealthyTargets, Ports, Nowhere

-----------------------------------------------------------------------------
(* The outcomes of the calls that can fail.                                *)

\* Whatever becomes of a Store, deploy.json has its old or its new contents.
LEMMA StoreFacts ==
  ASSUME TypeOK, NEW j, StoreOK(j) \/ StoreFails(j)
  PROVE  disk' \in {disk, j} /\ budget' \in 0 .. budget
BY DEF TypeOK, StoreOK, StoreFails, Fault, NoFault

\* Whatever becomes of a stop, nobody else is stopped.
LEMMA StopFacts ==
  ASSUME TypeOK, NEW S, StopOK(S) \/ StopFails(S)
  PROVE  /\ alive' \subseteq alive /\ alive \ alive' \subseteq S /\ budget' \in 0 .. budget
         /\ strays \subseteq strays' /\ strays' \subseteq strays \cup alive
         /\ alive' \cap S \subseteq strays'
BY DEF TypeOK, StopOK, StopFails, Fault, NoFault

\* Whatever becomes of a proxy call, the old or the new targets are routed,
\* and only a lost reply hides which.
LEMMA CallFacts ==
  ASSUME TypeOK, NEW T, CallOK(T) \/ CallFails(T)
  PROVE  /\ route' \in {route, T} /\ budget' \in 0 .. budget
         /\ misled' \in BOOLEAN /\ (misled => misled')
<1>1. misled' = misled \/ misled' = TRUE
  BY DEF CallOK, CallFails
<1>2. misled' \in BOOLEAN /\ (misled => misled')
  BY <1>1, Zenon DEF TypeOK
<1>3. route' \in {route, T} /\ budget' \in 0 .. budget
  BY DEF TypeOK, CallOK, CallFails, Fault, NoFault
<1> QED BY <1>2, <1>3

\* A call that fails is a fault.
LEMMA CallFailsFacts ==
  ASSUME TypeOK, NEW T, CallFails(T)
  PROVE  /\ route' \in {route, T} /\ budget' \in 0 .. budget /\ budget' < budget
         /\ misled' \in BOOLEAN /\ (misled => misled')
         /\ ~misled' => route' = route
<1>1. (misled' = misled /\ route' = route) \/ misled' = TRUE
  BY DEF CallFails
<1>2. misled' \in BOOLEAN /\ (misled => misled') /\ (~misled' => route' = route)
  BY <1>1, Zenon DEF TypeOK
<1>3. route' \in {route, T} /\ budget' \in 0 .. budget /\ budget' < budget
  BY DEF TypeOK, CallFails, Fault
<1> QED BY <1>2, <1>3

\* A step meets at most the faults that are left.
LEMMA FaultFacts ==
  ASSUME TypeOK, NoFault \/ \E kind : Fault(kind)
  PROVE  budget' \in 0 .. budget
BY DEF TypeOK, Fault, NoFault

-----------------------------------------------------------------------------
(* Steps that keep the local variables and the ports in memory.            *)

\* What is said at the second step was said at the first one.
Flows(from, to) ==
  /\ to \in Steps
  /\ to \in StopSteps => from \in StopSteps
  /\ to \in StartSteps => from \in StartSteps
  /\ to \in DeploySteps => from \in DeploySteps \ {"load", "migrate"}
  /\ to \in FreshSteps => from \in FreshSteps
  /\ to \in SwappedSteps => from \in SwappedSteps
  /\ to \in RevertedSteps => from = "storeBack" /\ to = "stopCandidate"
  /\ to \in {"storeStarted", "undoStart"} => from \in {"storeStarted", "undoStart"}
  /\ to = "swap" => from = "swap"
  /\ to = "roll" => from = "stopLegacy"
  /\ to = "storeFinal" => from = "roll" /\ loc.key = loc.n
  /\ to = "promote" => from = "storeFinal"
  /\ to \notin {"load", "migrate", "plan", "build", "stopLegacy", "commit", "drainOld", "storeBack"}

\* The rest of the state stays within its types.
WorldOK == /\ alive' \subseteq alive /\ strays' \subseteq Inst
           /\ classic' \in BOOLEAN /\ current' \in Version /\ misled' \in BOOLEAN
           /\ budget' \in 0 .. budget
           /\ UNCHANGED <<proven, next>>

KeepsReplicas == mem' \in Journal /\ mem'.reps = mem.reps /\ mem'.slot = mem.slot

\* Such a step preserves the invariant.
LEMMA KeptInv ==
  ASSUME Inv, WorldOK, loc' = loc, KeepsReplicas, disk' \in {disk, mem, mem'},
         Flows(pc, pc'), UNCHANGED <<owed, result>>,
         route' \subseteq proven \cup {0}, route' = route \/ pc' \in {"discard", "teardown"},
         misled => misled', misled' \/ route' = route \/ pc' = "teardown"
  PROVE  Inv'
<1>1. TypeOK'
  BY PidFacts DEF Inv, TypeOK, WorldOK, KeepsReplicas, Flows
<1>2. JournalsOK'
  BY DEF Inv, JournalsOK, JournalIn, WorldOK, KeepsReplicas
<1>3. Launched'
  BY DEF Inv, Launched, WorldOK
<1>4. OpOK'
  BY DEF Inv, OpOK, Flows, DeploySteps, ReplicaSteps, FreshSteps, SwappedSteps, RevertedSteps,
     StopSteps, StartSteps
<1>5. RetiredOK' /\ OldOK'
  BY DEF Inv, RetiredOK, OldOK, WorldOK, KeepsReplicas, Flows
<1>6. CandOK'
  BY DEF Inv, CandOK, WorldOK, KeepsReplicas, Flows, ReplicaSteps, RevertedSteps, Candidate
<1>7. RouteOK'
  <2>1. CASE pc' \in {"discard", "teardown"}
    BY <2>1 DEF Inv, RouteOK, CandOK, WorldOK, Flows, FreshSteps
  <2>2. CASE pc' \notin {"discard", "teardown"} /\ route' = route
    <3>1. /\ pc' \in FreshSteps /\ ~misled' => loc.cand \notin route
          /\ pc' \in {"storeBack", "stopCandidate", "storeStarted", "undoStart"} => loc.cand \notin route
      BY <2>2 DEF Inv, RouteOK, Flows, RevertedSteps
    <3>2. pc' \in {"commit", "drainOld", "stopLegacy", "storeFinal", "promote", "roll"}
            => route = HealthyTargets(mem.reps)
      BY DEF Inv, TypeOK, Locals, RouteOK, OpOK, Flows, DeploySteps, StopSteps, StartSteps, Steps
    <3> QED BY <2>2, <3>1, <3>2 DEF Inv, RouteOK, WorldOK, KeepsReplicas
  <2> QED BY <2>1, <2>2
<1> QED BY <1>1, <1>2, <1>3, <1>4, <1>5, <1>6, <1>7 DEF Inv

\* Instances have numbers.
LEMMA LaunchedFacts ==
  ASSUME Inv
  PROVE  next \in Nat /\ \A i \in alive \cup proven : i \in Nat /\ i < next
<1>1. next \in Nat /\ alive \cup proven \subseteq Inst /\ \A i \in alive \cup proven : i < next
  BY DEF Inv, TypeOK, Launched
<1> QED BY <1>1 DEF Inst

\* An operation that returns leaves nothing but the world and the disk.
LEMMA ReturnInv ==
  ASSUME Inv, WorldOK, NEW r \in {"none", "ok", "deployed", "failed", "crashed"}, Return(r),
         disk' \in Journal, JournalIn(disk', proven), owed' = owed,
         route' \subseteq proven \cup {0}
  PROVE  Inv'
<1>1. TypeOK'
  BY PidFacts, EmptyFacts DEF Inv, TypeOK, WorldOK, Return, Steps
<1>2. JournalsOK'
  BY EmptyFacts, EmptyIn DEF JournalsOK, WorldOK, Return
<1>3. Launched'
  BY DEF Inv, Launched, WorldOK
<1>4. OpOK' /\ RetiredOK' /\ OldOK' /\ CandOK' /\ RouteOK'
  BY EmptyFacts DEF OpOK, RetiredOK, OldOK, CandOK, RouteOK, Return, WorldOK, Inv, DeploySteps,
     ReplicaSteps, FreshSteps, SwappedSteps, RevertedSteps, StopSteps, StartSteps
<1> QED BY <1>1, <1>2, <1>3, <1>4 DEF Inv

-----------------------------------------------------------------------------
(* Initially.                                                              *)

\* A whole fleet.
LEMMA FleetFacts ==
  ASSUME "rolling" \in Origins
  PROVE  /\ Fleet(MaxReplicas) \in [Keys -> Replica]
         /\ \A k \in Keys : /\ Fleet(MaxReplicas)[k].port = k + 1 /\ k + 1 \in 1 .. MaxReplicas
                            /\ Fleet(MaxReplicas)[k].pid = k + 1
<1>1. ASSUME NEW k \in Keys
      PROVE  /\ k < MaxReplicas /\ k + 1 \in Pid /\ 1 \in Version /\ k + 1 \in 1 .. MaxReplicas
             /\ [pid |-> k + 1, port |-> k + 1, ver |-> 1, status |-> "running"] \in Replica
  BY DEF Keys, Pid, Version, Replica
<1>2. \A k \in Keys : Fleet(MaxReplicas)[k] =
        [pid |-> k + 1, port |-> k + 1, ver |-> 1, status |-> "running"]
  BY <1>1 DEF Fleet
<1>3. Fleet(MaxReplicas) \in [Keys -> Replica]
  BY <1>1 DEF Fleet
<1> QED BY <1>1, <1>2, <1>3

\* What an origin leaves in deploy.json.
LEMMA OriginDisk ==
  ASSUME NEW o \in Origins, Origin(o)
  PROVE  /\ alive \subseteq Inst /\ next \in 1 .. MaxInst + 1 /\ \A i \in alive : i < next
         /\ current \in Version /\ classic \in BOOLEAN /\ Cardinality(alive) \in Nat
         /\ disk \in Journal /\ JournalIn(disk, alive) /\ alive = Recorded(disk)
<1>1. CASE o = "rolling"
  <2>1. /\ alive = 1 .. MaxReplicas /\ MaxReplicas <= MaxInst /\ next = Cardinality(alive) + 1
        /\ disk = [mode |-> "rolling", slot |-> 0, reps |-> Fleet(MaxReplicas), ver |-> 1]
    BY <1>1 DEF Origin
  <2>2. Cardinality(alive) = MaxReplicas
    BY <2>1, FS_Interval
  <2>3. disk \in Journal /\ disk.reps = Fleet(MaxReplicas) /\ disk.slot = 0
    BY <1>1, <2>1, FleetFacts DEF Journal, Pid, Version
  <2>4. JournalIn(disk, alive)
    BY <1>1, <2>1, <2>3, FleetFacts DEF JournalIn, Keys
  <2>5. alive = Recorded(disk)
    <3>1. \A i \in 1 .. MaxReplicas : i - 1 \in Keys /\ i = Fleet(MaxReplicas)[i - 1].pid
      BY <1>1, FleetFacts DEF Keys
    <3>2. Pids(disk) = 1 .. MaxReplicas
      BY <1>1, <2>3, <3>1, FleetFacts DEF Pids
    <3> QED BY <2>1, <2>3, <3>2 DEF Recorded
  <2> QED BY <1>1, <2>1, <2>2, <2>3, <2>4, <2>5 DEF Origin, Inst, Version
<1>2. CASE o = "bluegreen"
  <2>1. /\ alive = {1} /\ next = Cardinality(alive) + 1
        /\ disk = [mode |-> "blue-green", slot |-> 1, reps |-> NoReplicas, ver |-> 1]
    BY <1>2 DEF Origin
  <2>2. Cardinality(alive) = 1
    BY <2>1, FS_Singleton
  <2>3. disk \in Journal /\ disk.reps = NoReplicas /\ disk.slot = 1
    BY <2>1, EmptyFacts DEF Journal, Pid, Version
  <2>4. JournalIn(disk, alive)
    BY <2>1, <2>3 DEF JournalIn, NoReplicas, NoReplica
  <2>5. alive = Recorded(disk)
    BY <2>1, <2>3 DEF Recorded, Pids, NoReplicas, NoReplica
  <2> QED BY <1>2, <2>1, <2>2, <2>3, <2>4, <2>5 DEF Origin, Inst, Version
<1>3. CASE o \notin {"rolling", "bluegreen"}
  <2>1. alive = {} /\ disk = NoJournal /\ next = IF o = "classic" THEN 2 ELSE Cardinality(alive) + 1
    BY <1>3 DEF Origin
  <2>2. Cardinality(alive) = 0
    BY <2>1, FS_EmptySet
  <2>3. alive = Recorded(disk)
    BY <2>1, EmptyFacts DEF Recorded, Pids, NoReplicas, NoReplica
  <2>4. next \in 1 .. MaxInst + 1 /\ current \in Version /\ classic \in BOOLEAN
    BY <1>3, <2>1, <2>2 DEF Origin, Version
  <2> QED BY <2>1, <2>2, <2>3, <2>4, EmptyFacts, EmptyIn
<1> QED BY <1>1, <1>2, <1>3

\* Every situation an application may start from satisfies the invariant.
LEMMA InitInv == Init => Inv
<1> SUFFICES ASSUME NEW o \in Origins, Origin(o), Init PROVE Inv
  BY DEF Init
<1>1. TypeOK
  <2>1. /\ alive \subseteq Inst /\ next \in 1 .. MaxInst + 1 /\ disk \in Journal
        /\ current \in Version /\ classic \in BOOLEAN
    BY OriginDisk
  <2>2. pc \in Steps /\ budget \in 0 .. MaxFaults /\ owed \in 0 .. MaxReplicas
    BY DEF Init, Steps
  <2> QED BY <2>1, <2>2, EmptyFacts, PidFacts DEF Init, TypeOK
<1>2. JournalsOK /\ Launched
  BY OriginDisk, EmptyFacts, EmptyIn DEF Init, JournalsOK, Launched
<1>3. OpOK /\ RetiredOK /\ OldOK /\ CandOK /\ RouteOK
  BY EmptyFacts DEF Init, OpOK, RetiredOK, OldOK, CandOK, RouteOK, DeploySteps,
     ReplicaSteps, FreshSteps, SwappedSteps, RevertedSteps, StopSteps, StartSteps
<1> QED BY <1>1, <1>2, <1>3 DEF Inv

-----------------------------------------------------------------------------
(* The steps that only store, stop, ask or decide.                         *)

\* Which steps follow which.
LEMMA FlowFacts ==
  /\ Flows("build", "undo") /\ Flows("roll", "undo") /\ Flows("failedAt", "undo")
  /\ \A from \in {"roll", "abandon", "storeRestored", "bestKnown", "storeBack", "stopCandidate"} :
       Flows(from, "failedAt")
  /\ Flows("storeReplacing", "health") /\ Flows("storeReplacing", "abandon")
  /\ Flows("health", "discard") /\ Flows("swap", "swap") /\ Flows("swap", "discard")
  /\ Flows("discard", "storeRestored")
  /\ Flows("storeBack", "stopCandidate") /\ Flows("stopLegacy", "roll")
  /\ loc.key = loc.n => Flows("roll", "storeFinal")
  /\ Flows("storeFinal", "promote") /\ Flows("unroute", "teardown")
  /\ Flows("teardown", "storeTorn")
  /\ Flows("storeStarted", "start") /\ Flows("storeStarted", "undoStart")
BY DEF Flows, Steps, StopSteps, StartSteps, DeploySteps, FreshSteps, SwappedSteps, RevertedSteps

\* The steps that store the journal in memory, whatever becomes of the write.
LEMMA StoreStepInv ==
  ASSUME Inv, \/ StoreReplacing \/ StoreRestored \/ StoreBestKnown \/ StoreBack \/ StoreStarted
              \/ StoreFinal /\ pc' = "promote"
  PROVE  Inv'
<1>1. disk' \in {disk, mem} /\ budget' \in 0 .. budget
  BY StoreFacts DEF Inv, StoreBestEffort, StoreReplacing, StoreRestored, StoreBestKnown,
     StoreBack, StoreStarted, StoreFinal
<1>2. mem' = mem /\ loc' = loc /\ UNCHANGED <<procs, route, current, misled, strays, owed, classic>>
  BY DEF StoreReplacing, StoreRestored, StoreBestKnown, StoreBack, StoreStarted, StoreFinal, Return
<1>3. WorldOK /\ KeepsReplicas /\ route \subseteq proven \cup {0}
  BY <1>1, <1>2 DEF Inv, TypeOK, RouteOK, WorldOK, KeepsReplicas, procs
<1>4. \/ Step("storeReplacing", "health") \/ Step("storeReplacing", "abandon")
      \/ Step("storeRestored", "failedAt") \/ Step("bestKnown", "failedAt")
      \/ Step("storeBack", "stopCandidate") \/ Step("storeBack", "failedAt")
      \/ Step("storeStarted", "start") \/ Step("storeStarted", "undoStart")
      \/ Step("storeFinal", "promote")
  BY DEF StoreReplacing, StoreRestored, StoreBestKnown, StoreBack, StoreStarted, StoreFinal, Return
<1>5. Flows(pc, pc') /\ result' = result
  BY <1>4, FlowFacts DEF Step
<1> QED BY <1>1, <1>2, <1>3, <1>5, KeptInv

\* The steps that stop something and go on with the same journal.
LEMMA StopStepInv ==
  ASSUME Inv, \/ StopCandidate
              \/ StopLegacy /\ pc' = "roll"
              \/ StopSurplus /\ pc' = "storeFinal"
  PROVE  Inv'
<1>1. \E S : StopOK(S) \/ StopFails(S)
  BY DEF StopCandidate, StopLegacy, StopSurplus
<1>2. /\ alive' \subseteq alive /\ strays' \subseteq strays \cup alive /\ budget' \in 0 .. budget
  BY <1>1, StopFacts DEF Inv
<1>3. /\ mem' = mem \/ mem' = [mem EXCEPT !.ver = loc.tver]
      /\ loc' = loc /\ UNCHANGED <<proven, next, route, files, misled, owed, classic>>
  BY DEF StopCandidate, StopLegacy, StopSurplus, Return
<1>4. KeepsReplicas
  BY <1>3 DEF Inv, TypeOK, Locals, Journal, KeepsReplicas
<1>5. WorldOK /\ route \subseteq proven \cup {0}
  BY <1>2, <1>3 DEF Inv, TypeOK, RouteOK, WorldOK, files
<1>6. \/ Step("stopCandidate", "failedAt") \/ Step("stopLegacy", "roll")
      \/ Step("roll", "storeFinal") /\ loc.key = loc.n
  BY DEF StopCandidate, StopLegacy, StopSurplus, Return
<1>7. Flows(pc, pc') /\ result' = result
  BY <1>6, FlowFacts DEF Step
<1> QED BY <1>3, <1>4, <1>5, <1>7, KeptInv DEF files

\* The steps that ask or decide.
LEMMA DecideStepInv ==
  ASSUME Inv, \/ LaunchFails \/ HealthFails \/ HandOffPublicPort
              \/ BuildFails /\ pc' = "undo"
              \/ Cancelled /\ pc' = "undo"
              \/ FailedAt /\ pc' = "undo"
  PROVE  Inv'
<1>1. budget' \in 0 .. budget
  <2>1. budget' = budget \/ \E kind : Fault(kind)
    BY DEF BuildFails, Cancelled, LaunchFails, HealthFails, HandOffPublicPort, FailedAt, Return,
       NoFault
  <2> QED BY <2>1, FaultFacts DEF Inv, NoFault
<1>2. /\ mem' = mem /\ loc' = loc /\ UNCHANGED <<procs, route, files, misled, strays, owed>>
      /\ classic' \in BOOLEAN
  BY DEF BuildFails, Cancelled, LaunchFails, HealthFails, HandOffPublicPort, FailedAt, Return,
     Inv, TypeOK, files
<1>3. WorldOK /\ KeepsReplicas /\ route \subseteq proven \cup {0}
  BY <1>1, <1>2 DEF Inv, TypeOK, RouteOK, WorldOK, KeepsReplicas, procs, files
<1>4. \/ Step("build", "undo") \/ Step("roll", "undo") \/ Step("roll", "failedAt")
      \/ Step("health", "discard") \/ Step("swap", "swap") \/ Step("swap", "discard")
      \/ Step("failedAt", "undo")
  BY DEF BuildFails, Cancelled, LaunchFails, HealthFails, HandOffPublicPort, FailedAt, Return
<1>5. Flows(pc, pc') /\ result' = result
  BY <1>4, FlowFacts DEF Step
<1> QED BY <1>2, <1>3, <1>5, KeptInv DEF files

\* The hand-off that finds the app served stops one instance, and touches
\* nothing else.
LEMMA HandOffServedEffect ==
  ASSUME HandOffServed
  PROVE  /\ pc = "swap" /\ pc' = "discard" /\ ~loc.enrolled /\ route # {} /\ alive' \subseteq alive
         /\ UNCHANGED <<proven, next, route, files, mem, loc, budget, misled, strays, owed, classic>>
         /\ UNCHANGED result
BY DEF HandOffServed, Step

LEMMA HandOffServedInv == ASSUME Inv, HandOffServed PROVE Inv'
<1>1. /\ mem' = mem /\ loc' = loc /\ UNCHANGED <<route, files, misled, strays, owed, result>>
      /\ pc = "swap" /\ pc' = "discard"
  BY HandOffServedEffect
<1>2. WorldOK /\ KeepsReplicas /\ route \subseteq proven \cup {0}
  BY HandOffServedEffect DEF Inv, TypeOK, RouteOK, WorldOK, KeepsReplicas, files
<1> QED BY <1>1, <1>2, FlowFacts, KeptInv DEF files

\* stop removes the route whether or not the proxy answers.
LEMMA RemoveRouteInv == ASSUME Inv, RemoveRoute PROVE Inv'
<1>1. route' \in {route, {}} /\ budget' \in 0 .. budget /\ misled' \in BOOLEAN /\ (misled => misled')
  <2>1. TypeOK /\ (CallOK({}) \/ CallFails({}))
    BY DEF Inv, RemoveRoute
  <2> QED BY <2>1, CallFacts
<1>2. UNCHANGED <<procs, files, mem, loc, strays, owed, classic>> /\ Step("unroute", "teardown")
  BY DEF RemoveRoute
<1>3. WorldOK /\ KeepsReplicas /\ route' \subseteq proven \cup {0}
  BY <1>1, <1>2 DEF Inv, TypeOK, RouteOK, WorldOK, KeepsReplicas, procs, files
<1> QED BY <1>1, <1>2, <1>3, FlowFacts, KeptInv DEF Step, files

-----------------------------------------------------------------------------
(* The steps that return.                                                  *)

\* The journals an operation writes when it gives up.
LEMMA WrittenFacts ==
  ASSUME TypeOK, JournalsOK
  PROVE  /\ Mixed(mem) \in Journal /\ JournalIn(Mixed(mem), proven)
         /\ Migrated(mem) \in Journal /\ JournalIn(Migrated(mem), proven)
         /\ Migrated(mem).mode = "rolling" /\ Migrated(mem).slot = 0
         /\ Migrated(mem).reps = NoReplicas
         /\ RestoreMode(mem, loc.pre) \in Journal /\ JournalIn(RestoreMode(mem, loc.pre), proven)
         /\ RestoreMode(mem, loc.pre).mode = loc.pre.mode
         /\ RestoreMode(mem, loc.pre).slot = loc.pre.slot
         /\ RestoreMode(mem, loc.pre).reps = loc.pre.reps
         /\ Mixed(mem).mode = mem.mode /\ Mixed(mem).slot = mem.slot /\ Mixed(mem).reps = mem.reps
<1>0. mem \in Journal /\ loc.pre \in Journal
  BY DEF TypeOK, Locals
<1>1. /\ Mixed(mem) \in Journal /\ Mixed(mem).mode = mem.mode
      /\ Mixed(mem).slot = mem.slot /\ Mixed(mem).reps = mem.reps
  BY <1>0, PidFacts DEF Mixed, Journal
<1>2. /\ Migrated(mem) \in Journal /\ Migrated(mem).mode = "rolling" /\ Migrated(mem).slot = 0
      /\ Migrated(mem).reps = NoReplicas
  BY <1>0, PidFacts, EmptyFacts DEF Migrated, Journal
<1>3. /\ RestoreMode(mem, loc.pre) \in Journal
      /\ RestoreMode(mem, loc.pre).mode = loc.pre.mode
      /\ RestoreMode(mem, loc.pre).slot = loc.pre.slot
      /\ RestoreMode(mem, loc.pre).reps = loc.pre.reps
  BY <1>0 DEF RestoreMode, Journal
<1>4. JournalIn(Mixed(mem), proven) /\ JournalIn(RestoreMode(mem, loc.pre), proven)
  BY <1>1, <1>3 DEF JournalsOK, JournalIn
<1>5. JournalIn(Migrated(mem), proven)
  BY <1>2 DEF JournalIn, NoReplicas, NoReplica
<1> QED BY <1>1, <1>2, <1>3, <1>4, <1>5

\* What an operation writes last names proven instances.
LEMMA LastStore ==
  ASSUME Inv, disk' \in {disk, mem, Mixed(mem), Migrated(mem), RestoreMode(mem, loc.pre)}
  PROVE  disk' \in Journal /\ JournalIn(disk', proven)
BY WrittenFacts DEF Inv, TypeOK, JournalsOK

\* The operations that end without touching a process.
LEMMA ReturnStepInv ==
  ASSUME Inv, pc' = "idle",
         \/ MigrateTo \/ BuildFails \/ Cancelled \/ FailedAt \/ UndoMigration
         \/ StoreFinal \/ Promote \/ StoreTorn \/ StartEnds \/ Crash
  PROVE  Inv'
<1>1. \E r \in {"none", "ok", "deployed", "failed", "crashed"} : Return(r)
  BY DEF MigrateTo, BuildFails, Cancelled, FailedAt, UndoMigration, StoreFinal, Promote, StoreTorn,
     StartEnds, Crash, Step
<1>2. /\ disk' \in {disk, mem, Mixed(mem), Migrated(mem), RestoreMode(mem, loc.pre)}
      /\ budget' \in 0 .. budget
  <2> USE DEF Inv
  <2>1. CASE MigrateTo
    BY <2>1, StoreFacts DEF MigrateTo, Return
  <2>2. CASE BuildFails \/ Cancelled \/ Promote \/ StartEnds
    BY <2>2 DEF BuildFails, Cancelled, Promote, StartEnds, Fault, NoFault, files, TypeOK
  <2>3. CASE FailedAt
    BY <2>3, StoreFacts DEF FailedAt, StoreBestEffort, Step
  <2>4. CASE UndoMigration
    <3>1. CASE loc.pre.mode = "blue-green"
      BY <2>4, <3>1, StoreFacts DEF UndoMigration, StoreBestEffort
    <3>2. CASE loc.pre.mode # "blue-green"
      BY <2>4, <3>2 DEF UndoMigration, NoFault, TypeOK
    <3> QED BY <3>1, <3>2
  <2>5. CASE StoreFinal \/ StoreTorn
    BY <2>5, StoreFacts DEF StoreFinal, StoreTorn
  <2>6. CASE Crash
    BY <2>6 DEF Crash, TypeOK, files
  <2> QED BY <2>1, <2>2, <2>3, <2>4, <2>5, <2>6
<1>3. /\ UNCHANGED <<procs, route, misled, owed, classic>> /\ strays' \subseteq Inst
      /\ current' \in Version
  BY PidFacts DEF MigrateTo, BuildFails, Cancelled, FailedAt, UndoMigration, StoreFinal, Promote,
     StoreTorn, StartEnds, Crash, Inv, TypeOK, files, Locals, Journal
<1>4. WorldOK /\ route' \subseteq proven \cup {0}
  BY <1>2, <1>3 DEF Inv, TypeOK, RouteOK, WorldOK, procs
<1> QED BY <1>1, <1>2, <1>3, <1>4, LastStore, ReturnInv

\* The operations that end with a stop or a call.
LEMMA ReturnStopInv ==
  ASSUME Inv, pc' = "idle", StopLegacy \/ StopSurplus \/ UndoStart \/ RestoreProxyRoute
  PROVE  Inv'
<1>1. \E r \in {"none", "ok", "deployed", "failed", "crashed"} : Return(r)
  BY DEF StopLegacy, StopSurplus, UndoStart, RestoreProxyRoute, Step
<1>2. UNCHANGED <<proven, next, files, owed, classic>>
  BY DEF StopLegacy, StopSurplus, UndoStart, RestoreProxyRoute, procs
<1>3. /\ alive' \subseteq alive /\ strays' \subseteq Inst /\ budget' \in 0 .. budget
      /\ route' \subseteq proven \cup {0} /\ misled' \in BOOLEAN
  <2>1. CASE StopLegacy \/ StopSurplus \/ UndoStart
    <3>1. \E S : StopOK(S) \/ StopFails(S)
      BY <2>1 DEF StopLegacy, StopSurplus, UndoStart
    <3>2. /\ alive' \subseteq alive /\ strays' \subseteq strays \cup alive /\ budget' \in 0 .. budget
      BY <3>1, StopFacts DEF Inv
    <3>3. UNCHANGED <<route, misled>>
      BY <2>1 DEF StopLegacy, StopSurplus, UndoStart
    <3> QED BY <3>2, <3>3 DEF Inv, TypeOK, RouteOK
  <2>2. CASE RestoreProxyRoute
    <3> DEFINE T == {mem.reps[k].port : k \in {q \in Keys : mem.reps[q].pid # 0}}
    <3>1. TypeOK /\ (CallOK(T) \/ CallFails(T)) /\ UNCHANGED <<procs, strays>>
      BY <2>2 DEF Inv, RestoreProxyRoute
    <3>2. T \subseteq proven \cup {0}
      BY DEF Inv, JournalsOK, JournalIn
    <3> HIDE DEF T
    <3>3. route' \in {route, T} /\ budget' \in 0 .. budget /\ misled' \in BOOLEAN
      BY <3>1, CallFacts
    <3> QED BY <3>1, <3>2, <3>3 DEF Inv, TypeOK, RouteOK, procs
  <2> QED BY <2>1, <2>2
<1>4. WorldOK
  BY <1>2, <1>3 DEF Inv, TypeOK, WorldOK, files
<1>5. disk' \in Journal /\ JournalIn(disk', proven)
  BY <1>2, LastStore DEF files
<1> QED BY <1>1, <1>2, <1>3, <1>4, <1>5, ReturnInv

-----------------------------------------------------------------------------
(* The local variables an operation sets as it goes.                       *)

\* An operation begins.
LEMMA BeginLocals ==
  ASSUME NEW op \in Ops, NEW n \in 0 .. MaxReplicas
  PROVE  LET w == [NoLocals EXCEPT !.op = op, !.n = n] IN
             /\ w \in Locals /\ w.op = op /\ w.n = n
             /\ w.pre = NoLocals.pre /\ w.legacy = NoLocals.legacy /\ w.surplus = NoLocals.surplus /\ w.enrolled = NoLocals.enrolled
             /\ w.was = NoLocals.was /\ w.key = NoLocals.key /\ w.old = NoLocals.old /\ w.cand = NoLocals.cand
             /\ w.tver = NoLocals.tver /\ w.progressed = NoLocals.progressed
BY EmptyFacts DEF Locals

\* The state is loaded.
LEMMA PreLocals ==
  ASSUME NEW v \in Locals, NEW p \in Journal
  PROVE  LET w == [v EXCEPT !.pre = p] IN
             /\ w \in Locals /\ w.pre = p
             /\ w.op = v.op /\ w.n = v.n /\ w.legacy = v.legacy /\ w.surplus = v.surplus
             /\ w.enrolled = v.enrolled /\ w.was = v.was /\ w.key = v.key /\ w.old = v.old
             /\ w.cand = v.cand /\ w.tver = v.tver /\ w.progressed = v.progressed
BY DEF Locals

\* The instances of the previous strategy are set aside.
LEMMA LegacyLocals ==
  ASSUME NEW v \in Locals, NEW L \in SUBSET Inst
  PROVE  LET w == [v EXCEPT !.legacy = L] IN
             /\ w \in Locals /\ w.legacy = L
             /\ w.op = v.op /\ w.n = v.n /\ w.pre = v.pre /\ w.surplus = v.surplus
             /\ w.enrolled = v.enrolled /\ w.was = v.was /\ w.key = v.key /\ w.old = v.old
             /\ w.cand = v.cand /\ w.tver = v.tver /\ w.progressed = v.progressed
BY DEF Locals

\* The artifact is built.
LEMMA VersionLocals ==
  ASSUME NEW v \in Locals, NEW x \in Version
  PROVE  LET w == [v EXCEPT !.tver = x] IN
             /\ w \in Locals /\ w.tver = x
             /\ w.op = v.op /\ w.n = v.n /\ w.pre = v.pre /\ w.legacy = v.legacy
             /\ w.surplus = v.surplus /\ w.enrolled = v.enrolled /\ w.was = v.was /\ w.key = v.key
             /\ w.old = v.old /\ w.cand = v.cand /\ w.progressed = v.progressed
BY DEF Locals

\* A replica is started.
LEMMA StartedLocals ==
  ASSUME NEW v \in Locals, NEW c \in Pid, NEW k \in 0 .. MaxReplicas
  PROVE  LET w == [v EXCEPT !.cand = c, !.key = k] IN
             /\ w \in Locals /\ w.cand = c /\ w.key = k
             /\ w.op = v.op /\ w.n = v.n /\ w.pre = v.pre /\ w.legacy = v.legacy
             /\ w.surplus = v.surplus /\ w.enrolled = v.enrolled /\ w.was = v.was /\ w.old = v.old
             /\ w.tver = v.tver /\ w.progressed = v.progressed
BY DEF Locals

\* The start of a replica fails.
LEMMA StartingLocals ==
  ASSUME NEW v \in Locals, NEW c \in Pid
  PROVE  LET w == [v EXCEPT !.cand = c] IN
             /\ w \in Locals /\ w.cand = c
             /\ w.op = v.op /\ w.n = v.n /\ w.pre = v.pre /\ w.legacy = v.legacy
             /\ w.surplus = v.surplus /\ w.enrolled = v.enrolled /\ w.was = v.was /\ w.key = v.key
             /\ w.old = v.old /\ w.tver = v.tver /\ w.progressed = v.progressed
BY DEF Locals

-----------------------------------------------------------------------------
(* What the steps do that prepare a deploy.                                *)

\* The replicas are finitely many.
LEMMA KeysFinite ==
  /\ IsFiniteSet(Keys) /\ Cardinality(Keys) = MaxReplicas
  /\ \A S \in SUBSET Keys : IsFiniteSet(S) /\ Cardinality(S) \in 0 .. MaxReplicas
<1>1. IsFiniteSet(Keys) /\ Cardinality(Keys) = MaxReplicas
  BY FS_Interval DEF Keys
<1>2. ASSUME NEW S \in SUBSET Keys PROVE IsFiniteSet(S) /\ Cardinality(S) \in 0 .. MaxReplicas
  <2>1. IsFiniteSet(S) /\ Cardinality(S) <= MaxReplicas
    BY <1>1, FS_Subset
  <2> QED BY <2>1, FS_CardinalityType
<1> QED BY <1>1, <1>2

\* An operation begins with what is on disk.
LEMMA BeginInv ==
  ASSUME Inv, NEW op \in Ops, NEW n \in 0 .. MaxReplicas, op = "deploy" => n >= 1, Begin(op, n)
  PROVE  Inv'
<1>1. /\ pc' \in {"load", "unroute", "start"} /\ mem' = disk /\ budget' = MaxFaults
      /\ pc' = "load" => op = "deploy" /\ n >= 1
      /\ pc' = "unroute" => op = "stop"
      /\ pc' = "start" => op = "start"
      /\ strays' \subseteq alive /\ misled' = FALSE /\ result' = "none"
      /\ UNCHANGED <<procs, route, files, classic>>
  BY DEF Begin, Ops
<1>2. /\ loc' \in Locals /\ loc'.op = op /\ loc'.n = n /\ loc'.pre = NoJournal
      /\ loc'.legacy = {} /\ loc'.surplus = {} /\ loc'.old = NoReplica /\ loc'.key = 0
      /\ loc'.progressed = FALSE
  BY BeginLocals, EmptyFacts DEF Begin, NoLocals
<1>3. owed' \in 0 .. MaxReplicas
  BY KeysFinite DEF Begin
<1>4. TypeOK'
  <2>1. pc' \in Steps /\ budget' \in 0 .. MaxFaults
    BY <1>1 DEF Steps
  <2> QED BY <1>1, <1>2, <1>3, <2>1 DEF Inv, TypeOK, procs, files
<1>5. JournalsOK' /\ Launched'
  BY <1>1, <1>2, EmptyIn DEF Inv, JournalsOK, Launched, procs, files
<1>6. OpOK'
  BY <1>1, <1>2 DEF OpOK, DeploySteps, ReplicaSteps, FreshSteps, SwappedSteps, RevertedSteps,
     StopSteps, StartSteps
<1>7. RetiredOK' /\ OldOK'
  BY <1>1, <1>2, EmptyFacts DEF RetiredOK, OldOK
<1>8. CandOK' /\ RouteOK'
  BY <1>1, <1>2 DEF Inv, CandOK, RouteOK, ReplicaSteps, FreshSteps, SwappedSteps, RevertedSteps, procs
<1> QED BY <1>4, <1>5, <1>6, <1>7, <1>8 DEF Inv

\* LoadOrInit yields what is on disk, or an empty rolling state.
LEMMA LoadOrInitFacts ==
  ASSUME Inv
  PROVE  /\ LoadOrInit \in Journal /\ JournalIn(LoadOrInit, proven)
         /\ LoadOrInit.mode \in {"rolling", "blue-green"}
         /\ disk.mode # "absent" => LoadOrInit = disk
         /\ disk.mode = "absent" => LoadOrInit.reps = NoReplicas /\ LoadOrInit.slot = 0
                                    /\ LoadOrInit.mode = "rolling"
<1>1. CASE disk.mode = "absent"
  <2>1. /\ [NoJournal EXCEPT !.mode = "rolling"] \in Journal
        /\ [NoJournal EXCEPT !.mode = "rolling"].mode = "rolling"
        /\ [NoJournal EXCEPT !.mode = "rolling"].slot = 0
        /\ [NoJournal EXCEPT !.mode = "rolling"].reps = NoReplicas
    BY EmptyFacts DEF Journal
  <2>2. JournalIn([NoJournal EXCEPT !.mode = "rolling"], proven)
    BY <2>1 DEF JournalIn, NoReplicas, NoReplica
  <2> QED BY <1>1, <2>1, <2>2 DEF LoadOrInit
<1>2. CASE disk.mode # "absent"
  <2>1. LoadOrInit = disk
    BY <1>2 DEF LoadOrInit
  <2>2. disk \in Journal /\ JournalIn(disk, proven) /\ disk.mode \in {"rolling", "blue-green"}
    BY <1>2 DEF Inv, TypeOK, JournalsOK, Journal
  <2> QED BY <1>2, <2>1, <2>2
<1> QED BY <1>1, <1>2

\* The state is loaded and captured.
LEMMA LoadStateEffect ==
  ASSUME Inv, LoadState
  PROVE  /\ pc = "load" /\ pc' \in {"plan", "migrate"}
         /\ pc' = "plan" <=> LoadOrInit.mode = "rolling"
         /\ mem' = LoadOrInit /\ result' = result
         /\ loc' \in Locals /\ loc'.pre = LoadOrInit /\ loc'.op = loc.op /\ loc'.n = loc.n
         /\ loc'.legacy = loc.legacy /\ loc'.surplus = loc.surplus /\ loc'.key = loc.key
         /\ loc'.old = loc.old /\ loc'.progressed = loc.progressed
         /\ UNCHANGED <<procs, route, files, budget, misled, strays, owed, classic>>
<1>1. LoadOrInit \in Journal /\ loc \in Locals
  BY LoadOrInitFacts DEF Inv, TypeOK
<1> QED BY <1>1, PreLocals DEF LoadState, Step

\* Loading finds nothing to retire yet.
LEMMA LoadStateInv == ASSUME Inv, LoadState PROVE Inv'
<1> USE LoadStateEffect
<1>0. LoadOrInit \in Journal /\ JournalIn(LoadOrInit, proven)
  BY LoadOrInitFacts
<1>1. TypeOK'
  BY <1>0 DEF Inv, TypeOK, Steps, procs, files
<1>2. JournalsOK' /\ Launched'
  BY <1>0 DEF Inv, JournalsOK, Launched, procs, files
<1>3. OpOK'
  BY DEF Inv, OpOK, DeploySteps, ReplicaSteps, FreshSteps, SwappedSteps, RevertedSteps,
     StopSteps, StartSteps, Steps
<1>4. RetiredOK' /\ OldOK'
  BY DEF Inv, RetiredOK, OldOK, procs
<1>5. CandOK' /\ RouteOK'
  BY DEF Inv, CandOK, RouteOK, ReplicaSteps, FreshSteps, SwappedSteps, RevertedSteps, procs
<1> QED BY <1>1, <1>2, <1>3, <1>4, <1>5 DEF Inv

\* The slots leave the state, and their instance is to be retired.
LEMMA MigrateToEffect ==
  ASSUME Inv, MigrateTo, pc' # "idle"
  PROVE  /\ pc = "migrate" /\ pc' = "plan" /\ mem' = Migrated(mem) /\ disk' = Migrated(mem)
         /\ loc' \in Locals /\ loc'.legacy = {mem.slot} \ {0}
         /\ loc'.pre = loc.pre /\ loc'.op = loc.op /\ loc'.n = loc.n
         /\ loc'.surplus = loc.surplus /\ loc'.key = loc.key
         /\ loc'.old = loc.old /\ loc'.progressed = loc.progressed
         /\ strays' = strays \cup ({mem.slot} \ {0}) /\ budget' = budget
         /\ UNCHANGED <<procs, route, current, misled, owed, classic, result>>
<1>1. {mem.slot} \ {0} \in SUBSET Inst /\ loc \in Locals
  BY PidFacts DEF Inv, TypeOK, Journal
<1>2. loc' = [loc EXCEPT !.legacy = {mem.slot} \ {0}]
  BY DEF MigrateTo, Return
<1> QED BY <1>1, <1>2, LegacyLocals DEF MigrateTo, Return, StoreOK, NoFault

\* Migrating keeps the invariant.
LEMMA MigrateToInv == ASSUME Inv, MigrateTo, pc' # "idle" PROVE Inv'
<1> USE MigrateToEffect
<1>0. /\ Migrated(mem) \in Journal /\ JournalIn(Migrated(mem), proven)
      /\ Migrated(mem).reps = NoReplicas
      /\ {mem.slot} \ {0} \subseteq proven /\ {mem.slot} \ {0} \subseteq Inst
  BY WrittenFacts, PidFacts DEF Inv, TypeOK, JournalsOK, JournalIn
<1>1. TypeOK'
  BY <1>0 DEF Inv, TypeOK, Steps, procs
<1>2. JournalsOK' /\ Launched'
  BY <1>0 DEF Inv, JournalsOK, Launched, procs
<1>3. OpOK'
  BY DEF Inv, OpOK, DeploySteps, ReplicaSteps, FreshSteps, SwappedSteps, RevertedSteps,
     StopSteps, StartSteps, Steps
<1>4. RetiredOK' /\ OldOK'
  <2>1. \A i \in Ports(NoReplicas) : i = 0
    BY DEF Ports, NoReplicas, NoReplica
  <2>2. loc'.legacy \cup loc'.surplus \subseteq proven /\ 0 \notin loc'.legacy \cup loc'.surplus
    BY <1>0 DEF Inv, RetiredOK
  <2> QED BY <1>0, <2>1, <2>2 DEF Inv, RetiredOK, OldOK, procs
<1>5. CandOK' /\ RouteOK'
  BY DEF Inv, CandOK, RouteOK, ReplicaSteps, FreshSteps, SwappedSteps, RevertedSteps, procs
<1> QED BY <1>1, <1>2, <1>3, <1>4, <1>5 DEF Inv

\* What is left of the fleet, and what is too much of it.
Kept == [k \in Keys |-> IF k < loc.n THEN Reaped(mem.reps[k]) ELSE NoReplica]
Surplus == {Reaped(mem.reps[k]).pid : k \in {q \in Keys : q >= loc.n}} \ {0}

\* The fleet is cut to size.
LEMMA PlanFleetEffect ==
  ASSUME Inv, PlanFleet
  PROVE  /\ pc = "plan" /\ pc' = "build"
         /\ mem' \in Journal /\ mem'.reps = Kept /\ mem'.slot = mem.slot /\ mem'.mode = mem.mode
         /\ Kept \in [Keys -> Replica]
         /\ \A k \in Keys : /\ k < loc.n => Kept[k] = Reaped(mem.reps[k])
                            /\ k >= loc.n => Kept[k] = NoReplica
                            /\ mem.reps[k] \in Replica
         /\ loc' \in Locals /\ loc'.surplus = Surplus /\ Surplus \subseteq Inst
         /\ loc'.enrolled \/ route = {} \/ misled'
         /\ loc'.pre = loc.pre /\ loc'.op = loc.op /\ loc'.n = loc.n
         /\ loc'.legacy = loc.legacy /\ loc'.key = loc.key
         /\ loc'.old = loc.old /\ loc'.progressed = loc.progressed
         /\ strays' = strays \cup Surplus /\ budget' \in 0 .. budget
         /\ misled' \in BOOLEAN /\ (misled => misled')
         /\ UNCHANGED <<procs, route, files, owed, classic, result>>
<1>0. loc \in Locals /\ mem \in Journal /\ mem.reps \in [Keys -> Replica] /\ loc.n \in Nat
  BY DEF Inv, TypeOK, Locals, Journal
<1>1. \A k \in Keys : k \in Nat /\ mem.reps[k] \in Replica /\ Reaped(mem.reps[k]) \in Replica
  BY <1>0, ReapedFacts DEF Keys
<1>2. Kept \in [Keys -> Replica]
  BY <1>1, EmptyFacts DEF Kept
<1>3. Surplus \subseteq Inst
  BY <1>1, ReplicaFields, PidFacts DEF Surplus
<1>4. PICK known \in BOOLEAN :
        /\ mem' = [mem EXCEPT !.reps = Kept]
        /\ loc' = [loc EXCEPT !.surplus = Surplus, !.enrolled = known /\ route # {}]
        /\ misled' = (misled \/ (~known /\ route # {}))
        /\ IF known THEN NoFault ELSE Fault("status")
  BY DEF PlanFleet, Kept, Surplus
<1>5. mem' \in Journal /\ mem'.reps = Kept /\ mem'.slot = mem.slot /\ mem'.mode = mem.mode
  BY <1>0, <1>2, <1>4 DEF Journal
<1>6. /\ loc' \in Locals /\ loc'.surplus = Surplus
      /\ loc'.enrolled \/ route = {} \/ misled'
      /\ loc'.pre = loc.pre /\ loc'.op = loc.op /\ loc'.n = loc.n
      /\ loc'.legacy = loc.legacy /\ loc'.key = loc.key
      /\ loc'.old = loc.old /\ loc'.progressed = loc.progressed
  <2>0. Surplus \in SUBSET Inst
    BY <1>3
  <2>1. CASE known /\ route # {}
    <3>1. loc' = [loc EXCEPT !.surplus = Surplus, !.enrolled = TRUE]
      BY <1>4, <2>1
    <3>2. /\ loc'.enrolled = TRUE
          /\ loc' \in Locals /\ loc'.surplus = Surplus
          /\ loc'.pre = loc.pre /\ loc'.op = loc.op /\ loc'.n = loc.n
          /\ loc'.legacy = loc.legacy /\ loc'.key = loc.key
          /\ loc'.old = loc.old /\ loc'.progressed = loc.progressed
      BY <1>0, <2>0, <3>1 DEF Locals
    <3> QED BY <3>2
  <2>2. CASE ~(known /\ route # {})
    <3>1. loc' = [loc EXCEPT !.surplus = Surplus, !.enrolled = FALSE]
      BY <1>4, <2>2
    <3>2. /\ loc' \in Locals /\ loc'.surplus = Surplus
          /\ loc'.pre = loc.pre /\ loc'.op = loc.op /\ loc'.n = loc.n
          /\ loc'.legacy = loc.legacy /\ loc'.key = loc.key
          /\ loc'.old = loc.old /\ loc'.progressed = loc.progressed
      BY <1>0, <2>0, <3>1 DEF Locals
    <3>3. route = {} \/ misled'
      BY <1>4, <2>2
    <3> QED BY <3>2, <3>3
  <2> QED BY <2>1, <2>2
<1>7. \A k \in Keys : /\ k < loc.n => Kept[k] = Reaped(mem.reps[k])
                      /\ k >= loc.n => Kept[k] = NoReplica
  BY <1>0, <1>1 DEF Kept
<1>8. /\ pc = "plan" /\ pc' = "build" /\ strays' = strays \cup Surplus
      /\ UNCHANGED <<procs, route, files, owed, classic, result>>
  BY DEF PlanFleet, Step, Surplus
<1>9. budget' \in 0 .. budget
  BY <1>4, FaultFacts DEF Inv
<1>10. misled' \in BOOLEAN /\ (misled => misled')
  BY <1>4 DEF Inv, TypeOK
<1> QED BY <1>1, <1>2, <1>3, <1>5, <1>6, <1>7, <1>8, <1>9, <1>10

\* The surplus is no replica that is kept.
LEMMA PlanFleetInv == ASSUME Inv, PlanFleet PROVE Inv'
<1> USE PlanFleetEffect
<1>n. loc.n \in Nat /\ Keys \subseteq Nat
  BY DEF Inv, TypeOK, Locals, Keys
<1>0. \A k \in Keys : /\ Kept[k].port \in {0, mem.reps[k].port}
                      /\ Kept[k].pid \in {0, Kept[k].port}
                      /\ k >= loc.n => Kept[k].port = 0
  BY <1>n, ReapedFacts, EmptyFacts DEF Inv, JournalsOK, JournalIn
<1>s. \A i \in Surplus : \E k \in Keys : k >= loc.n /\ i = mem.reps[k].port /\ i # 0
  BY ReapedFacts DEF Surplus, Inv, JournalsOK, JournalIn
<1>1. TypeOK'
  BY DEF Inv, TypeOK, Steps, procs, files
<1>2. JournalsOK' /\ Launched'
  <2>1. JournalIn(mem', proven)
    BY <1>0, JournalShrinks DEF Inv, JournalsOK
  <2> QED BY <2>1 DEF Inv, JournalsOK, Launched, procs, files
<1>3. OpOK'
  BY DEF Inv, OpOK, DeploySteps, ReplicaSteps, FreshSteps, SwappedSteps, RevertedSteps,
     StopSteps, StartSteps, Steps
<1>4. RetiredOK' /\ OldOK'
  <2>1. Surplus \subseteq proven
    BY <1>s DEF Inv, JournalsOK, JournalIn
  <2>2. \A i \in Surplus : i \notin Ports(Kept)
    BY <1>0, <1>s, <1>n DEF Ports, Inv, JournalsOK, JournalIn
  <2>3. \A i \in loc.legacy : i # 0 /\ i \notin Ports(mem.reps)
    BY DEF Inv, TypeOK, RetiredOK, DeploySteps, Steps, StopSteps, StartSteps, Locals, Inst
  <2>4. \A i \in loc.legacy : i \notin Ports(Kept)
    BY <1>0, <2>3 DEF Ports
  <2>5. 0 \notin Surplus /\ 0 \notin loc.legacy /\ loc.old.port = 0 /\ loc.legacy \subseteq proven
    BY <1>s, <2>3 DEF Inv, OldOK, RetiredOK
  <2> QED BY <2>1, <2>2, <2>4, <2>5 DEF Inv, RetiredOK, OldOK, procs
<1>5. CandOK' /\ RouteOK'
  BY DEF Inv, CandOK, RouteOK, ReplicaSteps, FreshSteps, SwappedSteps, RevertedSteps, procs
<1> QED BY <1>1, <1>2, <1>3, <1>4, <1>5 DEF Inv

\* The artifact is built.
LEMMA BuildEffect ==
  ASSUME Inv, Build
  PROVE  /\ pc = "build" /\ pc' = "roll"
         /\ loc' \in Locals
         /\ loc'.pre = loc.pre /\ loc'.op = loc.op /\ loc'.n = loc.n
         /\ loc'.legacy = loc.legacy /\ loc'.surplus = loc.surplus /\ loc'.key = loc.key
         /\ loc'.old = loc.old /\ loc'.progressed = loc.progressed
         /\ loc'.enrolled = loc.enrolled
         /\ UNCHANGED <<procs, route, files, mem, budget, misled, strays, owed, classic, result>>
<1>1. PICK v \in Version : loc' = [loc EXCEPT !.tver = v]
  BY DEF Build
<1>2. loc \in Locals
  BY DEF Inv, TypeOK
<1> QED BY <1>1, <1>2, VersionLocals DEF Build, Step

\* A build preserves the invariant, whether it fails or succeeds.
LEMMA BuildInv == ASSUME Inv, Build PROVE Inv'
<1> USE BuildEffect
<1>1. TypeOK'
  BY DEF Inv, TypeOK, Steps, procs, files
<1>2. JournalsOK' /\ Launched'
  BY DEF Inv, JournalsOK, Launched, procs, files
<1>3. OpOK'
  BY DEF Inv, OpOK, DeploySteps, ReplicaSteps, FreshSteps, SwappedSteps, RevertedSteps,
     StopSteps, StartSteps, Steps
<1>4. RetiredOK' /\ OldOK'
  BY DEF Inv, RetiredOK, OldOK, DeploySteps, Steps, StopSteps, StartSteps, procs
<1>5. CandOK' /\ RouteOK'
  BY DEF Inv, CandOK, RouteOK, OpOK, ReplicaSteps, FreshSteps, SwappedSteps, RevertedSteps, procs
<1> QED BY <1>1, <1>2, <1>3, <1>4, <1>5 DEF Inv

-----------------------------------------------------------------------------
(* What the steps of rollOne do.                                           *)

\* The replacement is launched beside the replica.
LEMMA LaunchReplacementEffect ==
  ASSUME Inv, LaunchReplacement
  PROVE  /\ pc = "roll" /\ pc' \in {"storeReplacing", "health"}
         /\ loc.key < loc.n /\ loc.key \in Keys /\ next \in Inst /\ next' = next + 1
         /\ alive' = alive \cup {next}
         /\ loc' \in Locals /\ loc'.old = mem.reps[loc.key] /\ loc'.cand = next
         /\ loc'.pre = loc.pre /\ loc'.op = loc.op /\ loc'.n = loc.n
         /\ loc'.legacy = loc.legacy /\ loc'.surplus = loc.surplus /\ loc'.key = loc.key
         /\ loc'.progressed = loc.progressed /\ loc'.enrolled = loc.enrolled /\ loc'.tver = loc.tver
         /\ mem' \in Journal /\ mem'.mode = mem.mode /\ mem'.slot = mem.slot
         /\ \A k \in Keys \ {loc.key} : mem'.reps[k] = mem.reps[k]
         /\ mem'.reps[loc.key].port = mem.reps[loc.key].port
         /\ mem'.reps[loc.key].pid = mem.reps[loc.key].pid
         /\ mem.reps[loc.key].pid = 0 => mem' = mem
         /\ UNCHANGED <<proven, route, files, budget, misled, strays, owed, classic, result>>
<1>0. /\ pc = "roll" /\ loc.key < loc.n /\ next <= MaxInst /\ alive' = alive \cup {next}
      /\ next' = next + 1 /\ pc' \in {"storeReplacing", "health"} /\ result' = result
      /\ UNCHANGED <<proven, route, files, budget, misled, strays, owed, classic>>
      /\ loc' = [loc EXCEPT !.old = mem.reps[loc.key], !.cand = next]
      /\ mem.reps[loc.key].pid = 0 => mem' = mem
      /\ mem.reps[loc.key].pid # 0 =>
           mem' = SetReplica(mem, loc.key, [mem.reps[loc.key] EXCEPT !.status = "replacing"])
  BY DEF LaunchReplacement, Launch, Step
<1>1. loc \in Locals /\ mem \in Journal /\ loc.key \in Keys /\ next \in Inst /\ next \in Pid
  BY <1>0 DEF Inv, TypeOK, Locals, Keys, Inst, Pid
<1>2. mem.reps[loc.key] \in Replica
  BY <1>1, JournalFields
<1>3. /\ loc' \in Locals /\ loc'.old = mem.reps[loc.key] /\ loc'.cand = next
      /\ loc'.pre = loc.pre /\ loc'.op = loc.op /\ loc'.n = loc.n
      /\ loc'.legacy = loc.legacy /\ loc'.surplus = loc.surplus /\ loc'.key = loc.key
      /\ loc'.progressed = loc.progressed /\ loc'.enrolled = loc.enrolled /\ loc'.tver = loc.tver
  BY <1>0, <1>1, <1>2 DEF Locals
<1>4. /\ mem' \in Journal /\ mem'.mode = mem.mode /\ mem'.slot = mem.slot
      /\ \A k \in Keys \ {loc.key} : mem'.reps[k] = mem.reps[k]
      /\ mem'.reps[loc.key].port = mem.reps[loc.key].port
      /\ mem'.reps[loc.key].pid = mem.reps[loc.key].pid
  <2>1. CASE mem.reps[loc.key].pid = 0
    BY <1>0, <1>1, <2>1
  <2>2. CASE mem.reps[loc.key].pid # 0
    <3>1. PICK rec \in Replica : /\ mem' = SetReplica(mem, loc.key, rec)
                                 /\ rec.port = mem.reps[loc.key].port
                                 /\ rec.pid = mem.reps[loc.key].pid
      BY <1>0, <1>2, <2>2, ReplacingFacts
    <3> QED BY <1>1, <3>1, SetReplicaFacts
  <2> QED BY <2>1, <2>2
<1> QED BY <1>0, <1>1, <1>3, <1>4

\* The replacement is new: nobody knows it but this deploy.
LEMMA LaunchReplacementInv == ASSUME Inv, LaunchReplacement PROVE Inv'
<1> USE LaunchReplacementEffect
<1>p. next \notin proven /\ next \notin Ports(mem.reps) /\ next \notin route /\ next # 0
      /\ Ports(mem'.reps) = Ports(mem.reps)
  <2>1. next \notin proven /\ next # 0
    BY DEF Inv, Launched, Inst
  <2>2. Ports(mem.reps) \subseteq proven \cup {0} /\ route \subseteq proven \cup {0}
    BY DEF Inv, JournalsOK, JournalIn, Ports, RouteOK
  <2>3. \A k \in Keys : mem'.reps[k].port = mem.reps[k].port
    OBVIOUS
  <2> QED BY <2>1, <2>2, <2>3 DEF Ports
<1>1. TypeOK'
  <2>1. pc' \in Steps /\ next' \in 1 .. MaxInst + 1
    BY DEF Steps, Inst
  <2> QED BY <2>1 DEF Inv, TypeOK, files
<1>2. JournalsOK'
  <2>1. \A k \in Keys : mem'.reps[k].port = mem.reps[k].port /\ mem'.reps[k].pid = mem.reps[k].pid
    OBVIOUS
  <2>2. JournalIn(mem', proven)
    BY <2>1 DEF Inv, JournalsOK, JournalIn
  <2> QED BY <2>2 DEF Inv, JournalsOK, files
<1>3. Launched'
  <2>1. next \in Nat /\ \A i \in alive \cup proven : i \in Nat /\ i < next
    BY LaunchedFacts
  <2>2. \A i \in alive \cup proven : i < next + 1
    BY <2>1
  <2> QED BY <2>1, <2>2 DEF Launched
<1>4. OpOK'
  BY DEF Inv, OpOK, DeploySteps, ReplicaSteps, FreshSteps, SwappedSteps, RevertedSteps,
     StopSteps, StartSteps, Steps
<1>5. RetiredOK'
  BY <1>p DEF Inv, RetiredOK, DeploySteps, Steps, StopSteps, StartSteps
<1>6. OldOK'
  <2>1. mem.reps[loc.key].port \in proven \cup {0} /\ mem.reps[loc.key].pid \in {0, mem.reps[loc.key].port}
    BY DEF Inv, JournalsOK, JournalIn
  <2>2. mem.reps[loc.key].port \notin loc.legacy \cup loc.surplus
    BY DEF Inv, RetiredOK, Ports, DeploySteps, Steps, StopSteps, StartSteps
  <2> QED BY <2>1, <2>2 DEF OldOK
<1>7. CandOK'
  <2>1. next \notin loc.legacy \cup loc.surplus \cup {mem.reps[loc.key].port}
    BY <1>p DEF Inv, RetiredOK, Ports
  <2>2. next < next + 1 /\ pc' \in FreshSteps /\ pc' \notin SwappedSteps \cup RevertedSteps \cup {"swap"}
    BY DEF Inv, TypeOK, FreshSteps, SwappedSteps, RevertedSteps
  <2> QED BY <1>p, <2>1, <2>2 DEF CandOK, ReplicaSteps
<1>8. RouteOK'
  BY <1>p DEF Inv, RouteOK, FreshSteps
<1> QED BY <1>1, <1>2, <1>3, <1>4, <1>5, <1>6, <1>7, <1>8 DEF Inv

\* The replacement passes its check.
LEMMA HealthPassesInv == ASSUME Inv, HealthPasses PROVE Inv'
<1> USE DEF HealthPasses, Step
<1>c. loc.cand \in Inst /\ loc.cand < next
  BY DEF Inv, CandOK, ReplicaSteps, FreshSteps
<1>1. TypeOK'
  BY <1>c DEF Inv, TypeOK, Steps, files
<1>2. JournalsOK'
  BY JournalGrows DEF Inv, JournalsOK, files
<1>3. Launched'
  BY <1>c DEF Inv, Launched
<1>4. OpOK'
  BY DEF Inv, OpOK, DeploySteps, ReplicaSteps, FreshSteps, SwappedSteps, RevertedSteps,
     StopSteps, StartSteps, Steps
<1>5. RetiredOK' /\ OldOK'
  BY DEF Inv, RetiredOK, OldOK, DeploySteps, Steps, StopSteps, StartSteps
<1>6. CandOK'
  BY DEF Inv, CandOK, ReplicaSteps, FreshSteps, SwappedSteps, RevertedSteps
<1>7. RouteOK'
  BY DEF Inv, RouteOK, FreshSteps
<1> QED BY <1>1, <1>2, <1>3, <1>4, <1>5, <1>6, <1>7 DEF Inv

\* The replica at hand, and its replacement.
LEMMA AtReplica ==
  ASSUME Inv, pc \in ReplicaSteps
  PROVE  /\ loc \in Locals /\ mem \in Journal /\ loc.key \in Keys /\ loc.key < loc.n
         /\ loc.old \in Replica /\ loc.cand \in Inst
         /\ Candidate \in Replica /\ Candidate.port = loc.cand /\ Candidate.pid = loc.cand
         /\ Candidate.ver = loc.tver /\ Candidate.status = "running"
         /\ mem.reps \in [Keys -> Replica]
<1>1. loc \in Locals /\ mem \in Journal /\ loc.key < loc.n /\ loc.cand \in Inst
  BY DEF Inv, TypeOK, OpOK, CandOK
<1>2. /\ loc.key \in Keys /\ loc.old \in Replica /\ loc.tver \in Version
      /\ mem.reps \in [Keys -> Replica] /\ loc.cand \in Pid
  BY <1>1, LocalFields, JournalFields, PidFacts DEF Keys
<1>3. /\ Candidate \in Replica /\ Candidate.port = loc.cand /\ Candidate.pid = loc.cand
      /\ Candidate.ver = loc.tver /\ Candidate.status = "running"
  BY <1>2 DEF Candidate, Replica
<1> QED BY <1>1, <1>2, <1>3

\* Recording a replacement.
LEMMA RecordsCandidate ==
  ASSUME Inv, pc \in ReplicaSteps, NEW j, j = SetReplica(mem, loc.key, Candidate)
  PROVE  /\ j \in Journal /\ j.mode = mem.mode /\ j.slot = mem.slot /\ j.ver = mem.ver
         /\ j.reps[loc.key] = Candidate /\ \A k \in Keys \ {loc.key} : j.reps[k] = mem.reps[k]
         /\ HealthyTargets([mem.reps EXCEPT ![loc.key] = Candidate]) = HealthyTargets(j.reps)
         /\ loc.cand \in HealthyTargets(j.reps)
<1>1. loc.key \in Keys /\ mem \in Journal /\ Candidate \in Replica
  BY AtReplica
<1>2. /\ j \in Journal /\ j.mode = mem.mode /\ j.slot = mem.slot /\ j.ver = mem.ver
      /\ j.reps[loc.key] = Candidate /\ \A k \in Keys \ {loc.key} : j.reps[k] = mem.reps[k]
  BY <1>1, SetReplicaFacts
<1>3. j.reps = [mem.reps EXCEPT ![loc.key] = Candidate]
  BY <1>1 DEF SetReplica, Journal
<1>4. loc.cand \in HealthyTargets(j.reps)
  <2>1. j.reps[loc.key].status = "running" /\ j.reps[loc.key].port = loc.cand /\ loc.cand # 0
    BY <1>2, AtReplica DEF Inst
  <2> QED BY <1>1, <2>1, HealthyFacts
<1> QED BY <1>2, <1>3, <1>4

\* Restoring the record of the replica.
LEMMA RestoresReplica ==
  ASSUME Inv, pc \in ReplicaSteps, NEW j, j = RestoreReplica(mem)
  PROVE  /\ j \in Journal /\ j.mode = mem.mode /\ j.slot = mem.slot /\ j.ver = mem.ver
         /\ j.reps[loc.key] = loc.old /\ \A k \in Keys \ {loc.key} : j.reps[k] = mem.reps[k]
         /\ JournalIn(j, proven) /\ loc.cand \notin Ports(j.reps)
         /\ Ports(j.reps) \subseteq Ports(mem.reps) \cup {loc.old.port}
<1>1. loc.key \in Keys /\ mem \in Journal /\ loc.old \in Replica /\ loc.cand \in Inst
  BY AtReplica
<1>2. /\ j \in Journal /\ j.mode = mem.mode /\ j.slot = mem.slot /\ j.ver = mem.ver
      /\ j.reps[loc.key] = loc.old /\ \A k \in Keys \ {loc.key} : j.reps[k] = mem.reps[k]
  BY <1>1, SetReplicaFacts DEF RestoreReplica
<1>3. Ports(j.reps) \subseteq Ports(mem.reps) \cup {loc.old.port}
  BY <1>2 DEF Ports
<1>4. loc.old.port # 0 => \A m \in Keys \ {loc.key} : mem.reps[m].port # loc.old.port
  BY <1>1 DEF Inv, CandOK, ReplicaSteps, Ports, JournalsOK, JournalIn
<1>5. JournalIn(j, proven)
  BY <1>1, <1>4, SetReplicaIn DEF Inv, JournalsOK, OldOK, RestoreReplica
<1>6. loc.cand \notin Ports(j.reps)
  <2>1. loc.cand # loc.old.port /\ loc.cand # 0
    BY <1>1 DEF Inv, CandOK, Inst
  <2>2. \A m \in Keys \ {loc.key} : mem.reps[m].port # loc.cand
    <3>1. CASE pc \in SwappedSteps
      BY <3>1, <1>1, <2>1, AtReplica DEF Inv, CandOK, JournalsOK, JournalIn
    <3>2. CASE pc \in FreshSteps \cup RevertedSteps
      BY <3>2 DEF Inv, CandOK, Ports
    <3> QED BY <3>1, <3>2 DEF ReplicaSteps
  <2> QED BY <1>2, <2>1, <2>2 DEF Ports
<1> QED BY <1>2, <1>3, <1>5, <1>6

\* A new membership is routed and recorded.
LEMMA SwapMembershipEffect ==
  ASSUME Inv, SwapMembership, pc' # "discard"
  PROVE  /\ pc = "swap" /\ pc' = "commit" /\ mem' = SetReplica(mem, loc.key, Candidate)
         /\ route' = HealthyTargets(mem'.reps)
         /\ loc' \in Locals
         /\ loc'.pre = loc.pre /\ loc'.op = loc.op /\ loc'.n = loc.n
         /\ loc'.legacy = loc.legacy /\ loc'.surplus = loc.surplus /\ loc'.key = loc.key
         /\ loc'.old = loc.old /\ loc'.cand = loc.cand /\ loc'.tver = loc.tver
         /\ loc'.progressed = loc.progressed /\ loc'.enrolled = TRUE /\ loc'.was = loc.enrolled
         /\ UNCHANGED <<procs, files, budget, misled, strays, owed, classic, result>>
<1>1. /\ pc = "swap" /\ pc' = "commit" /\ mem' = SetReplica(mem, loc.key, Candidate)
      /\ route' = Membership /\ loc' = [loc EXCEPT !.enrolled = TRUE, !.was = loc.enrolled]
      /\ UNCHANGED <<procs, files, budget, misled, strays, owed, classic, result>>
  BY DEF SwapMembership, Step, CallOK, NoFault
<1>2. route' = HealthyTargets(mem'.reps)
  BY <1>1, RecordsCandidate DEF Membership, ReplicaSteps, FreshSteps
<1>3. loc \in Locals
  BY DEF Inv, TypeOK
<1>4. /\ loc' \in Locals
      /\ loc'.pre = loc.pre /\ loc'.op = loc.op /\ loc'.n = loc.n
      /\ loc'.legacy = loc.legacy /\ loc'.surplus = loc.surplus /\ loc'.key = loc.key
      /\ loc'.old = loc.old /\ loc'.cand = loc.cand /\ loc'.tver = loc.tver
      /\ loc'.progressed = loc.progressed /\ loc'.enrolled = TRUE /\ loc'.was = loc.enrolled
  BY <1>1, <1>3 DEF Locals
<1> QED BY <1>1, <1>2, <1>4

\* What the proxy is told names proven instances.
LEMMA MembershipFacts ==
  ASSUME Inv, pc \in ReplicaSteps, loc.cand \in proven
  PROVE  /\ JournalIn(SetReplica(mem, loc.key, Candidate), proven)
         /\ Membership \subseteq proven \cup {0}
         /\ OldMembership \subseteq proven \cup {0}
         /\ Ports(SetReplica(mem, loc.key, Candidate).reps) \subseteq Ports(mem.reps) \cup {loc.cand}
<1>0. PICK j : j = SetReplica(mem, loc.key, Candidate)
  OBVIOUS
<1>1. /\ j.reps[loc.key] = Candidate /\ \A k \in Keys \ {loc.key} : j.reps[k] = mem.reps[k]
      /\ Membership = HealthyTargets(j.reps)
  BY <1>0, RecordsCandidate DEF Membership
<1>2. Ports(j.reps) \subseteq Ports(mem.reps) \cup {loc.cand}
  BY <1>1, AtReplica DEF Ports
<1>3. Ports(mem.reps) \subseteq proven \cup {0}
  BY DEF Ports, Inv, JournalsOK, JournalIn
<1>4. \A m \in Keys \ {loc.key} : mem.reps[m].port # loc.cand
  <2>1. CASE pc \in SwappedSteps
    BY <2>1, AtReplica DEF Inv, CandOK, JournalsOK, JournalIn, Inst
  <2>2. CASE pc \in FreshSteps \cup RevertedSteps
    BY <2>2 DEF Inv, CandOK, Ports
  <2> QED BY <2>1, <2>2 DEF ReplicaSteps
<1>5. JournalIn(j, proven)
  BY <1>0, <1>4, AtReplica, SetReplicaIn DEF Inv, JournalsOK
<1>6. OldMembership \subseteq proven \cup {0}
  BY <1>3, HealthyFacts DEF OldMembership
<1>7. Membership \subseteq proven \cup {0}
  BY <1>1, <1>2, <1>3, HealthyFacts
<1> QED BY <1>0, <1>2, <1>5, <1>6, <1>7

\* The swap keeps the invariant.
LEMMA SwapMembershipInv == ASSUME Inv, SwapMembership PROVE Inv'
<1>s. pc = "swap" /\ pc \in ReplicaSteps /\ loc.cand \in proven
  BY DEF SwapMembership, Step, Inv, CandOK, ReplicaSteps, FreshSteps
<1>1. CASE pc' = "discard"
  <2>1. /\ CallFails(Membership) /\ Step("swap", "discard") /\ UNCHANGED <<mem, loc>>
        /\ UNCHANGED <<procs, files, strays, owed, classic>>
    BY <1>1 DEF SwapMembership, Step
  <2>2. /\ route' \in {route, Membership} /\ budget' \in 0 .. budget
        /\ misled' \in BOOLEAN /\ (misled => misled') /\ (~misled' => route' = route)
    BY <2>1, CallFailsFacts DEF Inv
  <2>3. WorldOK /\ KeepsReplicas /\ route' \subseteq proven \cup {0}
    BY <1>s, <2>1, <2>2, MembershipFacts DEF Inv, TypeOK, RouteOK, WorldOK, KeepsReplicas, procs, files
  <2> QED BY <1>1, <2>1, <2>2, <2>3, FlowFacts, KeptInv DEF Step, files
<1>2. CASE pc' # "discard"
  <2> USE <1>2, SwapMembershipEffect
  <2>m. /\ mem' \in Journal /\ JournalIn(mem', proven) /\ mem'.reps[loc.key] = Candidate
        /\ Ports(mem'.reps) \subseteq Ports(mem.reps) \cup {loc.cand}
        /\ \A k \in Keys \ {loc.key} : mem'.reps[k] = mem.reps[k]
        /\ route' \subseteq proven \cup {0}
    BY <1>s, RecordsCandidate, MembershipFacts DEF Membership
  <2>1. TypeOK'
    <3>1. route' \subseteq Pid
      BY <2>m, PidFacts DEF Inv, TypeOK
    <3> QED BY <2>m, <3>1 DEF Inv, TypeOK, Steps, procs, files
  <2>2. JournalsOK' /\ Launched'
    BY <2>m DEF Inv, JournalsOK, Launched, procs, files
  <2>3. OpOK'
    BY DEF Inv, OpOK, DeploySteps, ReplicaSteps, FreshSteps, SwappedSteps, RevertedSteps,
       StopSteps, StartSteps, Steps
  <2>4. RetiredOK' /\ OldOK'
    <3>1. /\ loc.cand \notin loc.legacy \cup loc.surplus
          /\ (loc.legacy \cup loc.surplus) \cap Ports(mem.reps) = {}
      BY <1>s DEF Inv, CandOK, RetiredOK, DeploySteps, Steps, StopSteps, StartSteps
    <3>2. (loc.legacy \cup loc.surplus) \cap Ports(mem'.reps) = {}
      BY <2>m, <3>1
    <3> QED BY <3>2 DEF Inv, RetiredOK, OldOK, procs
  <2>5. CandOK'
    <3>1. Candidate' = Candidate
      BY DEF Candidate
    <3>2. loc.old.port # 0 => loc.old.port \notin Ports(mem'.reps)
      BY <1>s, <2>m, AtReplica DEF Inv, CandOK, JournalsOK, JournalIn, Ports, FreshSteps
    <3>3. pc \in ReplicaSteps /\ pc' \in SwappedSteps /\ pc' \notin FreshSteps \cup RevertedSteps
      BY <1>s DEF SwappedSteps, FreshSteps, RevertedSteps
    <3> QED BY <1>s, <2>m, <3>1, <3>2, <3>3 DEF Inv, CandOK, procs
  <2>6. RouteOK'
    BY <2>m DEF RouteOK, FreshSteps, procs
  <2> QED BY <2>1, <2>2, <2>3, <2>4, <2>5, <2>6 DEF Inv
<1> QED BY <1>1, <1>2

\* A step that gives the replica up.
LEMMA GivenUpInv ==
  ASSUME Inv, WorldOK, pc \in ReplicaSteps, pc' \in {"storeRestored", "failedAt"},
         loc' = loc, mem' \in Journal, JournalIn(mem', proven),
         Ports(mem'.reps) \subseteq Ports(mem.reps) \cup {loc.old.port},
         disk' \in {disk, mem, mem'}, route' = route, UNCHANGED <<owed, result>>
  PROVE  Inv'
<1>0. pc \in DeploySteps \ {"load", "migrate"}
  BY DEF ReplicaSteps, FreshSteps, SwappedSteps, RevertedSteps, DeploySteps, Steps, StopSteps,
     StartSteps
<1>1. TypeOK'
  BY DEF Inv, TypeOK, WorldOK, Steps
<1>2. JournalsOK' /\ Launched'
  BY DEF Inv, JournalsOK, Launched, WorldOK
<1>3. OpOK'
  BY <1>0 DEF Inv, OpOK, DeploySteps, ReplicaSteps, FreshSteps, SwappedSteps, RevertedSteps,
     StopSteps, StartSteps, Steps
<1>4. RetiredOK' /\ OldOK'
  BY <1>0 DEF Inv, RetiredOK, OldOK, WorldOK
<1>5. CandOK' /\ RouteOK'
  BY DEF Inv, CandOK, RouteOK, WorldOK, ReplicaSteps, FreshSteps, SwappedSteps, RevertedSteps
<1> QED BY <1>1, <1>2, <1>3, <1>4, <1>5 DEF Inv

\* A stop keeps the world within its types.
LEMMA StopWorld ==
  ASSUME Inv, NEW S, StopOK(S) \/ StopFails(S), UNCHANGED <<proven, next, files, misled, classic>>
  PROVE  WorldOK
<1>1. /\ alive' \subseteq alive /\ strays' \subseteq strays \cup alive /\ budget' \in 0 .. budget
  BY StopFacts DEF Inv
<1> QED BY <1>1 DEF Inv, TypeOK, WorldOK, files

\* The replacement is discarded.
LEMMA DiscardEffect ==
  ASSUME Inv, Discard
  PROVE  /\ pc \in {"discard", "abandon"} /\ pc \in ReplicaSteps
         /\ pc' \in {"storeRestored", "failedAt"}
         /\ StopOK({loc.cand}) \/ StopFails({loc.cand})
         /\ mem' = RestoreReplica(mem) /\ WorldOK
         /\ UNCHANGED <<proven, next, route, files, loc, misled, owed, classic, result>>
<1>1. /\ pc \in {"discard", "abandon"}
      /\ pc' \in {"storeRestored", "failedAt"}
      /\ StopOK({loc.cand}) \/ StopFails({loc.cand})
      /\ mem' = RestoreReplica(mem)
      /\ UNCHANGED <<proven, next, route, files, loc, misled, owed, classic, result>>
  BY DEF Discard, Step
<1> QED BY <1>1, StopWorld DEF ReplicaSteps, FreshSteps

\* Discarding an unhealthy replacement preserves the invariant.
LEMMA DiscardInv == ASSUME Inv, Discard PROVE Inv'
BY DiscardEffect, RestoresReplica, GivenUpInv DEF files

\* The new membership is stored, or the deploy turns back.
LEMMA CommitEffect ==
  ASSUME Inv, Commit
  PROVE  /\ pc = "commit" /\ pc \in ReplicaSteps
         /\ \/ pc' = "drainOld" /\ disk' = mem /\ mem' = mem /\ budget' = budget
            \/ /\ pc' = "compensate" /\ StoreFails(mem) /\ mem' = RestoreReplica(mem)
               /\ disk' \in {disk, mem} /\ budget' \in 0 .. budget /\ budget' < budget
         /\ UNCHANGED <<procs, route, current, loc, misled, strays, owed, classic, result>>
<1>1. StoreFails(mem) => disk' \in {disk, mem} /\ budget' \in 0 .. budget /\ budget' < budget
  BY DEF StoreFails, Fault, Inv, TypeOK
<1> QED BY <1>1 DEF Commit, Step, StoreOK, NoFault, ReplicaSteps, SwappedSteps

\* Committing keeps the invariant.
LEMMA CommitInv == ASSUME Inv, Commit PROVE Inv'
<1>0. /\ pc = "commit" /\ pc \in ReplicaSteps /\ pc \in DeploySteps \ {"load", "migrate"}
      /\ pc' \in {"drainOld", "compensate"}
      /\ UNCHANGED <<procs, route, current, loc, misled, strays, owed, classic, result>>
      /\ disk' \in {disk, mem} /\ budget' \in 0 .. MaxFaults
  BY CommitEffect DEF Inv, TypeOK, DeploySteps, Steps, StopSteps, StartSteps
<1>m. /\ mem' \in Journal /\ JournalIn(mem', proven)
      /\ Ports(mem'.reps) \subseteq Ports(mem.reps) \cup {loc.old.port}
      /\ pc' = "compensate" => mem'.reps[loc.key] = loc.old /\ loc.cand \notin Ports(mem'.reps)
      /\ pc' = "drainOld" => mem' = mem
  BY <1>0, CommitEffect, RestoresReplica DEF Inv, TypeOK, JournalsOK
<1>1. TypeOK'
  BY <1>0, <1>m DEF Inv, TypeOK, Steps, procs
<1>2. JournalsOK' /\ Launched'
  BY <1>0, <1>m DEF Inv, JournalsOK, Launched, procs
<1>3. OpOK'
  BY <1>0 DEF Inv, OpOK, DeploySteps, ReplicaSteps, FreshSteps, SwappedSteps, RevertedSteps,
     StopSteps, StartSteps, Steps
<1>4. RetiredOK' /\ OldOK'
  BY <1>0, <1>m DEF Inv, RetiredOK, OldOK, procs
<1>5. CandOK'
  <2>1. Candidate' = Candidate
    BY <1>0 DEF Candidate
  <2>2. CASE pc' = "compensate"
    BY <1>0, <1>m, <2>2 DEF Inv, CandOK, procs, ReplicaSteps, FreshSteps, SwappedSteps, RevertedSteps
  <2>3. CASE pc' = "drainOld"
    BY <1>0, <1>m, <2>1, <2>3 DEF Inv, CandOK, procs, ReplicaSteps, FreshSteps, SwappedSteps, RevertedSteps
  <2> QED BY <1>0, <2>2, <2>3
<1>6. RouteOK'
  BY <1>0, <1>m DEF Inv, RouteOK, FreshSteps, procs
<1> QED BY <1>1, <1>2, <1>3, <1>4, <1>5, <1>6 DEF Inv

\* The proxy is turned back, or the replacement stays.
LEMMA CompensateEffect ==
  ASSUME Inv, Compensate
  PROVE  /\ pc = "compensate" /\ pc \in ReplicaSteps /\ loc' \in Locals
         /\ loc'.pre = loc.pre /\ loc'.op = loc.op /\ loc'.n = loc.n
         /\ loc'.legacy = loc.legacy /\ loc'.surplus = loc.surplus /\ loc'.key = loc.key
         /\ loc'.old = loc.old /\ loc'.cand = loc.cand /\ loc'.tver = loc.tver
         /\ loc'.progressed = loc.progressed /\ loc'.was = loc.was
         /\ \/ /\ pc' = "storeBack" /\ mem' = mem /\ route' = OldMembership
               /\ UNCHANGED <<budget, misled>> /\ loc'.enrolled = loc.was
            \/ /\ pc' = "bestKnown" /\ mem' = SetReplica(mem, loc.key, Candidate)
               /\ route' \in {route, OldMembership} /\ budget' \in 0 .. budget /\ budget' < budget
               /\ loc'.enrolled = loc.enrolled
               /\ misled' \in BOOLEAN /\ (~misled' => route' = route)
         /\ UNCHANGED <<procs, files, strays, owed, classic, result>>
<1>0. loc \in Locals
  BY DEF Inv, TypeOK
<1>1. CASE pc' = "storeBack"
  <2>1. /\ pc = "compensate" /\ mem' = mem /\ route' = OldMembership /\ UNCHANGED <<budget, misled>>
        /\ loc' = [loc EXCEPT !.enrolled = loc.was]
        /\ UNCHANGED <<procs, files, strays, owed, classic, result>>
    BY <1>1 DEF Compensate, Step, CallOK, NoFault
  <2>2. /\ loc' \in Locals /\ loc'.enrolled = loc.was
        /\ loc'.pre = loc.pre /\ loc'.op = loc.op /\ loc'.n = loc.n
        /\ loc'.legacy = loc.legacy /\ loc'.surplus = loc.surplus /\ loc'.key = loc.key
        /\ loc'.old = loc.old /\ loc'.cand = loc.cand /\ loc'.tver = loc.tver
        /\ loc'.progressed = loc.progressed /\ loc'.was = loc.was
    BY <1>0, <2>1 DEF Locals
  <2> QED BY <1>1, <2>1, <2>2 DEF ReplicaSteps, RevertedSteps
<1>2. CASE pc' # "storeBack"
  <2>1. /\ pc = "compensate" /\ pc' = "bestKnown" /\ mem' = SetReplica(mem, loc.key, Candidate)
        /\ CallFails(OldMembership) /\ loc' = loc
        /\ UNCHANGED <<procs, files, strays, owed, classic, result>>
    BY <1>2 DEF Compensate, Step
  <2>2. /\ route' \in {route, OldMembership} /\ budget' \in 0 .. budget /\ budget' < budget
        /\ misled' \in BOOLEAN /\ (~misled' => route' = route)
    BY <2>1, CallFailsFacts DEF Inv
  <2> QED BY <1>0, <2>1, <2>2 DEF ReplicaSteps, RevertedSteps
<1> QED BY <1>1, <1>2

\* Turning the proxy back to the old replica preserves the invariant.
LEMMA CompensateInv == ASSUME Inv, Compensate PROVE Inv'
<1> USE CompensateEffect
<1>0. /\ pc \in DeploySteps \ {"load", "migrate"} /\ loc.cand \in proven
      /\ pc' \in {"storeBack", "bestKnown"} /\ Candidate' = Candidate
      /\ budget' \in 0 .. MaxFaults /\ misled' \in BOOLEAN
      /\ route' \subseteq proven \cup {0}
  <2>1. loc.cand \in proven /\ pc \in DeploySteps \ {"load", "migrate"}
    BY DEF Inv, CandOK, DeploySteps, Steps, StopSteps, StartSteps, RevertedSteps
  <2>2. OldMembership \subseteq proven \cup {0}
    BY <2>1, MembershipFacts
  <2> QED BY <2>1, <2>2 DEF Inv, TypeOK, RouteOK, Candidate
<1>m. /\ mem' \in Journal /\ JournalIn(mem', proven)
      /\ Ports(mem'.reps) \subseteq Ports(mem.reps) \cup {loc.cand}
      /\ pc' = "bestKnown" => mem'.reps[loc.key] = Candidate
      /\ \A k \in Keys \ {loc.key} : mem'.reps[k] = mem.reps[k]
      /\ pc' = "storeBack" => mem' = mem
  BY <1>0, RecordsCandidate, MembershipFacts DEF Inv, TypeOK, JournalsOK
<1>1. TypeOK'
  <2>1. route' \subseteq Pid
    BY <1>0, PidFacts DEF Inv, TypeOK
  <2> QED BY <1>0, <1>m, <2>1 DEF Inv, TypeOK, Steps, procs, files
<1>2. JournalsOK' /\ Launched'
  BY <1>m DEF Inv, JournalsOK, Launched, procs, files
<1>3. OpOK'
  BY <1>0 DEF Inv, OpOK, DeploySteps, ReplicaSteps, FreshSteps, SwappedSteps, RevertedSteps,
     StopSteps, StartSteps, Steps
<1>4. RetiredOK' /\ OldOK'
  <2>1. /\ loc.cand \notin loc.legacy \cup loc.surplus
        /\ (loc.legacy \cup loc.surplus) \cap Ports(mem.reps) = {}
    BY <1>0 DEF Inv, CandOK, RetiredOK
  <2>2. (loc.legacy \cup loc.surplus) \cap Ports(mem'.reps) = {}
    BY <1>m, <2>1
  <2> QED BY <2>2, <1>0 DEF Inv, RetiredOK, OldOK, procs
<1>5. CandOK'
  <2>1. CASE pc' = "storeBack"
    BY <1>0, <1>m, <2>1 DEF Inv, CandOK, procs, ReplicaSteps, FreshSteps, SwappedSteps, RevertedSteps
  <2>2. CASE pc' = "bestKnown"
    <3>1. loc.old.port # 0 => loc.old.port \notin Ports(mem'.reps)
      BY <1>0, <1>m, <2>2, AtReplica DEF Inv, CandOK, JournalsOK, JournalIn, Ports, RevertedSteps
    <3>2. pc' \in SwappedSteps /\ pc' \notin FreshSteps \cup RevertedSteps /\ pc \in ReplicaSteps
      BY <2>2 DEF SwappedSteps, FreshSteps, RevertedSteps
    <3> QED BY <1>0, <1>m, <2>2, <3>1, <3>2 DEF Inv, CandOK, procs
  <2> QED BY <1>0, <2>1, <2>2
<1>6. RouteOK'
  <2>1. pc' = "storeBack" => loc.cand \notin route'
    <3>1. loc.cand \notin Ports(mem.reps) /\ loc.cand # 0
      BY AtReplica DEF Inv, CandOK, RevertedSteps, Inst
    <3> QED BY <3>1, HealthyFacts DEF OldMembership
  <2> QED BY <1>0, <2>1 DEF RouteOK, FreshSteps, procs
<1> QED BY <1>1, <1>2, <1>3, <1>4, <1>5, <1>6 DEF Inv

\* The old instance is drained, and the next replica is due.
LEMMA DrainOldEffect ==
  ASSUME Inv, DrainOld
  PROVE  /\ pc = "drainOld" /\ pc \in ReplicaSteps /\ pc' \in {"roll", "stopLegacy"}
         /\ StopOK({loc.old.pid}) \/ StopFails({loc.old.pid})
         /\ WorldOK /\ loc' \in Locals
         /\ loc'.pre = loc.pre /\ loc'.op = loc.op /\ loc'.n = loc.n
         /\ loc'.legacy = loc.legacy /\ loc'.surplus = loc.surplus /\ loc'.key = loc.key + 1
         /\ loc'.old = NoReplica /\ loc'.tver = loc.tver /\ loc'.enrolled = loc.enrolled
         /\ loc'.progressed = TRUE
         /\ UNCHANGED <<proven, next, route, files, mem, misled, owed, classic, result>>
<1>1. /\ pc = "drainOld" /\ pc' \in {"roll", "stopLegacy"} /\ pc \in ReplicaSteps
      /\ StopOK({loc.old.pid}) \/ StopFails({loc.old.pid})
      /\ loc' = [loc EXCEPT !.progressed = TRUE, !.key = loc.key + 1, !.old = NoReplica, !.cand = 0]
      /\ UNCHANGED <<proven, next, route, files, mem, misled, owed, classic, result>>
  BY DEF DrainOld, Step, ReplicaSteps, SwappedSteps
<1>2. loc.key + 1 \in 0 .. MaxReplicas /\ 0 \in Pid /\ NoReplica \in Replica /\ loc \in Locals
  BY <1>1, AtReplica, PidFacts, EmptyFacts DEF Keys
<1>3. /\ loc' \in Locals
      /\ loc'.pre = loc.pre /\ loc'.op = loc.op /\ loc'.n = loc.n
      /\ loc'.legacy = loc.legacy /\ loc'.surplus = loc.surplus /\ loc'.key = loc.key + 1
      /\ loc'.old = NoReplica /\ loc'.tver = loc.tver /\ loc'.enrolled = loc.enrolled
      /\ loc'.progressed = TRUE
  BY <1>1, <1>2 DEF Locals
<1> QED BY <1>1, <1>3, StopWorld

\* Stopping the replica that was swapped out preserves the invariant.
LEMMA DrainOldInv == ASSUME Inv, DrainOld PROVE Inv'
<1> USE DrainOldEffect
<1>0. pc \in DeploySteps \ {"load", "migrate"}
  BY DEF DeploySteps, Steps, StopSteps, StartSteps
<1>1. TypeOK'
  <2>1. pc' \in Steps
    BY DEF Steps
  <2>2. alive' \subseteq Inst /\ strays' \subseteq Inst
    BY DEF Inv, TypeOK, WorldOK
  <2>3. budget' \in 0 .. MaxFaults
    <3>1. budget' \in 0 .. budget
      BY DEF WorldOK
    <3>2. budget \in 0 .. MaxFaults
      BY DEF Inv, TypeOK
    <3> QED BY ONLY <3>1, <3>2, MaxFaultsAssumption
  <2> QED BY <2>1, <2>2, <2>3 DEF Inv, TypeOK, files
<1>2. JournalsOK' /\ Launched'
  BY DEF Inv, JournalsOK, Launched, WorldOK, files
<1>3. OpOK'
  BY <1>0 DEF Inv, OpOK, DeploySteps, ReplicaSteps, FreshSteps, SwappedSteps, RevertedSteps,
     StopSteps, StartSteps, Steps
<1>4. RetiredOK' /\ OldOK'
  <2>1. 0 \notin loc.legacy \cup loc.surplus
    BY AtReplica, LocalFields DEF Inst
  <2> QED BY <1>0, <2>1, EmptyFacts DEF Inv, RetiredOK, OldOK
<1>5. CandOK' /\ RouteOK'
  BY DEF Inv, CandOK, RouteOK, ReplicaSteps, FreshSteps, SwappedSteps, RevertedSteps
<1> QED BY <1>1, <1>2, <1>3, <1>4, <1>5 DEF Inv

-----------------------------------------------------------------------------
(* What stop and start do, and what happens beside them.                   *)

\* Every PID goes.
LEMMA TeardownEffect ==
  ASSUME Inv, Teardown
  PROVE  /\ pc = "teardown" /\ pc' = "storeTorn" /\ WorldOK
         /\ StopOK(Pids(mem)) \/ StopFails(Pids(mem))
         /\ mem' \in Journal /\ mem'.slot = mem.slot /\ mem'.mode = mem.mode
         /\ \A k \in Keys : mem'.reps[k].port = mem.reps[k].port /\ mem'.reps[k].pid = 0
         /\ UNCHANGED <<proven, next, route, files, loc, misled, owed, classic, result>>
<1>1. /\ pc = "teardown" /\ pc' = "storeTorn"
      /\ StopOK(Pids(mem)) \/ StopFails(Pids(mem))
      /\ mem' = [mem EXCEPT !.reps = [k \in Keys |-> TornDown(mem.reps[k])]]
      /\ UNCHANGED <<proven, next, route, files, loc, misled, owed, classic, result>>
  BY DEF Teardown, Step
<1>2. mem \in Journal /\ \A k \in Keys : mem.reps[k] \in Replica
  BY DEF Inv, TypeOK, Journal
<1>3. \A k \in Keys : /\ TornDown(mem.reps[k]) \in Replica
                      /\ TornDown(mem.reps[k]).port = mem.reps[k].port
                      /\ TornDown(mem.reps[k]).pid = 0
  BY <1>2, TornDownFacts
<1>4. /\ mem' \in Journal /\ mem'.slot = mem.slot /\ mem'.mode = mem.mode
      /\ \A k \in Keys : mem'.reps[k] = TornDown(mem.reps[k])
  BY <1>1, <1>2, <1>3 DEF Journal
<1> QED BY <1>1, <1>3, <1>4, StopWorld

\* Tearing down keeps the ports.
LEMMA TeardownInv == ASSUME Inv, Teardown PROVE Inv'
<1> USE TeardownEffect
<1>1. TypeOK'
  <2>1. /\ pc' \in Steps /\ alive' \subseteq Inst /\ budget' \in 0 .. MaxFaults
        /\ strays' \subseteq Inst
    BY DEF Inv, TypeOK, WorldOK, Steps
  <2> QED BY <2>1 DEF Inv, TypeOK, files
<1>2. JournalsOK' /\ Launched'
  <2>1. JournalIn(mem', proven)
    BY JournalShrinks DEF Inv, JournalsOK
  <2> QED BY <2>1 DEF Inv, JournalsOK, Launched, WorldOK, files
<1>3. OpOK'
  BY DEF Inv, OpOK, DeploySteps, ReplicaSteps, FreshSteps, SwappedSteps, RevertedSteps,
     StopSteps, StartSteps, Steps
<1>4. RetiredOK' /\ OldOK'
  BY DEF Inv, RetiredOK, OldOK, DeploySteps, StopSteps
<1>5. CandOK' /\ RouteOK'
  BY DEF Inv, CandOK, RouteOK, ReplicaSteps, FreshSteps, SwappedSteps, RevertedSteps
<1> QED BY <1>1, <1>2, <1>3, <1>4, <1>5 DEF Inv

\* A set of replicas has a first one.
LEMMA FirstDown ==
  ASSUME NEW S \in SUBSET Keys, S # {}
  PROVE  (CHOOSE k \in S : \A q \in S : k <= q) \in S
<1> DEFINE UpTo(k) == {q \in S : q <= k}
           Sets == {UpTo(k) : k \in S}
<1>1. IsFiniteSet(S) /\ S \subseteq Nat
  BY KeysFinite, FS_Subset DEF Keys
<1>2. Sets \subseteq FiniteSubsetsOf(S) /\ Sets # {}
  <2>1. ASSUME NEW k \in S PROVE UpTo(k) \in FiniteSubsetsOf(S)
    <3>1. UpTo(k) \in SUBSET S
      OBVIOUS
    <3>2. IsFiniteSet(UpTo(k))
      BY ONLY <1>1, <3>1, FS_Subset
    <3> QED BY <3>1, <3>2 DEF FiniteSubsetsOf
  <2> QED BY <2>1
<1>3. PICK B \in Sets : \A C \in Sets : <<C, B>> \notin StrictSubsetOrdering(S)
  BY <1>2, FS_StrictSubsetOrderingWellFounded, WFMin
<1>4. PICK k \in S : B = UpTo(k)
  BY <1>3
<1>5. ASSUME NEW q \in S, ~(k <= q) PROVE FALSE
  <2>1. k \in Nat /\ q \in Nat /\ \A r \in S : r \in Nat
    BY <1>1
  <2>2. UpTo(q) \in Sets /\ UpTo(q) \subseteq UpTo(k)
    <3>1. UpTo(q) \in Sets
      OBVIOUS
    <3>2. \A r \in S : r <= q => r <= k
      BY ONLY <2>1, <1>5
    <3> QED BY <3>1, <3>2
  <2>3. k \in UpTo(k) /\ k \notin UpTo(q)
    BY <2>1, <1>5
  <2> QED BY <2>2, <2>3, <1>3, <1>4 DEF StrictSubsetOrdering
<1> QED BY <1>5

\* A replica that is down is started on a new instance, or not.
LEMMA StartReplicaEffect ==
  ASSUME Inv, StartReplica
  PROVE  /\ pc = "start" /\ next \in Inst /\ next' = next + 1 /\ alive' = alive \cup {next}
         /\ loc' \in Locals /\ loc'.cand = next
         /\ loc'.pre = loc.pre /\ loc'.op = loc.op /\ loc'.n = loc.n
         /\ loc'.legacy = loc.legacy /\ loc'.surplus = loc.surplus /\ loc'.old = loc.old
         /\ loc'.progressed = loc.progressed
         /\ \/ /\ pc' = "storeStarted" /\ proven' = proven \cup {next}
               /\ mem' \in Journal /\ mem'.slot = mem.slot /\ mem'.mode = mem.mode
               /\ \E k \in Keys : /\ mem'.reps[k].port = next /\ mem'.reps[k].pid = next
                                  /\ mem.reps[k].pid \notin alive
                                  /\ \A m \in Keys \ {k} : mem'.reps[m] = mem.reps[m]
            \/ pc' = "undoStart" /\ UNCHANGED <<mem, proven>>
         /\ UNCHANGED <<route, files, budget, misled, strays, owed, classic, result>>
<1>0. /\ pc = "start" /\ next <= MaxInst /\ next' = next + 1 /\ alive' = alive \cup {next}
      /\ UNCHANGED <<route, files, budget, misled, strays, owed, classic, result>>
      /\ Down(mem) # {}
  BY DEF StartReplica, Step, Launch
<1>1. next \in Inst /\ next \in Pid /\ loc \in Locals /\ mem \in Journal
  BY <1>0 DEF Inv, TypeOK, Inst, Pid
<1>k. PICK k \in Keys : k = CHOOSE i \in Down(mem) : \A q \in Down(mem) : i <= q
  <2>1. Down(mem) \in SUBSET Keys
    BY DEF Down
  <2> QED BY <1>0, <2>1, FirstDown
<1>d. mem.reps[k].pid \notin alive /\ k + 1 \in 0 .. MaxReplicas /\ mem.reps[k] \in Replica
  <2>1. k \in Down(mem)
    <3>1. Down(mem) \in SUBSET Keys
      BY DEF Down
    <3> QED BY <1>0, <1>k, <3>1, FirstDown
  <2> QED BY <2>1, <1>1, JournalFields DEF Down, Keys
<1>2. CASE pc' = "storeStarted"
  <2>1. /\ loc' = [loc EXCEPT !.cand = next, !.key = k + 1] /\ proven' = proven \cup {next}
        /\ mem' = SetReplica(mem, k, [mem.reps[k] EXCEPT !.pid = next, !.port = next, !.status = "running"])
    BY <1>2, <1>k DEF StartReplica, Step
  <2>2. /\ loc' \in Locals /\ loc'.cand = next
        /\ loc'.pre = loc.pre /\ loc'.op = loc.op /\ loc'.n = loc.n
        /\ loc'.legacy = loc.legacy /\ loc'.surplus = loc.surplus /\ loc'.old = loc.old
        /\ loc'.progressed = loc.progressed
    BY <1>1, <1>d, <2>1 DEF Locals
  <2>3. PICK rec \in Replica : /\ mem' = SetReplica(mem, k, rec)
                               /\ rec.port = next /\ rec.pid = next
    BY <1>1, <1>d, <2>1, RestartedFacts
  <2>4. /\ mem' \in Journal /\ mem'.slot = mem.slot /\ mem'.mode = mem.mode
        /\ mem'.reps[k] = rec /\ \A m \in Keys \ {k} : mem'.reps[m] = mem.reps[m]
    BY <1>1, <2>3, SetReplicaFacts
  <2> QED BY <1>0, <1>1, <1>2, <1>d, <2>1, <2>2, <2>3, <2>4
<1>3. CASE pc' # "storeStarted"
  <2>1. pc' = "undoStart" /\ UNCHANGED <<mem, proven>> /\ loc' = [loc EXCEPT !.cand = next]
    BY <1>3 DEF StartReplica, Step
  <2>2. /\ loc' \in Locals /\ loc'.cand = next
        /\ loc'.pre = loc.pre /\ loc'.op = loc.op /\ loc'.n = loc.n
        /\ loc'.legacy = loc.legacy /\ loc'.surplus = loc.surplus /\ loc'.old = loc.old
        /\ loc'.progressed = loc.progressed
    BY <1>1, <2>1 DEF Locals
  <2> QED BY <1>0, <1>1, <2>1, <2>2
<1> QED BY <1>2, <1>3

\* Starting the next replica of a stopped fleet preserves the invariant.
LEMMA StartReplicaInv == ASSUME Inv, StartReplica PROVE Inv'
<1> USE StartReplicaEffect
<1>p. next \notin proven /\ next \notin route /\ next # 0
  <2>1. next \notin proven /\ next # 0
    BY DEF Inv, Launched, Inst
  <2> QED BY <2>1 DEF Inv, RouteOK
<1>q. pc' \in {"storeStarted", "undoStart"} /\ proven \subseteq proven' /\ proven' \subseteq proven \cup {next}
  OBVIOUS
<1>1. TypeOK'
  <2>1. pc' \in Steps /\ next' \in 1 .. MaxInst + 1
    BY <1>q DEF Steps, Inst
  <2>2. mem' \in Journal /\ proven' \subseteq Inst
    BY DEF Inv, TypeOK
  <2> QED BY <2>1, <2>2 DEF Inv, TypeOK, files
<1>2. JournalsOK'
  <2>1. /\ JournalIn(mem, proven') /\ JournalIn(disk', proven') /\ JournalIn(loc'.pre, proven')
    BY <1>q, JournalGrows DEF Inv, JournalsOK, files
  <2>2. JournalIn(mem', proven')
    <3>1. CASE mem' = mem
      BY <3>1, <2>1
    <3>2. CASE pc' = "storeStarted"
      <4>1. PICK k \in Keys : /\ mem'.reps[k].port = next /\ mem'.reps[k].pid = next
                              /\ \A m \in Keys \ {k} : mem'.reps[m] = mem.reps[m]
        BY <3>2
      <4>2. \A m \in Keys : mem.reps[m].port # next
        BY <1>p DEF Inv, JournalsOK, JournalIn
      <4>3. next \in proven' /\ mem'.slot = mem.slot
        BY <3>2
      <4> QED BY <4>1, <4>2, <4>3, <2>1 DEF JournalIn
    <3> QED BY <3>1, <3>2
  <2> QED BY <2>1, <2>2 DEF JournalsOK
<1>3. Launched'
  <2>1. next \in Nat /\ \A i \in alive \cup proven : i \in Nat /\ i < next
    BY LaunchedFacts
  <2>2. \A i \in alive \cup proven : i < next + 1
    BY <2>1
  <2> QED BY <2>1, <2>2, <1>q DEF Launched
<1>4. OpOK'
  BY <1>q DEF Inv, OpOK, DeploySteps, ReplicaSteps, FreshSteps, SwappedSteps, RevertedSteps,
     StopSteps, StartSteps, Steps
<1>5. RetiredOK' /\ OldOK'
  BY <1>q DEF Inv, RetiredOK, OldOK, DeploySteps, StartSteps
<1>6. CandOK'
  <2>1. next < next'
    BY LaunchedFacts
  <2> QED BY <1>q, <2>1 DEF CandOK, ReplicaSteps, FreshSteps, SwappedSteps, RevertedSteps
<1>7. RouteOK'
  BY <1>p, <1>q DEF Inv, RouteOK, FreshSteps
<1> QED BY <1>1, <1>2, <1>3, <1>4, <1>5, <1>6, <1>7 DEF Inv

\* An instance dies, and nobody notices.
LEMMA InstanceDiesInv == ASSUME Inv, InstanceDies PROVE Inv'
<1>0. /\ alive' \subseteq alive /\ pc = "idle" /\ result' = "none" /\ owed' = 0
      /\ UNCHANGED <<proven, next, route, files, pc, mem, loc, budget, misled, strays, classic>>
  BY DEF InstanceDies
<1>1. TypeOK' /\ JournalsOK' /\ Launched'
  BY <1>0 DEF Inv, TypeOK, JournalsOK, Launched, files
<1>2. OpOK' /\ RetiredOK' /\ OldOK' /\ CandOK' /\ RouteOK'
  BY <1>0 DEF Inv, OpOK, RetiredOK, OldOK, CandOK, RouteOK, Candidate
<1> QED BY <1>1, <1>2 DEF Inv

-----------------------------------------------------------------------------
(* The first theorems.                                                     *)

\* Every step preserves the invariant.
LEMMA NextInv == Inv /\ [Next]_vars => Inv'
<1> SUFFICES ASSUME Inv, [Next]_vars PROVE Inv'
  OBVIOUS
<1>1. CASE Prepare
  <2>1. CASE \E n \in 1 .. MaxReplicas : Begin("deploy", n)
    <3>1. PICK n \in 1 .. MaxReplicas : Begin("deploy", n)
      BY <2>1
    <3>2. n \in 0 .. MaxReplicas /\ n >= 1 /\ "deploy" \in Ops
      BY DEF Ops
    <3> QED BY <3>1, <3>2, BeginInv
  <2>2. CASE \E op \in {"stop", "start"} : Begin(op, 0)
    <3>1. PICK op \in {"stop", "start"} : Begin(op, 0)
      BY <2>2
    <3>2. op \in Ops /\ op # "deploy" /\ 0 \in 0 .. MaxReplicas
      BY DEF Ops
    <3> QED BY <3>1, <3>2, BeginInv
  <2>3. CASE MigrateTo
    BY <2>3, MigrateToInv, ReturnStepInv
  <2>4. CASE BuildFails
    <3>1. pc' = "undo" \/ pc' = "idle"
      BY <2>4 DEF BuildFails, Step, Return
    <3> QED BY <2>4, <3>1, DecideStepInv, ReturnStepInv
  <2> QED BY <1>1, <2>1, <2>2, <2>3, <2>4, LoadStateInv, PlanFleetInv, BuildInv DEF Prepare
<1>2. CASE RollOne
  <2>1. CASE Cancelled
    <3>1. pc' = "undo" \/ pc' = "idle"
      BY <2>1 DEF Cancelled, Step, Return
    <3> QED BY <2>1, <3>1, DecideStepInv, ReturnStepInv
  <2>2. CASE LaunchFails \/ HealthFails \/ HandOffPublicPort
    BY <2>2, DecideStepInv
  <2>3. CASE StoreReplacing \/ StoreRestored \/ StoreBestKnown \/ StoreBack
    BY <2>3, StoreStepInv
  <2>4. CASE StopCandidate
    BY <2>4, StopStepInv
  <2> QED BY <1>2, <2>1, <2>2, <2>3, <2>4, LaunchReplacementInv, HealthPassesInv,
         HandOffServedInv, SwapMembershipInv, DiscardInv, CommitInv, CompensateInv, DrainOldInv DEF RollOne
<1>3. CASE Finish
  <2>1. CASE StopLegacy
    <3>1. pc' = "roll" \/ pc' = "idle"
      BY <2>1 DEF StopLegacy, Step, Return
    <3> QED BY <2>1, <3>1, StopStepInv, ReturnStopInv
  <2>2. CASE FailedAt
    <3>1. pc' = "undo" \/ pc' = "idle"
      BY <2>2 DEF FailedAt, Step, Return
    <3> QED BY <2>2, <3>1, DecideStepInv, ReturnStepInv
  <2>3. CASE UndoMigration \/ Promote
    <3>1. pc' = "idle"
      BY <2>3 DEF UndoMigration, Promote, Return
    <3> QED BY <2>3, <3>1, ReturnStepInv
  <2>4. CASE StopSurplus
    <3>1. pc' = "storeFinal" \/ pc' = "idle"
      BY <2>4 DEF StopSurplus, Step, Return
    <3> QED BY <2>4, <3>1, StopStepInv, ReturnStopInv
  <2>5. CASE StoreFinal
    <3>1. pc' = "promote" \/ pc' = "idle"
      BY <2>5 DEF StoreFinal, Step, Return
    <3> QED BY <2>5, <3>1, StoreStepInv, ReturnStepInv
  <2> QED BY <1>3, <2>1, <2>2, <2>3, <2>4, <2>5 DEF Finish
<1>4. CASE StopStart
  <2>1. CASE StoreTorn \/ StartEnds
    <3>1. pc' = "idle"
      BY <2>1 DEF StoreTorn, StartEnds, Return
    <3> QED BY <2>1, <3>1, ReturnStepInv
  <2>2. CASE UndoStart \/ RestoreProxyRoute
    <3>1. pc' = "idle"
      BY <2>2 DEF UndoStart, RestoreProxyRoute, Return
    <3> QED BY <2>2, <3>1, ReturnStopInv
  <2>3. CASE StoreStarted
    BY <2>3, StoreStepInv
  <2> QED BY <1>4, <2>1, <2>2, <2>3, RemoveRouteInv, TeardownInv, StartReplicaInv DEF StopStart
<1>5. CASE Crash
  <2>1. pc' = "idle"
    BY <1>5 DEF Crash, Return
  <2> QED BY <1>5, <2>1, ReturnStepInv
<1>6. CASE InstanceDies
  BY <1>6, InstanceDiesInv
<1>7. CASE UNCHANGED vars
  BY <1>7 DEF vars, procs, files, hist, Inv, TypeOK, JournalsOK, Launched, OpOK, RetiredOK, OldOK,
     CandOK, RouteOK, Candidate
<1> QED BY <1>1, <1>2, <1>3, <1>4, <1>5, <1>6, <1>7 DEF Next

\* The invariant holds in every reachable state.
THEOREM FleetInvariant == Spec => []Inv
BY InitInv, NextInv, PTL DEF Spec

\* Every variable of a rolling deploy keeps its type, whatever fails.
THEOREM TypeCorrect == Spec => []TypeOK
<1>1. Inv => TypeOK
  BY DEF Inv
<1> QED BY <1>1, FleetInvariant, PTL

\* Swaps, compensations, lost replies, crashes and restarts included, the proxy
\* never routes to a replica that did not pass its check.
THEOREM NeverRoutedUnproven == Spec => []OnlyProvenRouted
<1>1. Inv => OnlyProvenRouted
  BY DEF Inv, RouteOK, OnlyProvenRouted, Nowhere
<1> QED BY <1>1, FleetInvariant, PTL

-----------------------------------------------------------------------------
(* What the steps of a rollout leave alone.                                *)

\* The steps of a rollout that touch no process, no record in memory and no
\* local variable.
Quiet ==
  \/ LaunchFails \/ HealthPasses \/ HealthFails \/ HandOffPublicPort
  \/ StoreReplacing \/ StoreRestored \/ StoreBestKnown \/ StoreBack
  \/ SwapMembership /\ pc' = "discard"
  \/ BuildFails /\ pc' = "undo"
  \/ Cancelled /\ pc' = "undo"
  \/ FailedAt /\ pc' = "undo"
  \/ StoreFinal /\ pc' = "promote"

QuietFlow(from, to) ==
  \/ from = "build" /\ to = "undo"
  \/ from = "roll" /\ to \in {"undo", "failedAt"}
  \/ from = "storeReplacing" /\ to \in {"health", "abandon"}
  \/ from = "health" /\ to \in {"swap", "discard"}
  \/ from = "swap" /\ to \in {"swap", "discard"}
  \/ from \in {"storeRestored", "bestKnown", "storeBack"} /\ to = "failedAt"
  \/ from = "storeBack" /\ to = "stopCandidate"
  \/ from = "failedAt" /\ to = "undo"
  \/ from = "storeFinal" /\ to = "promote"

\* They only write deploy.json and call the proxy.
LEMMA QuietEffect ==
  ASSUME Inv, Quiet
  PROVE  /\ mem' = mem /\ loc' = loc /\ alive' = alive /\ strays' = strays /\ owed' = owed
         /\ next' = next /\ budget' \in 0 .. budget
         /\ misled' \in BOOLEAN /\ (misled => misled') /\ (~misled' => route' = route)
         /\ QuietFlow(pc, pc') /\ (pc' = "promote" => disk' = mem)
         /\ disk' \in {disk, mem}
         /\ pc = "storeBack" => IF pc' = "failedAt" THEN budget' < budget ELSE disk' = mem
<1>0. TypeOK
  BY DEF Inv
<1>1. CASE SwapMembership /\ pc' = "discard"
  <2>1. /\ pc = "swap" /\ mem' = mem /\ loc' = loc /\ CallFails(Membership)
        /\ UNCHANGED <<procs, files, strays, owed, classic>>
    BY <1>1 DEF SwapMembership, Step
  <2>2. /\ budget' \in 0 .. budget /\ misled' \in BOOLEAN /\ (misled => misled')
        /\ (~misled' => route' = route)
    BY <1>0, <2>1, CallFailsFacts
  <2>3. QuietFlow(pc, pc') /\ pc' # "promote"
    BY <1>1, <2>1 DEF QuietFlow
  <2> QED BY <1>1, <2>1, <2>2, <2>3 DEF procs, files
<1>2. CASE StoreReplacing \/ StoreRestored \/ StoreBestKnown \/ StoreBack
             \/ (StoreFinal /\ pc' = "promote")
  <2>1. disk' \in {disk, mem} /\ budget' \in 0 .. budget
    BY <1>0, <1>2, StoreFacts DEF StoreBestEffort, StoreReplacing, StoreRestored, StoreBestKnown,
       StoreBack, StoreFinal
  <2>2. /\ mem' = mem /\ loc' = loc
        /\ UNCHANGED <<procs, route, current, misled, strays, owed, classic>>
    BY <1>2 DEF StoreReplacing, StoreRestored, StoreBestKnown, StoreBack, StoreFinal, Return
  <2>3. QuietFlow(pc, pc')
    BY <1>2 DEF StoreReplacing, StoreRestored, StoreBestKnown, StoreBack, StoreFinal, Return, Step,
       QuietFlow
  <2>4. pc' = "promote" => disk' = mem
    BY <1>2 DEF StoreReplacing, StoreRestored, StoreBestKnown, StoreBack, StoreFinal, Return, Step,
       StoreOK
  <2>5. misled' \in BOOLEAN /\ (misled => misled')
    BY <1>0, <2>2, Zenon DEF TypeOK
  <2>6. pc = "storeBack" => IF pc' = "failedAt" THEN budget' < budget ELSE disk' = mem
    BY <1>0, <1>2 DEF StoreReplacing, StoreRestored, StoreBestKnown, StoreBack, StoreFinal, Return,
       Step, StoreOK, StoreFails, Fault, TypeOK
  <2> QED BY <2>1, <2>2, <2>3, <2>4, <2>5, <2>6 DEF procs
<1>3. CASE \/ LaunchFails \/ HealthPasses \/ HealthFails \/ HandOffPublicPort
           \/ (BuildFails /\ pc' = "undo") \/ (Cancelled /\ pc' = "undo")
           \/ (FailedAt /\ pc' = "undo")
  <2>1. /\ mem' = mem /\ loc' = loc /\ UNCHANGED <<alive, next, route, files, misled, strays, owed>>
    BY <1>3 DEF LaunchFails, HealthPasses, HealthFails, HandOffPublicPort, BuildFails, Cancelled,
       FailedAt, Return, procs, files
  <2>2. budget' \in 0 .. budget
    <3>1. budget' = budget \/ \E kind : Fault(kind)
      BY <1>3 DEF LaunchFails, HealthPasses, HealthFails, HandOffPublicPort, BuildFails, Cancelled,
         FailedAt, Return, NoFault
    <3> QED BY <1>0, <3>1, FaultFacts DEF NoFault
  <2>3. QuietFlow(pc, pc') /\ pc' # "promote"
    BY <1>3 DEF LaunchFails, HealthPasses, HealthFails, HandOffPublicPort, BuildFails, Cancelled,
       FailedAt, Return, Step, QuietFlow
  <2>4. misled' \in BOOLEAN /\ (misled => misled')
    BY <1>0, <2>1, Zenon DEF TypeOK
  <2>5. pc # "storeBack"
    BY <1>3 DEF LaunchFails, HealthPasses, HealthFails, HandOffPublicPort, BuildFails, Cancelled,
       FailedAt, Return, Step
  <2> QED BY <2>1, <2>2, <2>3, <2>4, <2>5 DEF files
<1> QED BY <1>1, <1>2, <1>3 DEF Quiet

\* The steps that stop what a deploy retires go on with the same replicas.
LEMMA RetireEffect ==
  ASSUME Inv, \/ StopCandidate
              \/ StopLegacy /\ pc' = "roll"
              \/ StopSurplus /\ pc' = "storeFinal"
  PROVE  /\ loc' = loc /\ mem'.reps = mem.reps /\ mem'.mode = mem.mode /\ mem'.slot = mem.slot
         /\ alive' \subseteq alive /\ (alive \ alive') \cap Ports(mem.reps) = {}
         /\ strays \subseteq strays' /\ budget' \in 0 .. budget
         /\ UNCHANGED <<next, route, files, misled, owed>>
         /\ \/ pc = "stopCandidate" /\ pc' = "failedAt" /\ alive' \cap {loc.cand} \subseteq strays'
            \/ pc = "stopLegacy" /\ pc' = "roll"
            \/ /\ pc = "roll" /\ pc' = "storeFinal" /\ mem'.ver = loc.tver
               /\ loc.key = loc.n /\ loc.progressed
<1>0. TypeOK /\ mem \in Journal /\ loc \in Locals
  BY DEF Inv, TypeOK
<1>1. CASE StopCandidate
  <2>1. /\ pc = "stopCandidate" /\ pc' = "failedAt" /\ (StopOK({loc.cand}) \/ StopFails({loc.cand}))
        /\ UNCHANGED <<proven, next, route, files, mem, loc, misled, owed, classic>>
    BY <1>1 DEF StopCandidate, Step
  <2>2. loc.cand \notin Ports(mem.reps)
    BY <2>1 DEF Inv, CandOK, RevertedSteps
  <2>3. /\ alive' \subseteq alive /\ alive \ alive' \subseteq {loc.cand} /\ budget' \in 0 .. budget
        /\ strays \subseteq strays' /\ alive' \cap {loc.cand} \subseteq strays'
    BY ONLY <1>0, <2>1, StopFacts
  <2> QED BY <2>1, <2>2, <2>3
<1>2. CASE StopLegacy /\ pc' = "roll"
  <2>1. /\ pc = "stopLegacy" /\ StopOK(loc.legacy)
        /\ UNCHANGED <<proven, next, route, files, mem, loc, misled, owed, classic>>
    BY <1>2 DEF StopLegacy, Step, Return
  <2>2. loc.legacy \cap Ports(mem.reps) = {}
    BY <2>1 DEF Inv, RetiredOK, DeploySteps, Steps, StopSteps, StartSteps
  <2>3. /\ alive' \subseteq alive /\ alive \ alive' \subseteq loc.legacy /\ budget' \in 0 .. budget
        /\ strays \subseteq strays'
    BY ONLY <1>0, <2>1, StopFacts
  <2> QED BY <1>2, <2>1, <2>2, <2>3
<1>3. CASE StopSurplus /\ pc' = "storeFinal"
  <2>1. /\ pc = "roll" /\ loc.key = loc.n /\ StopOK(loc.surplus)
        /\ mem' = [mem EXCEPT !.ver = loc.tver]
        /\ UNCHANGED <<proven, next, route, files, loc, misled, owed, classic>>
    BY <1>3 DEF StopSurplus, Step, Return
  <2>2. loc.surplus \cap Ports(mem.reps) = {} /\ loc.progressed
    BY <2>1 DEF Inv, OpOK, RetiredOK, DeploySteps, Steps, StopSteps, StartSteps
  <2>3. /\ alive' \subseteq alive /\ alive \ alive' \subseteq loc.surplus /\ budget' \in 0 .. budget
        /\ strays \subseteq strays'
    BY ONLY <1>0, <2>1, StopFacts
  <2>4. /\ mem'.reps = mem.reps /\ mem'.mode = mem.mode /\ mem'.slot = mem.slot
        /\ mem'.ver = loc.tver
    BY <1>0, <2>1 DEF Journal
  <2> QED BY <1>3, <2>1, <2>2, <2>3, <2>4
<1> QED BY <1>1, <1>2, <1>3

Retire == \/ StopCandidate
          \/ StopLegacy /\ pc' = "roll"
          \/ StopSurplus /\ pc' = "storeFinal"

\* The steps after which a deploy goes on.
LEMMA DeployCases ==
  ASSUME Inv, [Next]_vars, pc' \in DeploySteps
  PROVE  \/ UNCHANGED vars \/ Quiet \/ Retire
         \/ \E n \in 1 .. MaxReplicas : Begin("deploy", n)
         \/ LoadState \/ (MigrateTo /\ pc' # "idle") \/ PlanFleet \/ Build
         \/ LaunchReplacement \/ HandOffServed \/ (SwapMembership /\ pc' # "discard")
         \/ Discard \/ Commit \/ Compensate \/ DrainOld
<1>0. pc' \notin {"idle", "unroute", "teardown", "storeTorn", "start", "storeStarted", "undoStart"}
  BY DEF DeploySteps, Steps, StopSteps, StartSteps
<1>1. CASE Prepare
  <2>1. ~(\E op \in {"stop", "start"} : Begin(op, 0))
    BY <1>0 DEF Begin
  <2>2. BuildFails => Quiet
    BY <1>0 DEF BuildFails, Quiet, Return, Step
  <2> QED BY <1>0, <1>1, <2>1, <2>2 DEF Prepare
<1>2. CASE RollOne
  <2>1. Cancelled => Quiet
    BY <1>0 DEF Cancelled, Quiet, Return, Step
  <2>2. LaunchFails \/ StoreReplacing \/ HealthPasses \/ HealthFails \/ HandOffPublicPort
          \/ StoreRestored \/ StoreBestKnown \/ StoreBack => Quiet
    BY DEF Quiet
  <2>3. SwapMembership /\ pc' = "discard" => Quiet
    BY DEF Quiet
  <2> QED BY <1>2, <2>1, <2>2, <2>3 DEF RollOne, Retire
<1>3. CASE Finish
  <2>1. FailedAt \/ StoreFinal => Quiet
    BY <1>0 DEF FailedAt, StoreFinal, Quiet, Return, Step
  <2>2. StopLegacy \/ StopSurplus => Retire
    BY <1>0 DEF StopLegacy, StopSurplus, Retire, Return, Step
  <2>3. ~UndoMigration /\ ~Promote
    BY <1>0 DEF UndoMigration, Promote, Return
  <2> QED BY <1>3, <2>1, <2>2, <2>3 DEF Finish
<1>4. CASE StopStart \/ Crash \/ InstanceDies
  BY <1>0, <1>4 DEF StopStart, RemoveRoute, Teardown, StoreTorn, StartEnds, StartReplica, StoreStarted,
     UndoStart, RestoreProxyRoute, Crash, InstanceDies, Return, Step
<1> QED BY <1>1, <1>2, <1>3, <1>4 DEF Next

-----------------------------------------------------------------------------
(* Whether the application is enrolled.                                    *)

\* The steps before the first swap leave what the deploy believes alone, and a
\* replica is replaced only once the app is enrolled.
LEMMA NextEnrolled == ASSUME Inv, Inv', EnrolledOK, [Next]_vars PROVE EnrolledOK'
<1> DEFINE Unserved == loc.key = 0 /\ (route = {} \/ misled)
           Before == {"build", "roll", "storeReplacing", "health", "swap"}
           After == {"commit", "drainOld", "stopLegacy"}
<1>0. CASE pc' \notin DeploySteps
  BY <1>0 DEF EnrolledOK, DeploySteps, Steps, StopSteps, StartSteps
<1>1. CASE UNCHANGED vars
  BY <1>1 DEF vars, hist, EnrolledOK
<1>2. CASE Quiet
  <2>1. loc' = loc /\ QuietFlow(pc, pc') /\ (misled => misled') /\ (~misled' => route' = route)
    BY <1>2, QuietEffect
  <2>2. pc' \notin After /\ (pc' \in Before => pc \in Before)
    BY <2>1 DEF QuietFlow
  <2> QED BY <2>1, <2>2 DEF EnrolledOK
<1>3. CASE Retire
  <2>1. loc' = loc /\ UNCHANGED <<route, misled>> /\ pc' \notin After
        /\ (pc' \in Before => pc = "stopLegacy")
    BY <1>3, RetireEffect DEF Retire
  <2> QED BY <2>1 DEF EnrolledOK
<1>4. CASE PlanFleet
  <2>1. /\ pc = "plan" /\ pc' = "build" /\ (loc'.enrolled \/ route = {} \/ misled')
        /\ loc'.key = loc.key /\ route' = route
    BY <1>4, PlanFleetEffect
  <2>2. loc.key = 0
    BY <2>1 DEF Inv, OpOK
  <2> QED BY <2>1, <2>2 DEF EnrolledOK
<1>5. CASE Build \/ LaunchReplacement
  <2>1. /\ pc \in Before /\ pc' \in Before /\ loc'.enrolled = loc.enrolled /\ loc'.key = loc.key
        /\ UNCHANGED <<route, misled>>
    BY <1>5, BuildEffect, LaunchReplacementEffect
  <2> QED BY <2>1 DEF EnrolledOK
<1>6. CASE SwapMembership /\ pc' # "discard"
  <2>1. pc' = "commit" /\ loc'.enrolled
    BY <1>6, SwapMembershipEffect
  <2> QED BY <2>1 DEF EnrolledOK
<1>7. CASE Commit \/ DrainOld
  <2>1. /\ pc \in {"commit", "drainOld"} /\ pc' \notin {"build", "storeReplacing", "health", "swap"}
        /\ loc'.enrolled = loc.enrolled
    BY <1>7, CommitEffect, DrainOldEffect
  <2> QED BY <2>1 DEF EnrolledOK
<1>8. CASE HandOffServed \/ Discard \/ Compensate
  <2>1. pc' \notin Before \cup After
    BY <1>8, HandOffServedEffect, DiscardEffect, CompensateEffect
  <2> QED BY <2>1 DEF EnrolledOK
<1>9. CASE LoadState \/ (MigrateTo /\ pc' # "idle") \/ \E n \in 1 .. MaxReplicas : Begin("deploy", n)
  <2>1. pc' \notin Before \cup After
    BY <1>9, LoadStateEffect, MigrateToEffect DEF Begin
  <2> QED BY <2>1 DEF EnrolledOK
<1> QED BY <1>0, <1>1, <1>2, <1>3, <1>4, <1>5, <1>6, <1>7, <1>8, <1>9, DeployCases

-----------------------------------------------------------------------------
(* Who is stopped.                                                         *)

\* The only steps that end an instance.
Stopping ==
  \/ Discard \/ StopCandidate \/ DrainOld \/ StopLegacy \/ StopSurplus
  \/ HandOffServed \/ Teardown \/ UndoStart \/ InstanceDies

\* The other steps leave everybody alive.
LEMMA OnlyStopping == ASSUME [Next]_vars, ~Stopping PROVE alive \subseteq alive'
<1>1. CASE Prepare
  BY <1>1 DEF Prepare, Begin, LoadState, MigrateTo, PlanFleet, BuildFails, Build, procs
<1>2. CASE RollOne
  BY <1>2 DEF Stopping, RollOne, Cancelled, LaunchFails, LaunchReplacement, StoreReplacing,
     HealthPasses, HealthFails, HandOffPublicPort, SwapMembership, StoreRestored, Commit,
     Compensate, StoreBestKnown, StoreBack, procs, Launch
<1>3. CASE Finish
  BY <1>3 DEF Stopping, Finish, FailedAt, UndoMigration, StoreFinal, Promote, procs
<1>4. CASE StopStart
  BY <1>4 DEF Stopping, StopStart, RemoveRoute, StoreTorn, StartEnds, StartReplica, StoreStarted,
     RestoreProxyRoute, procs, Launch
<1>5. CASE Crash
  BY <1>5 DEF Crash, procs
<1>6. CASE UNCHANGED vars
  BY <1>6 DEF vars, procs
<1> QED BY <1>1, <1>2, <1>3, <1>4, <1>5, <1>6 DEF Next, Stopping

\* A deploy, and a start that fails, stop nobody who is routed.
LEMMA StoppedUnrouted ==
  ASSUME Inv, EnrolledOK, Stopping, loc.op # "stop", ~misled, pc # "idle"
  PROVE  (alive \ alive') \cap route = {}
<1>0. TypeOK /\ loc \in Locals /\ 0 \notin alive /\ loc.legacy \subseteq Inst /\ loc.surplus \subseteq Inst
  BY DEF Inv, TypeOK, Locals, Inst
<1>1. CASE Discard \/ StopCandidate \/ UndoStart
  <2>1. pc \in {"discard", "abandon", "stopCandidate", "undoStart"}
    BY <1>1 DEF Discard, StopCandidate, UndoStart, Step
  <2>2. loc.cand \notin route
    BY <2>1 DEF Inv, RouteOK, FreshSteps
  <2>3. StopOK({loc.cand}) \/ StopFails({loc.cand})
    BY <1>1 DEF Discard, StopCandidate, UndoStart
  <2>4. alive \ alive' \subseteq {loc.cand}
    BY ONLY <1>0, <2>3, StopFacts
  <2> QED BY <2>2, <2>4
<1>2. CASE DrainOld
  <2>1. pc = "drainOld" /\ (StopOK({loc.old.pid}) \/ StopFails({loc.old.pid}))
    BY <1>2 DEF DrainOld, Step
  <2>2. alive \ alive' \subseteq {loc.old.pid}
    BY ONLY <1>0, <2>1, StopFacts
  <2>3. route \subseteq Ports(mem.reps) \cup {0}
    BY <2>1, HealthyFacts DEF Inv, RouteOK
  <2>4. loc.old.pid # 0 => loc.old.pid \notin Ports(mem.reps)
    BY <2>1 DEF Inv, OldOK, CandOK, SwappedSteps
  <2> QED BY <1>0, <2>2, <2>3, <2>4
<1>3. CASE StopLegacy \/ StopSurplus
  <2>1. \/ pc = "stopLegacy" /\ (StopOK(loc.legacy) \/ StopFails(loc.legacy))
        \/ pc = "roll" /\ loc.key = loc.n /\ (StopOK(loc.surplus) \/ StopFails(loc.surplus))
    BY <1>3 DEF StopLegacy, StopSurplus, Step
  <2>2. alive \ alive' \subseteq loc.legacy \cup loc.surplus
    BY <1>0, <2>1, StopFacts
  <2>3. pc \in DeploySteps \ {"load", "migrate"}
    BY <2>1 DEF DeploySteps, Steps, StopSteps, StartSteps
  <2>4. pc = "roll" => loc.progressed
    BY <2>1, <2>3 DEF Inv, OpOK
  <2>5. route \subseteq Ports(mem.reps) \cup {0}
    BY <2>1, <2>4, HealthyFacts DEF Inv, RouteOK
  <2>6. (loc.legacy \cup loc.surplus) \cap Ports(mem.reps) = {}
    BY <2>3 DEF Inv, RetiredOK
  <2> QED BY <1>0, <2>2, <2>5, <2>6
<1>4. ~Teardown /\ ~InstanceDies
  BY DEF Teardown, InstanceDies, Step, Inv, OpOK, StopSteps
<1>5. ~HandOffServed
  BY HandOffServedEffect DEF EnrolledOK
<1> QED BY <1>1, <1>2, <1>3, <1>4, <1>5 DEF Stopping

\* Nobody but `stop` ends an instance the proxy routes to, unless a lost reply
\* or a failing Status hid from the deploy that it is routed: not the hand-off of
\* the public port, the discard of a replacement, the drain of the replica it
\* replaces, the cleanup of an earlier strategy or of a larger fleet, nor the
\* undo of a start.
THEOREM NobodyServingKilled == Spec => NoServingKill
<1>1. Init => EnrolledOK
  BY DEF Init, EnrolledOK
<1>2. Inv /\ Inv' /\ EnrolledOK /\ [Next]_vars => EnrolledOK'
  BY NextEnrolled
<1>3. ASSUME Inv, EnrolledOK, [Next]_vars
      PROVE  (alive \ alive') \cap route # {} => loc.op = "stop" \/ misled \/ pc = "idle"
  BY <1>3, OnlyStopping, StoppedUnrouted
<1>4. Inv /\ EnrolledOK /\ [Next]_vars
        => [ (alive \ alive') \cap route # {} => loc.op = "stop" \/ misled \/ pc = "idle" ]_vars
  BY <1>3
<1> QED BY <1>1, <1>2, <1>4, FleetInvariant, PTL DEF Spec, NoServingKill

-----------------------------------------------------------------------------
(* A deploy that completes.                                                *)

\* A step that changes at most the record of the replica it is at.
LEMMA RolledKept ==
  ASSUME Inv, RolledOK, mem' \in Journal,
         pc \in DeploySteps \ {"load", "migrate", "plan"},
         pc' \in DeploySteps \ {"load", "migrate", "plan"},
         loc'.n = loc.n, loc'.tver = loc.tver, loc'.key = loc.key,
         \A k \in Keys : mem'.reps[k] = mem.reps[k] \/ (k = loc.key /\ loc.key < loc.n),
         \A k \in Keys : k < loc.key => mem.reps[k].pid \in alive',
         pc' \in ReplicaSteps \ {"stopCandidate", "discard"} => loc'.cand \in alive',
         pc' \in {"storeFinal", "promote"} => mem'.ver = loc.tver,
         pc' = "promote" => disk' = mem'
  PROVE  RolledOK'
<1>0. loc.n \in Int /\ loc.key \in Int /\ \A k \in Keys : k \in Int
  BY DEF Inv, TypeOK, Locals, Keys
<1>1. ASSUME NEW k \in Keys, k >= loc'.n PROVE mem'.reps[k] = NoReplica
  BY <1>0, <1>1 DEF RolledOK
<1>2. ASSUME NEW k \in Keys, k < loc'.key
      PROVE  /\ mem'.reps[k].pid \in alive' /\ mem'.reps[k].ver = loc'.tver
             /\ mem'.reps[k].port = mem'.reps[k].pid /\ mem'.reps[k].status = "running"
  <2>1. mem'.reps[k] = mem.reps[k]
    BY <1>0, <1>2
  <2> QED BY <1>2, <2>1 DEF RolledOK
<1> QED BY <1>1, <1>2 DEF RolledOK

\* The instances of the replicas that are rolled are ports of the fleet.
LEMMA RolledPorts ==
  ASSUME Inv, RolledOK, pc \in DeploySteps, NEW k \in Keys, k < loc.key
  PROVE  mem.reps[k].pid \in alive /\ mem.reps[k].pid \in Ports(mem.reps) /\ mem.reps[k].pid # 0
BY DEF Inv, TypeOK, RolledOK, Ports, Inst

\* Every step keeps the replicas rolled so far.
LEMMA NextRolled == ASSUME Inv, Inv', EnrolledOK, RolledOK, [Next]_vars PROVE RolledOK'
<1>0. CASE pc' \notin DeploySteps
  BY <1>0 DEF RolledOK, DeploySteps, ReplicaSteps, FreshSteps, SwappedSteps, RevertedSteps, Steps,
     StopSteps, StartSteps
<1>1. CASE UNCHANGED vars
  BY <1>1 DEF vars, procs, files, hist, RolledOK
<1>2. CASE Quiet /\ pc' \in DeploySteps
  <2>1. /\ mem' = mem /\ loc' = loc /\ alive' = alive /\ QuietFlow(pc, pc')
        /\ (pc' = "promote" => disk' = mem)
    BY <1>2, QuietEffect
  <2>2. /\ pc \in DeploySteps \ {"load", "migrate", "plan"}
        /\ pc' \in DeploySteps \ {"load", "migrate", "plan"}
        /\ pc' \in ReplicaSteps \ {"stopCandidate", "discard"}
             => pc \in ReplicaSteps \ {"stopCandidate", "discard"}
        /\ pc' \in {"storeFinal", "promote"} => pc = "storeFinal"
    BY <1>2, <2>1 DEF QuietFlow, DeploySteps, Steps, StopSteps, StartSteps, ReplicaSteps, FreshSteps,
       SwappedSteps, RevertedSteps
  <2>3. \A k \in Keys : k < loc.key => mem.reps[k].pid \in alive'
    BY <2>1, <2>2, RolledPorts
  <2>4. /\ pc' \in ReplicaSteps \ {"stopCandidate", "discard"} => loc'.cand \in alive'
        /\ pc' \in {"storeFinal", "promote"} => mem'.ver = loc.tver
        /\ pc' = "promote" => disk' = mem'
    BY <2>1, <2>2 DEF RolledOK
  <2> QED BY <2>1, <2>2, <2>3, <2>4, RolledKept DEF Inv, TypeOK
<1>3. CASE Retire
  <2>1. /\ loc' = loc /\ mem'.reps = mem.reps /\ (alive \ alive') \cap Ports(mem.reps) = {}
        /\ \/ pc = "stopCandidate" /\ pc' = "failedAt"
           \/ pc = "stopLegacy" /\ pc' = "roll"
           \/ pc = "roll" /\ pc' = "storeFinal" /\ mem'.ver = loc.tver
    BY <1>3, RetireEffect DEF Retire
  <2>2. /\ pc \in DeploySteps \ {"load", "migrate", "plan"}
        /\ pc' \in DeploySteps \ {"load", "migrate", "plan"}
        /\ pc' \notin ReplicaSteps /\ pc' # "promote"
    BY <2>1 DEF DeploySteps, Steps, StopSteps, StartSteps, ReplicaSteps, FreshSteps,
       SwappedSteps, RevertedSteps
  <2>3. \A k \in Keys : k < loc.key => mem.reps[k].pid \in alive'
    BY <2>1, <2>2, RolledPorts
  <2>4. pc' \in {"storeFinal", "promote"} => mem'.ver = loc.tver
    BY <2>1
  <2>5. mem' \in Journal
    BY DEF Inv, TypeOK
  <2> QED BY <2>1, <2>2, <2>3, <2>4, <2>5, RolledKept
<1>4. CASE pc' \in DeploySteps /\ ((\E n \in 1 .. MaxReplicas : Begin("deploy", n))
             \/ LoadState \/ (MigrateTo /\ pc' # "idle") \/ PlanFleet \/ Build)
  <2>1. loc'.key = 0
    <3>1. CASE \E n \in 1 .. MaxReplicas : Begin("deploy", n)
      BY <3>1 DEF Begin, NoLocals
    <3>2. CASE LoadState \/ (MigrateTo /\ pc' # "idle") \/ PlanFleet \/ Build
      <4>1. loc'.key = loc.key /\ pc \in {"load", "migrate", "plan", "build"}
        BY <3>2, LoadStateEffect, MigrateToEffect, PlanFleetEffect, BuildEffect
      <4> QED BY <4>1 DEF Inv, OpOK
    <3> QED BY <1>4, <3>1, <3>2
  <2>2. \A k \in Keys : ~(k < loc'.key)
    BY <2>1 DEF Keys
  <2>3. pc' \in {"load", "migrate", "plan", "build", "roll"}
    BY <1>4, LoadStateEffect, MigrateToEffect, PlanFleetEffect, BuildEffect DEF Begin
  <2>4. pc' \in {"build", "roll"} => \A k \in Keys : k >= loc'.n => mem'.reps[k] = NoReplica
    <3>1. CASE PlanFleet
      BY <3>1, PlanFleetEffect
    <3>2. CASE Build
      BY <3>2, BuildEffect DEF RolledOK, DeploySteps, Steps, StopSteps, StartSteps
    <3>3. CASE (\E n \in 1 .. MaxReplicas : Begin("deploy", n)) \/ LoadState \/ (MigrateTo /\ pc' # "idle")
      BY <3>3, LoadStateEffect, MigrateToEffect DEF Begin
    <3> QED BY <1>4, <3>1, <3>2, <3>3
  <2> QED BY <2>2, <2>3, <2>4 DEF RolledOK, ReplicaSteps, FreshSteps, SwappedSteps, RevertedSteps,
          DeploySteps, Steps, StopSteps, StartSteps
<1>5. CASE LaunchReplacement
  <2>1. /\ pc = "roll" /\ pc' \in {"storeReplacing", "health"} /\ loc.key < loc.n
        /\ alive' = alive \cup {next} /\ loc'.cand = next
        /\ loc'.n = loc.n /\ loc'.key = loc.key /\ loc'.tver = loc.tver
        /\ mem' \in Journal /\ \A k \in Keys \ {loc.key} : mem'.reps[k] = mem.reps[k]
    BY <1>5, LaunchReplacementEffect
  <2>2. pc \in DeploySteps \ {"load", "migrate", "plan"} /\ pc' \in DeploySteps \ {"load", "migrate", "plan"}
    BY <2>1 DEF DeploySteps, Steps, StopSteps, StartSteps
  <2>3. \A k \in Keys : k < loc.key => mem.reps[k].pid \in alive'
    BY <2>1, <2>2, RolledPorts
  <2> QED BY <2>1, <2>2, <2>3, RolledKept
<1>6. CASE (SwapMembership /\ pc' # "discard") \/ Commit \/ Compensate
  <2>1. pc \in ReplicaSteps \ {"stopCandidate", "discard"} /\ alive' = alive
    BY <1>6, SwapMembershipEffect, CommitEffect, CompensateEffect DEF procs, ReplicaSteps, FreshSteps
  <2>2. /\ loc'.n = loc.n /\ loc'.key = loc.key /\ loc'.tver = loc.tver /\ loc'.cand = loc.cand
        /\ pc' \in {"commit", "drainOld", "compensate", "storeBack", "bestKnown"}
    BY <1>6, SwapMembershipEffect, CommitEffect, CompensateEffect
  <2>3. mem' \in {mem, SetReplica(mem, loc.key, Candidate), RestoreReplica(mem)}
    BY <1>6, SwapMembershipEffect, CommitEffect, CompensateEffect
  <2>4. loc.key < loc.n /\ \A k \in Keys \ {loc.key} : mem'.reps[k] = mem.reps[k]
    BY <2>1, <2>3, AtReplica, RecordsCandidate, RestoresReplica
  <2>5. pc \in DeploySteps \ {"load", "migrate", "plan"} /\ pc' \in DeploySteps \ {"load", "migrate", "plan"}
    BY <2>1, <2>2 DEF DeploySteps, Steps, StopSteps, StartSteps, ReplicaSteps, FreshSteps,
       SwappedSteps, RevertedSteps
  <2>6. \A k \in Keys : k < loc.key => mem.reps[k].pid \in alive'
    BY <2>1, <2>5, RolledPorts
  <2>7. loc'.cand \in alive' /\ mem' \in Journal
    BY <2>1, <2>2 DEF RolledOK, Inv, TypeOK
  <2> QED BY <2>2, <2>4, <2>5, <2>6, <2>7, RolledKept
<1>7. CASE Discard
  <2>1. /\ pc \in {"discard", "abandon"} /\ pc' \in {"storeRestored", "failedAt"} /\ pc \in ReplicaSteps
        /\ (StopOK({loc.cand}) \/ StopFails({loc.cand})) /\ mem' = RestoreReplica(mem) /\ loc' = loc
    BY <1>7, DiscardEffect
  <2>2. mem' \in Journal /\ loc.key < loc.n /\ \A k \in Keys \ {loc.key} : mem'.reps[k] = mem.reps[k]
    BY <2>1, AtReplica, RestoresReplica
  <2>3. alive \ alive' \subseteq {loc.cand} /\ loc.cand \notin Ports(mem.reps)
    BY <2>1, StopFacts DEF Inv, CandOK, FreshSteps
  <2>4. /\ pc \in DeploySteps \ {"load", "migrate", "plan"}
        /\ pc' \in DeploySteps \ {"load", "migrate", "plan"} /\ pc' \notin ReplicaSteps
    BY <2>1 DEF DeploySteps, Steps, StopSteps, StartSteps, ReplicaSteps, FreshSteps,
       SwappedSteps, RevertedSteps
  <2>5. \A k \in Keys : k < loc.key => mem.reps[k].pid \in alive'
    BY <2>3, <2>4, RolledPorts
  <2>6. pc' \notin {"storeFinal", "promote"}
    BY <2>1
  <2> QED BY <2>1, <2>2, <2>4, <2>5, <2>6, RolledKept
<1>8. CASE DrainOld
  <2>1. /\ pc = "drainOld" /\ pc \in ReplicaSteps /\ pc' \in {"roll", "stopLegacy"}
        /\ (StopOK({loc.old.pid}) \/ StopFails({loc.old.pid}))
        /\ loc'.n = loc.n /\ loc'.key = loc.key + 1 /\ loc'.tver = loc.tver /\ mem' = mem
    BY <1>8, DrainOldEffect
  <2>2. pc \in DeploySteps \ {"load", "migrate", "plan"}
    BY <2>1 DEF DeploySteps, Steps, StopSteps, StartSteps
  <2>3. /\ alive \ alive' \subseteq {loc.old.pid} /\ (loc.old.pid # 0 => loc.old.pid \notin Ports(mem.reps))
        /\ mem.reps[loc.key] = Candidate /\ loc.cand \in alive
    BY <2>1, StopFacts DEF Inv, CandOK, OldOK, SwappedSteps, RolledOK
  <2>4. ASSUME NEW k \in Keys, k < loc'.key
        PROVE  /\ mem'.reps[k].pid \in alive' /\ mem'.reps[k].ver = loc'.tver
               /\ mem'.reps[k].port = mem'.reps[k].pid /\ mem'.reps[k].status = "running"
    <3>0. k \in Int /\ loc.key \in Int
      BY DEF Inv, TypeOK, Locals, Keys
    <3>1. CASE k = loc.key
      <4>1. /\ Candidate.pid = loc.cand /\ Candidate.port = loc.cand /\ Candidate.ver = loc.tver
            /\ Candidate.status = "running" /\ loc.cand \in Ports(mem.reps)
        BY <2>1, <2>3, AtReplica DEF Ports
      <4>2. loc.cand # 0
        BY <2>3 DEF Inv, TypeOK, Inst
      <4>3. loc.cand \in alive'
        BY <2>3, <4>1, <4>2
      <4> QED BY <2>1, <2>3, <3>1, <4>1, <4>3
    <3>2. CASE k < loc.key
      <4>1. mem.reps[k].pid \in alive /\ mem.reps[k].pid \in Ports(mem.reps) /\ mem.reps[k].pid # 0
        BY <2>2, <3>2, RolledPorts
      <4> QED BY <2>1, <2>2, <2>3, <3>2, <4>1 DEF RolledOK
    <3> QED BY <2>1, <2>4, <3>0, <3>1, <3>2
  <2>5. \A k \in Keys : k >= loc'.n => mem'.reps[k] = NoReplica
    BY <2>1, <2>2 DEF RolledOK
  <2>6. pc' \notin ReplicaSteps /\ pc' \notin {"storeFinal", "promote"}
    BY <2>1 DEF ReplicaSteps, FreshSteps, SwappedSteps, RevertedSteps
  <2> QED BY <2>4, <2>5, <2>6 DEF RolledOK
<1>9. CASE HandOffServed
  <2>1. /\ pc = "swap" /\ pc' = "discard" /\ mem' = mem /\ loc' = loc /\ ~loc.enrolled
    BY <1>9, HandOffServedEffect
  <2>2. pc \in DeploySteps \ {"load", "migrate", "plan"} /\ pc' \in DeploySteps \ {"load", "migrate", "plan"}
    BY <2>1 DEF DeploySteps, Steps, StopSteps, StartSteps
  <2>3. loc.key = 0 /\ \A k \in Keys : ~(k < 0)
    BY <2>1 DEF EnrolledOK, Keys
  <2> QED BY <2>1, <2>2, <2>3, RolledKept DEF Inv, TypeOK
<1> QED BY <1>0, <1>1, <1>2, <1>3, <1>4, <1>5, <1>6, <1>7, <1>8, <1>9, DeployCases

\* Only Promote reports a completed deploy.
LEMMA OnlyPromote ==
  ASSUME [Next]_vars, pc' = "idle", result' = "deployed"
  PROVE  Promote \/ UNCHANGED vars
<1>1. CASE Prepare
  BY <1>1 DEF Prepare, Begin, LoadState, MigrateTo, PlanFleet, BuildFails, Build, Step, Return
<1>2. CASE RollOne
  BY <1>2 DEF RollOne, Cancelled, LaunchFails, LaunchReplacement, StoreReplacing,
     HealthPasses, HealthFails, HandOffPublicPort, HandOffServed, SwapMembership, Discard, StoreRestored, Commit,
     Compensate, StoreBestKnown, StoreBack, StopCandidate, DrainOld, Step, Return
<1>3. CASE Finish
  BY <1>3 DEF Finish, StopLegacy, FailedAt, UndoMigration, StopSurplus, StoreFinal, Step, Return
<1>4. CASE StopStart
  BY <1>4 DEF StopStart, RemoveRoute, Teardown, StoreTorn, StartEnds, StartReplica, StoreStarted,
     UndoStart, RestoreProxyRoute, Step, Return
<1>5. CASE Crash \/ InstanceDies
  BY <1>5 DEF Crash, InstanceDies, Return
<1> QED BY <1>1, <1>2, <1>3, <1>4, <1>5 DEF Next

\* A fleet that is rolled completely is what the proxy routes to.
LEMMA RolledFleet ==
  ASSUME Inv, RolledOK, pc = "promote"
  PROVE  /\ route = Pids(mem) /\ route \subseteq alive
         /\ \A k \in Keys : mem.reps[k].pid # 0 => mem.reps[k].ver = mem.ver
         /\ mem.ver = loc.tver /\ disk = mem
<1>0. /\ pc \in DeploySteps \ {"load", "migrate", "plan"} /\ loc.n \in 1 .. MaxReplicas
      /\ loc.key = loc.n /\ 0 \notin alive
  BY DEF DeploySteps, Steps, StopSteps, StartSteps, Inv, OpOK, TypeOK, Locals, Inst
<1>1. /\ \A k \in Keys : k >= loc.n => mem.reps[k].pid = 0 /\ mem.reps[k].port = 0
      /\ mem.ver = loc.tver /\ disk = mem
  BY <1>0 DEF RolledOK, NoReplica
<1>2. \A k \in Keys : k < loc.n =>
        /\ mem.reps[k].pid \in alive /\ mem.reps[k].ver = mem.ver
        /\ mem.reps[k].port = mem.reps[k].pid /\ mem.reps[k].status = "running"
  BY <1>0, <1>1 DEF RolledOK
<1>3. \A k \in Keys : k >= loc.n \/ k < loc.n
  BY <1>0 DEF Keys
<1> DEFINE ports == {mem.reps[k].port : k \in {q \in Keys : mem.reps[q].status = "running"}} \ {0}
<1>4. ports = Pids(mem) /\ ports \subseteq alive
  BY <1>0, <1>1, <1>2, <1>3 DEF Pids
<1>5. 0 \in Keys /\ 0 < loc.n
  BY <1>0 DEF Keys
<1>6. ports # {}
  BY <1>0, <1>2, <1>5
<1>7. route = ports
  BY <1>6 DEF Inv, RouteOK, HealthyTargets
<1> HIDE DEF ports
<1>8. \A k \in Keys : mem.reps[k].pid # 0 => mem.reps[k].ver = mem.ver
  BY <1>1, <1>2, <1>3
<1> QED BY <1>1, <1>4, <1>7, <1>8

\* A completed deploy leaves the fleet in agreement until the next step.
LEMMA NextCompleted ==
  ASSUME Inv, RolledOK, CompletedFleetAgrees, [Next]_vars
  PROVE  CompletedFleetAgrees'
<1> SUFFICES ASSUME pc' = "idle", result' = "deployed"
             PROVE  /\ route' = Pids(disk)' /\ route' \subseteq alive'
                    /\ \A k \in Keys : disk'.reps[k].pid # 0 => disk'.reps[k].ver = disk'.ver
                    /\ disk'.ver # 0 => current' = disk'.ver
  BY DEF CompletedFleetAgrees
<1>1. CASE UNCHANGED vars
  BY <1>1 DEF vars, procs, files, hist, CompletedFleetAgrees, Pids
<1>2. CASE Promote
  <2>1. /\ pc = "promote" /\ UNCHANGED <<procs, route, disk>>
        /\ loc.tver # 0 => current' = loc.tver
    BY <1>2 DEF Promote, Return
  <2> QED BY <2>1, RolledFleet DEF procs, Pids
<1> QED BY <1>1, <1>2, OnlyPromote

\* However the operations before it ended, a rolling deploy that completes
\* leaves one version, recorded in deploy.json and versions.json, alive and
\* routed in every replica.
THEOREM CompletedFleetInAgreement == Spec => []CompletedFleetAgrees
<1>1. Init => EnrolledOK /\ RolledOK /\ CompletedFleetAgrees
  BY DEF Init, EnrolledOK, RolledOK, CompletedFleetAgrees, DeploySteps, ReplicaSteps, FreshSteps, SwappedSteps,
     RevertedSteps
<1>2. Inv /\ Inv' /\ EnrolledOK /\ RolledOK /\ CompletedFleetAgrees /\ [Next]_vars
        => (EnrolledOK /\ RolledOK /\ CompletedFleetAgrees)'
  BY NextEnrolled, NextRolled, NextCompleted
<1> QED BY <1>1, <1>2, FleetInvariant, PTL DEF Spec

-----------------------------------------------------------------------------
(* The capacity of the fleet.                                              *)

\* Replicas that serve are as many instances.
LEMMA ServingFleet ==
  ASSUME Inv, NEW j, JournalIn(j, proven), NEW S \in SUBSET Keys, NEW R,
         \A k \in S : j.reps[k].port \in R /\ j.reps[k].port \in alive
  PROVE  Cardinality(R \cap alive) >= Cardinality(S)
<1> DEFINE f == [k \in S |-> j.reps[k].port]
<1>1. IsFiniteSet(alive)
  <2>1. IsFiniteSet(Inst)
    BY FS_Interval DEF Inst
  <2> QED BY <2>1, FS_Subset DEF Inv, TypeOK
<1>2. IsFiniteSet(R \cap alive)
  BY <1>1, FS_Subset
<1>3. 0 \notin alive
  BY DEF Inv, TypeOK, Inst
<1>4. f \in Injection(S, R \cap alive)
  <2>1. f \in [S -> R \cap alive]
    OBVIOUS
  <2>2. \A k, m \in S : f[k] = f[m] => k = m
    BY <1>3 DEF JournalIn
  <2> QED BY <2>1, <2>2 DEF Injection, IsInjective
<1> HIDE DEF f
<1>5. Cardinality(S) <= Cardinality(R \cap alive)
  BY ONLY <1>2, <1>4, FS_Injection
<1>6. Cardinality(R \cap alive) \in Nat /\ Cardinality(S) \in Nat
  BY <1>2, FS_CardinalityType, KeysFinite
<1> QED BY <1>5, <1>6

\* Whatever is routed is a number of instances.
LEMMA RoutedNumber == ASSUME Inv PROVE Cardinality(route \cap alive) \in Nat /\ owed \in Nat
<1>1. IsFiniteSet(alive)
  <2>1. IsFiniteSet(Inst)
    BY FS_Interval DEF Inst
  <2> QED BY <2>1, FS_Subset DEF Inv, TypeOK
<1>2. IsFiniteSet(route \cap alive)
  BY <1>1, FS_Subset
<1> QED BY <1>2, FS_CardinalityType DEF Inv, TypeOK

\* In a fleet in order every replica with an instance serves.
LEMMA WholeServes ==
  ASSUME Inv, Whole(disk), NEW k \in Keys, disk.reps[k].pid # 0
  PROVE  Serves(disk.reps[k]) /\ disk.reps[k].pid \in route
<1>1. disk.reps[k].pid \in route /\ route \subseteq alive /\ disk.reps[k].pid = disk.reps[k].port
  BY DEF Whole, Pids, Inv, JournalsOK, JournalIn
<1>2. PICK q \in Keys : disk.reps[q].status = "running" /\ disk.reps[q].port = disk.reps[k].pid
  BY <1>1 DEF Whole
<1>3. q = k
  BY <1>1, <1>2 DEF Inv, JournalsOK, JournalIn
<1> QED BY <1>1, <1>2, <1>3 DEF Serves

\* The instances that keep living keep serving.
LEMMA ServesOn ==
  ASSUME NEW rec, Serves(rec), rec.pid \in alive'
  PROVE  rec.status = "running" /\ rec.pid = rec.port /\ rec.pid \in alive'
BY DEF Serves

\* What OwedOK says of a deploy under way that owes something.
InService ==
  /\ owed = Cardinality(Owing)
  /\ pc # "migrate"
  /\ pc \in {"plan", "build"} => route # {}
  /\ pc # "plan" => loc.enrolled /\ (pc \in SwappedSteps \cup RevertedSteps => loc.was)
  /\ \A k \in Owing : k # loc.key \/ pc \notin ReplicaSteps => Serves(mem.reps[k])
  /\ pc \in ReplicaSteps \ {"drainOld"} /\ loc.key \in Owing => Serves(loc.old)

\* A rollout that owes capacity has every replica it owes in service.
LEMMA ServingFacts ==
  ASSUME OwedOK, pc \in DeploySteps \ {"load"}, owed # 0, ~misled PROVE InService
BY DEF OwedOK, InService

\* The next step of a rollout that owes something.
LEMMA ServingKept ==
  ASSUME Inv, OwedOK, owed # 0, ~misled, owed' = owed, pc \in DeploySteps \ {"load", "migrate", "plan"},
         pc' \in DeploySteps \ {"load", "migrate", "plan", "build"},
         loc'.n = loc.n, loc'.pre = loc.pre, loc'.enrolled,
         pc' \in SwappedSteps \cup RevertedSteps => loc'.was,
         \A k \in Owing : k # loc'.key \/ pc' \notin ReplicaSteps =>
            /\ mem'.reps[k].status = "running" /\ mem'.reps[k].pid = mem'.reps[k].port
            /\ mem'.reps[k].pid \in alive',
         pc' \in ReplicaSteps \ {"drainOld"} /\ loc'.key \in Owing =>
            loc'.old.status = "running" /\ loc'.old.pid = loc'.old.port /\ loc'.old.pid \in alive'
  PROVE  InService'
<1>1. Owing' = Owing
  BY DEF Owing
<1>2. owed' = Cardinality(Owing)'
  BY <1>1, ServingFacts DEF InService
<1>3. \A k \in Owing' : k # loc'.key \/ pc' \notin ReplicaSteps => Serves(mem.reps[k])'
  BY <1>1 DEF Serves
<1>4. pc' \in ReplicaSteps \ {"drainOld"} /\ loc'.key \in Owing' => Serves(loc.old)'
  BY <1>1 DEF Serves
<1> QED BY <1>2, <1>3, <1>4 DEF InService

\* A rollout that owes something goes on serving.
LEMMA RollServing ==
  ASSUME Inv, Inv', RolledOK, OwedOK, owed # 0, ~misled,
         pc \in DeploySteps \ {"load", "migrate", "plan"}, pc' \in DeploySteps, [Next]_vars
  PROVE  owed' = owed /\ InService'
<1>0. /\ InService /\ loc.enrolled /\ (pc \in SwappedSteps \cup RevertedSteps => loc.was)
      /\ Owing \subseteq Keys
  BY ServingFacts DEF InService, Owing
<1>a. 0 \notin alive /\ \A k \in Owing : mem.reps[k].port \in Ports(mem.reps)
  BY <1>0 DEF Inv, TypeOK, Inst, Ports
<1>1. CASE UNCHANGED vars
  BY <1>0, <1>1 DEF vars, procs, files, hist, InService, Owing, Serves
<1>2. CASE Quiet
  <2>1. mem' = mem /\ loc' = loc /\ alive' = alive /\ owed' = owed /\ QuietFlow(pc, pc')
    BY <1>2, QuietEffect
  <2>2. /\ pc' \in DeploySteps \ {"load", "migrate", "plan", "build"}
        /\ pc' \in ReplicaSteps => pc \in ReplicaSteps \ {"drainOld"}
        /\ pc' \in SwappedSteps \cup RevertedSteps => pc \in RevertedSteps
        /\ pc \in ReplicaSteps /\ pc' \notin ReplicaSteps => pc \in {"bestKnown", "storeBack"}
    BY <2>1 DEF QuietFlow, DeploySteps, Steps, StopSteps, StartSteps, ReplicaSteps, FreshSteps,
       SwappedSteps, RevertedSteps
  <2>3. ASSUME NEW k \in Owing, k # loc.key \/ pc' \notin ReplicaSteps PROVE Serves(mem.reps[k])
    <3>1. CASE k # loc.key \/ pc \notin ReplicaSteps
      BY <1>0, <3>1 DEF InService
    <3>2. CASE k = loc.key /\ pc = "bestKnown"
      <4>1. mem.reps[k] = Candidate /\ loc.cand \in alive
        BY <3>2 DEF Inv, CandOK, RolledOK, ReplicaSteps, SwappedSteps
      <4> QED BY <3>2, <4>1, AtReplica DEF Serves, ReplicaSteps, SwappedSteps
    <3>3. CASE k = loc.key /\ pc = "storeBack"
      <4>1. mem.reps[k] = loc.old
        BY <3>3 DEF Inv, CandOK, RevertedSteps
      <4> QED BY <1>0, <3>3, <4>1 DEF InService, ReplicaSteps, RevertedSteps
    <3> QED BY <2>2, <2>3, <3>1, <3>2, <3>3
  <2>4. pc' \in ReplicaSteps \ {"drainOld"} /\ loc.key \in Owing => Serves(loc.old)
    BY <1>0, <2>2 DEF InService
  <2> QED BY <1>0, <2>1, <2>2, <2>3, <2>4, ServingKept DEF Serves
<1>3. CASE Retire
  <2>1. /\ loc' = loc /\ mem'.reps = mem.reps /\ (alive \ alive') \cap Ports(mem.reps) = {}
        /\ owed' = owed
        /\ \/ pc = "stopCandidate" /\ pc' = "failedAt"
           \/ pc = "stopLegacy" /\ pc' = "roll"
           \/ pc = "roll" /\ pc' = "storeFinal"
    BY <1>3, RetireEffect DEF Retire
  <2>2. /\ pc' \in DeploySteps \ {"load", "migrate", "plan", "build"}
        /\ pc' \notin ReplicaSteps /\ pc' \notin SwappedSteps \cup RevertedSteps
        /\ pc \in ReplicaSteps => pc = "stopCandidate"
    BY <2>1 DEF DeploySteps, Steps, StopSteps, StartSteps, ReplicaSteps, FreshSteps,
       SwappedSteps, RevertedSteps
  <2>3. ASSUME NEW k \in Owing PROVE Serves(mem.reps[k])
    <3>1. CASE k # loc.key \/ pc \notin ReplicaSteps
      BY <1>0, <3>1 DEF InService
    <3>2. CASE k = loc.key /\ pc = "stopCandidate"
      <4>1. mem.reps[k] = loc.old
        BY <3>2 DEF Inv, CandOK, RevertedSteps
      <4> QED BY <1>0, <3>2, <4>1 DEF InService, ReplicaSteps, RevertedSteps
    <3> QED BY <2>2, <3>1, <3>2
  <2>4. \A k \in Owing : mem.reps[k].pid \in alive'
    BY <1>a, <2>1, <2>3 DEF Serves
  <2> QED BY <1>0, <2>1, <2>2, <2>3, <2>4, ServingKept DEF Serves
<1>4. CASE Build
  <2>1. /\ pc = "build" /\ pc' = "roll" /\ loc'.n = loc.n /\ loc'.pre = loc.pre
        /\ loc'.enrolled = loc.enrolled /\ mem' = mem /\ alive' = alive /\ owed' = owed
    BY <1>4, BuildEffect DEF procs
  <2>2. /\ pc' \in DeploySteps \ {"load", "migrate", "plan", "build"} /\ pc \notin ReplicaSteps
        /\ pc' \notin ReplicaSteps /\ pc' \notin SwappedSteps \cup RevertedSteps
    BY <2>1 DEF DeploySteps, Steps, StopSteps, StartSteps, ReplicaSteps, FreshSteps,
       SwappedSteps, RevertedSteps
  <2> QED BY <1>0, <2>1, <2>2, ServingKept DEF Serves, InService
<1>5. CASE LaunchReplacement
  <2>1. /\ pc = "roll" /\ pc' \in {"storeReplacing", "health"} /\ owed' = owed
        /\ alive' = alive \cup {next} /\ loc'.old = mem.reps[loc.key]
        /\ loc'.n = loc.n /\ loc'.key = loc.key /\ loc'.pre = loc.pre /\ loc'.enrolled = loc.enrolled
        /\ \A k \in Keys \ {loc.key} : mem'.reps[k] = mem.reps[k]
    BY <1>5, LaunchReplacementEffect
  <2>2. /\ pc' \in DeploySteps \ {"load", "migrate", "plan", "build"} /\ pc \notin ReplicaSteps
        /\ pc' \in ReplicaSteps \ {"drainOld"} /\ pc' \notin SwappedSteps \cup RevertedSteps
    BY <2>1 DEF DeploySteps, Steps, StopSteps, StartSteps, ReplicaSteps, FreshSteps,
       SwappedSteps, RevertedSteps
  <2>3. \A k \in Owing : Serves(mem.reps[k])
    BY <1>0, <2>2 DEF InService
  <2>4. \A k \in Owing : k # loc.key => mem'.reps[k] = mem.reps[k]
    BY <1>0, <2>1
  <2> QED BY <1>0, <2>1, <2>2, <2>3, <2>4, ServingKept DEF Serves
<1>6. CASE (SwapMembership /\ pc' # "discard") \/ Commit \/ Compensate
  <2>1. /\ pc \in ReplicaSteps \ {"drainOld"} /\ alive' = alive /\ owed' = owed
        /\ pc' \in {"commit", "drainOld", "compensate", "storeBack", "bestKnown"}
    BY <1>6, SwapMembershipEffect, CommitEffect, CompensateEffect DEF procs, ReplicaSteps, FreshSteps
  <2>2. /\ loc'.n = loc.n /\ loc'.key = loc.key /\ loc'.pre = loc.pre /\ loc'.old = loc.old
    BY <1>6, SwapMembershipEffect, CommitEffect, CompensateEffect
  <2>3. loc'.enrolled /\ loc'.was
    <3>1. CASE SwapMembership /\ pc' # "discard"
      BY <1>0, <3>1, SwapMembershipEffect
    <3>2. CASE Commit
      BY <1>0, <3>2, CommitEffect DEF SwappedSteps
    <3>3. CASE Compensate
      BY <1>0, <3>3, CompensateEffect DEF RevertedSteps
    <3> QED BY <1>6, <3>1, <3>2, <3>3
  <2>4. mem' \in {mem, SetReplica(mem, loc.key, Candidate), RestoreReplica(mem)}
    BY <1>6, SwapMembershipEffect, CommitEffect, CompensateEffect
  <2>5. \A k \in Keys \ {loc.key} : mem'.reps[k] = mem.reps[k]
    BY <2>1, <2>4, RecordsCandidate, RestoresReplica
  <2>6. pc' \in DeploySteps \ {"load", "migrate", "plan", "build"} /\ pc' \in ReplicaSteps
    BY <2>1 DEF DeploySteps, Steps, StopSteps, StartSteps, ReplicaSteps, FreshSteps,
       SwappedSteps, RevertedSteps
  <2>7. /\ \A k \in Owing : k # loc.key => Serves(mem.reps[k]) /\ mem'.reps[k] = mem.reps[k]
        /\ loc.key \in Owing => Serves(loc.old)
    BY <1>0, <2>1, <2>5 DEF InService
  <2> QED BY <1>0, <2>1, <2>2, <2>3, <2>6, <2>7, ServingKept DEF Serves
<1>7. CASE Discard
  <2>1. /\ pc \in {"discard", "abandon"} /\ pc' \in {"storeRestored", "failedAt"} /\ pc \in ReplicaSteps
        /\ (StopOK({loc.cand}) \/ StopFails({loc.cand})) /\ mem' = RestoreReplica(mem) /\ loc' = loc
        /\ owed' = owed
    BY <1>7, DiscardEffect
  <2>2. mem'.reps[loc.key] = loc.old /\ \A k \in Keys \ {loc.key} : mem'.reps[k] = mem.reps[k]
    BY <2>1, RestoresReplica
  <2>3. /\ alive \ alive' \subseteq {loc.cand} /\ loc.cand \notin Ports(mem.reps)
        /\ loc.cand # loc.old.port
    BY <2>1, StopFacts DEF Inv, CandOK, FreshSteps
  <2>4. /\ pc' \in DeploySteps \ {"load", "migrate", "plan", "build"} /\ pc' \notin ReplicaSteps
        /\ pc' \notin SwappedSteps \cup RevertedSteps
    BY <2>1 DEF DeploySteps, Steps, StopSteps, StartSteps, ReplicaSteps, FreshSteps,
       SwappedSteps, RevertedSteps
  <2>5. ASSUME NEW k \in Owing
        PROVE  /\ mem'.reps[k].status = "running" /\ mem'.reps[k].pid = mem'.reps[k].port
               /\ mem'.reps[k].pid \in alive'
    <3>1. CASE k = loc.key
      <4>1. Serves(loc.old)
        BY <1>0, <2>1, <3>1 DEF InService
      <4> QED BY <2>2, <2>3, <3>1, <4>1 DEF Serves
    <3>2. CASE k # loc.key
      <4>1. Serves(mem.reps[k]) /\ mem'.reps[k] = mem.reps[k]
        BY <1>0, <2>2, <3>2 DEF InService
      <4> QED BY <1>a, <2>3, <4>1 DEF Serves
    <3> QED BY <3>1, <3>2
  <2> QED BY <1>0, <2>1, <2>4, <2>5, ServingKept
<1>8. CASE DrainOld
  <2>1. /\ pc = "drainOld" /\ pc \in ReplicaSteps /\ pc' \in {"roll", "stopLegacy"}
        /\ (StopOK({loc.old.pid}) \/ StopFails({loc.old.pid}))
        /\ loc'.n = loc.n /\ loc'.pre = loc.pre /\ loc'.enrolled = loc.enrolled /\ mem' = mem
        /\ owed' = owed
    BY <1>8, DrainOldEffect
  <2>2. /\ alive \ alive' \subseteq {loc.old.pid} /\ (loc.old.pid # 0 => loc.old.pid \notin Ports(mem.reps))
        /\ mem.reps[loc.key] = Candidate /\ loc.cand \in alive
    BY <2>1, StopFacts DEF Inv, CandOK, OldOK, SwappedSteps, RolledOK
  <2>3. /\ pc' \in DeploySteps \ {"load", "migrate", "plan", "build"} /\ pc' \notin ReplicaSteps
        /\ pc' \notin SwappedSteps \cup RevertedSteps
    BY <2>1 DEF DeploySteps, Steps, StopSteps, StartSteps, ReplicaSteps, FreshSteps,
       SwappedSteps, RevertedSteps
  <2>4. ASSUME NEW k \in Owing PROVE Serves(mem.reps[k])
    <3>1. CASE k = loc.key
      BY <2>1, <2>2, <3>1, AtReplica DEF Serves
    <3>2. CASE k # loc.key
      BY <1>0, <3>2 DEF InService
    <3> QED BY <3>1, <3>2
  <2>5. \A k \in Owing : mem.reps[k].pid \in alive'
    BY <1>a, <2>2, <2>4 DEF Serves
  <2> QED BY <1>0, <2>1, <2>3, <2>4, <2>5, ServingKept DEF Serves
<1>9. ~LoadState /\ ~PlanFleet /\ ~(MigrateTo /\ pc' # "idle") /\ ~(\E n \in 1 .. MaxReplicas : Begin("deploy", n))
  BY LoadStateEffect, PlanFleetEffect, MigrateToEffect DEF Begin, DeploySteps
<1>10. ~HandOffServed
  <2>1. HandOffServed => pc = "swap" /\ ~loc.enrolled
    BY HandOffServedEffect
  <2> QED BY <1>0, <2>1
<1> QED BY <1>1, <1>2, <1>3, <1>4, <1>5, <1>6, <1>7, <1>8, <1>9, <1>10, DeployCases

\* A deploy over a fleet in order plans to keep it.
LEMMA PlanServing ==
  ASSUME Inv, Inv', OwedOK, owed # 0, ~misled', LoadState \/ PlanFleet
  PROVE  owed' = owed /\ InService'
<1>1. CASE LoadState
  <2>1. /\ pc = "load" /\ pc' \in {"plan", "migrate"} /\ (pc' = "plan" <=> LoadOrInit.mode = "rolling")
        /\ mem' = LoadOrInit /\ loc'.pre = LoadOrInit /\ loc'.n = loc.n
        /\ UNCHANGED <<alive, route, disk, owed>>
    BY <1>1, LoadStateEffect DEF procs, files
  <2>2. Whole(disk) /\ owed = Cardinality({k \in Keys : k < loc.n /\ disk.reps[k].pid # 0})
    BY <2>1 DEF OwedOK
  <2>3. LoadOrInit = disk /\ pc' = "plan"
    BY <2>1, <2>2 DEF Whole, LoadOrInit
  <2>4. Owing' = {k \in Keys : k < loc.n /\ disk.reps[k].pid # 0}
    BY <2>1, <2>3 DEF Owing
  <2>5. \A k \in Owing' : Serves(mem.reps[k])' /\ disk.reps[k].pid \in route
    BY <2>1, <2>3, <2>4, <2>2, WholeServes DEF Serves
  <2>6. route # {}
    <3>1. CASE Owing' = {}
      BY <2>2, <2>4, <3>1, FS_EmptySet
    <3>2. CASE Owing' # {}
      BY <2>5, <3>2
    <3> QED BY <3>1, <3>2
  <2>7. pc' \notin ReplicaSteps
    BY <2>3 DEF ReplicaSteps, FreshSteps, SwappedSteps, RevertedSteps
  <2> QED BY <2>1, <2>2, <2>3, <2>4, <2>5, <2>6, <2>7 DEF InService
<1>2. CASE PlanFleet
  <2>1. /\ pc = "plan" /\ pc' = "build" /\ mem'.reps = Kept /\ (route # {} => loc'.enrolled)
        /\ \A k \in Keys : k < loc.n => Kept[k] = Reaped(mem.reps[k])
        /\ ~misled /\ loc'.pre = loc.pre /\ loc'.n = loc.n /\ UNCHANGED <<alive, route, owed>>
    BY <1>2, PlanFleetEffect DEF procs
  <2>2. /\ pc' \notin ReplicaSteps /\ pc' \notin SwappedSteps \cup RevertedSteps
        /\ pc \notin ReplicaSteps /\ pc \in DeploySteps \ {"load"}
    BY <2>1 DEF ReplicaSteps, FreshSteps, SwappedSteps, RevertedSteps, DeploySteps, Steps, StopSteps,
       StartSteps
  <2>3. InService
    BY <2>1, <2>2, ServingFacts
  <2>4. Owing' = Owing
    BY <2>1 DEF Owing
  <2>5. \A k \in Owing : Serves(mem.reps[k]) /\ mem'.reps[k] = mem.reps[k]
    <3>1. \A k \in Owing : Serves(mem.reps[k]) /\ k \in Keys /\ k < loc.n
      BY <2>2, <2>3 DEF InService, Owing
    <3> QED BY <2>1, <3>1 DEF Reaped, Serves
  <2> QED BY <2>1, <2>2, <2>3, <2>4, <2>5 DEF InService, Serves
<1> QED BY <1>1, <1>2

\* Only the beginning of a deploy makes it owe something.
LEMMA OwedSteps ==
  ASSUME [Next]_vars, owed' # 0
  PROVE  \/ \E n \in 1 .. MaxReplicas : Begin("deploy", n)
         \/ owed' = owed
<1>1. CASE Prepare
  BY <1>1 DEF Prepare, Begin, LoadState, MigrateTo, PlanFleet, BuildFails, Build
<1>2. CASE RollOne
  BY <1>2 DEF RollOne, Cancelled, LaunchFails, LaunchReplacement, StoreReplacing,
     HealthPasses, HealthFails, HandOffPublicPort, HandOffServed, SwapMembership, Discard, StoreRestored, Commit,
     Compensate, StoreBestKnown, StoreBack, StopCandidate, DrainOld
<1>3. CASE Finish
  BY <1>3 DEF Finish, StopLegacy, FailedAt, UndoMigration, StopSurplus, StoreFinal, Promote
<1>4. CASE StopStart
  BY <1>4 DEF StopStart, RemoveRoute, Teardown, StoreTorn, StartEnds, StartReplica, StoreStarted,
     UndoStart, RestoreProxyRoute
<1>5. CASE Crash \/ InstanceDies
  BY <1>5 DEF Crash, InstanceDies
<1>6. CASE UNCHANGED vars
  BY <1>6 DEF vars
<1> QED BY <1>1, <1>2, <1>3, <1>4, <1>5, <1>6 DEF Next

\* The steps of stop and start follow each other.
LEMMA StopStartCases ==
  ASSUME [Next]_vars, pc' \in StopSteps \cup StartSteps
  PROVE  \/ UNCHANGED vars \/ \E op \in {"stop", "start"} : Begin(op, 0)
         \/ RemoveRoute \/ Teardown \/ StartReplica \/ StoreStarted
<1>0. pc' \in {"unroute", "teardown", "storeTorn", "start", "storeStarted", "undoStart"}
  BY DEF StopSteps, StartSteps
<1>1. CASE Prepare
  BY <1>0, <1>1 DEF Prepare, Begin, LoadState, MigrateTo, PlanFleet, BuildFails, Build, Step, Return
<1>2. CASE RollOne
  BY <1>0, <1>2 DEF RollOne, Cancelled, LaunchFails, LaunchReplacement, StoreReplacing,
     HealthPasses, HealthFails, HandOffPublicPort, HandOffServed, SwapMembership, Discard, StoreRestored, Commit,
     Compensate, StoreBestKnown, StoreBack, StopCandidate, DrainOld, Step, Return
<1>3. CASE Finish
  BY <1>0, <1>3 DEF Finish, StopLegacy, FailedAt, UndoMigration, StopSurplus, StoreFinal, Promote,
     Step, Return
<1>4. CASE StopStart
  BY <1>0, <1>4 DEF StopStart, StoreTorn, StartEnds, UndoStart, RestoreProxyRoute, Return
<1>5. CASE Crash \/ InstanceDies
  BY <1>0, <1>5 DEF Crash, InstanceDies, Return
<1> QED BY <1>1, <1>2, <1>3, <1>4, <1>5 DEF Next

\* The steps of stop and start are entered by those operations alone.
LEMMA StopStartSteps ==
  ASSUME [Next]_vars, pc' \in StopSteps \cup StartSteps
  PROVE  (\E op \in {"stop", "start"} : Begin(op, 0)) \/ pc \in StopSteps \cup StartSteps
BY StopStartCases DEF vars, RemoveRoute, Teardown, StartReplica, StoreStarted, Step, StopSteps,
   StartSteps

\* Without a lost reply or a failing Status only a swap, its compensation, stop and start route
\* to anybody else.
LEMMA RouteSteps ==
  ASSUME Inv, [Next]_vars, ~misled', pc # "idle"
  PROVE  /\ ~misled
         /\ \/ route' = route \/ pc \in {"unroute", "start"}
            \/ SwapMembership /\ pc' = "commit"
            \/ Compensate /\ pc' = "storeBack"
<1>1. CASE Prepare
  <2>1. ~(\E n \in 1 .. MaxReplicas : Begin("deploy", n)) /\ ~(\E op \in {"stop", "start"} : Begin(op, 0))
    BY DEF Begin
  <2>2. PlanFleet \/ UNCHANGED <<route, misled>>
    BY <1>1, <2>1 DEF Prepare, LoadState, MigrateTo, BuildFails, Build
  <2> QED BY <2>2, PlanFleetEffect
<1>2. CASE RollOne
  <2>1. CASE SwapMembership \/ Compensate
    BY <2>1 DEF SwapMembership, Compensate, CallOK, CallFails, Step
  <2>2. CASE ~(SwapMembership \/ Compensate)
    BY <1>2, <2>2 DEF RollOne, Cancelled, LaunchFails, LaunchReplacement, StoreReplacing,
       HealthPasses, HealthFails, HandOffPublicPort, HandOffServed, Discard, StoreRestored, Commit,
       StoreBestKnown, StoreBack, StopCandidate, DrainOld
  <2> QED BY <2>1, <2>2
<1>3. CASE Finish
  BY <1>3 DEF Finish, StopLegacy, FailedAt, UndoMigration, StopSurplus, StoreFinal, Promote
<1>4. CASE StopStart
  <2>1. CASE RemoveRoute \/ RestoreProxyRoute
    BY <2>1 DEF RemoveRoute, RestoreProxyRoute, CallOK, CallFails, Step
  <2>2. CASE ~(RemoveRoute \/ RestoreProxyRoute)
    BY <1>4, <2>2 DEF StopStart, Teardown, StoreTorn, StartEnds, StartReplica, StoreStarted, UndoStart
  <2> QED BY <2>1, <2>2
<1>5. CASE Crash \/ InstanceDies
  BY <1>5 DEF Crash, InstanceDies
<1>6. CASE UNCHANGED vars
  BY <1>6 DEF vars, hist
<1> QED BY <1>1, <1>2, <1>3, <1>4, <1>5, <1>6 DEF Next

\* Every step keeps what a deploy owes.
LEMMA NextOwed == ASSUME Inv, Inv', RolledOK, OwedOK, [Next]_vars PROVE OwedOK'
<1> SUFFICES ASSUME owed' # 0 PROVE OwedOK'
  BY DEF OwedOK
<1>1. CASE \E n \in 1 .. MaxReplicas : Begin("deploy", n)
  <2>1. PICK n \in 1 .. MaxReplicas : Begin("deploy", n)
    BY <1>1
  <2>2. /\ pc' = "load" /\ loc'.op = "deploy" /\ loc'.n = n /\ Whole(disk)
        /\ owed' = Cardinality({k \in Keys : k < n /\ disk.reps[k].pid # 0})
        /\ UNCHANGED <<alive, route, disk>>
    BY <2>1 DEF Begin, NoLocals, procs, files
  <2>3. Whole(disk)' /\ owed' = Cardinality({k \in Keys : k < loc.n /\ disk.reps[k].pid # 0})'
    BY <2>2 DEF Whole, Pids
  <2> QED BY <2>2, <2>3 DEF OwedOK, DeploySteps
<1>2. CASE owed' = owed
  <2>1. CASE pc' = "idle"
    BY <2>1 DEF OwedOK, DeploySteps
  <2>2. CASE pc' \in StopSteps \cup StartSteps
    <3>1. pc \in StopSteps \cup StartSteps
      <4>1. ~(\E op \in {"stop", "start"} : Begin(op, 0))
        BY DEF Begin
      <4> QED BY <2>2, <4>1, StopStartSteps
    <3>2. pc # "idle" /\ loc.op # "deploy"
      BY <3>1 DEF Inv, OpOK, StopSteps, StartSteps
    <3> QED BY <1>2, <3>2 DEF OwedOK
  <2>3. CASE pc' \in DeploySteps
    <3>1. loc'.op = "deploy"
      BY <2>3 DEF Inv, OpOK
    <3>2. CASE pc' # "load"
      <4>0. SUFFICES ASSUME ~misled' PROVE OwedOK'
        BY <2>3, <3>1, <3>2 DEF OwedOK
      <4>1. CASE UNCHANGED vars
        BY <4>1 DEF vars, procs, files, hist, OwedOK, Owing, Serves, Whole, Pids
      <4>2. CASE LoadState \/ PlanFleet
        <5>1. InService'
          BY <1>2, <4>0, <4>2, PlanServing
        <5> QED BY <2>3, <3>1, <3>2, <5>1 DEF OwedOK, InService
      <4>3. CASE MigrateTo /\ pc' # "idle"
        <5>1. pc = "migrate" /\ pc \in DeploySteps \ {"load"}
          BY <4>3, MigrateToEffect DEF DeploySteps, Steps, StopSteps, StartSteps
        <5>2. ~misled
          BY <4>0, <5>1, RouteSteps
        <5> QED BY <1>2, <5>1, <5>2, ServingFacts DEF InService
      <4>4. CASE pc \in DeploySteps \ {"load", "migrate", "plan"}
        <5>0. ~misled
          BY <4>0, <4>4, RouteSteps DEF DeploySteps
        <5>1. InService'
          BY <1>2, <2>3, <4>4, <5>0, RollServing
        <5> QED BY <2>3, <3>1, <3>2, <5>1 DEF OwedOK, InService
      <4>5. CASE \E n \in 1 .. MaxReplicas : Begin("deploy", n)
        BY <3>2, <4>5 DEF Begin
      <4>6. ASSUME Quiet \/ Retire \/ Build \/ LaunchReplacement \/ (SwapMembership /\ pc' # "discard")
                     \/ HandOffServed \/ Discard \/ Commit \/ Compensate \/ DrainOld
            PROVE  pc \in DeploySteps \ {"load", "migrate", "plan"}
        <5>1. CASE Quiet
          BY <5>1, QuietEffect DEF QuietFlow, DeploySteps, Steps, StopSteps, StartSteps
        <5>2. CASE Retire
          BY <5>2, RetireEffect DEF Retire, DeploySteps, Steps, StopSteps, StartSteps
        <5>3. CASE Build \/ LaunchReplacement
          BY <5>3, BuildEffect, LaunchReplacementEffect DEF DeploySteps, Steps, StopSteps, StartSteps
        <5>4. CASE (SwapMembership /\ pc' # "discard") \/ HandOffServed \/ Discard \/ Commit \/ Compensate
                     \/ DrainOld
          BY <5>4, HandOffServedEffect, SwapMembershipEffect, DiscardEffect, CommitEffect, CompensateEffect, DrainOldEffect
             DEF DeploySteps, Steps, StopSteps, StartSteps
        <5> QED BY <4>6, <5>1, <5>2, <5>3, <5>4
      <4> QED BY <2>3, <4>1, <4>2, <4>3, <4>4, <4>5, <4>6, DeployCases
    <3>3. CASE pc' = "load"
      <4>1. CASE UNCHANGED vars
        BY <4>1 DEF vars, procs, files, hist, OwedOK, Owing, Serves, Whole, Pids
      <4>2. CASE Quiet \/ Retire \/ Build \/ LaunchReplacement \/ (SwapMembership /\ pc' # "discard")
                     \/ HandOffServed \/ Discard \/ Commit \/ Compensate \/ DrainOld
                     \/ LoadState \/ (MigrateTo /\ pc' # "idle") \/ PlanFleet
        BY <3>3, <4>2, QuietEffect, RetireEffect, BuildEffect, LaunchReplacementEffect,
           SwapMembershipEffect, DiscardEffect, CommitEffect, CompensateEffect, DrainOldEffect,
           LoadStateEffect, MigrateToEffect, PlanFleetEffect, HandOffServedEffect DEF QuietFlow, Retire
      <4> QED BY <1>1, <2>3, <4>1, <4>2, DeployCases
    <3> QED BY <3>2, <3>3
  <2> QED BY <2>1, <2>2, <2>3 DEF Inv, TypeOK, DeploySteps
<1> QED BY <1>1, <1>2, OwedSteps

\* Every step leaves at least the instances serving that are owed.
LEMMA NextCapacity ==
  ASSUME Inv, Inv', EnrolledOK, RolledOK, OwedOK, OwedOK', CapacityKept, [Next]_vars
  PROVE  CapacityKept'
<1> SUFFICES ASSUME ~misled' PROVE Cardinality(route' \cap alive') >= owed'
  BY DEF CapacityKept
<1>0. IsFiniteSet(alive') /\ IsFiniteSet(route' \cap alive') /\ Cardinality(route' \cap alive') \in Nat
  <2>1. IsFiniteSet(Inst)
    BY FS_Interval DEF Inst
  <2>2. IsFiniteSet(alive')
    BY <2>1, FS_Subset DEF Inv, TypeOK
  <2>3. IsFiniteSet(route' \cap alive')
    BY <2>2, FS_Subset
  <2> QED BY <2>2, <2>3, FS_CardinalityType
<1>1. CASE owed' = 0
  BY <1>0, <1>1
<1>2. CASE \E n \in 1 .. MaxReplicas : Begin("deploy", n)
  <2>1. PICK n \in 1 .. MaxReplicas : Begin("deploy", n)
    BY <1>2
  <2> DEFINE S == {k \in Keys : k < n /\ disk.reps[k].pid # 0}
  <2>2. UNCHANGED <<alive, route>> /\ (owed' = 0 \/ (Whole(disk) /\ owed' = Cardinality(S)))
    BY <2>1 DEF Begin, procs
  <2>3. CASE Whole(disk) /\ owed' = Cardinality(S)
    <3>1. \A k \in S : disk.reps[k].port \in route /\ disk.reps[k].port \in alive
      BY <2>3, WholeServes DEF Serves
    <3>2. Cardinality(route \cap alive) >= Cardinality(S)
      BY <3>1, ServingFleet DEF Inv, JournalsOK
    <3> QED BY <2>2, <2>3, <3>2
  <2> QED BY <1>1, <2>2, <2>3
<1>3. CASE owed' # 0 /\ owed' = owed /\ pc # "idle"
  <2>1. loc.op = "deploy" /\ pc \notin {"unroute", "start"} /\ ~misled
    BY <1>3, RouteSteps DEF OwedOK, Inv, OpOK, StopSteps, StartSteps
  <2>2. CASE route' = route
    <3>1. (alive \ alive') \cap route = {}
      BY <1>3, <2>1, RouteSteps, OnlyStopping, StoppedUnrouted
    <3>2. route \cap alive \in SUBSET (route' \cap alive')
      BY <2>2, <3>1
    <3>3. Cardinality(route \cap alive) <= Cardinality(route' \cap alive')
      BY <1>0, <3>2, FS_Subset
    <3>4. Cardinality(route \cap alive) >= owed
      BY <1>3, RouteSteps DEF CapacityKept
    <3> QED BY <1>0, <1>3, <3>3, <3>4, RoutedNumber
  <2>3. CASE SwapMembership /\ pc' = "commit"
    <3>1. /\ pc = "swap" /\ route' = HealthyTargets(mem'.reps) /\ alive' = alive /\ proven' = proven
          /\ mem' = SetReplica(mem, loc.key, Candidate) /\ loc'.key = loc.key /\ loc'.n = loc.n
          /\ loc'.pre = loc.pre
      BY <2>3, SwapMembershipEffect DEF procs
    <3>2. pc \in ReplicaSteps \ {"stopCandidate"} /\ pc \in DeploySteps \ {"load"}
      BY <3>1 DEF ReplicaSteps, FreshSteps, DeploySteps, Steps, StopSteps, StartSteps
    <3>3. InService /\ loc.cand \in alive /\ Owing \in SUBSET Keys
      BY <1>3, <2>1, <3>1, <3>2, ServingFacts DEF RolledOK, Owing
    <3>4. /\ mem'.reps[loc.key] = Candidate /\ \A k \in Keys \ {loc.key} : mem'.reps[k] = mem.reps[k]
      BY <3>1, <3>2, RecordsCandidate
    <3>5. ASSUME NEW k \in Owing
          PROVE  mem'.reps[k].port \in route' /\ mem'.reps[k].port \in alive
      <4>1. /\ mem'.reps[k].status = "running" /\ mem'.reps[k].port \in alive
        <5>1. CASE k = loc.key
          BY <3>2, <3>3, <3>4, <5>1, AtReplica
        <5>2. CASE k # loc.key
          BY <3>3, <3>4, <5>2 DEF InService, Serves
        <5> QED BY <5>1, <5>2
      <4>2. mem'.reps[k].port # 0 /\ k \in Keys
        BY <3>3, <4>1 DEF Inv, TypeOK, Inst
      <4> QED BY <3>1, <4>1, <4>2, HealthyFacts
    <3>6. JournalIn(mem', proven)
      BY <3>1 DEF Inv, JournalsOK
    <3>7. Cardinality(route' \cap alive) >= Cardinality(Owing)
      BY <3>3, <3>5, <3>6, ServingFleet
    <3> QED BY <1>3, <3>1, <3>3, <3>7 DEF InService
  <2>4. CASE Compensate /\ pc' = "storeBack"
    <3>1. /\ pc = "compensate" /\ route' = OldMembership /\ alive' = alive
      BY <2>4, CompensateEffect DEF procs
    <3>2. pc \in ReplicaSteps \ {"drainOld"} /\ pc \in DeploySteps \ {"load"} /\ pc \in RevertedSteps
      BY <3>1 DEF ReplicaSteps, RevertedSteps, DeploySteps, Steps, StopSteps, StartSteps
    <3>3. InService /\ loc.was /\ Owing \in SUBSET Keys
      BY <1>3, <2>1, <3>1, <3>2, ServingFacts DEF InService, Owing
    <3>4. route' = HealthyTargets(mem.reps) /\ mem.reps[loc.key] = loc.old
      BY <3>1, <3>2, <3>3 DEF OldMembership, Inv, CandOK
    <3>5. ASSUME NEW k \in Owing
          PROVE  mem.reps[k].port \in route' /\ mem.reps[k].port \in alive
      <4>1. Serves(mem.reps[k])
        BY <3>2, <3>3, <3>4 DEF InService
      <4>2. mem.reps[k].port # 0 /\ k \in Keys
        BY <3>3, <4>1 DEF Inv, TypeOK, Inst, Serves
      <4> QED BY <3>4, <4>1, <4>2, HealthyFacts DEF Serves
    <3>6. Cardinality(route' \cap alive) >= Cardinality(Owing)
      BY <3>3, <3>5, ServingFleet DEF Inv, JournalsOK
    <3> QED BY <1>3, <3>1, <3>3, <3>6 DEF InService
  <2> QED BY <1>3, <2>1, <2>2, <2>3, <2>4, RouteSteps
<1>4. CASE owed' # 0 /\ owed' = owed /\ pc = "idle" /\ ~(\E n \in 1 .. MaxReplicas : Begin("deploy", n))
  <2>1. UNCHANGED vars
    <3>1. ~(\E op \in {"stop", "start"} : Begin(op, 0)) /\ ~InstanceDies
      BY <1>4 DEF Begin, InstanceDies
    <3>2. CASE Prepare
      BY <1>4, <3>1, <3>2 DEF Prepare, LoadState, MigrateTo, PlanFleet, BuildFails, Build, Step
    <3>3. CASE RollOne
      BY <1>4, <3>3 DEF RollOne, Cancelled, LaunchFails, LaunchReplacement, StoreReplacing,
         HealthPasses, HealthFails, HandOffPublicPort, HandOffServed, SwapMembership, Discard, StoreRestored, Commit,
         Compensate, StoreBestKnown, StoreBack, StopCandidate, DrainOld, Step
    <3>4. CASE Finish
      BY <1>4, <3>4 DEF Finish, StopLegacy, FailedAt, UndoMigration, StopSurplus, StoreFinal, Promote,
         Step
    <3>5. CASE StopStart \/ Crash
      BY <1>4, <3>5 DEF StopStart, RemoveRoute, Teardown, StoreTorn, StartEnds, StartReplica,
         StoreStarted, UndoStart, RestoreProxyRoute, Crash, Step
    <3> QED BY <3>1, <3>2, <3>3, <3>4, <3>5 DEF Next
  <2> QED BY <2>1 DEF CapacityKept, vars, procs, hist
<1> QED BY <1>1, <1>2, <1>3, <1>4, OwedSteps

\* A rolling deploy over a fleet in order serves at every step with at least
\* the instances it had or was asked for, through failed swaps, stops and writes,
\* cancellation, crashes and compensation; the exceptions are a lost reply and a
\* failing Status, whose hand-off of the public port stops a serving replica.
THEOREM CapacityNeverLost == Spec => []CapacityKept
<1>1. Init => EnrolledOK /\ RolledOK /\ OwedOK
  BY DEF Init, EnrolledOK, RolledOK, OwedOK, DeploySteps, ReplicaSteps, FreshSteps, SwappedSteps,
     RevertedSteps
<1>2. Inv /\ Init => CapacityKept
  BY RoutedNumber DEF Init, CapacityKept
<1>3. Inv /\ Inv' /\ EnrolledOK /\ RolledOK /\ OwedOK /\ CapacityKept /\ [Next]_vars
        => (EnrolledOK /\ RolledOK /\ OwedOK /\ CapacityKept)'
  BY NextEnrolled, NextRolled, NextOwed, NextCapacity
<1> QED BY <1>1, <1>2, <1>3, FleetInvariant, PTL DEF Spec

-----------------------------------------------------------------------------
(* Nothing is lost.                                                        *)

\* No step of an operation meets more faults than are left.
LEMMA FaultsSpent == ASSUME Inv, [Next]_vars, pc # "idle" PROVE budget' \in 0 .. budget
<1>0. TypeOK /\ budget \in Nat
  BY DEF Inv, TypeOK
<1>s. ASSUME NEW j, StoreBestEffort(j) PROVE budget' \in 0 .. budget
  BY <1>0, <1>s, StoreFacts DEF StoreBestEffort
<1>1. CASE Prepare
  <2>1. ~(\E n \in 1 .. MaxReplicas : Begin("deploy", n)) /\ ~(\E op \in {"stop", "start"} : Begin(op, 0))
    BY DEF Begin
  <2>2. PlanFleet \/ budget' = budget \/ StoreBestEffort(Migrated(mem))
    BY <1>1, <2>1 DEF Prepare, LoadState, MigrateTo, BuildFails, Build, StoreBestEffort
  <2> QED BY <1>0, <1>s, <2>2, PlanFleetEffect
<1>2. CASE RollOne
  <2>1. CASE SwapMembership \/ Compensate
    <3>1. \E T : CallOK(T) \/ CallFails(T)
      BY <2>1 DEF SwapMembership, Compensate
    <3> QED BY <1>0, <3>1, CallFacts
  <2>2. CASE Discard \/ StopCandidate \/ DrainOld
    <3>1. \E S : StopOK(S) \/ StopFails(S)
      BY <2>2 DEF Discard, StopCandidate, DrainOld
    <3> QED BY <1>0, <3>1, StopFacts
  <2>3. CASE StoreReplacing \/ StoreRestored \/ Commit \/ StoreBestKnown \/ StoreBack
    <3>1. StoreBestEffort(mem)
      BY <2>3 DEF StoreReplacing, StoreRestored, Commit, StoreBestKnown, StoreBack, StoreBestEffort
    <3> QED BY <1>s, <3>1
  <2>4. CASE Cancelled \/ LaunchFails \/ LaunchReplacement \/ HealthPasses \/ HealthFails
             \/ HandOffPublicPort \/ HandOffServed
    <3>1. budget' = budget \/ \E kind : Fault(kind)
      BY <2>4 DEF Cancelled, LaunchFails, LaunchReplacement, HealthPasses, HealthFails,
         HandOffPublicPort, HandOffServed, NoFault
    <3> QED BY <1>0, <3>1, FaultFacts DEF NoFault
  <2> QED BY <1>2, <2>1, <2>2, <2>3, <2>4 DEF RollOne
<1>3. CASE Finish
  <2>1. CASE StopLegacy \/ StopSurplus
    <3>1. \E S : StopOK(S) \/ StopFails(S)
      BY <2>1 DEF StopLegacy, StopSurplus
    <3> QED BY <1>0, <3>1, StopFacts
  <2>2. CASE FailedAt \/ UndoMigration \/ StoreFinal
    <3>1. budget' = budget \/ \E j : StoreBestEffort(j)
      BY <2>2 DEF FailedAt, UndoMigration, StoreFinal, StoreBestEffort, NoFault
    <3> QED BY <1>0, <1>s, <3>1
  <2>3. CASE Promote
    <3>1. budget' = budget \/ \E kind : Fault(kind)
      BY <2>3 DEF Promote, NoFault
    <3> QED BY <1>0, <3>1, FaultFacts DEF NoFault
  <2> QED BY <1>3, <2>1, <2>2, <2>3 DEF Finish
<1>4. CASE StopStart
  <2>1. CASE RemoveRoute \/ RestoreProxyRoute
    <3>1. \E T : CallOK(T) \/ CallFails(T)
      BY <2>1 DEF RemoveRoute, RestoreProxyRoute
    <3> QED BY <1>0, <3>1, CallFacts
  <2>2. CASE Teardown \/ UndoStart
    <3>1. \E S : StopOK(S) \/ StopFails(S)
      BY <2>2 DEF Teardown, UndoStart
    <3> QED BY <1>0, <3>1, StopFacts
  <2>3. CASE StoreTorn \/ StoreStarted
    <3>1. StoreBestEffort(mem)
      BY <2>3 DEF StoreTorn, StoreStarted, StoreBestEffort
    <3> QED BY <1>s, <3>1
  <2>4. CASE StartEnds \/ StartReplica
    BY <1>0, <2>4 DEF StartEnds, StartReplica
  <2> QED BY <1>4, <2>1, <2>2, <2>3, <2>4 DEF StopStart
<1>5. CASE Crash \/ InstanceDies \/ UNCHANGED vars
  BY <1>0, <1>5 DEF Crash, InstanceDies, vars
<1> QED BY <1>1, <1>2, <1>3, <1>4, <1>5 DEF Next

\* An operation that returns leaves one of these in deploy.json.
LEMMA ReturnEffect ==
  ASSUME Inv, [Next]_vars, pc' = "idle", pc # "idle"
  PROVE  /\ mem' = NoJournal /\ loc' = NoLocals
         /\ disk' \in {disk, mem, Mixed(mem), Migrated(mem), RestoreMode(mem, loc.pre)}
<1>s. ASSUME NEW j, StoreBestEffort(j) PROVE disk' \in {disk, j}
  BY <1>s, StoreFacts DEF StoreBestEffort, Inv
<1>1. CASE Prepare
  <2>1. Return("failed") /\ (disk' = disk \/ StoreBestEffort(Migrated(mem)))
    BY <1>1 DEF Prepare, Begin, LoadState, MigrateTo, PlanFleet, BuildFails, Build, Step,
       StoreBestEffort, files
  <2> QED BY <1>s, <2>1 DEF Return
<1>2. CASE RollOne
  BY <1>2 DEF RollOne, Cancelled, LaunchFails, LaunchReplacement, StoreReplacing,
     HealthPasses, HealthFails, HandOffPublicPort, HandOffServed, SwapMembership, Discard, StoreRestored, Commit,
     Compensate, StoreBestKnown, StoreBack, StopCandidate, DrainOld, Step, Return, files
<1>3. CASE Finish
  <2>1. /\ mem' = NoJournal /\ loc' = NoLocals
        /\ \/ disk' = disk \/ StoreBestEffort(mem) \/ StoreBestEffort(Mixed(mem))
           \/ StoreBestEffort(RestoreMode(mem, loc.pre))
    BY <1>3 DEF Finish, StopLegacy, FailedAt, UndoMigration, StopSurplus, StoreFinal, Promote, Step,
       Return, files, StoreBestEffort
  <2> QED BY <1>s, <2>1
<1>4. CASE StopStart
  <2>1. /\ mem' = NoJournal /\ loc' = NoLocals /\ (disk' = disk \/ StoreBestEffort(mem))
    BY <1>4 DEF StopStart, RemoveRoute, Teardown, StoreTorn, StartEnds, StartReplica, StoreStarted,
       UndoStart, RestoreProxyRoute, Step, Return, files, StoreBestEffort
  <2> QED BY <1>s, <2>1
<1>5. CASE Crash \/ InstanceDies \/ UNCHANGED vars
  BY <1>5 DEF Crash, InstanceDies, vars, Return, files
<1> QED BY <1>1, <1>2, <1>3, <1>4, <1>5 DEF Next

\* Steps between operations.
LEMMA IdleSteps ==
  ASSUME [Next]_vars, pc = "idle"
  PROVE  \/ UNCHANGED vars \/ InstanceDies
         \/ \E n \in 1 .. MaxReplicas : Begin("deploy", n)
         \/ \E op \in {"stop", "start"} : Begin(op, 0)
<1>1. CASE Prepare
  BY <1>1 DEF Prepare, LoadState, MigrateTo, PlanFleet, BuildFails, Build, Step
<1>2. CASE RollOne
  BY <1>2 DEF RollOne, Cancelled, LaunchFails, LaunchReplacement, StoreReplacing,
     HealthPasses, HealthFails, HandOffPublicPort, HandOffServed, SwapMembership, Discard, StoreRestored, Commit,
     Compensate, StoreBestKnown, StoreBack, StopCandidate, DrainOld, Step
<1>3. CASE Finish
  BY <1>3 DEF Finish, StopLegacy, FailedAt, UndoMigration, StopSurplus, StoreFinal, Promote, Step
<1>4. CASE StopStart \/ Crash
  BY <1>4 DEF StopStart, RemoveRoute, Teardown, StoreTorn, StartEnds, StartReplica,
     StoreStarted, UndoStart, RestoreProxyRoute, Crash, Step
<1> QED BY <1>1, <1>2, <1>3, <1>4 DEF Next

\* Every journal an operation writes keeps a slot or replicas.
LEMMA ModesWritten ==
  ASSUME Inv, ModesOK
  PROVE  /\ Modes(Mixed(mem)) /\ Modes(Migrated(mem)) /\ Modes(RestoreMode(mem, loc.pre))
         /\ Modes(NoJournal) /\ Modes(LoadOrInit)
<1>1. Modes(Mixed(mem)) /\ Modes(Migrated(mem)) /\ Modes(RestoreMode(mem, loc.pre))
  BY WrittenFacts DEF Inv, ModesOK, Modes
<1>2. Modes(NoJournal)
  BY DEF Modes, NoJournal
<1>3. Modes(LoadOrInit)
  BY <1>2 DEF Modes, LoadOrInit, ModesOK, NoJournal
<1> QED BY <1>1, <1>2, <1>3

\* Modes looks at three fields.
LEMMA ModesKept ==
  ASSUME NEW j, NEW w, Modes(j), w.mode = j.mode, w.slot = j.slot, w.mode = "rolling" \/ w.reps = j.reps
  PROVE  Modes(w)
BY DEF Modes

\* Every step keeps the journals to their modes.
LEMMA NextModes == ASSUME Inv, Inv', ModesOK, [Next]_vars PROVE ModesOK'
<1>0. Modes(disk) /\ Modes(mem) /\ Modes(loc.pre)
  BY DEF ModesOK
<1>1. CASE UNCHANGED vars
  BY <1>1 DEF vars, files, ModesOK, Modes
<1>2. CASE pc' = "idle" /\ pc # "idle"
  <2>1. /\ mem' = NoJournal /\ loc' = NoLocals
        /\ disk' \in {disk, mem, Mixed(mem), Migrated(mem), RestoreMode(mem, loc.pre)}
    BY <1>2, ReturnEffect
  <2>2. loc'.pre = NoJournal
    BY <2>1 DEF NoLocals
  <2>3. Modes(disk)' /\ Modes(mem)' /\ Modes(loc.pre)'
    BY <1>0, <2>1, <2>2, ModesWritten
  <2> QED BY <1>2, <2>3 DEF ModesOK
<1>3. CASE pc = "idle" /\ ~UNCHANGED vars
  <2>1. CASE InstanceDies
    BY <2>1 DEF InstanceDies, ModesOK, Modes, files
  <2>2. ASSUME NEW op \in Ops, NEW n, Begin(op, n) PROVE ModesOK'
    <3>1. /\ mem' = disk /\ disk' = disk /\ loc'.pre = NoJournal
          /\ pc' \in {"load", "unroute", "start"} /\ (pc' # "load" => disk.mode = "rolling")
      BY <2>2 DEF Begin, NoLocals, files, Ops
    <3>2. Modes(disk)' /\ Modes(mem)' /\ Modes(loc.pre)'
      BY <1>0, <3>1, ModesWritten
    <3> QED BY <3>1, <3>2 DEF ModesOK
  <2> QED BY <1>3, <2>1, <2>2, IdleSteps DEF Ops
<1>4. CASE pc' \in StopSteps \cup StartSteps /\ pc # "idle"
  <2>1. pc \in StopSteps \cup StartSteps /\ ~(\E op \in {"stop", "start"} : Begin(op, 0))
    BY <1>4, StopStartSteps DEF Begin
  <2>2. mem.mode = "rolling" /\ pc' \notin {"idle", "load", "migrate", "undo"}
    BY <1>4, <2>1 DEF ModesOK, StopSteps, StartSteps
  <2>3. mem'.mode = mem.mode /\ mem'.slot = mem.slot /\ loc'.pre = loc.pre /\ disk' \in {disk, mem}
    <3>1. CASE RemoveRoute
      BY <3>1 DEF RemoveRoute, files
    <3>2. CASE Teardown
      BY <3>2, TeardownEffect DEF files
    <3>3. CASE StartReplica
      BY <3>3, StartReplicaEffect DEF files
    <3>4. CASE StoreStarted
      BY <3>4, StoreFacts DEF StoreStarted, Inv
    <3>5. CASE UNCHANGED vars
      BY <3>5 DEF vars, files
    <3> QED BY <1>4, <2>1, <3>1, <3>2, <3>3, <3>4, <3>5, StopStartCases
  <2>4. Modes(disk)' /\ Modes(mem)' /\ Modes(loc.pre)'
    BY <1>0, <2>2, <2>3, ModesKept
  <2> QED BY <2>2, <2>3, <2>4 DEF ModesOK
<1>5. CASE pc' \in DeploySteps /\ pc # "idle" /\ ~UNCHANGED vars
  <2>0. ~(\E n \in 1 .. MaxReplicas : Begin("deploy", n))
    BY <1>5 DEF Begin
  <2>1. CASE LoadState
    <3>1. /\ pc' \in {"plan", "migrate"} /\ (pc' = "plan" <=> LoadOrInit.mode = "rolling")
          /\ mem' = LoadOrInit /\ loc'.pre = LoadOrInit /\ disk' = disk
      BY <2>1, LoadStateEffect DEF files
    <3>2. LoadOrInit.mode \in {"rolling", "blue-green"}
      BY DEF LoadOrInit, NoJournal, Inv, TypeOK, Journal
    <3>3. Modes(disk)' /\ Modes(mem)' /\ Modes(loc.pre)'
      BY <1>0, <3>1, ModesWritten
    <3> QED BY <3>1, <3>2, <3>3 DEF ModesOK
  <2>2. CASE MigrateTo /\ pc' # "idle"
    <3>1. pc' = "plan" /\ mem' = Migrated(mem) /\ disk' = Migrated(mem) /\ loc'.pre = loc.pre
      BY <2>2, MigrateToEffect
    <3>2. Migrated(mem).mode = "rolling"
      BY WrittenFacts DEF Inv
    <3>3. Modes(disk)' /\ Modes(mem)' /\ Modes(loc.pre)'
      BY <1>0, <3>1, ModesWritten
    <3> QED BY <3>1, <3>2, <3>3 DEF ModesOK
  <2>3. ASSUME pc \notin {"idle", "load", "migrate"}, pc' \notin {"idle", "load", "migrate"},
               mem'.mode = mem.mode, mem'.slot = mem.slot, loc'.pre = loc.pre,
               disk' \in {disk, mem, mem'}, pc' = "undo" => ~loc'.progressed
        PROVE  ModesOK'
    <3>1. mem.mode = "rolling"
      BY <2>3 DEF ModesOK
    <3>2. Modes(disk)' /\ Modes(mem)' /\ Modes(loc.pre)'
      BY <1>0, <2>3, <3>1, ModesKept
    <3> QED BY <2>3, <3>1, <3>2 DEF ModesOK
  <2>4. CASE Quiet
    <3>1. mem' = mem /\ loc' = loc /\ QuietFlow(pc, pc') /\ disk' \in {disk, mem}
      BY <2>4, QuietEffect
    <3>2. pc \notin {"idle", "load", "migrate"} /\ pc' \notin {"idle", "load", "migrate"}
      BY <3>1 DEF QuietFlow
    <3>3. pc' = "undo" => ~loc.progressed
      <4>1. pc' = "undo" => BuildFails \/ Cancelled \/ FailedAt
        BY <2>4 DEF Quiet, LaunchFails, HealthPasses, HealthFails, HandOffPublicPort, StoreReplacing,
           StoreRestored, StoreBestKnown, StoreBack, Step
      <4>2. BuildFails => ~loc.progressed
        BY DEF BuildFails, Inv, OpOK
      <4>3. pc' = "undo" /\ (Cancelled \/ FailedAt) => ~loc.progressed
        BY DEF Cancelled, FailedAt, Return
      <4> QED BY <4>1, <4>2, <4>3
    <3> QED BY <2>3, <3>1, <3>2, <3>3
  <2>5. CASE Retire
    <3>1. /\ loc' = loc /\ mem'.mode = mem.mode /\ mem'.slot = mem.slot /\ disk' = disk
          /\ pc \notin {"idle", "load", "migrate"} /\ pc' \notin {"idle", "load", "migrate", "undo"}
      BY <2>5, RetireEffect DEF Retire, files
    <3> QED BY <2>3, <3>1
  <2>6. CASE PlanFleet \/ Build \/ LaunchReplacement \/ DrainOld
    <3>1. /\ loc'.pre = loc.pre /\ mem'.mode = mem.mode /\ mem'.slot = mem.slot /\ disk' = disk
          /\ pc \notin {"idle", "load", "migrate"} /\ pc' \notin {"idle", "load", "migrate", "undo"}
      BY <2>6, PlanFleetEffect, BuildEffect, LaunchReplacementEffect, DrainOldEffect DEF files
    <3> QED BY <2>3, <3>1
  <2>7. CASE (SwapMembership /\ pc' # "discard") \/ Discard \/ Commit \/ Compensate
    <3>1. /\ loc'.pre = loc.pre /\ disk' \in {disk, mem} /\ pc \in ReplicaSteps
          /\ pc \notin {"idle", "load", "migrate"} /\ pc' \notin {"idle", "load", "migrate", "undo"}
          /\ mem' \in {mem, SetReplica(mem, loc.key, Candidate), RestoreReplica(mem)}
      BY <2>7, SwapMembershipEffect, DiscardEffect, CommitEffect, CompensateEffect
         DEF files, ReplicaSteps, FreshSteps
    <3>2. mem'.mode = mem.mode /\ mem'.slot = mem.slot
      BY <3>1, RecordsCandidate, RestoresReplica
    <3> QED BY <2>3, <3>1, <3>2
  <2>8. CASE HandOffServed
    BY <2>3, <2>8, HandOffServedEffect DEF files
  <2> QED BY <1>5, <2>0, <2>1, <2>2, <2>4, <2>5, <2>6, <2>7, <2>8, DeployCases
<1> QED BY <1>1, <1>2, <1>3, <1>4, <1>5 DEF Inv, TypeOK, DeploySteps

\* Two faults are more than one.
LEMMA TwoFaults ==
  /\ \A b, c \in Int : b < c /\ c < MaxFaults => b + 1 < MaxFaults /\ b < MaxFaults
  /\ \A b \in Int : ~(b + 1 < MaxFaults /\ b + 1 >= MaxFaults)
  /\ \A c \in Int : \A b \in 0 .. c : ~(c + 1 < MaxFaults /\ b + 1 >= MaxFaults)
OBVIOUS

\* An operation that met two faults stays one that did.
LEMMA OneFaultBefore == ASSUME Inv, [Next]_vars, pc # "idle", OneFault' PROVE OneFault
BY FaultsSpent DEF OneFault, Inv, TypeOK

\* A deploy that migrated an app records nobody before the first rotation.
LEMMA NextNoneYet ==
  ASSUME Inv, Inv', KnownOK, KnownOK', NoneYetOK, [Next]_vars
  PROVE  NoneYetOK'
<1> DEFINE None == /\ loc.old.pid = 0
                   /\ \A k \in Keys : k # loc.key \/ pc \notin {"commit", "drainOld"}
                                        => mem.reps[k].pid = 0
<1> SUFFICES ASSUME pc' \in DeploySteps \ {"load", "migrate"}, loc'.pre.mode = "blue-green",
                    ~loc'.progressed, OneFault'
             PROVE  None'
  BY DEF NoneYetOK
<1>0. ASSUME pc \in DeploySteps \ {"load", "migrate"}, loc'.pre = loc.pre,
             loc'.progressed = loc.progressed
      PROVE  None
  <2>1. pc # "idle"
    BY <1>0 DEF DeploySteps
  <2> QED BY <1>0, <2>1, OneFaultBefore DEF NoneYetOK
<1>1. CASE UNCHANGED vars
  BY <1>1 DEF vars, NoneYetOK, OneFault
<1>2. CASE LoadState \/ \E n \in 1 .. MaxReplicas : Begin("deploy", n)
  BY <1>2, LoadStateEffect DEF Begin, DeploySteps
<1>3. CASE MigrateTo /\ pc' # "idle"
  <2>1. mem' = Migrated(mem) /\ loc'.old = loc.old /\ pc = "migrate"
    BY <1>3, MigrateToEffect
  <2>2. \A k \in Keys : mem'.reps[k].pid = 0
    BY <2>1, WrittenFacts DEF Inv, NoReplicas, NoReplica
  <2> QED BY <2>1, <2>2 DEF Inv, OldOK
<1>4. CASE PlanFleet
  <2>1. /\ pc = "plan" /\ mem'.reps = Kept /\ loc'.old = loc.old /\ loc'.pre = loc.pre
        /\ loc'.progressed = loc.progressed
        /\ \A k \in Keys : /\ k < loc.n => Kept[k] = Reaped(mem.reps[k])
                           /\ k >= loc.n => Kept[k] = NoReplica
                           /\ mem.reps[k] \in Replica
    BY <1>4, PlanFleetEffect
  <2>2. loc.old.pid = 0 /\ \A k \in Keys : mem.reps[k].pid = 0
    BY <1>0, <2>1 DEF DeploySteps, Steps, StopSteps, StartSteps
  <2>3. ASSUME NEW k \in Keys PROVE Kept[k].pid = 0
    <3>1. k \in Int /\ loc.n \in Int
      BY DEF Inv, TypeOK, Locals, Keys
    <3>2. Kept[k] \in {Reaped(mem.reps[k]), NoReplica}
      BY <2>1, <3>1
    <3>3. Reaped(mem.reps[k]).pid = 0
      BY <2>2 DEF Reaped
    <3> QED BY <3>2, <3>3 DEF NoReplica
  <2> QED BY <2>1, <2>2, <2>3
<1>5. CASE Quiet \/ Retire \/ Build
  <2>1. /\ mem'.reps = mem.reps /\ loc'.old = loc.old /\ loc'.pre = loc.pre /\ loc'.key = loc.key
        /\ loc'.progressed = loc.progressed
    BY <1>5, QuietEffect, RetireEffect, BuildEffect DEF Retire
  <2>2. pc \in DeploySteps \ {"load", "migrate"} /\ pc \notin {"commit", "drainOld"}
    BY <1>5, QuietEffect, RetireEffect, BuildEffect
       DEF Retire, QuietFlow, DeploySteps, Steps, StopSteps, StartSteps
  <2> QED BY <1>0, <2>1, <2>2
<1>6. CASE LaunchReplacement
  <2>1. /\ pc = "roll" /\ loc'.old = mem.reps[loc.key] /\ loc.key \in Keys /\ loc'.pre = loc.pre
        /\ loc'.progressed = loc.progressed /\ loc'.key = loc.key
        /\ \A k \in Keys \ {loc.key} : mem'.reps[k] = mem.reps[k]
        /\ mem'.reps[loc.key].pid = mem.reps[loc.key].pid
    BY <1>6, LaunchReplacementEffect
  <2>2. \A k \in Keys : mem.reps[k].pid = 0
    BY <1>0, <2>1 DEF DeploySteps, Steps, StopSteps, StartSteps
  <2> QED BY <2>1, <2>2
<1>7. CASE (SwapMembership /\ pc' # "discard") \/ Discard \/ Commit \/ Compensate
  <2>1. /\ loc'.pre = loc.pre /\ loc'.progressed = loc.progressed /\ loc'.old = loc.old
        /\ loc'.key = loc.key /\ pc \in ReplicaSteps \ {"drainOld"}
        /\ mem' \in {mem, SetReplica(mem, loc.key, Candidate), RestoreReplica(mem)}
        /\ pc \in DeploySteps \ {"load", "migrate"}
    BY <1>7, SwapMembershipEffect, DiscardEffect, CommitEffect, CompensateEffect
       DEF ReplicaSteps, FreshSteps, DeploySteps, Steps, StopSteps, StartSteps
  <2>2. None
    BY <1>0, <2>1
  <2>3. \A k \in Keys \ {loc.key} : mem'.reps[k] = mem.reps[k]
    BY <2>1, RecordsCandidate, RestoresReplica
  <2>4. pc' \in {"commit", "drainOld"} \/ mem'.reps[loc.key].pid = 0
    <3>1. CASE SwapMembership /\ pc' # "discard"
      BY <3>1, SwapMembershipEffect
    <3>2. CASE Discard
      BY <2>1, <2>2, <3>2, DiscardEffect, RestoresReplica
    <3>3. CASE Commit
      BY <2>1, <2>2, <3>3, CommitEffect, RestoresReplica
    <3>4. CASE Compensate
      <4>1. pc' # "bestKnown"
        <5> SUFFICES ASSUME pc' = "bestKnown" PROVE FALSE
          OBVIOUS
        <5>1. budget' + 1 < MaxFaults
          BY DEF KnownOK
        <5>2. budget' \in Int
          BY DEF Inv, TypeOK
        <5>3. budget' + 1 >= MaxFaults
          BY DEF OneFault
        <5> QED BY ONLY <5>1, <5>2, <5>3, MaxFaultsAssumption, TwoFaults, Zenon
      <4>2. mem' = mem /\ pc = "compensate" /\ loc.key \in Keys
        BY <2>1, <3>4, <4>1, CompensateEffect, AtReplica
      <4> QED BY <2>2, <4>2
    <3> QED BY <1>7, <3>1, <3>2, <3>3, <3>4
  <2> QED BY <2>1, <2>2, <2>3, <2>4
<1>8. CASE DrainOld
  BY <1>8, DrainOldEffect
<1>9. CASE HandOffServed
  <2>1. pc = "swap" /\ mem' = mem /\ loc' = loc
    BY <1>9, HandOffServedEffect
  <2> QED BY <1>0, <2>1 DEF DeploySteps, Steps, StopSteps, StartSteps
<1> QED BY <1>1, <1>2, <1>3, <1>4, <1>5, <1>6, <1>7, <1>8, <1>9, DeployCases

\* What the records of a journal say of an instance.
LEMMA RecordedFacts ==
  ASSUME NEW j, NEW i, i # 0
  PROVE  i \in Recorded(j) <=> j.slot = i \/ \E k \in Keys : j.reps[k].pid = i
BY DEF Recorded, Pids

\* A journal that only changes the record of one replica forgets one instance.
LEMMA RecordedBut ==
  ASSUME NEW j, NEW w, NEW key, w.slot = j.slot, \A k \in Keys \ {key} : w.reps[k] = j.reps[k]
  PROVE  Recorded(j) \subseteq Recorded(w) \cup {j.reps[key].pid}
BY DEF Recorded, Pids

\* A journal with the same PIDs records the same instances.
LEMMA RecordedSame ==
  ASSUME NEW j, NEW w, w.slot = j.slot, \A k \in Keys : w.reps[k].pid = j.reps[k].pid
  PROVE  Recorded(w) = Recorded(j)
BY DEF Recorded, Pids

\* What KnownOK says of an operation with at most one fault.
KnownNow ==
  /\ alive \subseteq Recorded(mem) \cup strays \cup Unlisted
  /\ pc \notin {"compensate", "storeBack"} => alive \subseteq Recorded(disk) \cup strays \cup Unwritten

\* An operation with at most one fault behind it knows every live instance.
LEMMA KnownFacts ==
  ASSUME Inv, [Next]_vars, KnownOK, pc # "idle", OneFault'
  PROVE  KnownNow
BY OneFaultBefore DEF KnownOK, KnownNow

\* Compensation follows a fault, and so does its failure.
LEMMA NextFaults ==
  ASSUME Inv, Inv', KnownOK, [Next]_vars
  PROVE  /\ pc' \in RevertedSteps => budget' < MaxFaults
         /\ pc' = "bestKnown" => budget' + 1 < MaxFaults
<1>0. budget \in 0 .. MaxFaults /\ budget' \in 0 .. MaxFaults
  BY DEF Inv, TypeOK
<1>1. pc \in RevertedSteps => budget < MaxFaults
  BY DEF KnownOK
<1>2. pc = "bestKnown" => budget + 1 < MaxFaults
  BY DEF KnownOK
<1> SUFFICES ASSUME pc' \in RevertedSteps \cup {"bestKnown"}
             PROVE  /\ budget' < MaxFaults
                    /\ pc' = "bestKnown" => budget' + 1 < MaxFaults
  BY <1>0
<1>3. pc' \in DeploySteps /\ pc' \notin {"load", "migrate", "plan", "build", "roll", "stopLegacy"}
  BY DEF DeploySteps, Steps, StopSteps, StartSteps, RevertedSteps
<1>4. CASE UNCHANGED vars
  BY <1>0, <1>1, <1>2, <1>4 DEF vars
<1>5. CASE Quiet
  <2>1. pc = "storeBack" /\ pc' = "stopCandidate" /\ budget' \in 0 .. budget
    BY <1>5, QuietEffect DEF QuietFlow, RevertedSteps
  <2>2. budget < MaxFaults
    BY <1>1, <2>1 DEF RevertedSteps
  <2> QED BY <1>0, <2>1, <2>2
<1>6. CASE Commit
  <2>1. budget' < budget /\ pc' = "compensate"
    BY <1>6, CommitEffect DEF RevertedSteps
  <2> QED BY <1>0, <2>1
<1>7. CASE Compensate
  <2>1. pc = "compensate" /\ ((budget' = budget /\ pc' = "storeBack") \/ budget' < budget)
    BY <1>7, CompensateEffect
  <2>2. budget < MaxFaults
    BY <1>1, <2>1 DEF RevertedSteps
  <2>3. CASE budget' = budget /\ pc' = "storeBack"
    BY <1>0, <2>2, <2>3
  <2>4. CASE budget' < budget
    <3>1. budget \in Int /\ budget' \in Int
      BY <1>0
    <3>2. budget' + 1 < MaxFaults /\ budget' < MaxFaults
      BY ONLY <2>2, <2>4, <3>1, TwoFaults, Zenon
    <3> QED BY ONLY <3>2, Zenon
  <2> QED BY <2>1, <2>3, <2>4
<1>8. ~Retire /\ ~Discard /\ ~DrainOld /\ ~LaunchReplacement /\ ~(SwapMembership /\ pc' # "discard")
  BY RetireEffect, DiscardEffect, DrainOldEffect, LaunchReplacementEffect, SwapMembershipEffect
     DEF Retire, RevertedSteps
<1>9. ~LoadState /\ ~(MigrateTo /\ pc' # "idle") /\ ~PlanFleet /\ ~Build /\ ~HandOffServed
        /\ ~(\E n \in 1 .. MaxReplicas : Begin("deploy", n))
  BY <1>3, LoadStateEffect, MigrateToEffect, PlanFleetEffect, BuildEffect, HandOffServedEffect
     DEF Begin, RevertedSteps
<1> QED BY <1>3, <1>4, <1>5, <1>6, <1>7, <1>8, <1>9, DeployCases

\* Which instances are in no record, at the steps of a rollout.
LEMMA LooseFacts ==
  /\ pc \in FreshSteps => Unlisted = {loc.cand} /\ Unwritten = {loc.cand}
  /\ pc \in RevertedSteps => Unlisted = {loc.cand}
  /\ pc = "stopCandidate" => Unwritten = {loc.cand}
  /\ pc = "commit" => Unlisted = {loc.old.pid} /\ Unwritten = {loc.cand}
  /\ pc = "drainOld" => Unlisted = {loc.old.pid} /\ Unwritten = {loc.old.pid}
  /\ pc = "undoStart" => Unlisted = {loc.cand} /\ Unwritten = {loc.cand}
  /\ pc = "storeStarted" => Unlisted = {} /\ Unwritten = {loc.cand}
  /\ pc \notin ReplicaSteps \cup {"undoStart", "storeStarted"} => Unlisted = {} /\ Unwritten = {}
BY DEF Unlisted, Unwritten, ReplicaSteps, FreshSteps, SwappedSteps, RevertedSteps

\* The same after a step.
LEMMA LooseFactsNext ==
  /\ pc' \in FreshSteps => Unlisted' = {loc'.cand} /\ Unwritten' = {loc'.cand}
  /\ pc' \in RevertedSteps => Unlisted' = {loc'.cand}
  /\ pc' = "stopCandidate" => Unwritten' = {loc'.cand}
  /\ pc' = "commit" => Unlisted' = {loc'.old.pid} /\ Unwritten' = {loc'.cand}
  /\ pc' = "drainOld" => Unlisted' = {loc'.old.pid} /\ Unwritten' = {loc'.old.pid}
  /\ pc' = "undoStart" => Unlisted' = {loc'.cand} /\ Unwritten' = {loc'.cand}
  /\ pc' = "storeStarted" => Unlisted' = {} /\ Unwritten' = {loc'.cand}
  /\ pc' \notin ReplicaSteps \cup {"undoStart", "storeStarted"} => Unlisted' = {} /\ Unwritten' = {}
BY DEF Unlisted, Unwritten, ReplicaSteps, FreshSteps, SwappedSteps, RevertedSteps

\* The steps that prepare a deploy keep every instance recorded, or note that
\* they give it up.
LEMMA PrepareKnown ==
  ASSUME Inv, ModesOK, KnownNow, LoadState \/ (MigrateTo /\ pc' # "idle") \/ PlanFleet \/ Build
  PROVE  KnownNow'
<1>0. pc \notin ReplicaSteps \cup {"undoStart", "storeStarted"}
  BY LoadStateEffect, MigrateToEffect, PlanFleetEffect, BuildEffect
     DEF ReplicaSteps, FreshSteps, SwappedSteps, RevertedSteps
<1>1. pc' \notin ReplicaSteps \cup {"undoStart", "storeStarted"}
  BY LoadStateEffect, MigrateToEffect, PlanFleetEffect, BuildEffect
     DEF ReplicaSteps, FreshSteps, SwappedSteps, RevertedSteps
<1>2. alive \subseteq Recorded(mem) \cup strays /\ alive \subseteq Recorded(disk) \cup strays
  BY <1>0, LooseFacts DEF KnownNow, ReplicaSteps, RevertedSteps
<1>3. alive' = alive /\ 0 \notin alive
  BY LoadStateEffect, MigrateToEffect, PlanFleetEffect, BuildEffect DEF procs, Inv, TypeOK, Inst
<1>4. Recorded(disk') = Recorded(disk)' /\ Recorded(mem') = Recorded(mem)'
  BY DEF Recorded, Pids
<1>5. SUFFICES alive \subseteq Recorded(mem') \cup strays' /\ alive \subseteq Recorded(disk') \cup strays'
  BY <1>1, <1>3, <1>4, LooseFactsNext DEF KnownNow
<1>6. CASE LoadState
  <2>1. mem' = LoadOrInit /\ disk' = disk /\ strays' = strays
    BY <1>6, LoadStateEffect DEF files
  <2>2. Recorded(disk) \subseteq Recorded(LoadOrInit)
    <3>1. CASE disk.mode = "absent"
      BY <3>1 DEF ModesOK, Modes, Recorded, Pids, NoReplicas, NoReplica
    <3>2. CASE disk.mode # "absent"
      BY <3>2 DEF LoadOrInit
    <3> QED BY <3>1, <3>2
  <2> QED BY <1>2, <2>1, <2>2
<1>7. CASE MigrateTo /\ pc' # "idle"
  <2>1. /\ pc = "migrate" /\ mem' = Migrated(mem) /\ disk' = Migrated(mem)
        /\ strays' = strays \cup ({mem.slot} \ {0})
    BY <1>7, MigrateToEffect
  <2>2. Recorded(mem) \subseteq {mem.slot} \ {0}
    BY <2>1 DEF ModesOK, Modes, Recorded, Pids, NoReplicas, NoReplica
  <2> QED BY <1>2, <2>1, <2>2
<1>8. CASE PlanFleet
  <2>1. /\ disk' = disk /\ strays' = strays \cup Surplus /\ mem'.reps = Kept /\ mem'.slot = mem.slot
        /\ \A k \in Keys : /\ k < loc.n => Kept[k] = Reaped(mem.reps[k])
    BY <1>8, PlanFleetEffect DEF files
  <2>2. ASSUME NEW i \in alive, i \in Recorded(mem) PROVE i \in Recorded(mem') \cup strays'
    <3>0. i # 0
      BY <1>3
    <3>1. CASE i = mem.slot
      BY <2>1, <3>0, <3>1, RecordedFacts
    <3>2. CASE \E k \in Keys : mem.reps[k].pid = i
      <4>1. PICK k \in Keys : mem.reps[k].pid = i
        BY <3>2
      <4>2. Reaped(mem.reps[k]) = mem.reps[k]
        BY <4>1 DEF Reaped
      <4>3. k \in Int /\ loc.n \in Int
        BY DEF Inv, TypeOK, Locals, Keys
      <4>4. CASE k < loc.n
        BY <2>1, <3>0, <4>1, <4>2, <4>4, RecordedFacts
      <4>5. CASE k >= loc.n
        BY <2>1, <3>0, <4>1, <4>2, <4>5 DEF Surplus
      <4> QED BY <4>3, <4>4, <4>5
    <3> QED BY <2>2, <3>0, <3>1, <3>2, RecordedFacts
  <2> QED BY <1>2, <2>1, <2>2
<1>9. CASE Build
  BY <1>2, <1>9, BuildEffect DEF files
<1> QED BY <1>6, <1>7, <1>8, <1>9

\* The steps of a rollout do, too.
LEMMA RollKnown ==
  ASSUME Inv, Inv', KnownOK, KnownNow, OneFault', pc' \in DeploySteps,
         \/ Quiet \/ Retire \/ LaunchReplacement \/ (SwapMembership /\ pc' # "discard")
         \/ HandOffServed \/ Discard \/ Commit \/ Compensate \/ DrainOld
  PROVE  KnownNow'
<1>0. 0 \notin alive /\ Recorded(disk') = Recorded(disk)' /\ Recorded(mem') = Recorded(mem)'
  BY DEF Recorded, Pids, Inv, TypeOK, Inst
<1>1. CASE Quiet
  <2>1. /\ mem' = mem /\ loc' = loc /\ alive' = alive /\ strays' = strays /\ disk' \in {disk, mem}
        /\ QuietFlow(pc, pc')
        /\ pc = "storeBack" => IF pc' = "failedAt" THEN budget' < budget ELSE disk' = mem
    BY <1>1, QuietEffect
  <2>2. CASE pc \in FreshSteps
    <3>1. pc' \in FreshSteps /\ pc \notin {"compensate", "storeBack"}
      BY <2>1, <2>2 DEF QuietFlow, FreshSteps
    <3> QED BY <1>0, <2>1, <2>2, <3>1, LooseFacts, LooseFactsNext DEF KnownNow
  <2>3. CASE pc = "storeBack"
    <3>1. pc' # "failedAt"
      <4> SUFFICES ASSUME pc' = "failedAt" PROVE FALSE
        OBVIOUS
      <4>1. budget < MaxFaults /\ budget' < budget /\ budget \in Int /\ budget' \in Int
        BY <2>1, <2>3 DEF KnownOK, RevertedSteps, Inv, TypeOK
      <4>2. budget' + 1 >= MaxFaults
        BY DEF OneFault
      <4> QED BY ONLY <4>1, <4>2, TwoFaults, Zenon
    <3>2. pc' = "stopCandidate" /\ disk' = mem
      BY <2>1, <2>3, <3>1 DEF QuietFlow
    <3> QED BY <1>0, <2>1, <2>3, <3>2, LooseFacts, LooseFactsNext DEF KnownNow, RevertedSteps
  <2>4. CASE pc = "bestKnown"
    <3>1. budget + 1 < MaxFaults /\ budget \in Int
      BY <2>4 DEF KnownOK, Inv, TypeOK
    <3>2. budget' \in 0 .. budget
      BY <1>1, QuietEffect
    <3>3. budget' + 1 >= MaxFaults
      BY DEF OneFault
    <3> QED BY ONLY <3>1, <3>2, <3>3, TwoFaults, Zenon
  <2>5. CASE pc \notin FreshSteps \cup {"storeBack", "bestKnown"}
    <3>1. /\ pc \notin ReplicaSteps \cup {"undoStart", "storeStarted"}
          /\ pc' \notin ReplicaSteps \cup {"undoStart", "storeStarted"}
      BY <2>1, <2>5 DEF QuietFlow, ReplicaSteps, FreshSteps, SwappedSteps, RevertedSteps
    <3>2. pc \notin {"compensate", "storeBack"}
      BY <3>1 DEF ReplicaSteps, RevertedSteps
    <3> QED BY <1>0, <2>1, <3>1, <3>2, LooseFacts, LooseFactsNext DEF KnownNow
  <2> QED BY <2>2, <2>3, <2>4, <2>5
<1>2. CASE Retire
  <2>1. /\ mem'.reps = mem.reps /\ mem'.slot = mem.slot /\ alive' \subseteq alive /\ disk' = disk
        /\ strays \subseteq strays'
        /\ \/ pc = "stopCandidate" /\ pc' = "failedAt" /\ alive' \cap {loc.cand} \subseteq strays'
           \/ pc = "stopLegacy" /\ pc' = "roll"
           \/ pc = "roll" /\ pc' = "storeFinal"
    BY <1>2, RetireEffect DEF Retire, files
  <2>2. Recorded(mem') = Recorded(mem)
    BY <2>1, RecordedSame
  <2>3. pc' \notin ReplicaSteps \cup {"undoStart", "storeStarted"} /\ pc \notin {"compensate", "storeBack"}
    BY <2>1 DEF ReplicaSteps, FreshSteps, SwappedSteps, RevertedSteps
  <2>4. CASE pc = "stopCandidate"
    <3>1. Unlisted = {loc.cand} /\ Unwritten = {loc.cand}
      BY <2>4, LooseFacts DEF RevertedSteps
    <3> QED BY <1>0, <2>1, <2>2, <2>3, <2>4, <3>1, LooseFactsNext DEF KnownNow
  <2>5. CASE pc \in {"stopLegacy", "roll"}
    <3>1. Unlisted = {} /\ Unwritten = {}
      BY <2>5, LooseFacts DEF ReplicaSteps, FreshSteps, SwappedSteps, RevertedSteps
    <3> QED BY <1>0, <2>1, <2>2, <2>3, <3>1, LooseFactsNext DEF KnownNow
  <2> QED BY <2>1, <2>4, <2>5
<1>3. CASE LaunchReplacement
  <2>1. /\ pc = "roll" /\ pc' \in {"storeReplacing", "health"} /\ alive' = alive \cup {next}
        /\ loc'.cand = next /\ mem'.slot = mem.slot
        /\ \A k \in Keys \ {loc.key} : mem'.reps[k] = mem.reps[k]
        /\ mem'.reps[loc.key].pid = mem.reps[loc.key].pid
        /\ UNCHANGED <<disk, strays>>
    BY <1>3, LaunchReplacementEffect DEF files
  <2>2. Recorded(mem') = Recorded(mem)
    <3>1. \A k \in Keys : mem'.reps[k].pid = mem.reps[k].pid
      BY <2>1
    <3> QED BY <2>1, <3>1, RecordedSame
  <2>3. Unlisted = {} /\ Unwritten = {} /\ Unlisted' = {next} /\ Unwritten' = {next}
    BY <2>1, LooseFacts, LooseFactsNext DEF ReplicaSteps, FreshSteps, SwappedSteps, RevertedSteps
  <2> QED BY <1>0, <2>1, <2>2, <2>3 DEF KnownNow
<1>4. CASE SwapMembership /\ pc' # "discard"
  <2>1. /\ pc = "swap" /\ pc' = "commit" /\ mem' = SetReplica(mem, loc.key, Candidate)
        /\ loc'.old = loc.old /\ loc'.cand = loc.cand /\ UNCHANGED <<alive, disk, strays>>
    BY <1>4, SwapMembershipEffect DEF procs, files
  <2>2. pc \in ReplicaSteps /\ pc \in FreshSteps
    BY <2>1 DEF ReplicaSteps, FreshSteps
  <2>3. /\ mem'.slot = mem.slot /\ mem'.reps[loc.key] = Candidate
        /\ \A k \in Keys \ {loc.key} : mem'.reps[k] = mem.reps[k]
    BY <2>1, <2>2, RecordsCandidate
  <2>4. Recorded(mem) \subseteq Recorded(mem') \cup {mem.reps[loc.key].pid}
    BY <2>3, RecordedBut
  <2>5. mem.reps[loc.key].pid = loc.old.pid
    BY <2>2 DEF Inv, CandOK
  <2>6. loc.cand \in Recorded(mem')
    <3>1. loc.key \in Keys /\ Candidate.pid = loc.cand /\ loc.cand # 0
      BY <2>2, AtReplica DEF Inst
    <3> QED BY <2>3, <3>1, RecordedFacts
  <2>7. /\ Unlisted = {loc.cand} /\ Unwritten = {loc.cand}
        /\ Unlisted' = {loc.old.pid} /\ Unwritten' = {loc.cand}
    BY <2>1, <2>2, LooseFacts, LooseFactsNext
  <2> QED BY <1>0, <2>1, <2>4, <2>5, <2>6, <2>7 DEF KnownNow
<1>5. CASE Discard
  <2>1. /\ pc \in {"discard", "abandon"} /\ pc \in ReplicaSteps /\ pc' \in {"storeRestored", "failedAt"}
        /\ (StopOK({loc.cand}) \/ StopFails({loc.cand})) /\ mem' = RestoreReplica(mem) /\ disk' = disk
    BY <1>5, DiscardEffect DEF files
  <2>2. /\ mem'.slot = mem.slot /\ mem'.reps[loc.key] = loc.old
        /\ \A k \in Keys \ {loc.key} : mem'.reps[k] = mem.reps[k]
    BY <2>1, RestoresReplica
  <2>3. pc \in FreshSteps /\ pc' \notin ReplicaSteps \cup {"undoStart", "storeStarted"}
    BY <2>1 DEF FreshSteps, ReplicaSteps, SwappedSteps, RevertedSteps
  <2>4. \A k \in Keys : mem'.reps[k].pid = mem.reps[k].pid
    BY <2>2, <2>3 DEF Inv, CandOK
  <2>5. Recorded(mem') = Recorded(mem)
    BY <2>2, <2>4, RecordedSame
  <2>6. alive' \subseteq alive /\ strays \subseteq strays' /\ alive' \cap {loc.cand} \subseteq strays'
    BY <2>1, StopFacts DEF Inv
  <2>7. /\ Unlisted = {loc.cand} /\ Unwritten = {loc.cand} /\ pc \notin {"compensate", "storeBack"}
        /\ Unlisted' = {} /\ Unwritten' = {}
    BY <2>1, <2>3, LooseFacts, LooseFactsNext
  <2> QED BY <1>0, <2>1, <2>5, <2>6, <2>7 DEF KnownNow
<1>6. CASE Commit
  <2>1. /\ pc = "commit" /\ pc \in ReplicaSteps /\ loc' = loc /\ UNCHANGED <<alive, strays>>
        /\ \/ pc' = "drainOld" /\ disk' = mem /\ mem' = mem
           \/ pc' = "compensate" /\ mem' = RestoreReplica(mem)
    BY <1>6, CommitEffect DEF procs
  <2>2. Unlisted = {loc.old.pid} /\ Unwritten = {loc.cand}
    BY <2>1, LooseFacts
  <2>3. CASE pc' = "drainOld" /\ disk' = mem /\ mem' = mem
    BY <1>0, <2>1, <2>2, <2>3, LooseFactsNext DEF KnownNow
  <2>4. CASE pc' = "compensate" /\ mem' = RestoreReplica(mem)
    <3>1. /\ mem'.slot = mem.slot /\ mem'.reps[loc.key] = loc.old /\ loc.key \in Keys
          /\ \A k \in Keys \ {loc.key} : mem'.reps[k] = mem.reps[k]
      BY <2>1, <2>4, RestoresReplica, AtReplica
    <3>2. Recorded(mem) \subseteq Recorded(mem') \cup {mem.reps[loc.key].pid}
      BY <3>1, RecordedBut
    <3>3. mem.reps[loc.key].pid = loc.cand
      BY <2>1, AtReplica DEF Inv, CandOK, SwappedSteps
    <3>4. loc.old.pid # 0 => loc.old.pid \in Recorded(mem')
      BY <3>1, RecordedFacts
    <3>5. Unlisted' = {loc.cand}
      BY <2>1, <2>4, LooseFactsNext DEF RevertedSteps
    <3> QED BY <1>0, <2>1, <2>2, <2>4, <3>2, <3>3, <3>4, <3>5 DEF KnownNow
  <2> QED BY <2>1, <2>3, <2>4
<1>7. CASE Compensate
  <2>1. pc' # "bestKnown"
    <3> SUFFICES ASSUME pc' = "bestKnown" PROVE FALSE
      OBVIOUS
    <3>1. /\ pc = "compensate" /\ budget' < budget
      BY <1>7, CompensateEffect
    <3>2. budget < MaxFaults /\ budget' < budget /\ budget \in Int /\ budget' \in Int
      BY <3>1 DEF KnownOK, RevertedSteps, Inv, TypeOK
    <3>3. budget' + 1 >= MaxFaults
      BY DEF OneFault
    <3> QED BY ONLY <3>2, <3>3, TwoFaults, Zenon
  <2>2. /\ pc = "compensate" /\ pc' = "storeBack" /\ mem' = mem /\ loc'.cand = loc.cand
        /\ UNCHANGED <<alive, strays>>
    BY <1>7, <2>1, CompensateEffect DEF procs
  <2> QED BY <1>0, <2>2, LooseFacts, LooseFactsNext DEF KnownNow, RevertedSteps
<1>8. CASE DrainOld
  <2>1. /\ pc = "drainOld" /\ pc' \in {"roll", "stopLegacy"} /\ mem' = mem /\ disk' = disk
        /\ (StopOK({loc.old.pid}) \/ StopFails({loc.old.pid}))
    BY <1>8, DrainOldEffect DEF files
  <2>2. alive' \subseteq alive /\ strays \subseteq strays' /\ alive' \cap {loc.old.pid} \subseteq strays'
    BY <2>1, StopFacts DEF Inv
  <2>3. pc' \notin ReplicaSteps \cup {"undoStart", "storeStarted"}
    BY <2>1 DEF ReplicaSteps, FreshSteps, SwappedSteps, RevertedSteps
  <2>4. Unlisted = {loc.old.pid} /\ Unwritten = {loc.old.pid} /\ Unlisted' = {} /\ Unwritten' = {}
    BY <2>1, <2>3, LooseFacts, LooseFactsNext
  <2> QED BY <1>0, <2>1, <2>2, <2>4 DEF KnownNow
<1>9. CASE HandOffServed
  <2>1. /\ pc = "swap" /\ pc' = "discard" /\ mem' = mem /\ loc' = loc /\ disk' = disk
        /\ alive' \subseteq alive /\ strays' = strays
    BY <1>9, HandOffServedEffect DEF files
  <2> QED BY <1>0, <2>1, LooseFacts, LooseFactsNext DEF KnownNow, FreshSteps
<1> QED BY <1>1, <1>2, <1>3, <1>4, <1>5, <1>6, <1>7, <1>8, <1>9

\* And the steps of stop and start.
LEMMA StopStartKnown ==
  ASSUME Inv, KnownNow, RemoveRoute \/ Teardown \/ StartReplica \/ StoreStarted
  PROVE  KnownNow'
<1>0. 0 \notin alive /\ Recorded(disk') = Recorded(disk)' /\ Recorded(mem') = Recorded(mem)'
  BY DEF Recorded, Pids, Inv, TypeOK, Inst
<1>1. CASE RemoveRoute
  <2>1. pc = "unroute" /\ pc' = "teardown" /\ UNCHANGED <<alive, disk, mem, strays>>
    BY <1>1 DEF RemoveRoute, Step, procs, files
  <2>2. Unlisted = {} /\ Unwritten = {} /\ Unlisted' = {} /\ Unwritten' = {}
    BY <2>1, LooseFacts, LooseFactsNext DEF ReplicaSteps, FreshSteps, SwappedSteps, RevertedSteps
  <2> QED BY <1>0, <2>1, <2>2 DEF KnownNow
<1>2. CASE Teardown
  <2>1. /\ pc = "teardown" /\ pc' = "storeTorn" /\ mem'.slot = mem.slot /\ disk' = disk
        /\ (StopOK(Pids(mem)) \/ StopFails(Pids(mem)))
    BY <1>2, TeardownEffect DEF files
  <2>2. alive' \subseteq alive /\ strays \subseteq strays' /\ alive' \cap Pids(mem) \subseteq strays'
    BY <2>1, StopFacts DEF Inv
  <2>3. Unlisted = {} /\ Unwritten = {} /\ Unlisted' = {} /\ Unwritten' = {}
    BY <2>1, LooseFacts, LooseFactsNext DEF ReplicaSteps, FreshSteps, SwappedSteps, RevertedSteps
  <2>4. Recorded(mem) \subseteq Recorded(mem') \cup Pids(mem)
    BY <2>1 DEF Recorded
  <2> QED BY <1>0, <2>1, <2>2, <2>3, <2>4 DEF KnownNow
<1>3. CASE StartReplica
  <2>1. /\ pc = "start" /\ alive' = alive \cup {next} /\ loc'.cand = next /\ next # 0
        /\ \/ /\ pc' = "storeStarted" /\ mem'.slot = mem.slot
              /\ \E k \in Keys : /\ mem'.reps[k].pid = next /\ mem.reps[k].pid \notin alive
                                 /\ \A m \in Keys \ {k} : mem'.reps[m] = mem.reps[m]
           \/ pc' = "undoStart" /\ mem' = mem
        /\ UNCHANGED <<disk, strays>>
    BY <1>3, StartReplicaEffect DEF files, Inst
  <2>2. Unlisted = {} /\ Unwritten = {} /\ Unwritten' = {next}
    BY <2>1, LooseFacts, LooseFactsNext DEF ReplicaSteps, FreshSteps, SwappedSteps, RevertedSteps
  <2>3. alive' \subseteq Recorded(mem') \cup strays' \cup Unlisted'
    <3>1. CASE pc' = "undoStart" /\ mem' = mem
      BY <2>1, <2>2, <3>1, LooseFactsNext DEF KnownNow
    <3>2. CASE pc' # "undoStart"
      <4>1. PICK k \in Keys : /\ mem'.reps[k].pid = next /\ mem.reps[k].pid \notin alive
                              /\ \A m \in Keys \ {k} : mem'.reps[m] = mem.reps[m]
        BY <2>1, <3>2
      <4>2. Recorded(mem) \subseteq Recorded(mem') \cup {mem.reps[k].pid}
        BY <2>1, <3>2, <4>1, RecordedBut
      <4>3. next \in Recorded(mem')
        BY <2>1, <4>1, RecordedFacts
      <4> QED BY <2>1, <2>2, <4>1, <4>2, <4>3 DEF KnownNow
    <3> QED BY <2>1, <3>1, <3>2
  <2> QED BY <1>0, <2>1, <2>2, <2>3 DEF KnownNow
<1>4. CASE StoreStarted
  <2>1. /\ pc = "storeStarted" /\ UNCHANGED <<alive, mem, loc, strays>>
        /\ \/ pc' = "start" /\ disk' = mem
           \/ pc' = "undoStart" /\ disk' \in {disk, mem}
    BY <1>4, StoreFacts DEF StoreStarted, Step, StoreOK, procs, Inv
  <2>2. Unlisted = {} /\ Unwritten = {loc.cand} /\ pc \notin {"compensate", "storeBack"}
    BY <2>1, LooseFacts
  <2>3. /\ pc' = "start" => Unlisted' = {} /\ Unwritten' = {}
        /\ pc' = "undoStart" => Unlisted' = {loc.cand} /\ Unwritten' = {loc.cand}
    BY <2>1, LooseFactsNext DEF ReplicaSteps, FreshSteps, SwappedSteps, RevertedSteps
  <2> QED BY <1>0, <2>1, <2>2, <2>3 DEF KnownNow
<1> QED BY <1>1, <1>2, <1>3, <1>4

\* Every step keeps what is known of the instances.
LEMMA NextKnown == ASSUME Inv, Inv', ModesOK, KnownOK, [Next]_vars PROVE KnownOK'
<1>0. SUFFICES ASSUME OneFault', pc' # "idle" PROVE KnownNow'
  BY NextFaults DEF KnownOK, KnownNow
<1>1. CASE pc = "idle"
  <2>1. ASSUME NEW op \in Ops, NEW n, Begin(op, n) PROVE KnownNow'
    <3>1. /\ mem' = disk /\ UNCHANGED <<alive, disk>> /\ strays' = alive \ Recorded(disk)
          /\ pc' \in {"load", "unroute", "start"}
      BY <2>1 DEF Begin, procs, files, Ops
    <3>2. Recorded(disk') = Recorded(disk)' /\ Recorded(mem') = Recorded(mem)'
      BY DEF Recorded, Pids
    <3> QED BY <3>1, <3>2 DEF KnownNow
  <2>2. ~UNCHANGED vars /\ ~InstanceDies
    BY <1>0, <1>1 DEF vars, InstanceDies
  <2> QED BY <1>1, <2>1, <2>2, IdleSteps DEF Ops
<1>2. CASE pc # "idle"
  <2>1. KnownNow
    BY <1>0, <1>2, KnownFacts
  <2>2. CASE UNCHANGED vars
    BY <2>1, <2>2 DEF vars, procs, files, hist, KnownNow, Recorded, Pids, Unlisted, Unwritten
  <2>3. CASE pc' \in StopSteps \cup StartSteps /\ ~UNCHANGED vars
    <3>1. ~(\E op \in {"stop", "start"} : Begin(op, 0))
      BY <1>2 DEF Begin
    <3> QED BY <2>1, <2>3, <3>1, StopStartCases, StopStartKnown
  <2>4. CASE pc' \in DeploySteps /\ ~UNCHANGED vars
    <3>1. ~(\E n \in 1 .. MaxReplicas : Begin("deploy", n))
      BY <1>2 DEF Begin
    <3> QED BY <1>0, <2>1, <2>4, <3>1, DeployCases, PrepareKnown, RollKnown
  <2> QED BY <1>0, <2>2, <2>3, <2>4 DEF Inv, TypeOK, DeploySteps
<1> QED BY <1>1, <1>2

\* The steps that report the end of an operation.
LEMMA ReturnCases ==
  ASSUME [Next]_vars, pc # "idle", pc' = "idle", result' # "crashed"
  PROVE  \/ MigrateTo \/ BuildFails \/ Cancelled \/ StopLegacy \/ FailedAt \/ UndoMigration
         \/ StopSurplus \/ StoreFinal \/ Promote \/ StoreTorn \/ StartEnds \/ UndoStart
         \/ RestoreProxyRoute
<1>1. CASE Prepare
  BY <1>1 DEF Prepare, Begin, LoadState, PlanFleet, Build, Step
<1>2. CASE RollOne
  BY <1>2 DEF RollOne, LaunchFails, LaunchReplacement, StoreReplacing,
     HealthPasses, HealthFails, HandOffPublicPort, HandOffServed, SwapMembership, Discard, StoreRestored, Commit,
     Compensate, StoreBestKnown, StoreBack, StopCandidate, DrainOld, Step
<1>3. CASE Finish
  BY <1>3 DEF Finish
<1>4. CASE StopStart
  BY <1>4 DEF StopStart, RemoveRoute, Teardown, StartReplica, StoreStarted, Step
<1>5. CASE Crash \/ InstanceDies \/ UNCHANGED vars
  BY <1>5 DEF Crash, InstanceDies, vars, Return
<1> QED BY <1>1, <1>2, <1>3, <1>4, <1>5 DEF Next

\* At its end an operation knows every instance it did not give up.
LEMMA ReturnKnown ==
  ASSUME Inv, ModesOK, KnownNow, NoneYetOK, OneFault, [Next]_vars, pc # "idle", pc' = "idle",
         result' # "crashed"
  PROVE  alive' \subseteq Recorded(disk') \cup strays'
<1>0. TypeOK /\ 0 \notin alive
  BY DEF Inv, TypeOK, Inst
<1>s. ASSUME NEW j, StoreBestEffort(j) PROVE disk' \in {disk, j}
  BY <1>0, <1>s, StoreFacts DEF StoreBestEffort
<1>1. CASE UndoStart
  <2>1. /\ pc = "undoStart" /\ (StopOK({loc.cand}) \/ StopFails({loc.cand})) /\ disk' = disk
    BY <1>1 DEF UndoStart, files
  <2>2. alive' \subseteq alive /\ strays \subseteq strays' /\ alive' \cap {loc.cand} \subseteq strays'
    BY <1>0, <2>1, StopFacts
  <2> QED BY <2>1, <2>2, LooseFacts DEF KnownNow
<1>2. CASE ~UndoStart
  <2>1. pc \in {"migrate", "build", "roll", "stopLegacy", "failedAt", "undo", "storeFinal", "promote",
                "storeTorn", "start"}
    BY <1>2, ReturnCases DEF MigrateTo, BuildFails, Cancelled, StopLegacy, FailedAt, UndoMigration,
       StopSurplus, StoreFinal, Promote, StoreTorn, StartEnds, RestoreProxyRoute, Step
  <2>2. alive \subseteq Recorded(mem) \cup strays /\ alive \subseteq Recorded(disk) \cup strays
    <3>1. /\ pc \notin ReplicaSteps \cup {"undoStart", "storeStarted"}
          /\ pc \notin {"compensate", "storeBack"}
      BY <2>1 DEF ReplicaSteps, FreshSteps, SwappedSteps, RevertedSteps
    <3> QED BY <3>1, LooseFacts DEF KnownNow
  <2>3. CASE MigrateTo
    <3>1. /\ pc = "migrate" /\ alive' = alive /\ strays' = strays \cup ({mem.slot} \ {0})
          /\ StoreBestEffort(Migrated(mem))
      BY <2>3 DEF MigrateTo, procs, StoreBestEffort
    <3>2. Recorded(mem) \subseteq {mem.slot} \ {0}
      BY <3>1 DEF ModesOK, Modes, Recorded, Pids, NoReplicas, NoReplica
    <3>3. disk' \in {disk, Migrated(mem)}
      BY <1>s, <3>1
    <3> QED BY <2>2, <3>1, <3>2, <3>3
  <2>4. CASE UndoMigration
    <3>1. /\ pc = "undo" /\ UNCHANGED <<alive, strays>>
          /\ (disk' = disk \/ loc.pre.mode = "blue-green")
      BY <2>4 DEF UndoMigration, procs
    <3>2. CASE loc.pre.mode = "blue-green"
      <4>1. /\ \A k \in Keys : mem.reps[k].pid = 0
            /\ mem.slot = 0
        BY <3>1, <3>2 DEF NoneYetOK, ModesOK, Modes, DeploySteps, Steps, StopSteps, StartSteps
      <4>2. Recorded(mem) = {}
        BY <4>1 DEF Recorded, Pids
      <4> QED BY <2>2, <3>1, <4>2
    <3> QED BY <2>2, <3>1, <3>2
  <2>5. CASE StopLegacy \/ StopSurplus
    <3>1. \E S : StopOK(S) \/ StopFails(S)
      BY <2>5 DEF StopLegacy, StopSurplus
    <3>2. alive' \subseteq alive /\ strays \subseteq strays' /\ disk' = disk
      BY <1>0, <2>5, <3>1, StopFacts DEF StopLegacy, StopSurplus, files
    <3> QED BY <2>2, <3>2
  <2>6. CASE FailedAt \/ StoreFinal \/ StoreTorn
    <3>1. /\ UNCHANGED <<alive, strays>>
          /\ StoreBestEffort(mem) \/ StoreBestEffort(Mixed(mem))
      BY <2>6 DEF FailedAt, StoreFinal, StoreTorn, Step, procs, StoreBestEffort
    <3>2. disk' \in {disk, mem, Mixed(mem)}
      BY <1>s, <3>1
    <3>3. Recorded(Mixed(mem)) = Recorded(mem)
      BY WrittenFacts DEF Recorded, Pids, Inv
    <3> QED BY <2>2, <3>1, <3>2, <3>3
  <2>7. CASE BuildFails \/ Cancelled \/ Promote \/ StartEnds \/ RestoreProxyRoute
    <3>1. UNCHANGED <<alive, strays, disk>>
      BY <2>7 DEF BuildFails, Cancelled, Promote, StartEnds, RestoreProxyRoute, procs, files
    <3> QED BY <2>2, <3>1
  <2> QED BY <1>2, <2>3, <2>4, <2>5, <2>6, <2>7, ReturnCases
<1> QED BY <1>1, <1>2

\* Every step keeps it so.
LEMMA NextNothingLost ==
  ASSUME Inv, ModesOK, KnownOK, NoneYetOK, NothingLost, [Next]_vars
  PROVE  NothingLost'
<1> SUFFICES ASSUME pc' = "idle", result' \in {"ok", "deployed", "failed"}, OneFault'
             PROVE  alive' \subseteq Recorded(disk') \cup strays'
  BY DEF NothingLost, OneFault, Recorded, Pids
<1>1. CASE pc = "idle"
  <2>1. UNCHANGED vars
    BY <1>1, IdleSteps DEF Begin, InstanceDies
  <2> QED BY <2>1 DEF vars, procs, files, hist, NothingLost, OneFault
<1>2. CASE pc # "idle"
  BY <1>2, OneFaultBefore, KnownFacts, ReturnKnown
<1> QED BY <1>1, <1>2

\* An operation that met at most one fault, and was not killed, leaves every
\* live instance in deploy.json, or it said that it gave it up.
THEOREM NothingEverLost == Spec => []NothingLost
<1>1. Init => ModesOK /\ KnownOK /\ NoneYetOK /\ NothingLost
  <2> SUFFICES ASSUME Init PROVE ModesOK /\ KnownOK /\ NoneYetOK /\ NothingLost
    OBVIOUS
  <2>1. Modes(disk) /\ Modes(mem) /\ Modes(loc.pre)
    BY DEF Init, Origin, Modes, NoJournal, NoLocals
  <2>2. ModesOK /\ KnownOK /\ NoneYetOK /\ NothingLost
    BY <2>1 DEF Init, ModesOK, KnownOK, NoneYetOK, NothingLost, DeploySteps, RevertedSteps
  <2> QED BY <2>2
<1>2. Inv /\ Inv' /\ ModesOK /\ KnownOK /\ NoneYetOK /\ NothingLost /\ [Next]_vars
        => (ModesOK /\ KnownOK /\ NoneYetOK /\ NothingLost)'
  BY NextModes, NextKnown, NextNoneYet, NextNothingLost
<1> QED BY <1>1, <1>2, FleetInvariant, PTL DEF Spec

=============================================================================
