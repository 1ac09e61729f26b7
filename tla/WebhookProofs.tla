---------------------------- MODULE WebhookProofs ----------------------------
(***************************************************************************)
(* Proofs about the webhook pipeline, for any number of requests, any      *)
(* deliveries and commits, any capacities, failures, crashes and manual    *)
(* operations: no job is ever called succeeded without having earned it,   *)
(* job records only move forward, no open job is stranded, no delivery is  *)
(* built twice, and a refused delivery is forgotten.                       *)
(*                                                                         *)
(* SucceededIsEarned is not inductive. Restart recovery infers a success   *)
(* from the app's current version and the time it was deployed, so the     *)
(* invariant says what these two imply for each request (CurrentEarned);   *)
(* that stays true when a further request arrives because the current      *)
(* version was deployed before (DeployedEarlier).                          *)
(*                                                                         *)
(* ForwardOnly and NoStrandedJob rest on where a job can be (Located): a   *)
(* queued job is in the queue once, not built yet and not the worker's,    *)
(* and the worker's is open, so that the writes Prepare and RebuildFailed  *)
(* make when a read has failed are ones the transition check allows.       *)
(*                                                                         *)
(* DeliveredOnce and RefusalForgotten rest on who relies on an entry of    *)
(* the delivery ledger (Memory): a handler until it has enqueued its job,  *)
(* and an enqueued job for good.  An entry has one holder, and a holder    *)
(* has its entry, unless the entry was evicted.                            *)
(***************************************************************************)
EXTENDS WebhookPipeline, FiniteSetTheorems, SequenceTheorems, TLAPS

JobStates == Running \cup Terminal \cup {"none", "expired"}
SubStates == {"none", "started", "locked", "ok", "failed", "contended"}

\* The types, in two parts.
LedgerTypes ==
  /\ ledger \in [mem : Seq(Delivery), disk : Seq(Delivery), err : BOOLEAN]
  /\ Len(ledger.mem) <= LedgerMax /\ Len(ledger.disk) <= LedgerMax
Types ==
  /\ req \in [Req -> Handlers]
  /\ jobs \in [Req -> JobStates]
  /\ queue \in Seq(Req)
  /\ worker \in Workers
  /\ sub \in [Req -> SubStates]
  /\ app \in Apps
  /\ hist \in Histories

\* A worker that is not waiting for work has a job.
WorkerBusy == worker.pc \in {"syncing", "waiting", "running"} => worker.job \in Req

\* The requests that have arrived.
ArrivedReqs == {r \in Req : req[r].pc # "idle"}

\* The current version was not deployed later than now.
DeployedEarlier == app.deployedAt <= Arrived

\* A rebuild that has succeeded has earned its job's success.
OkEarned == \A r \in Req : sub[r] = "ok" => r \in hist.proven

\* A current version of a request's commit, deployed after it was accepted, has
\* earned it as well.
CurrentEarned ==
  \A r \in Req : (r \in Deployed(app.commit) /\ r <= app.deployedAt) => r \in hist.proven

Earned == DeployedEarlier /\ OkEarned /\ CurrentEarned /\ SucceededIsEarned

USE BoundsAssumption, CommitAssumption

----------------------------------------------------------------------------
\* Requests are numbers.
LEMMA ReqFacts ==
  /\ Requests \in Nat /\ MaxAttempts \in Nat \ {0}
  /\ Req \subseteq Nat \ {0} /\ Nobody \notin Req
  /\ IsFiniteSet(Req) /\ Cardinality(Req) = Requests
<1>1. Requests \in Nat /\ MaxAttempts \in Nat \ {0}
  OBVIOUS
<1>2. IsFiniteSet(1 .. Requests) /\ Cardinality(1 .. Requests) = Requests
  <2>1. 1 \in Int /\ Requests \in Int
    BY <1>1
  <2>2. Cardinality(1 .. Requests) = IF 1 > Requests THEN 0 ELSE Requests - 1 + 1
    BY <2>1, FS_Interval
  <2> QED
    BY <1>1, <2>1, <2>2, FS_Interval
<1> QED
  BY <1>1, <1>2 DEF Req, Nobody

\* How many requests have arrived is a number, up to Requests.
LEMMA ArrivedType == Arrived \in 0 .. Requests
<1>1. ArrivedReqs \in SUBSET Req
  BY DEF ArrivedReqs
<1>2. IsFiniteSet(ArrivedReqs) /\ Cardinality(ArrivedReqs) <= Cardinality(Req)
  BY <1>1, ReqFacts, FS_Subset
<1>4. Cardinality(ArrivedReqs) \in Nat
  BY <1>2, FS_CardinalityType
<1> QED
  BY <1>2, <1>4, ReqFacts DEF Arrived, ArrivedReqs

\* A status write changes at most the record of its job, to that status.
LEMMA MarkFacts ==
  ASSUME jobs \in [Req -> JobStates], NEW r \in Req,
         NEW status \in Running \cup Terminal, Mark(r, status)
  PROVE  /\ jobs' \in [Req -> JobStates]
         /\ \A s \in Req : jobs'[s] = jobs[s] \/ (s = r /\ jobs'[s] = status)
<1>1. jobs' = jobs \/ jobs' = [jobs EXCEPT ![r] = status]
  BY DEF Mark
<1> QED
  BY <1>1 DEF JobStates

\* Retention removes terminal records and changes nothing else.
LEMMA SweepFacts ==
  ASSUME NEW js \in [Req -> JobStates]
  PROVE  /\ SweepRetention(js) \in [Req -> JobStates]
         /\ \A s \in Req : SweepRetention(js)[s] \in {js[s], "expired"}
BY DEF SweepRetention, JobStates

----------------------------------------------------------------------------
\* Most steps leave the requests that have arrived, their deliveries and the
\* current version alone, end no rebuild well and grant no unearned success.
SameRequests ==
  /\ \A r \in Req : req'[r].delivery = req[r].delivery
  /\ \A r \in Req : req'[r].pc # "idle" => req[r].pc # "idle"
  /\ \A r \in Req : req[r].pc # "idle" => req'[r].pc # "idle"
SameVersion ==
  /\ app'.commit = app.commit /\ app'.deployedAt = app.deployedAt
  /\ hist'.proven = hist.proven
NoNewOk == \A r \in Req : sub'[r] = "ok" => sub[r] = "ok"
NoUnearned == \A r \in Req : jobs'[r] = "succeeded" => jobs[r] = "succeeded" \/ r \in hist.proven
Keeps == SameRequests /\ SameVersion /\ NoNewOk /\ NoUnearned

\* Such steps preserve what has been earned.
LEMMA KeepsEarned ==
  ASSUME Earned, Keeps
  PROVE  Earned'
<1>1. Arrived' = Arrived
  <2>1. {r \in Req : req'[r].pc # "idle"} = {r \in Req : req[r].pc # "idle"}
    BY DEF Keeps, SameRequests
  <2> QED
    BY <2>1 DEF Arrived
<1>2. DeployedEarlier'
  BY <1>1 DEF Keeps, SameVersion, Earned, DeployedEarlier
<1>3. OkEarned'
  BY DEF Keeps, SameVersion, NoNewOk, Earned, OkEarned
<1>4. CurrentEarned'
  <2>1. SUFFICES ASSUME NEW r \in Req, r \in Deployed(app.commit)', r <= app'.deployedAt
                 PROVE  r \in hist'.proven
    BY DEF CurrentEarned
  <2>2. PICK d \in req'[r].delivery : CommitOf[d] = app'.commit
    BY <2>1 DEF Deployed
  <2>3. r \in Deployed(app.commit) /\ r <= app.deployedAt
    BY <2>1, <2>2 DEF Deployed, Keeps, SameRequests, SameVersion
  <2> QED
    BY <2>3 DEF Earned, CurrentEarned, Keeps, SameVersion
<1>5. SucceededIsEarned'
  BY DEF Keeps, SameVersion, NoUnearned, Earned, SucceededIsEarned
<1> QED
  BY <1>2, <1>3, <1>4, <1>5 DEF Earned

\* The handler of an arrived request moves on.
LEMMA MoveFacts ==
  ASSUME req \in [Req -> Handlers], NEW r \in Req, req[r].pc # "idle",
         NEW pc \in {"created", "uncreated", "unqueued", "rejecting", "enqueued"},
         NEW reply \in {"accepted", "refused"},
         Goto(r, pc) \/ Reply(r, reply)
  PROVE  req' \in [Req -> Handlers] /\ SameRequests
<1>1. CASE Goto(r, pc)
  BY <1>1 DEF Goto, Handlers, SameRequests
<1>2. CASE Reply(r, reply)
  BY <1>2 DEF Reply, Handlers, SameRequests
<1> QED
  BY <1>1, <1>2

\* What is not touched keeps its type and changes nothing that matters.
LEMMA SameFacts ==
  ASSUME Types, WorkerBusy
  PROVE  /\ UNCHANGED req => req' \in [Req -> Handlers] /\ SameRequests
         /\ UNCHANGED <<app, hist>> => app' \in Apps /\ hist' \in Histories /\ SameVersion
         /\ UNCHANGED sub => sub' \in [Req -> SubStates] /\ NoNewOk
         /\ UNCHANGED jobs => jobs' \in [Req -> JobStates] /\ NoUnearned
         /\ UNCHANGED worker => worker' \in Workers /\ WorkerBusy'
         /\ UNCHANGED queue => queue' \in Seq(Req)
BY DEF Types, SameRequests, SameVersion, NoNewOk, NoUnearned, WorkerBusy

\* The handler's steps after the ledger has recorded the delivery.
LEMMA HandlerKeeps ==
  ASSUME Types, WorkerBusy, NEW r \in Req, Handler(r)
  PROVE  Types' /\ WorkerBusy' /\ Keeps
<1> USE SameFacts
<1>1. req' \in [Req -> Handlers] /\ SameRequests
  <2>1. req[r].pc # "idle"
    BY DEF Handler, CreateJob, Enqueue, ForgetUncreated, ForgetUnqueued, MarkQueueFailure, MarkQueued
  <2>2. \/ \E pc \in {"created", "uncreated", "unqueued", "rejecting", "enqueued"} : Goto(r, pc)
        \/ \E reply \in {"accepted", "refused"} : Reply(r, reply)
    BY DEF Handler, CreateJob, Enqueue, ForgetUncreated, ForgetUnqueued, MarkQueueFailure, MarkQueued
  <2> QED
    BY <2>1, <2>2, MoveFacts DEF Types
<1>2. jobs' \in [Req -> JobStates] /\ NoUnearned
  <2>1. CASE UNCHANGED jobs
    BY <2>1
  <2>2. CASE jobs' = SweepRetention([jobs EXCEPT ![r] = "accepted"])
    <3> DEFINE created == [jobs EXCEPT ![r] = "accepted"]
    <3>1. created \in [Req -> JobStates] /\ \A s \in Req : created[s] \in {jobs[s], "accepted"}
      BY DEF Types, JobStates, Running
    <3> HIDE DEF created
    <3>2. /\ SweepRetention(created) \in [Req -> JobStates]
          /\ \A s \in Req : SweepRetention(created)[s] \in {created[s], "expired"}
      BY <3>1, SweepFacts
    <3>3. jobs' = SweepRetention(created)
      BY <2>2 DEF created
    <3> QED
      BY <3>1, <3>2, <3>3 DEF NoUnearned
  <2>3. CASE Mark(r, "failed") \/ Mark(r, "queued")
    <3>1. /\ jobs' \in [Req -> JobStates]
          /\ \A s \in Req : jobs'[s] = jobs[s] \/ jobs'[s] \in {"failed", "queued"}
      BY <2>3, MarkFacts DEF Types, Running, Terminal
    <3> QED
      BY <3>1 DEF NoUnearned
  <2> QED
    BY <2>1, <2>2, <2>3
    DEF Handler, CreateJob, Enqueue, ForgetUncreated, ForgetUnqueued, MarkQueueFailure, MarkQueued
<1>3. UNCHANGED <<worker, sub, app>>
  BY DEF Handler, CreateJob, Enqueue, ForgetUncreated, ForgetUnqueued, MarkQueueFailure, MarkQueued
<1>4. queue' \in Seq(Req) /\ hist' \in Histories /\ hist'.proven = hist.proven
  <2>1. \/ UNCHANGED <<queue, hist>>
        \/ queue' = Append(queue, r) /\ hist' = [hist EXCEPT !.enqueued = @ \cup {r}]
    BY DEF Handler, CreateJob, Enqueue, ForgetUncreated, ForgetUnqueued, MarkQueueFailure, MarkQueued
  <2>2. queue' \in Seq(Req)
    <3>1. queue \in Seq(Req)
      BY DEF Types
    <3>2. Append(queue, r) \in Seq(Req)
      BY <3>1, AppendProperties
    <3> QED
      BY <2>1, <3>1, <3>2
  <2>3. hist' \in Histories /\ hist'.proven = hist.proven
    <3>1. hist \in Histories /\ hist.enqueued \cup {r} \in SUBSET Req
      BY DEF Types, Histories
    <3> QED
      BY <2>1, <3>1 DEF Histories
  <2> QED
    BY <2>2, <2>3
<1>5. app' \in Apps /\ SameVersion
  BY <1>3, <1>4 DEF Types, SameVersion
<1> QED
  BY <1>1, <1>2, <1>3, <1>4, <1>5 DEF Types, Keeps

\* A status other than succeeded, written over a job's record or not at all.
LEMMA WriteFacts ==
  ASSUME Types, NEW r \in Req, NEW status \in (Running \cup Terminal) \ {"succeeded"},
         Mark(r, status) \/ jobs' = [jobs EXCEPT ![r] = status]
  PROVE  jobs' \in [Req -> JobStates] /\ NoUnearned
<1>1. /\ jobs' \in [Req -> JobStates]
      /\ \A s \in Req : jobs'[s] = jobs[s] \/ (s = r /\ jobs'[s] = status)
  <2>1. CASE Mark(r, status)
    BY <2>1, MarkFacts DEF Types
  <2>2. CASE jobs' = [jobs EXCEPT ![r] = status]
    BY <2>2 DEF Types, JobStates
  <2> QED
    BY <2>1, <2>2
<1> QED
  BY <1>1 DEF NoUnearned

\* Reading an exit status ends no rebuild well.
LEMMA ReapFacts ==
  ASSUME Types, NEW r \in Req, sub' = Reap(sub, r)
  PROVE  sub' \in [Req -> SubStates] /\ NoNewOk
BY DEF Types, Reap, SubStates, NoNewOk

\* The first job of the queue is a request; so are the others.
LEMMA QueueFacts ==
  ASSUME Types, queue # << >>
  PROVE  Head(queue) \in Req /\ Tail(queue) \in Seq(Req)
BY DEF Types

\* The worker's steps grant a success only to a job whose rebuild succeeded.
LEMMA WorkerKeeps ==
  ASSUME Types, WorkerBusy, OkEarned, Worker
  PROVE  Types' /\ WorkerBusy' /\ Keeps
<1> USE SameFacts
<1>1. worker.pc \in {"syncing", "waiting", "running"} => worker.job \in Req
  BY DEF WorkerBusy
<1>2. NextRound \in Workers /\ NextRound.pc \notin {"syncing", "waiting", "running"}
  BY DEF NextRound, Idle, Workers
<1>3. UNCHANGED <<req, hist>>
  BY DEF Worker, TakeJob, DropJob, PrepareFails, Prepare, SpawnRebuild, WaitAborted,
         RebuildSucceeded, RebuildAbandoned, RebuildRetried, RebuildFailed
<1>4. queue' \in Seq(Req)
  <2>1. UNCHANGED queue \/ (queue # << >> /\ queue' = Tail(queue))
    BY DEF Worker, TakeJob, DropJob, PrepareFails, Prepare, SpawnRebuild, WaitAborted,
           RebuildSucceeded, RebuildAbandoned, RebuildRetried, RebuildFailed
  <2> QED
    BY <2>1, QueueFacts
<1>5. worker' \in Workers /\ WorkerBusy'
  <2>1. CASE TakeJob
    BY <2>1, QueueFacts, ReqFacts DEF TakeJob, Workers, WorkerBusy
  <2>2. CASE DropJob
    BY <2>2 DEF DropJob, Types, Workers, WorkerBusy
  <2>3. CASE Prepare
    BY <2>3, <1>1 DEF Prepare, Types, Workers, WorkerBusy
  <2>4. CASE SpawnRebuild
    BY <2>4, <1>1 DEF SpawnRebuild, Types, Workers, WorkerBusy
  <2>5. CASE RebuildRetried
    <3>1. worker \in Workers /\ worker.attempt \in 0 .. MaxAttempts
      BY DEF Types, Workers
    <3>2. worker.attempt + 1 \in 0 .. MaxAttempts
      BY <2>5, <3>1, ReqFacts DEF RebuildRetried
    <3>3. worker.job \in Req /\ worker' = [worker EXCEPT !.pc = "waiting", !.attempt = worker.attempt + 1]
      BY <2>5, <1>1 DEF RebuildRetried
    <3> QED
      BY <3>1, <3>2, <3>3 DEF Workers, WorkerBusy
  <2>6. CASE worker' = NextRound
    BY <2>6, <1>2 DEF WorkerBusy
  <2> QED
    BY <2>1, <2>2, <2>3, <2>4, <2>5, <2>6
    DEF Worker, PrepareFails, WaitAborted, RebuildSucceeded, RebuildAbandoned, RebuildFailed
<1>6. jobs' \in [Req -> JobStates] /\ NoUnearned
  <2>1. CASE TakeJob \/ DropJob
    <3>1. \E status \in {"syncing", "cancelled"} : Mark(Head(queue), status)
      BY <2>1 DEF TakeJob, DropJob
    <3>2. Head(queue) \in Req
      BY <2>1, QueueFacts DEF TakeJob, DropJob
    <3> QED
      BY <3>1, <3>2, WriteFacts DEF Running, Terminal
  <2>2. CASE PrepareFails \/ Prepare \/ RebuildFailed
    <3>1. \E status \in {"failed", "building", "rolled_back"} :
            Mark(worker.job, status) \/ jobs' = [jobs EXCEPT ![worker.job] = status]
      BY <2>2 DEF PrepareFails, Prepare, RebuildFailed
    <3>2. worker.job \in Req
      BY <2>2, <1>1 DEF PrepareFails, Prepare, RebuildFailed
    <3> QED
      BY <3>1, <3>2, WriteFacts DEF Running, Terminal
  <2>3. CASE RebuildSucceeded
    <3>1. worker.job \in Req /\ sub[worker.job] = "ok" /\ Mark(worker.job, "succeeded")
      BY <2>3, <1>1 DEF RebuildSucceeded
    <3>2. /\ jobs' \in [Req -> JobStates]
          /\ \A s \in Req : jobs'[s] = jobs[s] \/ s = worker.job
      BY <3>1, MarkFacts DEF Types, Terminal
    <3>3. worker.job \in hist.proven
      BY <3>1 DEF OkEarned
    <3> QED
      BY <3>2, <3>3 DEF NoUnearned
  <2>4. CASE UNCHANGED jobs
    BY <2>4
  <2> QED
    BY <2>1, <2>2, <2>3, <2>4
    DEF Worker, SpawnRebuild, WaitAborted, RebuildAbandoned, RebuildRetried
<1>7. sub' \in [Req -> SubStates] /\ NoNewOk
  <2>1. CASE SpawnRebuild
    BY <2>1 DEF SpawnRebuild, Types, SubStates, NoNewOk
  <2>2. CASE RebuildSucceeded \/ RebuildAbandoned \/ RebuildRetried \/ RebuildFailed
    <3>1. worker.job \in Req /\ sub' = Reap(sub, worker.job)
      BY <2>2, <1>1 DEF RebuildSucceeded, RebuildAbandoned, RebuildRetried, RebuildFailed
    <3> QED
      BY <3>1, ReapFacts
  <2>3. CASE UNCHANGED sub
    BY <2>3
  <2> QED
    BY <2>1, <2>2, <2>3 DEF Worker, TakeJob, DropJob, PrepareFails, Prepare, WaitAborted
<1>8. app' \in Apps /\ SameVersion
  <2>1. UNCHANGED app \/ \E rollback \in {"none", "old", "new"} : app' = [app EXCEPT !.rollback = rollback]
    BY DEF Worker, TakeJob, DropJob, PrepareFails, Prepare, SpawnRebuild, WaitAborted,
           RebuildSucceeded, RebuildAbandoned, RebuildRetried, RebuildFailed
  <2> QED
    BY <2>1, <1>3 DEF Types, Apps, SameVersion
<1> QED
  BY <1>3, <1>4, <1>5, <1>6, <1>7, <1>8 DEF Types, Keeps

\* The stage detector.
LEMMA ProgressKeeps ==
  ASSUME Types, WorkerBusy, NEW r \in Req, NEW status \in {"deploying", "health_checking"},
         MarkProgress(r, status)
  PROVE  Types' /\ WorkerBusy' /\ Keeps
<1>1. jobs' \in [Req -> JobStates] /\ NoUnearned
  BY WriteFacts DEF MarkProgress, Running, Terminal
<1>2. UNCHANGED <<req, queue, worker, sub, app, hist>>
  BY DEF MarkProgress
<1> QED
  BY <1>1, <1>2, SameFacts DEF Types, Keeps

\* The end of the daemon.
LEMMA GoneKeeps ==
  ASSUME Types, WorkerBusy, Gone
  PROVE  Types' /\ WorkerBusy' /\ Keeps
<1>1. req' \in [Req -> Handlers] /\ SameRequests
  <2>1. \A r \in Req : /\ req'[r] \in Handlers /\ req'[r].delivery = req[r].delivery
                        /\ req'[r].pc = IF req[r].pc = "idle" THEN "idle" ELSE "done"
    BY DEF Gone, Types, Handlers
  <2>2. req' \in [Req -> Handlers]
    BY <2>1 DEF Gone
  <2> QED
    BY <2>1, <2>2 DEF SameRequests
<1>2. worker' \in Workers /\ WorkerBusy' /\ queue' \in Seq(Req)
  <2>1. worker' = Idle /\ queue' = << >>
    BY DEF Gone
  <2>2. worker' \in Workers
    BY <2>1, ReqFacts DEF Idle, Workers
  <2>3. WorkerBusy'
    BY <2>1 DEF Idle, WorkerBusy
  <2> QED
    BY <2>1, <2>2, <2>3, EmptySeq
<1>3. sub' \in [Req -> SubStates] /\ NoNewOk
  <2>1. CASE worker.job = Nobody
    BY <2>1, SameFacts DEF Gone
  <2>2. CASE worker.job # Nobody
    BY <2>2, ReapFacts DEF Gone, Types, Workers
  <2> QED
    BY <2>1, <2>2
<1> QED
  BY <1>1, <1>2, <1>3, SameFacts DEF Gone, Types, Keeps

\* Restart recovery calls a job succeeded only on the evidence of CurrentEarned.
LEMMA RestartKeeps ==
  ASSUME Types, WorkerBusy, CurrentEarned, Restart
  PROVE  Types' /\ WorkerBusy' /\ Keeps
<1> DEFINE open == {r \in Req : jobs[r] \in Running}
           recovered == [r \in Req |-> IF r \in open THEN Recovered(r) ELSE jobs[r]]
<1>1. ASSUME NEW r \in Req, Finished(r)
      PROVE  r \in hist.proven
  BY <1>1 DEF Finished, CurrentEarned, Deployed
<1>2. /\ recovered \in [Req -> JobStates]
      /\ \A r \in Req : recovered[r] = "succeeded" => jobs[r] = "succeeded" \/ r \in hist.proven
  BY <1>1 DEF Recovered, JobStates, Terminal, Types
<1>3. \/ jobs' = recovered
      \/ \E r \in open : \E status \in {jobs[r], "interrupted"} : jobs' = [recovered EXCEPT ![r] = status]
  BY DEF Restart
<1> HIDE DEF recovered
<1>4. jobs' \in [Req -> JobStates] /\ NoUnearned
  <2>1. CASE jobs' = recovered
    BY <2>1, <1>2 DEF NoUnearned
  <2>2. ASSUME NEW r \in open, NEW status \in {jobs[r], "interrupted"},
               jobs' = [recovered EXCEPT ![r] = status]
        PROVE  jobs' \in [Req -> JobStates] /\ NoUnearned
    <3>1. status \in JobStates /\ status # "succeeded"
      BY DEF Running, JobStates, Terminal
    <3> QED
      BY <2>2, <3>1, <1>2 DEF NoUnearned
  <2> QED
    BY <1>3, <2>1, <2>2
<1> QED
  BY <1>4, SameFacts DEF Restart, Types, Keeps

----------------------------------------------------------------------------
(* The rest of the types: daemon, failures, and the queue's depth.         *)

Counts ==
  /\ daemon \in {"up", "draining", "closing", "down"}
  /\ trouble \in [count : 0 .. MaxTrouble, failed : SUBSET Faults]
  /\ Len(queue) <= QueueDepth

\* At most one thing goes wrong in a step.
LEMMA TroubleFacts ==
  ASSUME Counts, NEW failed \in SUBSET Faults, Trouble(failed)
  PROVE  trouble' \in [count : 0 .. MaxTrouble, failed : SUBSET Faults]
<1>1. trouble.count \in 0 .. MaxTrouble /\ trouble.failed \in SUBSET Faults /\ MaxTrouble \in Nat
  BY DEF Counts
<1>2. trouble.count + 1 \in 0 .. MaxTrouble /\ trouble.failed \cup failed \in SUBSET Faults
  BY <1>1 DEF Trouble
<1> QED
  BY <1>2 DEF Trouble

\* The queue never grows past its depth, and the counters stay in range.
LEMMA NextCounts ==
  ASSUME Types, Counts, Next
  PROVE  Counts'
<1> USE DEF SeenOrRecord, LedgerUnavailable, DuplicateDelivery, RecordDelivery, RecordFails,
            Handler, CreateJob, Enqueue, ForgetUncreated, ForgetUnqueued, MarkQueueFailure, MarkQueued,
            Worker, TakeJob, DropJob, PrepareFails, Prepare, SpawnRebuild, WaitAborted,
            RebuildSucceeded, RebuildAbandoned, RebuildRetried, RebuildFailed, MarkProgress,
            Rebuild, RebuildLocks, RebuildDeploys, RebuildBreaks,
            Crash, Shutdown, CloseQueue, Exit, Restart, Gone, ManualStarts, ManualEnds
<1>1. daemon' \in {"up", "draining", "closing", "down"}
  BY DEF Next, Counts
<1>2. UNCHANGED trouble \/ \E failed \in SUBSET Faults : Trouble(failed)
  <2>1. \A kind : Fails(kind) => \E failed \in SUBSET Faults : Trouble(failed)
    BY DEF Fails
  <2>2. \A r, status : Mark(r, status) => UNCHANGED trouble \/ Fails("jobs")
    BY DEF Mark
  <2>3. \A d : Remove(d) => UNCHANGED trouble \/ Fails("ledger")
    BY DEF Remove
  <2>4. {} \in SUBSET Faults
    OBVIOUS
  <2> QED
    BY <2>1, <2>2, <2>3, <2>4 DEF Next
<1>3. \/ UNCHANGED queue
      \/ Len(queue) # QueueDepth /\ \E r \in Req : queue' = Append(queue, r)
      \/ queue # << >> /\ queue' = Tail(queue)
      \/ queue' = << >>
  BY DEF Next
<1>4. Len(queue') <= QueueDepth
  <2>1. queue \in Seq(Req) /\ Len(queue) \in Nat /\ Len(queue) <= QueueDepth /\ QueueDepth \in Nat
    BY LenProperties DEF Types, Counts
  <2>2. ASSUME NEW r \in Req, queue' = Append(queue, r), Len(queue) # QueueDepth
        PROVE  Len(queue') <= QueueDepth
    <3>1. Len(Append(queue, r)) = Len(queue) + 1
      BY <2>1, AppendProperties
    <3> QED
      BY <2>1, <2>2, <3>1
  <2>3. ASSUME queue # << >>, queue' = Tail(queue)
        PROVE  Len(queue') <= QueueDepth
    <3>1. Len(Tail(queue)) = Len(queue) - 1
      BY <2>1, <2>3, HeadTailProperties
    <3> QED
      BY <2>1, <2>3, <3>1
  <2>4. ASSUME queue' = << >>
        PROVE  Len(queue') <= QueueDepth
    BY <2>1, <2>4, EmptySeq
  <2> QED
    BY <1>3, <2>1, <2>2, <2>3, <2>4
<1>5. trouble' \in [count : 0 .. MaxTrouble, failed : SUBSET Faults]
  BY <1>2, TroubleFacts DEF Counts
<1> QED
  BY <1>1, <1>4, <1>5 DEF Counts

----------------------------------------------------------------------------
(* The steps that do change what the invariant is about: the end of a      *)
(* rebuild, manual operations, and arrivals.                               *)

\* Whoever ends a rebuild touches that rebuild only.
LEMMA EndsFacts ==
  ASSUME Types, NEW r \in Req, NEW status \in SubStates, Ends(r, status)
  PROVE  /\ sub' \in [Req -> SubStates]
         /\ \A s \in Req : sub'[s] = sub[s] \/ (s = r /\ sub'[s] \in {status, "none"})
BY DEF Types, Ends, SubStates

\* A failed operation releases the lock and perhaps records a rollback.
LEMMA ReleasesFacts ==
  ASSUME Types, Releases, UNCHANGED hist
  PROVE  app' \in Apps /\ SameVersion
BY DEF Types, Releases, Apps, SameVersion

\* Deployments of one commit earn the success of every request for it.
LEMMA PromotionEarns ==
  ASSUME Types, Earned, NEW c \in Commit, Promotes(c), UNCHANGED <<req, jobs>>,
         hist' = [hist EXCEPT !.proven = @ \cup Deployed(c)],
         \A r \in Req : sub'[r] = "ok" => sub[r] = "ok" \/ r \in Deployed(c)
  PROVE  app' \in Apps /\ hist' \in Histories /\ Earned'
<1>1. /\ app' \in Apps /\ app'.commit = c /\ app'.deployedAt = Arrived
  BY ArrivedType DEF Types, Promotes, Apps
<1>2. hist' \in Histories /\ hist'.proven = hist.proven \cup Deployed(c)
  <2>1. hist \in Histories /\ hist.proven \cup Deployed(c) \in SUBSET Req
    BY DEF Types, Histories, Deployed
  <2> QED
    BY <2>1 DEF Histories
<1>3. Arrived' = Arrived /\ Deployed(c)' = Deployed(c)
  BY DEF Arrived, Deployed
<1>4. DeployedEarlier'
  BY <1>1, <1>3, ArrivedType DEF DeployedEarlier
<1>5. OkEarned'
  BY <1>2 DEF Earned, OkEarned
<1>6. CurrentEarned'
  BY <1>1, <1>2 DEF CurrentEarned, Deployed
<1>7. SucceededIsEarned'
  BY <1>2 DEF Earned, SucceededIsEarned
<1> QED
  BY <1>1, <1>2, <1>4, <1>5, <1>6, <1>7 DEF Earned

\* A rebuild process.
LEMMA RebuildEarns ==
  ASSUME Types, WorkerBusy, Earned, NEW r \in Req, Rebuild(r)
  PROVE  Types' /\ WorkerBusy' /\ Earned'
<1> USE SameFacts
<1>1. UNCHANGED <<req, jobs, queue, worker>>
  BY DEF Rebuild, RebuildLocks, RebuildDeploys, RebuildBreaks
<1>2. CASE RebuildLocks(r)
  <2>1. sub' \in [Req -> SubStates] /\ NoNewOk
    <3>1. CASE sub' = [sub EXCEPT ![r] = "locked"]
      BY <3>1 DEF Types, SubStates, NoNewOk
    <3>2. CASE Ends(r, "contended")
      BY <3>2, EndsFacts DEF SubStates, NoNewOk
    <3> QED
      BY <1>2, <3>1, <3>2 DEF RebuildLocks
  <2>2. app' \in Apps /\ SameVersion /\ hist' \in Histories
    BY <1>2 DEF RebuildLocks, Types, Apps, SameVersion
  <2> QED
    BY <1>1, <2>1, <2>2, KeepsEarned DEF Types, Keeps
<1>3. CASE RebuildBreaks(r)
  <2>1. sub' \in [Req -> SubStates] /\ NoNewOk
    BY <1>3, EndsFacts DEF RebuildBreaks, SubStates, NoNewOk
  <2>2. app' \in Apps /\ SameVersion /\ hist' \in Histories
    BY <1>3, ReleasesFacts DEF RebuildBreaks, Types
  <2> QED
    BY <1>1, <2>1, <2>2, KeepsEarned DEF Types, Keeps
<1>4. CASE RebuildDeploys(r)
  <2>1. /\ sub' \in [Req -> SubStates]
        /\ \A s \in Req : sub'[s] = "ok" => sub[s] = "ok" \/ s = r
    BY <1>4, EndsFacts DEF RebuildDeploys, SubStates
  <2>2. ASSUME NEW d \in req[r].delivery, Promotes(CommitOf[d]),
               hist' = [hist EXCEPT !.proven = @ \cup Deployed(CommitOf[d])]
        PROVE  app' \in Apps /\ hist' \in Histories /\ Earned'
    <3>1. d \in Delivery /\ CommitOf[d] \in Commit
      BY DEF Types, Handlers
    <3>2. r \in Deployed(CommitOf[d])
      BY DEF Deployed
    <3> QED
      BY <1>1, <2>1, <2>2, <3>1, <3>2, PromotionEarns
  <2>3. ASSUME app' = [app EXCEPT !.lock = Nobody],
               hist' = [hist EXCEPT !.proven = @ \cup {r}]
        PROVE  app' \in Apps /\ hist' \in Histories /\ Earned'
    <3>1. app' \in Apps /\ app'.commit = app.commit /\ app'.deployedAt = app.deployedAt
      BY <2>3 DEF Types, Apps
    <3>2. hist' \in Histories /\ hist'.proven = hist.proven \cup {r}
      BY <2>3 DEF Types, Histories
    <3>3. DeployedEarlier'
      BY <3>1, <1>1 DEF Earned, DeployedEarlier, Arrived
    <3>4. OkEarned'
      BY <2>1, <3>2 DEF Earned, OkEarned
    <3>5. CurrentEarned'
      BY <3>1, <3>2, <1>1 DEF Earned, CurrentEarned, Deployed
    <3>6. SucceededIsEarned'
      BY <3>2, <1>1 DEF Earned, SucceededIsEarned
    <3> QED
      BY <3>1, <3>2, <3>3, <3>4, <3>5, <3>6 DEF Earned
  <2>4. app' \in Apps /\ hist' \in Histories /\ Earned'
    BY <1>4, <2>2, <2>3 DEF RebuildDeploys
  <2> QED
    BY <1>1, <2>1, <2>4 DEF Types
<1> QED
  BY <1>2, <1>3, <1>4 DEF Rebuild

\* Manual operations.
LEMMA ManualEarns ==
  ASSUME Types, WorkerBusy, Earned, ManualStarts \/ ManualEnds
  PROVE  Types' /\ WorkerBusy' /\ Earned'
<1> USE SameFacts
<1>1. UNCHANGED <<req, jobs, queue, worker, sub>>
  BY DEF ManualStarts, ManualEnds
<1>2. CASE ManualStarts
  <2>1. app' \in Apps /\ SameVersion /\ hist' \in Histories
    BY <1>2 DEF ManualStarts, Types, Apps, SameVersion
  <2> QED
    BY <1>1, <2>1, KeepsEarned DEF Types, Keeps
<1>3. CASE ManualEnds
  <2>1. ASSUME NEW c \in Commit, Promotes(c), hist' = [hist EXCEPT !.proven = @ \cup Deployed(c)]
        PROVE  app' \in Apps /\ hist' \in Histories /\ Earned'
    BY <1>1, <2>1, PromotionEarns
  <2>2. ASSUME Releases, UNCHANGED hist
        PROVE  app' \in Apps /\ hist' \in Histories /\ Earned'
    BY <1>1, <2>2, ReleasesFacts, KeepsEarned DEF Types, Keeps
  <2>3. app' \in Apps /\ hist' \in Histories /\ Earned'
    BY <1>3, <2>1, <2>2 DEF ManualEnds
  <2> QED
    BY <1>1, <2>3 DEF Types
<1> QED
  BY <1>2, <1>3

\* A request arrives and is not idle any more. The current version is older
\* than the request, so it proves nothing about it.
LEMMA ArrivalEarns ==
  ASSUME Types, Earned, NEW r \in Req, Arrives(r),
         NEW h \in Handlers, h.pc # "idle", req' = [req EXCEPT ![r] = h],
         UNCHANGED <<jobs, sub, app>>, hist'.proven = hist.proven
  PROVE  req' \in [Req -> Handlers] /\ Earned'
<1>1. req' \in [Req -> Handlers]
  BY DEF Types
<1>2. Arrived' = Arrived + 1
  <2>1. ArrivedReqs' = ArrivedReqs \cup {r}
    BY DEF ArrivedReqs, Types
  <2>2. r \notin ArrivedReqs
    BY DEF ArrivedReqs, Arrives
  <2>3. ArrivedReqs \subseteq Req
    BY DEF ArrivedReqs
  <2>4. IsFiniteSet(ArrivedReqs)
    BY <2>3, ReqFacts, FS_Subset
  <2>5. Cardinality(ArrivedReqs \cup {r}) = Cardinality(ArrivedReqs) + 1
    BY <2>2, <2>4, FS_AddElement
  <2> QED
    BY <2>1, <2>5 DEF Arrived, ArrivedReqs
<1>3. app.deployedAt \in Nat /\ Arrived \in Nat /\ r = Arrived + 1 /\ app.deployedAt <= Arrived
  BY ArrivedType DEF Types, Apps, Earned, DeployedEarlier, Arrives
<1>4. DeployedEarlier'
  BY <1>2, <1>3 DEF DeployedEarlier
<1>5. OkEarned'
  BY DEF Earned, OkEarned
<1>6. CurrentEarned'
  <2>1. SUFFICES ASSUME NEW s \in Req, s \in Deployed(app.commit)', s <= app.deployedAt
                 PROVE  s \in hist.proven
    BY DEF CurrentEarned
  <2>2. s # r
    BY <1>3, <2>1
  <2>3. s \in Deployed(app.commit)
    BY <2>1, <2>2 DEF Deployed, Types
  <2> QED
    BY <2>1, <2>3 DEF Earned, CurrentEarned
<1>7. SucceededIsEarned'
  BY DEF Earned, SucceededIsEarned
<1> QED
  BY <1>1, <1>4, <1>5, <1>6, <1>7 DEF Earned

\* Evictions concern requests and deliveries and prove nothing.
LEMMA EvictingFacts ==
  ASSUME Types, LedgerTypes, NEW order \in Seq(Delivery), Evicting(ledger.disk, order)
  PROVE  hist' \in Histories /\ hist'.proven = hist.proven
<1> DEFINE gone == Entries(ledger.disk) \ Entries(order)
           cut == {d \in gone : \E r \in For(d) : InFlight(r)}
<1>1. gone \subseteq Delivery
  <2>1. ledger.disk \in Seq(Delivery)
    BY DEF LedgerTypes
  <2>2. \A i \in DOMAIN ledger.disk : ledger.disk[i] \in Delivery
    BY <2>1
  <2> QED
    BY <2>2 DEF Entries
<1>2. UNION {For(d) : d \in gone} \subseteq Req
  BY DEF For
<1>3. cut \subseteq Delivery
  BY <1>1
<1>4. hist' = [hist EXCEPT !.outdated = hist.outdated \cup UNION {For(d) : d \in gone},
                          !.overrun = hist.overrun \cup cut]
  BY DEF Evicting
<1> HIDE DEF gone, cut
<1> DEFINE lost == UNION {For(d) : d \in gone}
<1>5. lost \subseteq Req /\ hist' = [hist EXCEPT !.outdated = hist.outdated \cup lost,
                                                !.overrun = hist.overrun \cup cut]
  BY <1>2, <1>4
<1> HIDE DEF lost
<1>6. /\ hist \in Histories
      /\ hist.outdated \cup lost \in SUBSET Req /\ hist.overrun \cup cut \in SUBSET Delivery
  BY <1>3, <1>5 DEF Types, Histories
<1> QED
  BY <1>5, <1>6 DEF Histories

\* The ledger after it has recorded a further delivery.
LEMMA EvictFacts ==
  ASSUME NEW order \in Seq(Delivery), NEW d \in Delivery, Len(order) <= LedgerMax
  PROVE  LET kept == Evict(Append(order, d))
         IN  kept \in Seq(Delivery) /\ Len(kept) \in 1 .. LedgerMax
<1> DEFINE longer == Append(order, d)
<1>1. longer \in Seq(Delivery) /\ Len(longer) = Len(order) + 1 /\ Len(order) \in Nat
  BY AppendProperties, LenProperties
<1>2. LedgerMax \in Nat \ {0}
  OBVIOUS
<1> HIDE DEF longer
<1>3. ASSUME Len(longer) > LedgerMax
      PROVE  Evict(longer) \in Seq(Delivery) /\ Len(Evict(longer)) \in 1 .. LedgerMax
  <2>1. \A i \in Len(longer) - LedgerMax + 1 .. Len(longer) : longer[i] \in Delivery
    BY <1>1, <1>2, <1>3
  <2>2. /\ SubSeq(longer, Len(longer) - LedgerMax + 1, Len(longer)) \in Seq(Delivery)
        /\ Len(SubSeq(longer, Len(longer) - LedgerMax + 1, Len(longer))) = LedgerMax
    <3>1. Len(longer) - LedgerMax + 1 \in Int /\ Len(longer) \in Int
      BY <1>1, <1>2
    <3> QED
      BY <2>1, <3>1, <1>1, <1>2, <1>3, SubSeqProperties
  <2> QED
    BY <1>2, <1>3, <2>2 DEF Evict
<1>4. ASSUME ~(Len(longer) > LedgerMax)
      PROVE  Evict(longer) \in Seq(Delivery) /\ Len(Evict(longer)) \in 1 .. LedgerMax
  BY <1>1, <1>2, <1>4 DEF Evict
<1> QED
  BY <1>3, <1>4 DEF longer

\* The ledger after it has removed a delivery.
LEMMA WithoutFacts ==
  ASSUME NEW order \in Seq(Delivery), Len(order) <= LedgerMax,
         NEW d, d \in Entries(order)
  PROVE  Without(order, d) \in Seq(Delivery) /\ Len(Without(order, d)) <= LedgerMax
<1> DEFINE i == CHOOSE i \in DOMAIN order : order[i] = d
<1>1. i \in 1 .. Len(order) /\ Len(order) \in Nat
  <2>1. \E j \in DOMAIN order : order[j] = d
    BY DEF Entries
  <2>2. i \in DOMAIN order
    BY <2>1
  <2> QED
    BY <2>2, LenProperties
<1>2. Without(order, d) = SubSeq(order, 1, i - 1) \o SubSeq(order, i + 1, Len(order))
  BY DEF Without
<1> HIDE DEF i
<1>3. \A j \in 1 .. Len(order) : order[j] \in Delivery
  OBVIOUS
<1>4. SubSeq(order, 1, i - 1) \in Seq(Delivery) /\ Len(SubSeq(order, 1, i - 1)) = i - 1
  <2>1. 1 \in Int /\ i - 1 \in Int /\ \A j \in 1 .. i - 1 : order[j] \in Delivery
    BY <1>1, <1>3
  <2> QED
    BY <1>1, <2>1, SubSeqProperties
<1>5. /\ SubSeq(order, i + 1, Len(order)) \in Seq(Delivery)
      /\ Len(SubSeq(order, i + 1, Len(order))) = Len(order) - i
  <2>1. i + 1 \in Int /\ Len(order) \in Int /\ \A j \in i + 1 .. Len(order) : order[j] \in Delivery
    BY <1>1, <1>3
  <2>2. /\ SubSeq(order, i + 1, Len(order)) \in Seq(Delivery)
        /\ Len(SubSeq(order, i + 1, Len(order))) = IF i + 1 <= Len(order) THEN Len(order) - (i + 1) + 1 ELSE 0
    BY <2>1, SubSeqProperties
  <2> QED
    BY <1>1, <2>2
<1>6. /\ Without(order, d) \in Seq(Delivery)
      /\ Len(Without(order, d)) = (i - 1) + (Len(order) - i)
  BY <1>2, <1>4, <1>5, ConcatProperties
<1> QED
  BY <1>1, <1>6

\* Arrivals: answered at once, or recorded.
LEMMA SeenOrRecordEarns ==
  ASSUME Types, LedgerTypes, WorkerBusy, Earned, NEW r \in Req, SeenOrRecord(r)
  PROVE  Types' /\ LedgerTypes' /\ WorkerBusy' /\ Earned'
<1>1. PICK d \in Delivery : \/ LedgerUnavailable(r, d) \/ DuplicateDelivery(r, d)
                            \/ RecordDelivery(r, d) \/ RecordFails(r, d)
  BY DEF SeenOrRecord
<1>2. UNCHANGED <<jobs, queue, worker, sub, app>>
  BY <1>1 DEF LedgerUnavailable, DuplicateDelivery, RecordDelivery, RecordFails
<1>3. Arrives(r)
  BY <1>1 DEF LedgerUnavailable, DuplicateDelivery, RecordDelivery, RecordFails, UnseenDelivery
<1>4. \E h \in Handlers : h.pc # "idle" /\ req' = [req EXCEPT ![r] = h]
  <2>1. \E pc \in {"done", "recorded"}, reply \in {"none", "duplicate", "refused"} :
          req' = [req EXCEPT ![r] = [pc |-> pc, delivery |-> {d}, reply |-> reply]]
    BY <1>1 DEF LedgerUnavailable, DuplicateDelivery, RecordDelivery, RecordFails, Answer
  <2> QED
    BY <2>1 DEF Handlers
<1> DEFINE order == Evict(Append(ledger.mem, d))
<1>5. order \in Seq(Delivery) /\ Len(order) \in 1 .. LedgerMax
  BY EvictFacts DEF LedgerTypes
<1>6. \/ UNCHANGED <<ledger, hist>>
      \/ ledger' = [ledger EXCEPT !.mem = order, !.disk = order] /\ Evicting(ledger.disk, order)
      \/ \E disk \in {ledger.disk, order} :
           /\ ledger' = [mem |-> SubSeq(order, 1, Len(order) - 1), disk |-> disk, err |-> TRUE]
           /\ Evicting(ledger.disk, disk)
  BY <1>1 DEF LedgerUnavailable, DuplicateDelivery, RecordDelivery, RecordFails
<1> HIDE DEF order
<1>7. hist' \in Histories /\ hist'.proven = hist.proven
  <2>1. CASE UNCHANGED hist
    BY <2>1 DEF Types
  <2>2. ASSUME NEW disk \in {ledger.disk, order}, Evicting(ledger.disk, disk)
        PROVE  hist' \in Histories /\ hist'.proven = hist.proven
    <3>1. disk \in Seq(Delivery)
      BY <1>5 DEF LedgerTypes
    <3> QED
      BY <2>2, <3>1, EvictingFacts
  <2> QED
    BY <1>6, <2>1, <2>2
<1>8. LedgerTypes'
  <2>1. CASE UNCHANGED ledger
    BY <2>1 DEF LedgerTypes
  <2>2. CASE ledger' = [ledger EXCEPT !.mem = order, !.disk = order]
    <3>1. ledger \in [mem : Seq(Delivery), disk : Seq(Delivery), err : BOOLEAN]
      BY DEF LedgerTypes
    <3>2. /\ ledger' \in [mem : Seq(Delivery), disk : Seq(Delivery), err : BOOLEAN]
          /\ ledger'.mem = order /\ ledger'.disk = order
      BY <2>2, <3>1, <1>5
    <3> QED
      BY <3>2, <1>5 DEF LedgerTypes
  <2>3. ASSUME NEW disk \in {ledger.disk, order},
               ledger' = [mem |-> SubSeq(order, 1, Len(order) - 1), disk |-> disk, err |-> TRUE]
        PROVE  LedgerTypes'
    <3>1. disk \in Seq(Delivery) /\ Len(disk) <= LedgerMax
      BY <1>5 DEF LedgerTypes
    <3>2. /\ SubSeq(order, 1, Len(order) - 1) \in Seq(Delivery)
          /\ Len(SubSeq(order, 1, Len(order) - 1)) <= LedgerMax
      <4>1. 1 \in Int /\ Len(order) - 1 \in Int /\ \A i \in 1 .. Len(order) - 1 : order[i] \in Delivery
        BY <1>5
      <4>2. /\ SubSeq(order, 1, Len(order) - 1) \in Seq(Delivery)
            /\ Len(SubSeq(order, 1, Len(order) - 1)) =
                 IF 1 <= Len(order) - 1 THEN Len(order) - 1 - 1 + 1 ELSE 0
        BY <4>1, SubSeqProperties
      <4> QED
        BY <1>5, <4>2
    <3> QED
      BY <2>3, <3>1, <3>2 DEF LedgerTypes
  <2> QED
    BY <1>6, <2>1, <2>2, <2>3
<1>9. req' \in [Req -> Handlers] /\ Earned'
  BY <1>2, <1>3, <1>4, <1>7, ArrivalEarns
<1> QED
  BY <1>2, <1>7, <1>8, <1>9, SameFacts DEF Types

\* A removed delivery, and what a restart reads.
LEMMA LedgerKeeps ==
  ASSUME LedgerTypes, NEW d, UNCHANGED ledger \/ Remove(d) \/ Restart
  PROVE  LedgerTypes'
<1>0. /\ ledger \in [mem : Seq(Delivery), disk : Seq(Delivery), err : BOOLEAN]
      /\ ledger.mem \in Seq(Delivery) /\ Len(ledger.mem) <= LedgerMax
      /\ ledger.disk \in Seq(Delivery) /\ Len(ledger.disk) <= LedgerMax
  BY DEF LedgerTypes
<1>1. CASE UNCHANGED ledger
  BY <1>1 DEF LedgerTypes
<1>2. CASE Restart
  <2>1. ledger' = [ledger EXCEPT !.mem = ledger.disk, !.err = FALSE]
    BY <1>2 DEF Restart
  <2>2. /\ ledger' \in [mem : Seq(Delivery), disk : Seq(Delivery), err : BOOLEAN]
        /\ ledger'.mem = ledger.disk /\ ledger'.disk = ledger.disk
    BY <1>0, <2>1
  <2> QED
    BY <1>0, <2>2 DEF LedgerTypes
<1>3. CASE Remove(d) /\ d \in Entries(ledger.mem)
  <2> DEFINE order == Without(ledger.mem, d)
  <2>1. order \in Seq(Delivery) /\ Len(order) <= LedgerMax
    BY <1>0, <1>3, WithoutFacts
  <2>2. \/ UNCHANGED ledger
        \/ ledger' = [ledger EXCEPT !.mem = order, !.disk = order]
        \/ \E disk \in {ledger.disk, order} : ledger' = [mem |-> order, disk |-> disk, err |-> TRUE]
    BY <1>3 DEF Remove
  <2> HIDE DEF order
  <2>3. CASE ledger' = [ledger EXCEPT !.mem = order, !.disk = order]
    <3>1. /\ ledger' \in [mem : Seq(Delivery), disk : Seq(Delivery), err : BOOLEAN]
          /\ ledger'.mem = order /\ ledger'.disk = order
      BY <1>0, <2>1, <2>3
    <3> QED
      BY <2>1, <3>1 DEF LedgerTypes
  <2>4. ASSUME NEW disk \in {ledger.disk, order},
               ledger' = [mem |-> order, disk |-> disk, err |-> TRUE]
        PROVE  LedgerTypes'
    BY <1>0, <2>1, <2>4 DEF LedgerTypes
  <2> QED
    BY <1>1, <2>2, <2>3, <2>4
<1>4. CASE Remove(d) /\ d \notin Entries(ledger.mem)
  BY <1>1, <1>4 DEF Remove
<1> QED
  BY <1>1, <1>2, <1>3, <1>4

----------------------------------------------------------------------------
(* The inductive invariant.                                                *)

Inv == Types /\ LedgerTypes /\ Counts /\ WorkerBusy /\ Earned

\* At first nothing has arrived, run or succeeded.
LEMMA InitInv == Init => Inv
<1> SUFFICES ASSUME Init PROVE Inv
  OBVIOUS
<1> USE ReqFacts DEF Init
<1>1. Types
  <2>1. req \in [Req -> Handlers] /\ worker \in Workers
    BY DEF Handlers, Idle, Workers
  <2>2. jobs \in [Req -> JobStates] /\ sub \in [Req -> SubStates]
    BY DEF JobStates, SubStates
  <2>3. app \in Apps /\ hist \in Histories
    BY DEF Apps, Histories
  <2>4. queue \in Seq(Req)
    BY EmptySeq
  <2> QED
    BY <2>1, <2>2, <2>3, <2>4 DEF Types
<1>2. LedgerTypes
  BY EmptySeq DEF LedgerTypes
<1>3. Counts
  BY EmptySeq DEF Counts
<1>4. WorkerBusy
  BY DEF WorkerBusy, Idle
<1>5. Earned
  <2>1. DeployedEarlier
    BY ArrivedType DEF DeployedEarlier
  <2> QED
    BY <2>1 DEF Earned, OkEarned, CurrentEarned, Deployed, SucceededIsEarned
<1> QED
  BY <1>1, <1>2, <1>3, <1>4, <1>5 DEF Inv

\* Every step of the pipeline and of its environment preserves the invariant.
LEMMA NextInv ==
  ASSUME Inv, Next
  PROVE  Inv'
<1>0. Types /\ LedgerTypes /\ Counts /\ WorkerBusy /\ Earned /\ OkEarned /\ CurrentEarned
  BY DEF Inv, Earned
<1>1. Counts'
  BY <1>0, NextCounts
<1>2. SUFFICES Types' /\ LedgerTypes' /\ WorkerBusy' /\ Earned'
  BY <1>1 DEF Inv
<1>3. ASSUME NEW r \in Req, SeenOrRecord(r)
      PROVE  Types' /\ LedgerTypes' /\ WorkerBusy' /\ Earned'
  BY <1>0, <1>3, SeenOrRecordEarns
<1>4. ASSUME NEW r \in Req, Handler(r)
      PROVE  Types' /\ LedgerTypes' /\ WorkerBusy' /\ Earned'
  <2>1. UNCHANGED ledger \/ \E d : Remove(d)
    BY <1>4 DEF Handler, CreateJob, Enqueue, ForgetUncreated, ForgetUnqueued, MarkQueueFailure, MarkQueued
  <2>2. LedgerTypes'
    BY <1>0, <2>1, LedgerKeeps
  <2> QED
    BY <1>0, <1>4, <2>2, HandlerKeeps, KeepsEarned
<1>5. ASSUME NEW r \in Req, Rebuild(r)
      PROVE  Types' /\ LedgerTypes' /\ WorkerBusy' /\ Earned'
  <2>1. UNCHANGED ledger
    BY <1>5 DEF Rebuild, RebuildLocks, RebuildDeploys, RebuildBreaks
  <2> QED
    BY <1>0, <1>5, <2>1, LedgerKeeps, RebuildEarns
<1>6. ASSUME NEW r \in Req, NEW status \in {"deploying", "health_checking"}, MarkProgress(r, status)
      PROVE  Types' /\ LedgerTypes' /\ WorkerBusy' /\ Earned'
  <2>1. UNCHANGED ledger
    BY <1>6 DEF MarkProgress
  <2> QED
    BY <1>0, <1>6, <2>1, LedgerKeeps, ProgressKeeps, KeepsEarned
<1>7. CASE Worker
  <2>1. UNCHANGED ledger
    BY <1>7 DEF Worker, TakeJob, DropJob, PrepareFails, Prepare, SpawnRebuild, WaitAborted,
                RebuildSucceeded, RebuildAbandoned, RebuildRetried, RebuildFailed
  <2> QED
    BY <1>0, <1>7, <2>1, LedgerKeeps, WorkerKeeps, KeepsEarned
<1>8. CASE Crash \/ Exit
  <2>1. Gone /\ UNCHANGED ledger
    BY <1>8 DEF Crash, Exit, Gone
  <2> QED
    BY <1>0, <2>1, LedgerKeeps, GoneKeeps, KeepsEarned
<1>9. CASE Shutdown \/ CloseQueue
  <2>1. UNCHANGED <<ledger, req, jobs, queue, worker, sub, app, hist>>
    BY <1>9 DEF Shutdown, CloseQueue
  <2>2. Types' /\ WorkerBusy' /\ Keeps
    BY <1>0, <2>1, SameFacts DEF Types, Keeps
  <2> QED
    BY <1>0, <2>1, <2>2, LedgerKeeps, KeepsEarned
<1>10. CASE Restart
  BY <1>0, <1>10, LedgerKeeps, RestartKeeps, KeepsEarned
<1>11. CASE ManualStarts \/ ManualEnds
  <2>1. UNCHANGED ledger
    BY <1>11 DEF ManualStarts, ManualEnds
  <2> QED
    BY <1>0, <1>11, <2>1, LedgerKeeps, ManualEarns
<1> QED
  BY <1>3, <1>4, <1>5, <1>6, <1>7, <1>8, <1>9, <1>10, <1>11 DEF Next

\* A step that changes no variable preserves it too.
LEMMA StutterInv ==
  ASSUME Inv, UNCHANGED vars
  PROVE  Inv'
<1>1. Types' /\ LedgerTypes' /\ Counts' /\ WorkerBusy'
  BY DEF Inv, vars, Types, LedgerTypes, Counts, WorkerBusy
<1>2. Earned'
  BY DEF Inv, vars, Earned, DeployedEarlier, Arrived, OkEarned, CurrentEarned, Deployed, SucceededIsEarned
<1> QED
  BY <1>1, <1>2 DEF Inv

\* What the pipeline promises for every number of requests, deliveries,
\* failures, crashes and manual operations.
THEOREM Invariance == Spec => []Inv
<1>1. Inv /\ [Next]_vars => Inv'
  BY NextInv, StutterInv
<1> QED
  BY <1>1, InitInv, PTL DEF Spec

\* All variables keep their ranges; the delivery ledger never exceeds its
\* capacity, in memory or on disk, and the app's queue never its depth.
THEOREM TypeCorrect == Spec => []TypeOK
<1>1. Inv => TypeOK
  BY DEF Inv, Types, LedgerTypes, Counts, TypeOK, JobStates, SubStates
<1> QED
  BY <1>1, Invariance, PTL

\* MarkSucceeded and RecoverInterrupted never invent a success: a job is
\* succeeded only if its own rebuild succeeded or its commit was deployed
\* after the job was accepted, whatever crashes and restarts come between.
THEOREM SuccessIsEarned == Spec => []SucceededIsEarned
<1>1. Inv => SucceededIsEarned
  BY DEF Inv, Earned
<1> QED
  BY <1>1, Invariance, PTL

----------------------------------------------------------------------------
(* Where the jobs are.                                                     *)

\* Nothing is queued twice.
NoRepeats(seq) == \A i, j \in DOMAIN seq : seq[i] = seq[j] => i = j

\* The worker has no job between two rounds.
WorkerFree == worker.pc \in {"select", "stopped"} => worker.job = Nobody

\* A daemon that is down has no handlers, no queue and no worker.
DownEmpty == daemon = "down" => /\ queue = << >> /\ worker.job = Nobody
                                /\ \A r \in Req : req[r].pc \in {"idle", "done"}

\* A record appears with its job, and is not touched before the job is enqueued.
NotYetCreated ==
  \A r \in Req : /\ req[r].pc \in {"idle", "recorded", "uncreated"} => jobs[r] = "none"
                 /\ req[r].pc = "created" => jobs[r] = "accepted"

\* The job the worker has is open; its handler has let go of it.
WorkerHolds ==
  \A r \in Req : worker.job = r =>
    /\ req[r].pc \in {"enqueued", "done"}
    /\ jobs[r] \in Running
    /\ worker.pc = "syncing" => sub[r] = "none" /\ jobs[r] \in {"accepted", "queued", "syncing"}

\* A job in the queue has not been started.
QueueHolds ==
  \A r \in Entries(queue) :
    /\ req[r].pc \in {"enqueued", "done"}
    /\ jobs[r] \in {"accepted", "queued"}
    /\ sub[r] = "none"
    /\ worker.job # r

\* Only a job that left its handler is ever built.
BuiltLater == \A r \in Req : sub[r] # "none" => req[r].pc \in {"enqueued", "done"}

Hands == /\ NoRepeats(queue) /\ WorkerFree /\ DownEmpty /\ NotYetCreated
         /\ WorkerHolds /\ QueueHolds /\ BuiltLater

\* NoStrandedJob, and a handler that has enqueued its job no longer counts.
Tended ==
  (daemon \in {"up", "draining"} /\ ~Stranding) =>
    \A r \in Req : jobs[r] \in Running =>
      req[r].pc \in {"created", "unqueued", "rejecting"} \/ r \in Entries(queue) \/ worker.job = r

----------------------------------------------------------------------------
(* What the delivery ledger remembers.                                     *)

\* Memory and disk differ only after a failed write, which stays on record.
LedgerAgrees ==
  /\ ~ledger.err => ledger.mem = ledger.disk
  /\ ledger.err => "ledger" \in trouble.failed
  /\ NoRepeats(ledger.disk)

\* A request has one delivery once it has arrived.
OneDelivery ==
  \A r \in Req : IF req[r].pc = "idle" THEN req[r].delivery = {}
                 ELSE \E d \in Delivery : req[r].delivery = {d}

\* The history of enqueued requests follows the handlers; a lost one is over.
EnqueuedKnown ==
  \A r \in Req : /\ r \in hist.enqueued => req[r].pc \in {"enqueued", "done"}
                 /\ req[r].pc = "enqueued" => r \in hist.enqueued
                 /\ req[r].reply = "lost" => req[r].pc = "done"

\* Who relies on a ledger entry: handlers before they enqueue, and enqueued jobs.
Holder(r) == InFlight(r) \/ r \in hist.enqueued

\* An entry evicted under a handler is an overrun.
OutdatedKnown ==
  \A r \in hist.outdated : req[r].pc # "idle" /\ (InFlight(r) => req[r].delivery \subseteq hist.overrun)

\* The entry of a holder is in the ledger.
HoldersRecorded ==
  \A r \in Req : Holder(r) /\ r \notin hist.outdated =>
    req[r].delivery \subseteq Entries(ledger.disk) \cup hist.overrun

\* No delivery has two holders.
OneHolder ==
  \A r, s \in Req :
    /\ Holder(r) /\ r \notin hist.outdated
    /\ Holder(s) /\ s \notin hist.outdated
    /\ r # s /\ req[r].delivery = req[s].delivery
    => req[r].delivery \subseteq hist.overrun

\* RefusalForgotten, and a handler that has removed its delivery no longer counts.
EntriesOwned ==
  "ledger" \notin trouble.failed =>
    \A d \in Entries(ledger.disk) : \E r \in For(d) : Holder(r) \/ req[r].reply = "lost"

Memory == /\ LedgerAgrees /\ OneDelivery /\ EnqueuedKnown /\ OutdatedKnown
          /\ HoldersRecorded /\ OneHolder /\ EntriesOwned

----------------------------------------------------------------------------
(* Sequences without repetitions: the queue and the ledger.                *)

\* One more entry at the end.
LEMMA AppendEntries ==
  ASSUME NEW S, NEW seq \in Seq(S), NEW x \in S
  PROVE  /\ Entries(Append(seq, x)) = Entries(seq) \cup {x}
         /\ NoRepeats(seq) /\ x \notin Entries(seq) => NoRepeats(Append(seq, x))
<1>1. /\ Append(seq, x) \in Seq(S) /\ Len(seq) \in Nat
      /\ DOMAIN seq = 1 .. Len(seq) /\ DOMAIN Append(seq, x) = 1 .. Len(seq) + 1
      /\ \A i \in 1 .. Len(seq) : Append(seq, x)[i] = seq[i]
      /\ Append(seq, x)[Len(seq) + 1] = x
  BY AppendProperties, LenProperties
<1>2. \A i \in 1 .. Len(seq) + 1 : i \in 1 .. Len(seq) \/ i = Len(seq) + 1
  BY <1>1
<1>3. \A i \in 1 .. Len(seq) : i \in 1 .. Len(seq) + 1 /\ i # Len(seq) + 1
  BY <1>1
<1>4. Len(seq) + 1 \in 1 .. Len(seq) + 1
  BY <1>1
<1>5. Entries(Append(seq, x)) = Entries(seq) \cup {x}
  <2>1. \A e \in Entries(Append(seq, x)) : e \in Entries(seq) \cup {x}
    BY <1>1, <1>2 DEF Entries
  <2>2. \A e \in Entries(seq) \cup {x} : e \in Entries(Append(seq, x))
    BY <1>1, <1>3, <1>4 DEF Entries
  <2> QED
    BY <2>1, <2>2
<1>6. ASSUME NoRepeats(seq), x \notin Entries(seq)
      PROVE  NoRepeats(Append(seq, x))
  <2>1. SUFFICES ASSUME NEW i \in 1 .. Len(seq) + 1, NEW j \in 1 .. Len(seq) + 1,
                        Append(seq, x)[i] = Append(seq, x)[j]
                 PROVE  i = j
    BY <1>1 DEF NoRepeats
  <2>2. \A k \in 1 .. Len(seq) : seq[k] # x
    BY <1>1, <1>6 DEF Entries
  <2> QED
    BY <1>1, <1>2, <1>6, <2>1, <2>2 DEF NoRepeats
<1> QED
  BY <1>5, <1>6

\* A part of the sequence, as SubSeq cuts it out.
LEMMA CutEntries ==
  ASSUME NEW S, NEW seq \in Seq(S), NEW m \in 1 .. Len(seq) + 1, NEW n \in 0 .. Len(seq)
  PROVE  /\ Entries(SubSeq(seq, m, n)) = {seq[i] : i \in m .. n}
         /\ NoRepeats(seq) => NoRepeats(SubSeq(seq, m, n))
<1> DEFINE cut == SubSeq(seq, m, n)
<1>1. /\ Len(seq) \in Nat /\ m \in Nat /\ n \in Nat /\ DOMAIN seq = 1 .. Len(seq)
      /\ \A i \in m .. n : i \in 1 .. Len(seq)
  BY LenProperties
<1>2. /\ DOMAIN cut = 1 .. Len(cut) /\ Len(cut) = IF m <= n THEN n - m + 1 ELSE 0
      /\ \A i \in 1 .. Len(cut) : cut[i] = seq[m + i - 1]
  <2>1. \A i \in m .. n : seq[i] \in S
    BY <1>1
  <2>2. /\ cut \in Seq(S) /\ Len(cut) = IF m <= n THEN n - m + 1 ELSE 0
        /\ \A i \in 1 .. Len(cut) : cut[i] = seq[m + i - 1]
    BY <1>1, <2>1, SubSeqProperties
  <2> QED
    BY <2>2, LenProperties
<1> HIDE DEF cut
<1>3. \A i \in 1 .. Len(cut) : m + i - 1 \in m .. n
  BY <1>1, <1>2
<1>4. \A i \in m .. n : i - m + 1 \in 1 .. Len(cut) /\ m + (i - m + 1) - 1 = i
  BY <1>1, <1>2
<1>5. Entries(cut) = {seq[i] : i \in m .. n}
  <2>1. \A e \in Entries(cut) : e \in {seq[i] : i \in m .. n}
    BY <1>2, <1>3 DEF Entries
  <2>2. ASSUME NEW i \in m .. n
        PROVE  seq[i] \in Entries(cut)
    <3>1. cut[i - m + 1] = seq[i]
      BY <1>2, <1>4
    <3> QED
      BY <1>2, <1>4, <3>1 DEF Entries
  <2> QED
    BY <2>1, <2>2
<1>6. ASSUME NoRepeats(seq)
      PROVE  NoRepeats(cut)
  <2>1. SUFFICES ASSUME NEW i \in 1 .. Len(cut), NEW j \in 1 .. Len(cut), cut[i] = cut[j]
                 PROVE  i = j
    BY <1>2 DEF NoRepeats
  <2>2. seq[m + i - 1] = seq[m + j - 1] /\ m + i - 1 \in DOMAIN seq /\ m + j - 1 \in DOMAIN seq
    BY <1>1, <1>2, <1>3, <2>1
  <2>3. m + i - 1 = m + j - 1
    BY <1>6, <2>2 DEF NoRepeats
  <2> QED
    BY <1>1, <1>2, <2>1, <2>3
<1> QED
  BY <1>5, <1>6 DEF cut

\* The queue without its first job.
LEMMA TailEntries ==
  ASSUME NEW S, NEW seq \in Seq(S), seq # << >>, NoRepeats(seq)
  PROVE  /\ Head(seq) \in Entries(seq) /\ NoRepeats(Tail(seq))
         /\ Entries(Tail(seq)) = Entries(seq) \ {Head(seq)}
<1>1. /\ Len(seq) \in Nat \ {0} /\ DOMAIN seq = 1 .. Len(seq)
      /\ Head(seq) = seq[1] /\ DOMAIN Tail(seq) = 1 .. Len(seq) - 1
      /\ \A i \in 1 .. Len(seq) - 1 : Tail(seq)[i] = seq[i + 1]
  BY HeadTailProperties, LenProperties, EmptySeq
<1>2. 1 \in DOMAIN seq /\ \A i \in 1 .. Len(seq) - 1 : i + 1 \in DOMAIN seq /\ i + 1 # 1
  BY <1>1
<1>3. \A i \in DOMAIN seq : i # 1 => i - 1 \in 1 .. Len(seq) - 1 /\ (i - 1) + 1 = i
  BY <1>1
<1>4. Head(seq) \in Entries(seq)
  BY <1>1, <1>2 DEF Entries
<1>5. NoRepeats(Tail(seq))
  <2>1. SUFFICES ASSUME NEW i \in 1 .. Len(seq) - 1, NEW j \in 1 .. Len(seq) - 1, seq[i + 1] = seq[j + 1]
                 PROVE  i = j
    BY <1>1 DEF NoRepeats
  <2>2. i + 1 = j + 1
    BY <1>2, <2>1 DEF NoRepeats
  <2> QED
    BY <1>1, <2>1, <2>2
<1>6. ASSUME NEW e \in Entries(Tail(seq))
      PROVE  e \in Entries(seq) \ {Head(seq)}
  <2>1. PICK i \in 1 .. Len(seq) - 1 : e = seq[i + 1]
    BY <1>1 DEF Entries
  <2>2. e # seq[1]
    BY <1>2, <2>1 DEF NoRepeats
  <2> QED
    BY <1>1, <1>2, <2>1, <2>2 DEF Entries
<1>7. ASSUME NEW e \in Entries(seq) \ {Head(seq)}
      PROVE  e \in Entries(Tail(seq))
  <2>1. PICK i \in DOMAIN seq : e = seq[i]
    BY DEF Entries
  <2>2. i # 1
    BY <1>1, <2>1
  <2>3. Tail(seq)[i - 1] = e
    BY <1>1, <1>3, <2>1, <2>2
  <2> QED
    BY <1>1, <1>3, <2>2, <2>3 DEF Entries
<1> QED
  BY <1>4, <1>5, <1>6, <1>7

\* The ledger after it has recorded a further delivery: the new entry is in, and
\* nothing that was not there before.
LEMMA EvictEntries ==
  ASSUME NEW order \in Seq(Delivery), NEW d \in Delivery,
         d \notin Entries(order), NoRepeats(order)
  PROVE  /\ d \in Entries(Evict(Append(order, d)))
         /\ Entries(Evict(Append(order, d))) \subseteq Entries(order) \cup {d}
         /\ NoRepeats(Evict(Append(order, d)))
<1> DEFINE longer == Append(order, d)
<1>1. /\ longer \in Seq(Delivery) /\ Len(longer) = Len(order) + 1 /\ Len(order) \in Nat
      /\ longer[Len(longer)] = d /\ DOMAIN longer = 1 .. Len(longer)
      /\ Entries(longer) = Entries(order) \cup {d} /\ NoRepeats(longer)
  BY AppendProperties, LenProperties, AppendEntries
<1>2. LedgerMax \in Nat \ {0}
  OBVIOUS
<1> HIDE DEF longer
<1>3. ASSUME Len(longer) > LedgerMax
      PROVE  /\ d \in Entries(Evict(longer)) /\ Entries(Evict(longer)) \subseteq Entries(longer)
             /\ NoRepeats(Evict(longer))
  <2> DEFINE m == Len(longer) - LedgerMax + 1
  <2>1. m \in 1 .. Len(longer) + 1 /\ Len(longer) \in 0 .. Len(longer) /\ Len(longer) \in m .. Len(longer)
    BY <1>1, <1>2, <1>3
  <2>2. \A i \in m .. Len(longer) : i \in DOMAIN longer
    BY <1>1, <1>2, <1>3
  <2>3. Evict(longer) = SubSeq(longer, m, Len(longer))
    BY <1>3 DEF Evict
  <2> HIDE DEF m
  <2>4. /\ Entries(Evict(longer)) = {longer[i] : i \in m .. Len(longer)}
        /\ NoRepeats(Evict(longer))
    <3>1. /\ Entries(SubSeq(longer, m, Len(longer))) = {longer[i] : i \in m .. Len(longer)}
          /\ NoRepeats(SubSeq(longer, m, Len(longer)))
      BY <1>1, <2>1, CutEntries
    <3> QED
      BY <2>3, <3>1
  <2>5. d \in Entries(Evict(longer))
    BY <1>1, <2>1, <2>4
  <2>6. Entries(Evict(longer)) \subseteq Entries(longer)
    BY <2>2, <2>4 DEF Entries
  <2> QED
    BY <2>4, <2>5, <2>6
<1>4. ASSUME ~(Len(longer) > LedgerMax)
      PROVE  /\ d \in Entries(Evict(longer)) /\ Entries(Evict(longer)) \subseteq Entries(longer)
             /\ NoRepeats(Evict(longer))
  BY <1>1, <1>4 DEF Evict
<1> QED
  BY <1>1, <1>3, <1>4 DEF longer

\* The ledger after it has removed a delivery: that one is gone, no other.
LEMMA WithoutEntries ==
  ASSUME NEW order \in Seq(Delivery), NEW d \in Entries(order), NoRepeats(order)
  PROVE  /\ Entries(Without(order, d)) = Entries(order) \ {d}
         /\ NoRepeats(Without(order, d))
<1> DEFINE i == CHOOSE i \in DOMAIN order : order[i] = d
           a == SubSeq(order, 1, i - 1)
           b == SubSeq(order, i + 1, Len(order))
<1>1. i \in 1 .. Len(order) /\ order[i] = d /\ Len(order) \in Nat /\ DOMAIN order = 1 .. Len(order)
  <2>1. \E j \in DOMAIN order : order[j] = d
    BY DEF Entries
  <2>2. i \in DOMAIN order /\ order[i] = d
    BY <2>1
  <2> QED
    BY <2>2, LenProperties
<1>2. Without(order, d) = a \o b
  BY DEF Without
<1> HIDE DEF i
<1>3. /\ 1 \in 1 .. Len(order) + 1 /\ i - 1 \in 0 .. Len(order)
      /\ i + 1 \in 1 .. Len(order) + 1 /\ Len(order) \in 0 .. Len(order)
  BY <1>1
<1>4. /\ Entries(a) = {order[j] : j \in 1 .. i - 1} /\ NoRepeats(a)
      /\ Entries(b) = {order[j] : j \in i + 1 .. Len(order)} /\ NoRepeats(b)
  BY <1>3, CutEntries
<1>5. /\ \A j \in 1 .. i - 1 : j \in DOMAIN order /\ j # i
      /\ \A j \in i + 1 .. Len(order) : j \in DOMAIN order /\ j # i
      /\ \A j \in 1 .. i - 1, k \in i + 1 .. Len(order) : j # k
      /\ \A j \in DOMAIN order : j = i \/ j \in 1 .. i - 1 \/ j \in i + 1 .. Len(order)
  BY <1>1
<1>6. Entries(a) \cup Entries(b) = Entries(order) \ {d}
  <2>1. \A e \in Entries(a) \cup Entries(b) : e \in Entries(order) /\ e # d
    BY <1>1, <1>4, <1>5 DEF Entries, NoRepeats
  <2>2. \A e \in Entries(order) : e # d => e \in Entries(a) \cup Entries(b)
    BY <1>1, <1>4, <1>5 DEF Entries
  <2> QED
    BY <2>1, <2>2
<1>7. Entries(a) \cap Entries(b) = {}
  <2>1. SUFFICES ASSUME NEW e \in Entries(a), e \in Entries(b)
                 PROVE  FALSE
    OBVIOUS
  <2>2. PICK j \in 1 .. i - 1 : e = order[j]
    BY <1>4
  <2>3. PICK k \in i + 1 .. Len(order) : e = order[k]
    BY <1>4, <2>1
  <2>4. j = k
    BY <1>5, <2>2, <2>3 DEF NoRepeats
  <2> QED
    BY <1>5, <2>4
<1>8. a \in Seq(Delivery) /\ b \in Seq(Delivery)
  <2>1. \A j \in DOMAIN order : order[j] \in Delivery
    BY <1>1
  <2>2. 1 \in Int /\ i - 1 \in Int /\ i + 1 \in Int /\ Len(order) \in Int
    BY <1>1
  <2> QED
    BY <1>5, <2>1, <2>2, SubSeqProperties
<1> HIDE DEF a, b
<1>9. /\ Len(a) \in Nat /\ Len(b) \in Nat /\ DOMAIN a = 1 .. Len(a) /\ DOMAIN b = 1 .. Len(b)
      /\ DOMAIN (a \o b) = 1 .. Len(a) + Len(b)
      /\ \A j \in 1 .. Len(a) + Len(b) : (a \o b)[j] = IF j <= Len(a) THEN a[j] ELSE b[j - Len(a)]
  BY <1>8, ConcatProperties, LenProperties
<1>10. /\ \A j \in 1 .. Len(a) : j \in 1 .. Len(a) + Len(b) /\ j <= Len(a)
       /\ \A j \in 1 .. Len(b) : /\ j + Len(a) \in 1 .. Len(a) + Len(b)
                                 /\ ~(j + Len(a) <= Len(a)) /\ (j + Len(a)) - Len(a) = j
       /\ \A j \in 1 .. Len(a) + Len(b) : IF j <= Len(a) THEN j \in 1 .. Len(a)
                                          ELSE j - Len(a) \in 1 .. Len(b)
  BY <1>9
<1>11. Entries(a \o b) = Entries(a) \cup Entries(b)
  <2>1. \A e \in Entries(a \o b) : e \in Entries(a) \cup Entries(b)
    BY <1>9, <1>10 DEF Entries
  <2>2. ASSUME NEW e \in Entries(a)
        PROVE  e \in Entries(a \o b)
    BY <1>9, <1>10 DEF Entries
  <2>3. ASSUME NEW e \in Entries(b)
        PROVE  e \in Entries(a \o b)
    <3>1. PICK j \in 1 .. Len(b) : e = b[j]
      BY <1>9 DEF Entries
    <3>2. (a \o b)[j + Len(a)] = e
      BY <1>9, <1>10, <3>1
    <3> QED
      BY <1>9, <1>10, <3>2 DEF Entries
  <2> QED
    BY <2>1, <2>2, <2>3
<1>12. NoRepeats(a \o b)
  <2>1. SUFFICES ASSUME NEW j \in 1 .. Len(a) + Len(b), NEW k \in 1 .. Len(a) + Len(b),
                        (a \o b)[j] = (a \o b)[k]
                 PROVE  j = k
    BY <1>9 DEF NoRepeats
  <2>2. CASE j <= Len(a) /\ k <= Len(a)
    BY <1>4, <1>9, <1>10, <2>1, <2>2 DEF NoRepeats
  <2>3. CASE ~(j <= Len(a)) /\ ~(k <= Len(a))
    <3>1. j - Len(a) = k - Len(a)
      BY <1>4, <1>9, <1>10, <2>1, <2>3 DEF NoRepeats
    <3> QED
      BY <1>9, <3>1
  <2>4. CASE j <= Len(a) /\ ~(k <= Len(a))
    <3>1. (a \o b)[j] \in Entries(a) /\ (a \o b)[k] \in Entries(b)
      <4>1. /\ (a \o b)[j] = a[j] /\ j \in 1 .. Len(a)
            /\ (a \o b)[k] = b[k - Len(a)] /\ k - Len(a) \in 1 .. Len(b)
        BY <1>9, <1>10, <2>4
      <4> QED
        BY <1>9, <4>1 DEF Entries
    <3> QED
      BY <1>7, <2>1, <3>1
  <2>5. CASE ~(j <= Len(a)) /\ k <= Len(a)
    <3>1. (a \o b)[j] \in Entries(b) /\ (a \o b)[k] \in Entries(a)
      <4>1. /\ (a \o b)[k] = a[k] /\ k \in 1 .. Len(a)
            /\ (a \o b)[j] = b[j - Len(a)] /\ j - Len(a) \in 1 .. Len(b)
        BY <1>9, <1>10, <2>5
      <4> QED
        BY <1>9, <4>1 DEF Entries
    <3> QED
      BY <1>7, <2>1, <3>1
  <2> QED
    BY <2>2, <2>3, <2>4, <2>5
<1> QED
  BY <1>2, <1>6, <1>11, <1>12

----------------------------------------------------------------------------
(* Job records move forward, and every open job is in somebody's hands.    *)

\* What ForwardOnly allows a step to do to the job records.
Forward ==
  \A r \in Req : jobs'[r] # jobs[r] =>
    \/ jobs[r] = "none" /\ jobs'[r] = "accepted"
    \/ jobs[r] \in Running /\ jobs'[r] \in Terminal
    \/ jobs[r] \in Running /\ jobs'[r] \in Running /\ statusRank[jobs'[r]] > statusRank[jobs[r]]
    \/ jobs[r] \in Terminal /\ jobs'[r] = "expired"

Located == Hands /\ Tended

\* The ranks of the open statuses are numbers, no two the same.
LEMMA RankFacts ==
  /\ \A a \in Running : statusRank[a] \in Nat
  /\ \A a, b \in Running : statusRank[a] = statusRank[b] => a = b
  /\ \A a \in {"accepted", "queued", "syncing"} : statusRank["building"] > statusRank[a]
BY DEF Running, statusRank

\* An open record is not a closed one, and neither is none or expired.
LEMMA StatusFacts ==
  /\ Running \cap Terminal = {}
  /\ "none" \notin Running \cup Terminal /\ "expired" \notin Running \cup Terminal
  /\ {"accepted", "queued", "syncing", "building", "deploying", "health_checking"} = Running
  /\ {"failed", "succeeded", "cancelled", "rolled_back", "interrupted"} = Terminal
BY DEF Running, Terminal

\* A status write moves its job forward or leaves it, and fails on record only.
LEMMA MarkMoves ==
  ASSUME jobs \in [Req -> JobStates], NEW r \in Req,
         NEW status \in Running \cup Terminal, Mark(r, status)
  PROVE  /\ Forward
         /\ \A s \in Req : s # r => jobs'[s] = jobs[s]
         /\ jobs'[r] = jobs[r] \/ (jobs'[r] = status /\ jobs[r] \in Running)
         /\ jobs[r] \in Running /\ status \in Terminal => jobs'[r] = status \/ "jobs" \in trouble'.failed
<1>1. \/ UNCHANGED jobs
      \/ MayMove(jobs[r], status) /\ jobs' = [jobs EXCEPT ![r] = status]
  BY DEF Mark
<1>2. Forward
  <2>1. CASE UNCHANGED jobs
    BY <2>1 DEF Forward
  <2>2. CASE MayMove(jobs[r], status) /\ jobs' = [jobs EXCEPT ![r] = status]
    <3>1. /\ jobs'[r] = status /\ jobs[r] \in Running
          /\ status \in Running => statusRank[status] >= statusRank[jobs[r]]
          /\ \A s \in Req : s # r => jobs'[s] = jobs[s]
      BY <2>2 DEF MayMove
    <3>2. status \in Running /\ status # jobs[r] => statusRank[status] > statusRank[jobs[r]]
      BY <3>1, RankFacts
    <3> QED
      BY <3>1, <3>2 DEF Forward
  <2> QED
    BY <1>1, <2>1, <2>2
<1>3. jobs[r] \in Running /\ status \in Terminal => jobs'[r] = status \/ "jobs" \in trouble'.failed
  BY StatusFacts DEF Mark, MayMove, Fails, Trouble
<1> QED
  BY <1>1, <1>2, <1>3 DEF MayMove

\* A write past a refused transition, of an open record to a later status.
LEMMA WriteMoves ==
  ASSUME jobs \in [Req -> JobStates], NEW r \in Req, jobs[r] \in Running,
         NEW status \in Running \cup Terminal, jobs' = [jobs EXCEPT ![r] = status],
         status \in Running => statusRank[status] > statusRank[jobs[r]]
  PROVE  /\ Forward
         /\ \A s \in Req : s # r => jobs'[s] = jobs[s]
         /\ jobs'[r] = status
BY DEF Forward

\* Retention only drops closed records.
LEMMA SweepKeeps ==
  ASSUME NEW js \in [Req -> JobStates]
  PROVE  \A s \in Req : \/ SweepRetention(js)[s] = js[s]
                        \/ js[s] \in Terminal /\ SweepRetention(js)[s] = "expired"
<1>1. \A r \in Stored(js) : r \in Req
  BY DEF Stored
<1> QED
  BY <1>1 DEF SweepRetention

\* What has failed stays on record.
LEMMA TroubleGrows ==
  ASSUME Next
  PROVE  trouble.failed \subseteq trouble'.failed
<1> USE DEF SeenOrRecord, LedgerUnavailable, DuplicateDelivery, RecordDelivery, RecordFails,
            Handler, CreateJob, Enqueue, ForgetUncreated, ForgetUnqueued, MarkQueueFailure, MarkQueued,
            Worker, TakeJob, DropJob, PrepareFails, Prepare, SpawnRebuild, WaitAborted,
            RebuildSucceeded, RebuildAbandoned, RebuildRetried, RebuildFailed, MarkProgress,
            Rebuild, RebuildLocks, RebuildDeploys, RebuildBreaks,
            Crash, Shutdown, CloseQueue, Exit, Restart, Gone, ManualStarts, ManualEnds
<1>1. UNCHANGED trouble \/ \E failed : Trouble(failed)
  <2>1. \A kind : Fails(kind) => \E failed : Trouble(failed)
    BY DEF Fails
  <2>2. \A r, status : Mark(r, status) => UNCHANGED trouble \/ Fails("jobs")
    BY DEF Mark
  <2>3. \A d : Remove(d) => UNCHANGED trouble \/ Fails("ledger")
    BY DEF Remove
  <2> QED
    BY <2>1, <2>2, <2>3 DEF Next
<1> QED
  BY <1>1 DEF Trouble

\* A failed write of a job record, or a failed look at the lock, may strand a job.
LEMMA StrandingFacts ==
  ASSUME trouble.failed \subseteq trouble'.failed
  PROVE  /\ Stranding => Stranding'
         /\ "jobs" \in trouble'.failed => Stranding'
         /\ "lock" \in trouble'.failed => Stranding'
BY DEF Stranding

\* Arrivals are nobody's job yet.
LEMMA SeenLocates ==
  ASSUME Types, Located, trouble.failed \subseteq trouble'.failed, NEW r \in Req, SeenOrRecord(r)
  PROVE  Located' /\ Forward
<1>1. /\ UNCHANGED <<daemon, jobs, queue, worker, sub>> /\ daemon = "up" /\ req[r].pc = "idle"
      /\ \A s \in Req : s # r => req'[s] = req[s]
      /\ req'[r].pc \in {"done", "recorded"}
  BY DEF SeenOrRecord, LedgerUnavailable, DuplicateDelivery, RecordDelivery, RecordFails, Answer,
         UnseenDelivery, Arrives, Types
<1>2. jobs[r] = "none" /\ r \notin Entries(queue) /\ worker.job # r /\ sub[r] = "none"
  BY <1>1 DEF Located, Hands, NotYetCreated, QueueHolds, WorkerHolds, BuiltLater
<1>3. Entries(queue) \subseteq Req
  BY DEF Types, Entries
<1>4. Hands'
  BY <1>1, <1>2, <1>3 DEF Located, Hands, NoRepeats, WorkerFree, DownEmpty, NotYetCreated,
                         WorkerHolds, QueueHolds, BuiltLater, Entries
<1>5. Tended'
  BY <1>1, <1>2, StrandingFacts, StatusFacts DEF Located, Tended, Entries
<1>6. Forward
  BY <1>1 DEF Forward
<1> QED
  BY <1>4, <1>5, <1>6 DEF Located

\* The durable record of an accepted request.
LEMMA CreateLocates ==
  ASSUME Types, Located, trouble.failed \subseteq trouble'.failed, NEW r \in Req, CreateJob(r)
  PROVE  Located' /\ Forward
<1>1. /\ UNCHANGED <<daemon, queue, worker, sub>> /\ req[r].pc = "recorded"
      /\ \A s \in Req : s # r => req'[s] = req[s]
  BY DEF CreateJob, Goto, Types
<1>2. jobs[r] = "none" /\ r \notin Entries(queue) /\ worker.job # r /\ sub[r] = "none" /\ daemon # "down"
  BY <1>1 DEF Located, Hands, NotYetCreated, QueueHolds, WorkerHolds, BuiltLater, DownEmpty
<1>3. Entries(queue) \subseteq Req
  BY DEF Types, Entries
<1>4. CASE req'[r].pc = "uncreated" /\ UNCHANGED jobs
  <2>1. Hands'
    BY <1>1, <1>2, <1>3, <1>4 DEF Located, Hands, NoRepeats, WorkerFree, DownEmpty, NotYetCreated,
                                 WorkerHolds, QueueHolds, BuiltLater, Entries
  <2>2. Tended'
    BY <1>1, <1>2, <1>4, StrandingFacts, StatusFacts DEF Located, Tended, Entries
  <2> QED
    BY <1>4, <2>1, <2>2 DEF Located, Forward
<1>5. CASE req'[r].pc = "created" /\ jobs' = SweepRetention([jobs EXCEPT ![r] = "accepted"])
  <2>1. /\ jobs'[r] = "accepted"
        /\ \A s \in Req : s # r => jobs'[s] = jobs[s] \/ (jobs[s] \in Terminal /\ jobs'[s] = "expired")
    <3> DEFINE js == [jobs EXCEPT ![r] = "accepted"]
    <3>1. js \in [Req -> JobStates] /\ js[r] = "accepted" /\ \A s \in Req : s # r => js[s] = jobs[s]
      BY DEF Types, JobStates, Running
    <3> HIDE DEF js
    <3>2. \A s \in Req : \/ SweepRetention(js)[s] = js[s]
                         \/ js[s] \in Terminal /\ SweepRetention(js)[s] = "expired"
      BY <3>1, SweepKeeps
    <3>3. jobs' = SweepRetention(js)
      BY <1>5 DEF js
    <3> QED
      BY <3>1, <3>2, <3>3, StatusFacts
  <2>2. \A s \in Req : s # r => /\ jobs[s] = "none" => jobs'[s] = "none"
                                /\ jobs[s] \in Running => jobs'[s] = jobs[s]
                                /\ jobs'[s] \in Running => jobs'[s] = jobs[s]
    BY <2>1, StatusFacts
  <2>3. NoRepeats(queue)' /\ WorkerFree' /\ DownEmpty' /\ NotYetCreated' /\ BuiltLater'
    BY <1>1, <1>2, <1>5, <2>1, <2>2, StatusFacts DEF Located, Hands, NoRepeats, WorkerFree, DownEmpty, NotYetCreated, BuiltLater
  <2>4. WorkerHolds'
    BY <1>1, <1>2, <2>2 DEF Located, Hands, WorkerHolds
  <2>5. QueueHolds'
    BY <1>1, <1>2, <1>3, <2>2, StatusFacts DEF Located, Hands, QueueHolds, Entries
  <2>6. Tended'
    BY <1>1, <1>5, <2>2, StrandingFacts DEF Located, Tended, Entries
  <2>7. Forward
    BY <1>2, <2>1 DEF Forward
  <2> QED
    BY <2>3, <2>4, <2>5, <2>6, <2>7 DEF Located, Hands
<1> QED
  BY <1>4, <1>5 DEF CreateJob, Goto, Types, Handlers

\* The queue takes the job, or refuses it.
LEMMA EnqueueLocates ==
  ASSUME Types, Located, trouble.failed \subseteq trouble'.failed, NEW r \in Req, Enqueue(r)
  PROVE  Located' /\ Forward
<1>1. /\ UNCHANGED <<daemon, jobs, worker, sub>> /\ req[r].pc = "created"
      /\ \A s \in Req : s # r => req'[s] = req[s]
  BY DEF Enqueue, Goto, Types
<1>2. r \notin Entries(queue) /\ worker.job # r /\ sub[r] = "none" /\ daemon # "down"
  BY <1>1 DEF Located, Hands, QueueHolds, WorkerHolds, BuiltLater, DownEmpty
<1>3. Entries(queue) \subseteq Req
  BY DEF Types, Entries
<1>4. CASE req'[r].pc = "unqueued" /\ UNCHANGED queue
  <2>1. Hands'
    BY <1>1, <1>2, <1>3, <1>4 DEF Located, Hands, NoRepeats, WorkerFree, DownEmpty, NotYetCreated,
                                 WorkerHolds, QueueHolds, BuiltLater, Entries
  <2>2. Tended'
    BY <1>1, <1>2, <1>4, StrandingFacts DEF Located, Tended, Entries
  <2> QED
    BY <1>1, <2>1, <2>2 DEF Located, Forward
<1>5. CASE req'[r].pc = "enqueued" /\ queue' = Append(queue, r)
  <2>1. Entries(queue') = Entries(queue) \cup {r} /\ NoRepeats(queue')
    BY <1>2, <1>5, AppendEntries DEF Types, Located, Hands
  <2>2. jobs[r] = "accepted"
    BY <1>1 DEF Located, Hands, NotYetCreated
  <2>3. NoRepeats(queue)' /\ WorkerFree' /\ DownEmpty' /\ NotYetCreated' /\ BuiltLater'
    BY <1>1, <1>2, <1>5, <2>1 DEF Located, Hands, NoRepeats, WorkerFree, DownEmpty, NotYetCreated, BuiltLater
  <2>4. WorkerHolds'
    BY <1>1, <1>2 DEF Located, Hands, WorkerHolds
  <2>5. QueueHolds'
    BY <1>1, <1>2, <1>3, <1>5, <2>1, <2>2 DEF Located, Hands, QueueHolds
  <2>6. Tended'
    BY <1>1, <2>1, StrandingFacts DEF Located, Tended
  <2> QED
    BY <1>1, <2>3, <2>4, <2>5, <2>6 DEF Located, Hands, Forward
<1> QED
  BY <1>4, <1>5 DEF Enqueue, Goto, Types, Handlers

\* A delivery is forgotten: its job, if there is one, is the handler's still.
LEMMA ForgetLocates ==
  ASSUME Types, Located, trouble.failed \subseteq trouble'.failed, NEW r \in Req,
         ForgetUncreated(r) \/ ForgetUnqueued(r)
  PROVE  Located' /\ Forward
<1>1. /\ UNCHANGED <<daemon, jobs, queue, worker, sub>>
      /\ \/ req[r].pc = "uncreated" /\ req'[r].pc = "done"
         \/ req[r].pc = "unqueued" /\ req'[r].pc = "rejecting"
      /\ \A s \in Req : s # r => req'[s] = req[s]
  BY DEF ForgetUncreated, ForgetUnqueued, Goto, Reply, Types, Handlers
<1>2. r \notin Entries(queue) /\ worker.job # r /\ sub[r] = "none" /\ daemon # "down"
  BY <1>1 DEF Located, Hands, QueueHolds, WorkerHolds, BuiltLater, DownEmpty
<1>3. Entries(queue) \subseteq Req
  BY DEF Types, Entries
<1>4. req[r].pc = "uncreated" => jobs[r] = "none"
  BY DEF Located, Hands, NotYetCreated
<1>5. Hands'
  BY <1>1, <1>2, <1>3 DEF Located, Hands, NoRepeats, WorkerFree, DownEmpty, NotYetCreated,
                         WorkerHolds, QueueHolds, BuiltLater, Entries
<1>6. Tended'
  BY <1>1, <1>4, StrandingFacts, StatusFacts DEF Located, Tended, Entries
<1> QED
  BY <1>1, <1>5, <1>6 DEF Located, Forward

\* The handler's last step closes a refused job, or notes that it is queued.
LEMMA AnswerLocates ==
  ASSUME Types, Located, trouble.failed \subseteq trouble'.failed, NEW r \in Req,
         MarkQueueFailure(r) \/ MarkQueued(r)
  PROVE  Located' /\ Forward
<1> DEFINE status == IF req[r].pc = "rejecting" THEN "failed" ELSE "queued"
<1>1. /\ UNCHANGED <<daemon, queue, worker, sub>>
      /\ req[r].pc \in {"rejecting", "enqueued"} /\ req'[r].pc = "done"
      /\ \A s \in Req : s # r => req'[s] = req[s]
      /\ Mark(r, status)
  BY DEF MarkQueueFailure, MarkQueued, Goto, Reply, Types, Handlers
<1>2. status \in Running \cup Terminal /\ (status \in Terminal <=> req[r].pc = "rejecting")
  BY <1>1, StatusFacts
<1> HIDE DEF status
<1>3. /\ Forward
      /\ \A s \in Req : s # r => jobs'[s] = jobs[s]
      /\ jobs'[r] = jobs[r] \/ (jobs'[r] = status /\ jobs[r] \in Running)
      /\ jobs[r] \in Running /\ status \in Terminal => jobs'[r] = status \/ "jobs" \in trouble'.failed
  BY <1>1, <1>2, MarkMoves DEF Types
<1>4. req[r].pc = "rejecting" => r \notin Entries(queue) /\ worker.job # r /\ sub[r] = "none"
  BY DEF Located, Hands, QueueHolds, WorkerHolds, BuiltLater
<1>5. daemon # "down"
  BY <1>1 DEF Located, Hands, DownEmpty
<1>6. Entries(queue) \subseteq Req
  BY DEF Types, Entries
<1>7. req[r].pc = "enqueued" => status = "queued"
  BY DEF status
<1>8. NoRepeats(queue)' /\ WorkerFree' /\ DownEmpty' /\ NotYetCreated' /\ BuiltLater'
  BY <1>1, <1>3, <1>4, <1>5 DEF Located, Hands, NoRepeats, WorkerFree, DownEmpty, NotYetCreated, BuiltLater
<1>9. WorkerHolds'
  BY <1>1, <1>3, <1>4, <1>7, StatusFacts DEF Located, Hands, WorkerHolds
<1>10. QueueHolds'
  BY <1>1, <1>3, <1>4, <1>6, <1>7 DEF Located, Hands, QueueHolds, Entries
<1>11. Tended'
  <2>1. SUFFICES ASSUME daemon \in {"up", "draining"}, ~Stranding', NEW s \in Req, jobs'[s] \in Running
                 PROVE  \/ req'[s].pc \in {"created", "unqueued", "rejecting"}
                        \/ s \in Entries(queue) \/ worker.job = s
    BY <1>1 DEF Tended, Entries
  <2>2. jobs[s] \in Running
    BY <1>3, <2>1
  <2>3. \/ req[s].pc \in {"created", "unqueued", "rejecting"}
        \/ s \in Entries(queue) \/ worker.job = s
    BY <2>1, <2>2, StrandingFacts DEF Located, Tended
  <2>4. ~(s = r /\ req[r].pc = "rejecting")
    BY <1>2, <1>3, <2>1, <2>2, StrandingFacts, StatusFacts
  <2> QED
    BY <1>1, <2>3, <2>4
<1> QED
  BY <1>3, <1>8, <1>9, <1>10, <1>11 DEF Located, Hands

\* The worker's job is over: closed, or left to the next start of the daemon.
LEMMA RoundEnds ==
  ASSUME Types, Located, trouble.failed \subseteq trouble'.failed, worker.job \in Req,
         UNCHANGED <<daemon, queue, req>>, worker' = NextRound,
         \A s \in Req : s # worker.job => jobs'[s] = jobs[s] /\ sub'[s] = sub[s],
         jobs'[worker.job] \in Running => Stranding' \/ daemon = "closing"
  PROVE  Located'
<1>1. /\ worker'.job = Nobody /\ worker'.pc \in {"select", "stopped"} /\ Nobody \notin Req
      /\ daemon # "down" /\ Entries(queue) \subseteq Req
  <2>1. daemon # "down"
    BY ReqFacts DEF Located, Hands, DownEmpty
  <2> QED
    BY <2>1, ReqFacts DEF NextRound, Idle, Types, Entries
<1>2. worker.job \notin Entries(queue) /\ req[worker.job].pc \in {"enqueued", "done"}
  BY DEF Located, Hands, QueueHolds, WorkerHolds
<1>3. NoRepeats(queue)' /\ WorkerFree' /\ DownEmpty' /\ NotYetCreated' /\ BuiltLater'
  BY <1>1, <1>2 DEF Located, Hands, NoRepeats, WorkerFree, DownEmpty, NotYetCreated, BuiltLater
<1>4. WorkerHolds' /\ QueueHolds'
  BY <1>1, <1>2 DEF Located, Hands, WorkerHolds, QueueHolds, Entries
<1>5. Tended'
  BY <1>1, StrandingFacts DEF Located, Tended, Entries
<1> QED
  BY <1>3, <1>4, <1>5 DEF Located, Hands

\* The worker goes on with its job, which stays open.
LEMMA WorkerGoesOn ==
  ASSUME Types, Located, trouble.failed \subseteq trouble'.failed, worker.job \in Req,
         UNCHANGED <<daemon, queue, req>>, worker'.job = worker.job, worker'.pc \in {"waiting", "running"},
         \A s \in Req : s # worker.job => jobs'[s] = jobs[s] /\ sub'[s] = sub[s],
         jobs'[worker.job] \in Running
  PROVE  Located'
<1>1. Nobody \notin Req /\ daemon # "down" /\ Entries(queue) \subseteq Req
  BY ReqFacts DEF Located, Hands, DownEmpty, Types, Entries
<1>2. worker.job \notin Entries(queue) /\ req[worker.job].pc \in {"enqueued", "done"}
  BY DEF Located, Hands, QueueHolds, WorkerHolds
<1>3. NoRepeats(queue)' /\ WorkerFree' /\ DownEmpty' /\ NotYetCreated' /\ BuiltLater'
  BY <1>1, <1>2 DEF Located, Hands, NoRepeats, WorkerFree, DownEmpty, NotYetCreated, BuiltLater
<1>4. WorkerHolds' /\ QueueHolds'
  BY <1>1, <1>2 DEF Located, Hands, WorkerHolds, QueueHolds, Entries
<1>5. Tended'
  BY <1>1, StrandingFacts DEF Located, Tended, Entries
<1> QED
  BY <1>3, <1>4, <1>5 DEF Located, Hands

\* The first job leaves the queue: to the worker, or cancelled by a closed queue.
LEMMA HeadLocates ==
  ASSUME Types, Located, trouble.failed \subseteq trouble'.failed, TakeJob \/ DropJob
  PROVE  Located' /\ Forward
<1> DEFINE h == Head(queue)
           status == IF TakeJob THEN "syncing" ELSE "cancelled"
<1>1. /\ UNCHANGED <<daemon, req, sub>> /\ queue # << >> /\ queue' = Tail(queue)
      /\ Mark(h, status) /\ worker.pc \in {"select", "stopped"}
      /\ \/ status = "syncing" /\ worker'.job = h /\ worker'.pc = "syncing"
         \/ status = "cancelled" /\ worker'.job = worker.job /\ worker'.pc = "stopped" /\ daemon = "closing"
  BY DEF TakeJob, DropJob, QueueClosed, Types, Workers
<1>2. status \in Running \cup Terminal
  BY StatusFacts
<1> HIDE DEF h, status
<1>3. /\ h \in Req /\ h \in Entries(queue) /\ Entries(queue') = Entries(queue) \ {h}
      /\ NoRepeats(queue') /\ Entries(queue) \subseteq Req
  <2>1. queue \in Seq(Req) /\ NoRepeats(queue)
    BY DEF Types, Located, Hands
  <2>2. /\ h \in Entries(queue) /\ Entries(Tail(queue)) = Entries(queue) \ {h} /\ NoRepeats(Tail(queue))
    BY <1>1, <2>1, TailEntries DEF h
  <2>3. Entries(queue) \subseteq Req
    BY <2>1 DEF Entries
  <2> QED
    BY <1>1, <2>2, <2>3
<1>4. worker.job = Nobody /\ Nobody \notin Req /\ daemon # "down"
  BY <1>1, ReqFacts DEF Located, Hands, WorkerFree, DownEmpty
<1>5. /\ Forward
      /\ \A s \in Req : s # h => jobs'[s] = jobs[s]
      /\ jobs'[h] = jobs[h] \/ (jobs'[h] = status /\ jobs[h] \in Running)
  BY <1>1, <1>2, <1>3, MarkMoves DEF Types
<1>6. req[h].pc \in {"enqueued", "done"} /\ jobs[h] \in {"accepted", "queued"} /\ sub[h] = "none"
  BY <1>3 DEF Located, Hands, QueueHolds
<1>7. NoRepeats(queue)' /\ WorkerFree' /\ DownEmpty' /\ NotYetCreated' /\ BuiltLater'
  BY <1>1, <1>3, <1>4, <1>5, <1>6 DEF Located, Hands, NoRepeats, WorkerFree, DownEmpty, NotYetCreated, BuiltLater
<1>8. WorkerHolds'
  BY <1>1, <1>4, <1>5, <1>6, StatusFacts DEF WorkerHolds
<1>9. QueueHolds'
  BY <1>1, <1>3, <1>4, <1>5 DEF Located, Hands, QueueHolds
<1>10. Tended'
  BY <1>1, <1>3, <1>4, <1>5, StrandingFacts DEF Located, Tended
<1> QED
  BY <1>5, <1>7, <1>8, <1>9, <1>10 DEF Located, Hands

\* The worker's other steps.
LEMMA WorkerLocates ==
  ASSUME Types, WorkerBusy, Located, trouble.failed \subseteq trouble'.failed, Worker
  PROVE  Located' /\ Forward
<1>1. CASE TakeJob \/ DropJob
  BY <1>1, HeadLocates
<1>2. ASSUME worker.pc \in {"syncing", "waiting", "running"}
      PROVE  worker.job \in Req /\ jobs[worker.job] \in Running
  BY <1>2 DEF WorkerBusy, Located, Hands, WorkerHolds
<1>3. \A s \in Req : s # worker.job => Reap(sub, worker.job)[s] = sub[s]
  BY DEF Reap, Types
<1>4. CASE PrepareFails
  <2>1. /\ Mark(worker.job, "failed") /\ UNCHANGED <<daemon, queue, req, sub>> /\ worker' = NextRound
        /\ worker.job \in Req /\ jobs[worker.job] \in Running
    BY <1>2, <1>4 DEF PrepareFails
  <2>2. /\ Forward
        /\ \A s \in Req : s # worker.job => jobs'[s] = jobs[s]
        /\ jobs'[worker.job] = "failed" \/ "jobs" \in trouble'.failed
    BY <2>1, MarkMoves, StatusFacts DEF Types
  <2> QED
    BY <2>1, <2>2, RoundEnds, StrandingFacts, StatusFacts
<1>5. CASE Prepare
  <2>1. /\ UNCHANGED <<daemon, queue, req, sub>> /\ worker'.pc = "waiting" /\ worker'.job = worker.job
        /\ worker.job \in Req /\ jobs[worker.job] \in {"accepted", "queued", "syncing"}
        /\ Mark(worker.job, "building") \/ jobs' = [jobs EXCEPT ![worker.job] = "building"]
    BY <1>2, <1>5 DEF Prepare, Types, Workers, Located, Hands, WorkerHolds
  <2>2. /\ Forward
        /\ \A s \in Req : s # worker.job => jobs'[s] = jobs[s]
        /\ jobs'[worker.job] \in Running
    <3>1. CASE Mark(worker.job, "building")
      BY <2>1, <3>1, MarkMoves, StatusFacts DEF Types
    <3>2. CASE jobs' = [jobs EXCEPT ![worker.job] = "building"]
      <4>1. /\ "building" \in Running /\ jobs[worker.job] \in Running
            /\ statusRank["building"] > statusRank[jobs[worker.job]]
        BY <2>1, RankFacts, StatusFacts
      <4> QED
        BY <2>1, <3>2, <4>1, WriteMoves DEF Types
    <3> QED
      BY <2>1, <3>1, <3>2
  <2> QED
    BY <2>1, <2>2, WorkerGoesOn
<1>6. CASE SpawnRebuild \/ RebuildRetried
  <2>1. /\ UNCHANGED <<daemon, queue, req, jobs>> /\ worker'.pc \in {"waiting", "running"}
        /\ worker'.job = worker.job /\ worker.job \in Req /\ jobs[worker.job] \in Running
        /\ \A s \in Req : s # worker.job => sub'[s] = sub[s]
    BY <1>2, <1>3, <1>6 DEF SpawnRebuild, RebuildRetried, Types, Workers
  <2> QED
    BY <2>1, WorkerGoesOn DEF Forward
<1>7. CASE WaitAborted \/ RebuildAbandoned
  <2>1. /\ UNCHANGED <<daemon, queue, req, jobs>> /\ worker' = NextRound
        /\ worker.job \in Req /\ jobs[worker.job] \in Running
        /\ \A s \in Req : s # worker.job => sub'[s] = sub[s]
        /\ "lock" \in trouble'.failed \/ daemon = "closing"
    BY <1>2, <1>3, <1>7 DEF WaitAborted, RebuildAbandoned, QueueClosed, Fails, Trouble
  <2> QED
    BY <2>1, RoundEnds, StrandingFacts DEF Forward
<1>8. CASE RebuildSucceeded
  <2>1. /\ UNCHANGED <<daemon, queue, req>> /\ worker' = NextRound /\ Mark(worker.job, "succeeded")
        /\ worker.job \in Req /\ jobs[worker.job] \in Running
        /\ \A s \in Req : s # worker.job => sub'[s] = sub[s]
    BY <1>2, <1>3, <1>8 DEF RebuildSucceeded
  <2>2. /\ Forward
        /\ \A s \in Req : s # worker.job => jobs'[s] = jobs[s]
        /\ jobs'[worker.job] = "succeeded" \/ "jobs" \in trouble'.failed
    BY <2>1, MarkMoves, StatusFacts DEF Types
  <2> QED
    BY <2>1, <2>2, RoundEnds, StrandingFacts, StatusFacts
<1>9. CASE RebuildFailed
  <2>1. /\ UNCHANGED <<daemon, queue, req>> /\ worker' = NextRound
        /\ worker.job \in Req /\ jobs[worker.job] \in Running
        /\ \A s \in Req : s # worker.job => sub'[s] = sub[s]
        /\ \E status \in {"rolled_back", "failed"} :
             Mark(worker.job, status) \/ jobs' = [jobs EXCEPT ![worker.job] = status]
    BY <1>2, <1>3, <1>9 DEF RebuildFailed
  <2>2. PICK status \in {"rolled_back", "failed"} :
             Mark(worker.job, status) \/ jobs' = [jobs EXCEPT ![worker.job] = status]
    BY <2>1
  <2>3. status \in Terminal /\ status \notin Running
    BY StatusFacts
  <2>4. /\ Forward
        /\ \A s \in Req : s # worker.job => jobs'[s] = jobs[s]
        /\ jobs'[worker.job] = status \/ "jobs" \in trouble'.failed
    <3>1. CASE Mark(worker.job, status)
      BY <2>1, <2>3, <3>1, MarkMoves DEF Types
    <3>2. CASE jobs' = [jobs EXCEPT ![worker.job] = status]
      BY <2>1, <2>3, <3>2, WriteMoves DEF Types
    <3> QED
      BY <2>2, <3>1, <3>2
  <2> QED
    BY <2>1, <2>3, <2>4, RoundEnds, StrandingFacts
<1> QED
  BY <1>1, <1>4, <1>5, <1>6, <1>7, <1>8, <1>9 DEF Worker

\* Progress of a rebuild is noted; the job stays where it is.
LEMMA ProgressLocates ==
  ASSUME Types, Located, trouble.failed \subseteq trouble'.failed, NEW r \in Req,
         NEW status \in {"deploying", "health_checking"}, MarkProgress(r, status)
  PROVE  Located' /\ Forward
<1>1. /\ UNCHANGED <<daemon, req, queue, worker, sub>> /\ sub[r] # "none"
      /\ Mark(r, status) /\ status \in Running
  BY StatusFacts DEF MarkProgress
<1>2. /\ Forward
      /\ \A s \in Req : s # r => jobs'[s] = jobs[s]
      /\ jobs'[r] = jobs[r] \/ (jobs'[r] \in Running /\ jobs[r] \in Running)
  BY <1>1, MarkMoves DEF Types
<1>3. /\ req[r].pc \in {"enqueued", "done"} /\ r \notin Entries(queue)
      /\ ~(worker.job = r /\ worker.pc = "syncing") /\ Entries(queue) \subseteq Req
  BY <1>1 DEF Located, Hands, BuiltLater, QueueHolds, WorkerHolds, Types, Entries
<1>4. NoRepeats(queue)' /\ WorkerFree' /\ DownEmpty' /\ NotYetCreated' /\ BuiltLater'
  BY <1>1, <1>2, <1>3 DEF Located, Hands, NoRepeats, WorkerFree, DownEmpty, NotYetCreated, BuiltLater
<1>5. WorkerHolds' /\ QueueHolds'
  BY <1>1, <1>2, <1>3 DEF Located, Hands, WorkerHolds, QueueHolds, Entries
<1>6. Tended'
  BY <1>1, <1>2, StrandingFacts DEF Located, Tended, Entries
<1> QED
  BY <1>2, <1>4, <1>5, <1>6 DEF Located, Hands

\* The rebuild processes and the operator move no job.
LEMMA OutsideLocates ==
  ASSUME Types, Located, trouble.failed \subseteq trouble'.failed,
         UNCHANGED <<daemon, req, jobs, queue, worker>>,
         \A r \in Req : sub[r] = "none" => sub'[r] = "none"
  PROVE  Located' /\ Forward
<1>1. Entries(queue) \subseteq Req
  BY DEF Types, Entries
<1>2. Hands'
  BY <1>1 DEF Located, Hands, NoRepeats, WorkerFree, DownEmpty, NotYetCreated,
              WorkerHolds, QueueHolds, BuiltLater, Entries
<1>3. Tended'
  BY StrandingFacts DEF Located, Tended, Entries
<1> QED
  BY <1>2, <1>3 DEF Located, Forward

\* The daemon's process ends, and with it handlers, queue and worker.
LEMMA GoneLocates ==
  ASSUME Types, Located, Gone
  PROVE  Located' /\ Forward
<1>1. /\ daemon' = "down" /\ queue' = << >> /\ worker'.job = Nobody /\ worker'.pc = "select"
      /\ UNCHANGED jobs /\ Nobody \notin Req
  BY ReqFacts DEF Gone, Idle
<1>2. \A s \in Req : \/ req[s].pc \in {"idle", "done"} /\ req'[s].pc = req[s].pc
                     \/ req[s].pc \notin {"idle", "done"} /\ req'[s].pc = "done"
  BY DEF Gone, Types, Handlers
<1>3. \A s \in Req : sub[s] = "none" => sub'[s] = "none"
  BY DEF Gone, Types, Reap, Workers
<1>4. Entries(<< >>) = {} /\ NoRepeats(<< >>)
  BY DEF Entries, NoRepeats
<1>5. WorkerFree' /\ DownEmpty' /\ NotYetCreated' /\ BuiltLater'
  BY <1>1, <1>2, <1>3 DEF Located, Hands, WorkerFree, DownEmpty, NotYetCreated, BuiltLater
<1>6. NoRepeats(queue)' /\ WorkerHolds' /\ QueueHolds'
  BY <1>1, <1>4 DEF WorkerHolds, QueueHolds
<1>7. Tended'
  BY <1>1 DEF Tended
<1> QED
  BY <1>1, <1>5, <1>6, <1>7 DEF Located, Hands, Forward

\* A shutdown begins, or goes on to close the queue.
LEMMA ClosingLocates ==
  ASSUME Types, Located, trouble.failed \subseteq trouble'.failed, Shutdown \/ CloseQueue
  PROVE  Located' /\ Forward
<1>1. /\ UNCHANGED <<req, jobs, queue, worker, sub>>
      /\ \/ daemon = "up" /\ daemon' = "draining"
         \/ daemon = "draining" /\ daemon' = "closing"
  BY DEF Shutdown, CloseQueue
<1>2. Hands'
  BY <1>1 DEF Located, Hands, NoRepeats, WorkerFree, DownEmpty, NotYetCreated,
              WorkerHolds, QueueHolds, BuiltLater, Entries
<1>3. Tended'
  BY <1>1, StrandingFacts DEF Located, Tended, Entries
<1> QED
  BY <1>1, <1>2, <1>3 DEF Located, Forward

\* The next start closes every open job.
LEMMA RestartLocates ==
  ASSUME Types, Located, trouble.failed \subseteq trouble'.failed, Restart
  PROVE  Located' /\ Forward
<1>1. /\ daemon = "down" /\ daemon' = "up" /\ UNCHANGED <<req, queue, worker, sub>>
      /\ queue = << >> /\ worker.job = Nobody /\ Nobody \notin Req
      /\ \A s \in Req : req[s].pc \in {"idle", "done"}
  BY ReqFacts DEF Restart, Located, Hands, DownEmpty
<1>2. \A s \in Req : Recovered(s) \in {"succeeded", "interrupted"}
  BY DEF Recovered
<1>3. /\ \A s \in Req : \/ jobs'[s] = jobs[s]
                        \/ jobs[s] \in Running /\ jobs'[s] \in Terminal
      /\ \/ \A s \in Req : jobs[s] \in Running => jobs'[s] \in Terminal
         \/ "jobs" \in trouble'.failed
  <2> DEFINE recovered == [s \in Req |-> IF s \in {r \in Req : jobs[r] \in Running}
                                         THEN Recovered(s) ELSE jobs[s]]
  <2>1. \A s \in Req : IF jobs[s] \in Running THEN recovered[s] \in Terminal ELSE recovered[s] = jobs[s]
    BY <1>2, StatusFacts
  <2>2. \/ jobs' = recovered
        \/ /\ "jobs" \in trouble'.failed
           /\ \E r \in Req : \E status \in {jobs[r], "interrupted"} :
                jobs[r] \in Running /\ jobs' = [recovered EXCEPT ![r] = status]
    BY DEF Restart, Fails, Trouble
  <2>3. recovered \in [Req -> {recovered[s] : s \in Req}]
    OBVIOUS
  <2> HIDE DEF recovered
  <2>4. CASE jobs' = recovered
    BY <2>1, <2>4
  <2>5. ASSUME "jobs" \in trouble'.failed, NEW r \in Req, NEW status \in {jobs[r], "interrupted"},
               jobs[r] \in Running, jobs' = [recovered EXCEPT ![r] = status]
        PROVE  /\ \A s \in Req : \/ jobs'[s] = jobs[s]
                                 \/ jobs[s] \in Running /\ jobs'[s] \in Terminal
               /\ "jobs" \in trouble'.failed
    BY <2>1, <2>3, <2>5, StatusFacts
  <2> QED
    BY <2>2, <2>4, <2>5
<1>4. Entries(<< >>) = {} /\ NoRepeats(<< >>)
  BY DEF Entries, NoRepeats
<1>5. WorkerFree' /\ DownEmpty' /\ NotYetCreated' /\ BuiltLater'
  BY <1>1, <1>3, StatusFacts DEF Located, Hands, WorkerFree, DownEmpty, NotYetCreated, BuiltLater
<1>6. NoRepeats(queue)' /\ WorkerHolds' /\ QueueHolds'
  BY <1>1, <1>4 DEF WorkerHolds, QueueHolds
<1>7. Tended'
  BY <1>1, <1>3, StrandingFacts, StatusFacts DEF Tended
<1>8. Forward
  BY <1>3 DEF Forward
<1> QED
  BY <1>5, <1>6, <1>7, <1>8 DEF Located, Hands

\* Every step keeps the jobs located and moves their records forward.
LEMMA NextLocates ==
  ASSUME Inv, Located, Next
  PROVE  Located' /\ Forward
<1>0. Types /\ WorkerBusy /\ trouble.failed \subseteq trouble'.failed
  BY TroubleGrows DEF Inv
<1>1. ASSUME NEW r \in Req, SeenOrRecord(r)
      PROVE  Located' /\ Forward
  BY <1>0, <1>1, SeenLocates
<1>2. ASSUME NEW r \in Req, Handler(r)
      PROVE  Located' /\ Forward
  BY <1>0, <1>2, CreateLocates, EnqueueLocates, ForgetLocates, AnswerLocates DEF Handler
<1>3. ASSUME NEW r \in Req, Rebuild(r)
      PROVE  Located' /\ Forward
  <2>1. /\ UNCHANGED <<daemon, req, jobs, queue, worker>>
        /\ \A s \in Req : sub[s] = "none" => sub'[s] = "none"
    BY <1>0, <1>3 DEF Rebuild, RebuildLocks, RebuildDeploys, RebuildBreaks, Ends, Types
  <2> QED
    BY <1>0, <2>1, OutsideLocates
<1>4. ASSUME NEW r \in Req, NEW status \in {"deploying", "health_checking"}, MarkProgress(r, status)
      PROVE  Located' /\ Forward
  BY <1>0, <1>4, ProgressLocates
<1>5. CASE Worker
  BY <1>0, <1>5, WorkerLocates
<1>6. CASE Crash \/ Exit
  BY <1>0, <1>6, GoneLocates DEF Crash, Exit
<1>7. CASE Shutdown \/ CloseQueue
  BY <1>0, <1>7, ClosingLocates
<1>8. CASE Restart
  BY <1>0, <1>8, RestartLocates
<1>9. CASE ManualStarts \/ ManualEnds
  <2>1. UNCHANGED <<daemon, req, jobs, queue, worker, sub>>
    BY <1>9 DEF ManualStarts, ManualEnds
  <2> QED
    BY <1>0, <2>1, OutsideLocates
<1> QED
  BY <1>1, <1>2, <1>3, <1>4, <1>5, <1>6, <1>7, <1>8, <1>9 DEF Next

\* At first there are no jobs.
LEMMA InitLocates == Init => Located
<1> SUFFICES ASSUME Init PROVE Located
  OBVIOUS
<1>1. Entries(<< >>) = {} /\ NoRepeats(<< >>) /\ Nobody \notin Req
  BY ReqFacts DEF Entries, NoRepeats
<1> QED
  BY <1>1, StatusFacts DEF Init, Idle, Located, Hands, WorkerFree, DownEmpty, NotYetCreated,
                           WorkerHolds, QueueHolds, BuiltLater, Tended

\* The jobs stay located in every behaviour.
LEMMA JobsLocated == Spec => [](Inv /\ Located)
<1>1. Inv /\ Located /\ [Next]_vars => (Inv /\ Located)'
  <2>1. ASSUME Inv, Located, UNCHANGED vars
        PROVE  (Inv /\ Located)'
    <3>1. UNCHANGED <<daemon, req, jobs, queue, worker, sub, trouble>>
      BY <2>1 DEF vars
    <3>2. Located'
      BY <2>1, <3>1, OutsideLocates DEF Inv
    <3> QED
      BY <2>1, <3>2, StutterInv
  <2> QED
    BY <2>1, NextInv, NextLocates
<1> QED
  BY <1>1, InitInv, InitLocates, PTL DEF Spec

\* While the daemon runs and no write of a job record or look at the deploy lock
\* has failed, every open job is in the hands of its handler, the queue or the
\* worker, however many requests, workers' rounds, crashes and restarts there were.
THEOREM NobodyStranded == Spec => []NoStrandedJob
<1>1. Inv /\ Located => NoStrandedJob
  BY DEF Located, Tended, NoStrandedJob
<1> QED
  BY <1>1, JobsLocated, PTL

\* JobStore: the records of all jobs only move forward, closed ones are final and
\* only they expire, whichever of handler, worker, stage detector, restart recovery
\* and retention writes next.
THEOREM JobsMoveForward == Spec => ForwardOnly
<1>1. Inv /\ Located /\ [Next]_vars =>
        [\A r \in Req : jobs'[r] # jobs[r] =>
           \/ jobs[r] = "none" /\ jobs'[r] = "accepted"
           \/ jobs[r] \in Running /\ jobs'[r] \in Terminal
           \/ jobs[r] \in Running /\ jobs'[r] \in Running /\ statusRank[jobs'[r]] > statusRank[jobs[r]]
           \/ jobs[r] \in Terminal /\ jobs'[r] = "expired"]_vars
  BY NextLocates DEF Forward
<1> QED
  BY <1>1, JobsLocated, PTL DEF Spec, ForwardOnly

----------------------------------------------------------------------------
(* The delivery ledger remembers what has a handler or a job.              *)

\* Steps that change no entry on disk, evict nothing, and let nobody become the
\* holder of an entry or give one up, unless the daemon's end cuts it off.
LEMMA HoldersMove ==
  ASSUME Types, Memory, trouble.failed \subseteq trouble'.failed,
         ledger'.disk = ledger.disk, LedgerAgrees', EnqueuedKnown',
         hist'.outdated = hist.outdated, hist'.overrun = hist.overrun,
         \A s \in Req : /\ req'[s].delivery = req[s].delivery
                        /\ req'[s].pc = "idle" <=> req[s].pc = "idle"
                        /\ Holder(s)' => Holder(s)
                        /\ InFlight(s)' => InFlight(s)
                        /\ Holder(s) => Holder(s)' \/ req'[s].reply = "lost"
                        /\ req[s].reply = "lost" => req'[s].reply = "lost" \/ Holder(s)'
  PROVE  Memory'
<1>1. OneDelivery'
  BY DEF Memory, OneDelivery
<1>2. OutdatedKnown'
  <2>1. hist.outdated \subseteq Req
    BY DEF Types, Histories
  <2> QED
    BY <2>1 DEF Memory, OutdatedKnown
<1>3. HoldersRecorded'
  BY DEF Memory, HoldersRecorded
<1>4. OneHolder'
  BY DEF Memory, OneHolder
<1>5. EntriesOwned'
  <2>1. SUFFICES ASSUME "ledger" \notin trouble'.failed, NEW d \in Entries(ledger.disk)
                 PROVE  \E r \in For(d)' : Holder(r)' \/ req'[r].reply = "lost"
    BY DEF EntriesOwned
  <2>2. PICK r \in For(d) : Holder(r) \/ req[r].reply = "lost"
    BY <2>1 DEF Memory, EntriesOwned
  <2>3. r \in Req /\ r \in For(d)'
    BY <2>2 DEF For
  <2> QED
    BY <2>2, <2>3
<1> QED
  BY <1>1, <1>2, <1>3, <1>4, <1>5 DEF Memory

\* Steps of the daemon and its surroundings that leave handlers and ledger alone.
LEMMA FrameRemembers ==
  ASSUME Types, Memory, trouble.failed \subseteq trouble'.failed, UNCHANGED <<req, ledger>>,
         hist'.enqueued = hist.enqueued, hist'.outdated = hist.outdated, hist'.overrun = hist.overrun
  PROVE  Memory'
<1>1. LedgerAgrees' /\ EnqueuedKnown'
  BY DEF Memory, LedgerAgrees, NoRepeats, EnqueuedKnown
<1>2. \A s \in Req : (Holder(s)' <=> Holder(s)) /\ (InFlight(s)' <=> InFlight(s))
  BY DEF Holder, InFlight
<1> QED
  BY <1>1, <1>2, HoldersMove

\* The handler's steps between the record and the reply.
LEMMA HandlerRemembers ==
  ASSUME Types, Memory, trouble.failed \subseteq trouble'.failed, NEW r \in Req,
         CreateJob(r) \/ Enqueue(r) \/ MarkQueueFailure(r) \/ MarkQueued(r)
  PROVE  Memory'
<1>1. /\ UNCHANGED ledger /\ hist'.outdated = hist.outdated /\ hist'.overrun = hist.overrun
      /\ hist'.enqueued = IF req'[r].pc = "enqueued" THEN hist.enqueued \cup {r} ELSE hist.enqueued
      /\ \A s \in Req : s # r => req'[s] = req[s]
      /\ req'[r].delivery = req[r].delivery
      /\ \/ /\ \/ req[r].pc = "recorded" /\ req'[r].pc \in {"created", "uncreated"}
               \/ req[r].pc = "created" /\ req'[r].pc \in {"unqueued", "enqueued"}
            /\ req'[r].reply = req[r].reply
         \/ req[r].pc \in {"rejecting", "enqueued"} /\ req'[r].pc = "done" /\ req'[r].reply # "lost"
  <2>1. CASE CreateJob(r)
    BY <2>1 DEF CreateJob, Goto, Types, Handlers, Histories
  <2>2. CASE Enqueue(r)
    <3>1. \/ Goto(r, "unqueued") /\ UNCHANGED hist
          \/ Goto(r, "enqueued") /\ hist' = [hist EXCEPT !.enqueued = hist.enqueued \cup {r}]
      BY <2>2 DEF Enqueue
    <3>2. UNCHANGED ledger /\ req[r].pc = "created"
      BY <2>2 DEF Enqueue
    <3>3. CASE Goto(r, "unqueued") /\ UNCHANGED hist
      BY <3>2, <3>3 DEF Goto, Types, Handlers
    <3>4. CASE Goto(r, "enqueued") /\ hist' = [hist EXCEPT !.enqueued = hist.enqueued \cup {r}]
      <4>1. /\ hist'.outdated = hist.outdated /\ hist'.overrun = hist.overrun
            /\ hist'.enqueued = hist.enqueued \cup {r}
        BY <3>4 DEF Types, Histories
      <4>2. /\ req'[r].pc = "enqueued" /\ req'[r].delivery = req[r].delivery /\ req'[r].reply = req[r].reply
            /\ \A s \in Req : s # r => req'[s] = req[s]
        BY <3>4 DEF Goto, Types, Handlers
      <4> QED
        BY <3>2, <4>1, <4>2
    <3> QED
      BY <3>1, <3>3, <3>4
  <2>3. CASE MarkQueueFailure(r)
    BY <2>3 DEF MarkQueueFailure, Reply, Types, Handlers, Histories
  <2>4. CASE MarkQueued(r)
    BY <2>4 DEF MarkQueued, Reply, Types, Handlers, Histories
  <2> QED
    BY <2>1, <2>2, <2>3, <2>4
<1>2. LedgerAgrees' /\ EnqueuedKnown'
  BY <1>1 DEF Memory, LedgerAgrees, NoRepeats, EnqueuedKnown
<1>3. \A s \in Req : /\ req'[s].delivery = req[s].delivery
                     /\ req'[s].pc = "idle" <=> req[s].pc = "idle"
                     /\ Holder(s)' => Holder(s)
                     /\ InFlight(s)' => InFlight(s)
                     /\ Holder(s) => Holder(s)'
                     /\ req[s].reply = "lost" => req'[s].reply = "lost"
  BY <1>1 DEF Memory, EnqueuedKnown, Holder, InFlight
<1> QED
  BY <1>1, <1>2, <1>3, HoldersMove

\* The daemon's end cuts the handlers off and leaves the file.
LEMMA GoneRemembers ==
  ASSUME Types, Memory, trouble.failed \subseteq trouble'.failed, Gone
  PROVE  Memory'
<1>1. /\ UNCHANGED <<ledger, hist>>
      /\ \A s \in Req : \/ req[s].pc \in {"idle", "done"} /\ req'[s] = req[s]
                        \/ /\ req[s].pc \notin {"idle", "done"} /\ req'[s].delivery = req[s].delivery
                           /\ req'[s].pc = "done" /\ req'[s].reply = "lost"
  BY DEF Gone, Types, Handlers
<1>2. LedgerAgrees' /\ EnqueuedKnown'
  BY <1>1 DEF Memory, LedgerAgrees, NoRepeats, EnqueuedKnown
<1>3. \A s \in Req : /\ req'[s].delivery = req[s].delivery
                     /\ req'[s].pc = "idle" <=> req[s].pc = "idle"
                     /\ Holder(s)' => Holder(s)
                     /\ InFlight(s)' => InFlight(s)
                     /\ Holder(s) => Holder(s)' \/ req'[s].reply = "lost"
                     /\ req[s].reply = "lost" => req'[s].reply = "lost"
  BY <1>1 DEF Memory, EnqueuedKnown, Holder, InFlight
<1> QED
  BY <1>1, <1>2, <1>3, HoldersMove

\* The next start reads the file.
LEMMA RestartRemembers ==
  ASSUME Types, LedgerTypes, Memory, trouble.failed \subseteq trouble'.failed, Restart
  PROVE  Memory'
<1>1. /\ UNCHANGED <<req, hist>> /\ ledger'.disk = ledger.disk /\ ledger'.mem = ledger.disk
      /\ ledger'.err = FALSE
  BY DEF Restart, LedgerTypes
<1>2. LedgerAgrees' /\ EnqueuedKnown'
  BY <1>1 DEF Memory, LedgerAgrees, NoRepeats, EnqueuedKnown
<1>3. \A s \in Req : (Holder(s)' <=> Holder(s)) /\ (InFlight(s)' <=> InFlight(s))
  BY <1>1 DEF Holder, InFlight
<1> QED
  BY <1>1, <1>2, <1>3, HoldersMove

\* A removal takes its delivery out of the file and no other; when that fails the
\* failure is on record, and the file is as before or without the delivery.
LEMMA RemoveFacts ==
  ASSUME LedgerTypes, LedgerAgrees, trouble.failed \subseteq trouble'.failed, NEW d, Remove(d)
  PROVE  /\ LedgerAgrees'
         /\ Entries(ledger'.disk) \subseteq Entries(ledger.disk)
         /\ Entries(ledger.disk) \ {d} \subseteq Entries(ledger'.disk)
         /\ "ledger" \notin trouble'.failed => d \notin Entries(ledger'.disk)
<1>0. /\ ledger \in [mem : Seq(Delivery), disk : Seq(Delivery), err : BOOLEAN]
      /\ ledger.mem \in Seq(Delivery) /\ ledger.disk \in Seq(Delivery)
      /\ ~ledger.err => ledger.mem = ledger.disk
      /\ ledger.err => "ledger" \in trouble.failed
      /\ NoRepeats(ledger.disk)
  BY DEF LedgerTypes, LedgerAgrees
<1>1. CASE UNCHANGED ledger /\ (ledger.err \/ d \notin Entries(ledger.mem))
  BY <1>0, <1>1 DEF LedgerAgrees
<1>2. CASE ~ledger.err /\ d \in Entries(ledger.mem)
  <2> DEFINE order == Without(ledger.mem, d)
  <2>1. ledger.mem = ledger.disk
    BY <1>0, <1>2
  <2>2. Entries(order) = Entries(ledger.disk) \ {d} /\ NoRepeats(order)
    BY <1>0, <1>2, <2>1, WithoutEntries
  <2>3. \/ ledger' = [ledger EXCEPT !.mem = order, !.disk = order]
        \/ /\ "ledger" \in trouble'.failed
           /\ \E disk \in {ledger.disk, order} : ledger' = [mem |-> order, disk |-> disk, err |-> TRUE]
    BY <1>2 DEF Remove, Fails, Trouble
  <2> HIDE DEF order
  <2>4. CASE ledger' = [ledger EXCEPT !.mem = order, !.disk = order]
    <3>1. ledger'.mem = order /\ ledger'.disk = order /\ ledger'.err = ledger.err
      BY <1>0, <2>4
    <3> QED
      BY <1>2, <2>2, <3>1 DEF LedgerAgrees
  <2>5. ASSUME "ledger" \in trouble'.failed, NEW disk \in {ledger.disk, order},
               ledger' = [mem |-> order, disk |-> disk, err |-> TRUE]
        PROVE  /\ LedgerAgrees'
               /\ Entries(ledger'.disk) \subseteq Entries(ledger.disk)
               /\ Entries(ledger.disk) \ {d} \subseteq Entries(ledger'.disk)
    <3>1. ledger'.disk = disk /\ ledger'.err = TRUE
      BY <2>5
    <3> QED
      BY <1>0, <2>2, <2>5, <3>1 DEF LedgerAgrees
  <2> QED
    BY <2>3, <2>4, <2>5
<1> QED
  BY <1>1, <1>2 DEF Remove

\* A refused delivery is forgotten by the handler that recorded it.
LEMMA ForgetRemembers ==
  ASSUME Types, LedgerTypes, Memory, trouble.failed \subseteq trouble'.failed, NEW r \in Req,
         ForgetUncreated(r) \/ ForgetUnqueued(r)
  PROVE  Memory'
<1>1. PICK d \in req[r].delivery : Remove(d)
  BY DEF ForgetUncreated, ForgetUnqueued
<1>2. /\ UNCHANGED hist /\ req[r].pc \in {"uncreated", "unqueued"}
      /\ \A s \in Req : s # r => req'[s] = req[s]
      /\ req'[r].delivery = req[r].delivery /\ req'[r].pc \in {"done", "rejecting"}
      /\ req'[r].reply \in {req[r].reply, "refused"}
  <2>1. CASE ForgetUncreated(r)
    BY <2>1 DEF ForgetUncreated, Reply, Types, Handlers
  <2>2. CASE ForgetUnqueued(r)
    BY <2>2 DEF ForgetUnqueued, Goto, Types, Handlers
  <2> QED
    BY <2>1, <2>2
<1>3. req[r].delivery = {d}
  BY <1>1, <1>2 DEF Memory, OneDelivery
<1>4. r \notin hist.enqueued /\ InFlight(r) /\ Holder(r) /\ ~InFlight(r)' /\ ~Holder(r)' /\ req'[r].reply # "lost"
  BY <1>2 DEF Memory, EnqueuedKnown, InFlight, Holder
<1>5. \A s \in Req : s # r => (Holder(s)' <=> Holder(s)) /\ (InFlight(s)' <=> InFlight(s))
  BY <1>2 DEF Holder, InFlight
<1>6. /\ LedgerAgrees'
      /\ Entries(ledger'.disk) \subseteq Entries(ledger.disk)
      /\ Entries(ledger.disk) \ {d} \subseteq Entries(ledger'.disk)
      /\ "ledger" \notin trouble'.failed => d \notin Entries(ledger'.disk)
  BY <1>1, RemoveFacts DEF Memory
<1>7. OneDelivery' /\ EnqueuedKnown'
  BY <1>2, <1>4 DEF Memory, OneDelivery, EnqueuedKnown
<1>8. OutdatedKnown'
  <2>1. hist.outdated \subseteq Req
    BY DEF Types, Histories
  <2> QED
    BY <1>2, <1>4, <1>5, <2>1 DEF Memory, OutdatedKnown
<1>9. HoldersRecorded'
  <2>1. SUFFICES ASSUME NEW s \in Req, Holder(s)', s \notin hist.outdated, NEW e \in req'[s].delivery
                 PROVE  e \in Entries(ledger'.disk) \cup hist.overrun
    BY <1>2 DEF HoldersRecorded
  <2>2. s # r /\ Holder(s) /\ req'[s] = req[s]
    BY <1>2, <1>4, <1>5, <2>1
  <2>3. e \in Entries(ledger.disk) \cup hist.overrun
    BY <2>1, <2>2 DEF Memory, HoldersRecorded
  <2>4. ASSUME e = d
        PROVE  d \in hist.overrun
    <3>1. req[s].delivery = req[r].delivery
      <4>1. req[s].pc # "idle"
        BY <2>1, <2>2 DEF Memory, OneDelivery
      <4> QED
        BY <1>3, <2>1, <2>2, <2>4, <4>1 DEF Memory, OneDelivery
    <3>2. CASE r \in hist.outdated
      BY <1>3, <1>4, <3>2 DEF Memory, OutdatedKnown
    <3>3. CASE r \notin hist.outdated
      BY <1>3, <1>4, <2>1, <2>2, <3>1, <3>3 DEF Memory, OneHolder
    <3> QED
      BY <3>2, <3>3
  <2> QED
    BY <1>6, <2>3, <2>4
<1>10. OneHolder'
  BY <1>2, <1>4, <1>5 DEF Memory, OneHolder
<1>11. EntriesOwned'
  <2>1. SUFFICES ASSUME "ledger" \notin trouble'.failed, NEW e \in Entries(ledger'.disk)
                 PROVE  \E s \in For(e)' : Holder(s)' \/ req'[s].reply = "lost"
    BY DEF EntriesOwned
  <2>2. e # d /\ e \in Entries(ledger.disk) /\ "ledger" \notin trouble.failed
    BY <1>6, <2>1
  <2>3. PICK s \in For(e) : Holder(s) \/ req[s].reply = "lost"
    BY <2>2 DEF Memory, EntriesOwned
  <2>4. s \in Req /\ s # r /\ s \in For(e)'
    BY <1>2, <1>3, <2>2, <2>3 DEF For
  <2> QED
    BY <1>2, <1>5, <2>3, <2>4
<1> QED
  BY <1>6, <1>7, <1>8, <1>9, <1>10, <1>11 DEF Memory

\* What an eviction notes of each request and of each delivery.
LEMMA EvictingNotes ==
  ASSUME hist \in Histories, NEW old, NEW new, Evicting(old, new)
  PROVE  /\ hist'.enqueued = hist.enqueued
         /\ \A s : s \in hist'.outdated <=>
              \/ s \in hist.outdated
              \/ s \in Req /\ \E e \in Entries(old) \ Entries(new) : req[s].delivery = {e}
         /\ \A e : e \in hist'.overrun <=>
              \/ e \in hist.overrun
              \/ /\ e \in Entries(old) \ Entries(new)
                 /\ \E s \in Req : req[s].delivery = {e} /\ InFlight(s)
<1> DEFINE gone == Entries(old) \ Entries(new)
           lost == UNION {For(d) : d \in gone}
           cut == {d \in gone : \E r \in For(d) : InFlight(r)}
<1>1. hist' = [hist EXCEPT !.outdated = hist.outdated \cup lost, !.overrun = hist.overrun \cup cut]
  BY DEF Evicting
<1>2. \A s : s \in lost <=> s \in Req /\ \E e \in gone : req[s].delivery = {e}
  BY DEF For
<1>3. \A e : e \in cut <=> e \in gone /\ \E s \in Req : req[s].delivery = {e} /\ InFlight(s)
  BY DEF For
<1> HIDE DEF lost, cut
<1>4. /\ hist'.enqueued = hist.enqueued /\ hist'.outdated = hist.outdated \cup lost
      /\ hist'.overrun = hist.overrun \cup cut
  BY <1>1 DEF Histories
<1> QED
  BY <1>2, <1>3, <1>4

\* A request arrives; its delivery may get an entry, at the expense of others.
LEMMA ArrivalRemembers ==
  ASSUME Types, Memory, trouble.failed \subseteq trouble'.failed, NEW r \in Req, NEW d \in Delivery,
         req[r].pc = "idle", \A s \in Req : s # r => req'[s] = req[s],
         req'[r].delivery = {d}, req'[r].pc \in {"recorded", "done"}, req'[r].reply # "lost",
         LedgerAgrees', Entries(ledger'.disk) \subseteq Entries(ledger.disk) \cup {d},
         req'[r].pc = "recorded" => d \in Entries(ledger'.disk) /\ d \notin Entries(ledger.disk),
         \/ req'[r].pc = "recorded" \/ "ledger" \in trouble'.failed
         \/ ledger'.disk = ledger.disk,
         \/ UNCHANGED hist /\ ledger'.disk = ledger.disk
         \/ Evicting(ledger.disk, ledger'.disk)
  PROVE  Memory'
<1> DEFINE gone == Entries(ledger.disk) \ Entries(ledger'.disk)
<1>1. /\ hist'.enqueued = hist.enqueued
      /\ \A s : s \in hist'.outdated <=>
           \/ s \in hist.outdated
           \/ s \in Req /\ \E e \in gone : req[s].delivery = {e}
      /\ \A e : e \in hist'.overrun <=>
           \/ e \in hist.overrun
           \/ e \in gone /\ \E s \in Req : req[s].delivery = {e} /\ InFlight(s)
  <2>1. CASE UNCHANGED hist /\ ledger'.disk = ledger.disk
    BY <2>1
  <2>2. CASE Evicting(ledger.disk, ledger'.disk)
    BY <2>2, EvictingNotes DEF Types
  <2> QED
    BY <2>1, <2>2
<1> HIDE DEF gone
<1>2. req[r].delivery = {} /\ r \notin hist.enqueued /\ r \notin hist.outdated /\ r \notin hist'.outdated
  <2>1. req[r].delivery = {} /\ r \notin hist.enqueued /\ r \notin hist.outdated
    BY DEF Memory, OneDelivery, EnqueuedKnown, OutdatedKnown
  <2> QED
    BY <1>1, <2>1
<1>3. /\ \A s \in Req : s # r => (Holder(s)' <=> Holder(s)) /\ (InFlight(s)' <=> InFlight(s))
      /\ Holder(r)' <=> req'[r].pc = "recorded"
  BY <1>1, <1>2 DEF Holder, InFlight
<1>4. OneDelivery' /\ EnqueuedKnown'
  BY <1>1, <1>2 DEF Memory, OneDelivery, EnqueuedKnown
<1>5. OutdatedKnown'
  <2>1. SUFFICES ASSUME NEW s \in hist'.outdated
                 PROVE  req'[s].pc # "idle" /\ (InFlight(s)' => req'[s].delivery \subseteq hist'.overrun)
    BY DEF OutdatedKnown
  <2>2. s # r /\ s \in Req
    BY <1>1, <1>2 DEF Types, Histories
  <2>3. CASE s \in hist.outdated
    BY <1>1, <1>3, <2>2, <2>3 DEF Memory, OutdatedKnown
  <2>4. ASSUME NEW e \in gone, req[s].delivery = {e}
        PROVE  req'[s].pc # "idle" /\ (InFlight(s)' => req'[s].delivery \subseteq hist'.overrun)
    <3>1. req[s].pc # "idle"
      BY <2>2, <2>4 DEF Memory, OneDelivery
    <3>2. InFlight(s) => e \in hist'.overrun
      BY <1>1, <2>2, <2>4
    <3> QED
      BY <1>3, <2>2, <2>4, <3>1, <3>2
  <2> QED
    BY <1>1, <2>3, <2>4
<1>6. HoldersRecorded'
  <2>1. SUFFICES ASSUME NEW s \in Req, Holder(s)', s \notin hist'.outdated
                 PROVE  req'[s].delivery \subseteq Entries(ledger'.disk) \cup hist'.overrun
    BY DEF HoldersRecorded
  <2>2. CASE s = r
    BY <1>3, <2>1, <2>2
  <2>3. CASE s # r
    <3>1. /\ Holder(s) /\ s \notin hist.outdated /\ req'[s] = req[s]
          /\ req[s].delivery \subseteq Entries(ledger.disk) \cup hist.overrun
      BY <1>1, <1>3, <2>1, <2>3 DEF Memory, HoldersRecorded
    <3>2. ASSUME NEW e \in req[s].delivery
          PROVE  e \in Entries(ledger'.disk) \cup hist'.overrun
      <4>1. req[s].delivery = {e}
        <5>1. req[s].pc # "idle"
          BY <3>2 DEF Memory, OneDelivery
        <5> QED
          BY <3>2, <5>1 DEF Memory, OneDelivery
      <4>2. e \notin gone
        BY <1>1, <2>1, <4>1
      <4> QED
        BY <1>1, <3>1, <4>2 DEF gone
    <3> QED
      BY <3>1, <3>2
  <2> QED
    BY <2>2, <2>3
<1>7. OneHolder'
  <2>1. SUFFICES ASSUME NEW s \in Req, NEW t \in Req, s # t,
                        Holder(s)', s \notin hist'.outdated, Holder(t)', t \notin hist'.outdated,
                        req'[s].delivery = req'[t].delivery
                 PROVE  req'[s].delivery \subseteq hist'.overrun
    BY DEF OneHolder
  <2>2. ASSUME NEW u \in Req, u # r, Holder(u)', u \notin hist'.outdated, req'[u].delivery = {d},
               req'[r].pc = "recorded"
        PROVE  d \in hist'.overrun
    <3>1. Holder(u) /\ u \notin hist.outdated /\ req[u].delivery = {d}
      BY <1>1, <1>3, <2>2
    <3>2. d \in Entries(ledger.disk) \cup hist.overrun
      BY <3>1 DEF Memory, HoldersRecorded
    <3> QED
      BY <1>1, <2>2, <3>2
  <2>3. CASE s = r
    BY <1>3, <2>1, <2>2, <2>3
  <2>4. CASE t = r
    BY <1>3, <2>1, <2>2, <2>4
  <2>5. CASE s # r /\ t # r
    <3>1. req[s].delivery \subseteq hist.overrun
      BY <1>1, <1>3, <2>1, <2>5 DEF Memory, OneHolder
    <3> QED
      BY <1>1, <2>5, <3>1
  <2> QED
    BY <2>3, <2>4, <2>5
<1>8. EntriesOwned'
  <2>1. SUFFICES ASSUME "ledger" \notin trouble'.failed, NEW e \in Entries(ledger'.disk)
                 PROVE  \E s \in For(e)' : Holder(s)' \/ req'[s].reply = "lost"
    BY DEF EntriesOwned
  <2>2. CASE e \in Entries(ledger.disk)
    <3>1. PICK s \in For(e) : Holder(s) \/ req[s].reply = "lost"
      BY <2>1, <2>2 DEF Memory, EntriesOwned
    <3>2. s \in Req /\ s # r /\ s \in For(e)'
      BY <1>2, <3>1 DEF For
    <3> QED
      BY <1>3, <3>1, <3>2
  <2>3. CASE e \notin Entries(ledger.disk)
    <3>1. e = d /\ Holder(r)'
      BY <1>3, <2>1, <2>3
    <3>2. r \in For(e)'
      BY <3>1 DEF For
    <3> QED
      BY <3>1, <3>2
  <2> QED
    BY <2>2, <2>3
<1> QED
  BY <1>4, <1>5, <1>6, <1>7, <1>8 DEF Memory

\* The four ways a delivery arrives.
LEMMA SeenRemembers ==
  ASSUME Types, LedgerTypes, Memory, trouble.failed \subseteq trouble'.failed,
         NEW r \in Req, SeenOrRecord(r)
  PROVE  Memory'
<1>1. PICK d \in Delivery : \/ LedgerUnavailable(r, d) \/ DuplicateDelivery(r, d)
                            \/ RecordDelivery(r, d) \/ RecordFails(r, d)
  BY DEF SeenOrRecord
<1>0. /\ ledger \in [mem : Seq(Delivery), disk : Seq(Delivery), err : BOOLEAN]
      /\ ledger.mem \in Seq(Delivery) /\ ledger.disk \in Seq(Delivery)
      /\ ~ledger.err => ledger.mem = ledger.disk
      /\ NoRepeats(ledger.disk)
  BY DEF LedgerTypes, LedgerAgrees, Memory
<1> DEFINE order == Evict(Append(ledger.mem, d))
<1>2. CASE LedgerUnavailable(r, d) \/ DuplicateDelivery(r, d)
  <2>1. /\ UNCHANGED <<ledger, hist>> /\ req[r].pc = "idle"
        /\ \A s \in Req : s # r => req'[s] = req[s]
        /\ req'[r].delivery = {d} /\ req'[r].pc = "done" /\ req'[r].reply # "lost"
    BY <1>2 DEF LedgerUnavailable, DuplicateDelivery, Arrives, Answer, Types
  <2>2. LedgerAgrees'
    BY <2>1 DEF Memory, LedgerAgrees, NoRepeats
  <2> QED
    BY <2>1, <2>2, ArrivalRemembers
<1>3. ASSUME UnseenDelivery(r, d)
      PROVE  /\ req[r].pc = "idle" /\ ~ledger.err /\ d \notin Entries(ledger.disk)
             /\ d \in Entries(order) /\ Entries(order) \subseteq Entries(ledger.disk) \cup {d}
             /\ NoRepeats(order)
  BY <1>0, <1>3, EvictEntries DEF UnseenDelivery, Arrives
<1>4. CASE RecordDelivery(r, d)
  <2>1. /\ UnseenDelivery(r, d) /\ ledger' = [ledger EXCEPT !.mem = order, !.disk = order]
        /\ \A s \in Req : s # r => req'[s] = req[s]
        /\ req'[r].delivery = {d} /\ req'[r].pc = "recorded" /\ req'[r].reply # "lost"
        /\ Evicting(ledger.disk, order)
    BY <1>4 DEF RecordDelivery, Types
  <2> HIDE DEF order
  <2>2. ledger'.disk = order /\ ledger'.mem = order /\ ledger'.err = ledger.err
    BY <1>0, <2>1
  <2>3. LedgerAgrees'
    BY <1>3, <2>1, <2>2 DEF LedgerAgrees
  <2> QED
    BY <1>3, <2>1, <2>2, <2>3, ArrivalRemembers
<1>5. CASE RecordFails(r, d)
  <2>1. /\ UnseenDelivery(r, d) /\ "ledger" \in trouble'.failed
        /\ \A s \in Req : s # r => req'[s] = req[s]
        /\ req'[r].delivery = {d} /\ req'[r].pc = "done" /\ req'[r].reply # "lost"
        /\ \E disk \in {ledger.disk, order} :
             /\ ledger' = [mem |-> SubSeq(order, 1, Len(order) - 1), disk |-> disk, err |-> TRUE]
             /\ Evicting(ledger.disk, disk)
    BY <1>5 DEF RecordFails, Fails, Trouble, Answer, Types
  <2> HIDE DEF order
  <2>2. PICK disk \in {ledger.disk, order} :
             /\ ledger' = [mem |-> SubSeq(order, 1, Len(order) - 1), disk |-> disk, err |-> TRUE]
             /\ Evicting(ledger.disk, disk)
    BY <2>1
  <2>3. ledger'.disk = disk /\ ledger'.err = TRUE
    BY <2>2
  <2>4. LedgerAgrees' /\ Entries(disk) \subseteq Entries(ledger.disk) \cup {d}
    BY <1>0, <1>3, <2>1, <2>3 DEF LedgerAgrees
  <2> QED
    BY <1>3, <2>1, <2>2, <2>3, <2>4, ArrivalRemembers
<1> QED
  BY <1>1, <1>2, <1>4, <1>5

\* Every step keeps what the ledger remembers true.
LEMMA NextRemembers ==
  ASSUME Inv, Memory, Next
  PROVE  Memory'
<1>0. Types /\ LedgerTypes /\ trouble.failed \subseteq trouble'.failed
  BY TroubleGrows DEF Inv
<1>1. ASSUME NEW r \in Req, SeenOrRecord(r)
      PROVE  Memory'
  BY <1>0, <1>1, SeenRemembers
<1>2. ASSUME NEW r \in Req, Handler(r)
      PROVE  Memory'
  BY <1>0, <1>2, HandlerRemembers, ForgetRemembers DEF Handler
<1>3. ASSUME NEW r \in Req, Rebuild(r)
      PROVE  Memory'
  <2>1. /\ UNCHANGED <<req, ledger>>
        /\ UNCHANGED hist \/ \E proven : hist' = [hist EXCEPT !.proven = proven]
    BY <1>3 DEF Rebuild, RebuildLocks, RebuildDeploys, RebuildBreaks
  <2>2. hist'.enqueued = hist.enqueued /\ hist'.outdated = hist.outdated /\ hist'.overrun = hist.overrun
    BY <1>0, <2>1 DEF Types, Histories
  <2> QED
    BY <1>0, <2>1, <2>2, FrameRemembers
<1>4. ASSUME NEW r \in Req, NEW status \in {"deploying", "health_checking"}, MarkProgress(r, status)
      PROVE  Memory'
  BY <1>0, <1>4, FrameRemembers DEF MarkProgress
<1>5. CASE Worker
  <2>1. UNCHANGED <<req, ledger, hist>>
    BY <1>5 DEF Worker, TakeJob, DropJob, PrepareFails, Prepare, SpawnRebuild, WaitAborted,
                RebuildSucceeded, RebuildAbandoned, RebuildRetried, RebuildFailed
  <2> QED
    BY <1>0, <2>1, FrameRemembers
<1>6. CASE Crash \/ Exit
  BY <1>0, <1>6, GoneRemembers DEF Crash, Exit
<1>7. CASE Shutdown \/ CloseQueue \/ ManualStarts
  BY <1>0, <1>7, FrameRemembers DEF Shutdown, CloseQueue, ManualStarts
<1>8. CASE Restart
  BY <1>0, <1>8, RestartRemembers
<1>9. CASE ManualEnds
  <2>1. /\ UNCHANGED <<req, ledger>>
        /\ UNCHANGED hist \/ \E proven : hist' = [hist EXCEPT !.proven = proven]
    BY <1>9 DEF ManualEnds
  <2>2. hist'.enqueued = hist.enqueued /\ hist'.outdated = hist.outdated /\ hist'.overrun = hist.overrun
    BY <1>0, <2>1 DEF Types, Histories
  <2> QED
    BY <1>0, <2>1, <2>2, FrameRemembers
<1> QED
  BY <1>1, <1>2, <1>3, <1>4, <1>5, <1>6, <1>7, <1>8, <1>9 DEF Next

\* At first the ledger is empty.
LEMMA InitRemembers == Init => Memory
<1> SUFFICES ASSUME Init PROVE Memory
  OBVIOUS
<1>1. Entries(<< >>) = {} /\ NoRepeats(<< >>)
  BY DEF Entries, NoRepeats
<1> QED
  BY <1>1 DEF Init, Memory, LedgerAgrees, OneDelivery, EnqueuedKnown, OutdatedKnown,
              HoldersRecorded, OneHolder, EntriesOwned, Holder, InFlight

\* The ledger's memory stays true in every behaviour.
LEMMA LedgerRemembers == Spec => [](Inv /\ Memory)
<1>1. Inv /\ Memory /\ [Next]_vars => (Inv /\ Memory)'
  <2>1. ASSUME Inv, Memory, UNCHANGED vars
        PROVE  (Inv /\ Memory)'
    <3>1. UNCHANGED <<req, ledger, hist, trouble>>
      BY <2>1 DEF vars
    <3>2. Memory'
      BY <2>1, <3>1, FrameRemembers DEF Inv
    <3> QED
      BY <2>1, <3>2, StutterInv
  <2> QED
    BY <2>1, NextInv, NextRemembers
<1> QED
  BY <1>1, InitInv, InitRemembers, PTL DEF Spec

\* DeliveryLedger: among the requests whose entry is still in the ledger's window
\* no two enqueue a rebuild for the same delivery, whatever requests overlap and
\* however often the daemon crashes, restarts or fails to write its ledger; the
\* one exception is a delivery evicted while its own handler was still at work.
THEOREM NothingDeliveredTwice == Spec => []DeliveredOnce
<1>1. Inv /\ Memory => DeliveredOnce
  <2>1. ASSUME Inv, Memory, NEW r \in hist.enqueued \ hist.outdated, NEW s \in hist.enqueued \ hist.outdated,
               r # s, req[r].delivery = req[s].delivery
        PROVE  req[r].delivery \subseteq hist.overrun
    <3>1. r \in Req /\ s \in Req
      BY <2>1 DEF Inv, Types, Histories
    <3> QED
      BY <2>1, <3>1 DEF Memory, OneHolder, Holder
  <2> QED
    BY <2>1 DEF DeliveredOnce
<1> QED
  BY <1>1, LedgerRemembers, PTL

\* handleWebhook: unless a write of the ledger failed, a delivery it remembers has
\* a handler at work, an enqueued job, or a handler the daemon's end cut off, so
\* that the redelivery of a refused one starts from a clean slate.  The delivery
\* of a handler that was cut off need not: see AcknowledgedHasRecord.
THEOREM RefusalsForgotten == Spec => []RefusalForgotten
<1>1. Inv /\ Memory => RefusalForgotten
  BY DEF Memory, EntriesOwned, RefusalForgotten, Holder, InFlight, For
<1> QED
  BY <1>1, LedgerRemembers, PTL

=============================================================================
