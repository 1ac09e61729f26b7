--------------------------- MODULE WebhookPipeline ---------------------------
(***************************************************************************)
(* The webhook daemon: HTTP handlers that record a delivery, create its    *)
(* durable job and enqueue it (internal/webhook/server.go), the delivery   *)
(* ledger (ledger.go), the job store (jobs.go), one app's queue and worker *)
(* (queue.go), the rebuild executor (rebuild.go) and the daemon's start    *)
(* and shutdown (cmd/webhook.go).                                          *)
(*                                                                         *)
(* One application. A request that gets through becomes at most one job,   *)
(* so requests name jobs; they are numbered in the order of arrival, which *)
(* is the order of their AcceptedAt stamps. The `phelix rebuild` process a *)
(* job starts, manual operations on the app and its deploy lock are the    *)
(* pipeline's environment.                                                 *)
(***************************************************************************)
EXTENDS Integers, Sequences, FiniteSets

CONSTANTS Requests,     \* bound: HTTP requests that arrive
          Delivery,     \* delivery identifiers
          Commit,       \* commits
          CommitOf,     \* the commit each delivery pushes
          FirstCommit,  \* the commit of the app's current version at first
          LedgerMax,    \* DeliveryLedger.max
          QueueDepth,   \* perAppQueueDepth
          Retention,    \* JobStore.max
          MaxAttempts,  \* maxRebuildAttempts
          Faults,       \* the calls that may fail
          MaxTrouble    \* bound: failing calls, crashes and shutdowns of the
                        \* daemon and manual operations on the app, together

FaultKinds == {"ledger", "jobs", "lock", "history"}

ASSUME BoundsAssumption ==
  /\ {Requests, MaxTrouble} \subseteq Nat
  /\ {LedgerMax, QueueDepth, Retention, MaxAttempts} \subseteq Nat \ {0}
ASSUME CommitAssumption == CommitOf \in [Delivery -> Commit] /\ FirstCommit \in Commit
ASSUME FaultsAssumption == Faults \subseteq FaultKinds

VARIABLES daemon,  \* up, draining HTTP, closing the queue, or down
          ledger,  \* the delivery ledger: in memory, on disk, and its sticky error
          req,     \* each request: its handler's position, delivery and reply
          jobs,    \* the job records, in memory and on disk alike
          queue,   \* the app's channel of jobs
          worker,  \* the app's worker
          sub,     \* the rebuild process of each job
          app,     \* deploy lock, current version, newest automatic rollback
          trouble, \* how much of MaxTrouble is spent, and which calls have failed
          hist     \* history, read only by properties

vars == <<daemon, ledger, req, jobs, queue, worker, sub, app, trouble, hist>>

Req == 1 .. Requests
Nobody == 0
Manual == -1

----------------------------------------------------------------------------
(* Job statuses. "interrupted" is failed with WEBHOOK_JOB_INTERRUPTED.     *)

Running == {"accepted", "queued", "syncing", "building", "deploying", "health_checking"}
Terminal == {"succeeded", "failed", "rolled_back", "cancelled", "interrupted"}

statusRank == [accepted |-> 0, queued |-> 1, syncing |-> 2, building |-> 3,
               deploying |-> 4, health_checking |-> 5]

\* Mutant: statuses may move backward.
MayMoveAnywhere(old, new) == old \in Running

\* forwardTransition and terminalTransition.
MayMove(old, new) ==
  /\ old \in Running
  /\ new \in Running => statusRank[new] >= statusRank[old]

Stored(js) == {r \in Req : js[r] \in Running \cup Terminal}

\* sweepRetentionLocked: the oldest terminal records above the capacity go.
SweepRetention(js) ==
  LET ended == {r \in Stored(js) : js[r] \in Terminal}
      excess == Cardinality(Stored(js)) - Retention
  IN  [r \in Req |-> IF r \in ended /\ Cardinality({s \in ended : s < r}) < excess
                       THEN "expired" ELSE js[r]]

----------------------------------------------------------------------------
(* Calls that may fail.                                                    *)

Trouble(failed) ==
  /\ trouble.count < MaxTrouble
  /\ trouble' = [count |-> trouble.count + 1, failed |-> trouble.failed \cup failed]

Fails(kind) == kind \in Faults /\ Trouble({kind})

\* JobStore.update: a refused transition and a failed write change nothing,
\* and no caller of a Mark function acts on the error.
Mark(r, status) ==
  \/ /\ jobs' = IF MayMove(jobs[r], status) THEN [jobs EXCEPT ![r] = status] ELSE jobs
     /\ UNCHANGED trouble
  \/ /\ MayMove(jobs[r], status)
     /\ Fails("jobs")
     /\ UNCHANGED jobs

Goto(r, pc) == req' = [req EXCEPT ![r].pc = pc]
Reply(r, reply) == req' = [req EXCEPT ![r].pc = "done", ![r].reply = reply]
Answer(r, d, reply) == req' = [req EXCEPT ![r] = [pc |-> "done", delivery |-> {d}, reply |-> reply]]

----------------------------------------------------------------------------
(* The delivery ledger.                                                    *)

Entries(order) == {order[i] : i \in DOMAIN order}
Without(order, d) ==
  LET i == CHOOSE i \in DOMAIN order : order[i] = d
  IN  SubSeq(order, 1, i - 1) \o SubSeq(order, i + 1, Len(order))

\* Mutant: one entry too many is kept.
EvictTooLate(order) ==
  IF Len(order) > LedgerMax + 1 THEN SubSeq(order, Len(order) - LedgerMax, Len(order)) ELSE order

\* evictLocked
Evict(order) ==
  IF Len(order) > LedgerMax THEN SubSeq(order, Len(order) - LedgerMax + 1, Len(order)) ELSE order

\* Requests whose handlers still rely on the entry they recorded.
InFlight(r) == req[r].pc \in {"recorded", "created", "uncreated", "unqueued"}
For(d) == {r \in Req : req[r].delivery = {d}}

\* What the eviction of entries means for the requests that recorded them.
Evicting(old, new) ==
  LET gone == Entries(old) \ Entries(new)
  IN  hist' = [hist EXCEPT !.outdated = @ \cup UNION {For(d) : d \in gone},
                           !.overrun = @ \cup {d \in gone : \E r \in For(d) : InFlight(r)}]

Arrived == Cardinality({r \in Req : req[r].pc # "idle"})

\* A push for the configured branch has been authenticated and parsed.
Arrives(r) == daemon = "up" /\ req[r].pc = "idle" /\ r = Arrived + 1

LedgerUnavailable(r, d) ==
  /\ Arrives(r)
  /\ ledger.err
  /\ Answer(r, d, "refused")
  /\ UNCHANGED <<daemon, ledger, jobs, queue, worker, sub, app, trouble, hist>>

DuplicateDelivery(r, d) ==
  /\ Arrives(r)
  /\ ~ledger.err
  /\ d \in Entries(ledger.mem)
  /\ Answer(r, d, "duplicate")
  /\ UNCHANGED <<daemon, ledger, jobs, queue, worker, sub, app, trouble, hist>>

UnseenDelivery(r, d) == Arrives(r) /\ ~ledger.err /\ d \notin Entries(ledger.mem)

\* Mutant: the delivery is acknowledged before it is durable.
RecordInMemory(r, d) ==
  LET order == Evict(Append(ledger.mem, d)) IN
  /\ UnseenDelivery(r, d)
  /\ ledger' = [ledger EXCEPT !.mem = order]
  /\ req' = [req EXCEPT ![r] = [pc |-> "recorded", delivery |-> {d}, reply |-> "none"]]
  /\ Evicting(ledger.disk, order)
  /\ UNCHANGED <<daemon, jobs, queue, worker, sub, app, trouble>>

RecordDelivery(r, d) ==
  LET order == Evict(Append(ledger.mem, d)) IN
  /\ UnseenDelivery(r, d)
  /\ ledger' = [ledger EXCEPT !.mem = order, !.disk = order]
  /\ req' = [req EXCEPT ![r] = [pc |-> "recorded", delivery |-> {d}, reply |-> "none"]]
  /\ Evicting(ledger.disk, order)
  /\ UNCHANGED <<daemon, jobs, queue, worker, sub, app, trouble>>

\* The insert is undone, the eviction is not, and the error stays. The write
\* may have reached the disk: its last call syncs the renamed file's directory.
RecordFails(r, d) ==
  LET order == Evict(Append(ledger.mem, d)) IN
  /\ UnseenDelivery(r, d)
  /\ Fails("ledger")
  /\ \E disk \in {ledger.disk, order} :
       /\ ledger' = [mem |-> SubSeq(order, 1, Len(order) - 1), disk |-> disk, err |-> TRUE]
       /\ Evicting(ledger.disk, disk)
  /\ Answer(r, d, "refused")
  /\ UNCHANGED <<daemon, jobs, queue, worker, sub, app>>

----------------------------------------------------------------------------
(* The rest of the handler.                                                *)

CreateJob(r) ==
  /\ req[r].pc = "recorded"
  /\ \/ /\ jobs' = SweepRetention([jobs EXCEPT ![r] = "accepted"])
        /\ Goto(r, "created")
        /\ UNCHANGED trouble
     \/ /\ Fails("jobs")
        /\ Goto(r, "uncreated")
        /\ UNCHANGED jobs
  /\ UNCHANGED <<daemon, ledger, queue, worker, sub, app, hist>>

QueueClosed == daemon = "closing"

Enqueue(r) ==
  /\ req[r].pc = "created"
  /\ IF QueueClosed \/ Len(queue) = QueueDepth
       THEN Goto(r, "unqueued") /\ UNCHANGED <<queue, hist>>
       ELSE /\ queue' = Append(queue, r)
            /\ Goto(r, "enqueued")
            /\ hist' = [hist EXCEPT !.enqueued = @ \cup {r}]
  /\ UNCHANGED <<daemon, ledger, jobs, worker, sub, app, trouble>>

\* Remove, whose failure the handler only logs.
Remove(d) ==
  LET order == Without(ledger.mem, d) IN
  \/ /\ ledger' = IF ledger.err \/ d \notin Entries(ledger.mem) THEN ledger
                  ELSE [ledger EXCEPT !.mem = order, !.disk = order]
     /\ UNCHANGED trouble
  \/ /\ ~ledger.err
     /\ d \in Entries(ledger.mem)
     /\ Fails("ledger")
     /\ \E disk \in {ledger.disk, order} : ledger' = [mem |-> order, disk |-> disk, err |-> TRUE]

ForgetUncreated(r) ==
  /\ req[r].pc = "uncreated"
  /\ \E d \in req[r].delivery : Remove(d)
  /\ Reply(r, "refused")
  /\ UNCHANGED <<daemon, jobs, queue, worker, sub, app, hist>>

\* Mutant: a full queue keeps the delivery in the ledger.
KeepUnqueued(r) ==
  /\ req[r].pc = "unqueued"
  /\ Goto(r, "rejecting")
  /\ UNCHANGED <<daemon, ledger, jobs, queue, worker, sub, app, trouble, hist>>

ForgetUnqueued(r) ==
  /\ req[r].pc = "unqueued"
  /\ \E d \in req[r].delivery : Remove(d)
  /\ Goto(r, "rejecting")
  /\ UNCHANGED <<daemon, jobs, queue, worker, sub, app, hist>>

MarkQueueFailure(r) ==
  /\ req[r].pc = "rejecting"
  /\ Mark(r, "failed")
  /\ Reply(r, "refused")
  /\ UNCHANGED <<daemon, ledger, queue, worker, sub, app, hist>>

MarkQueued(r) ==
  /\ req[r].pc = "enqueued"
  /\ Mark(r, "queued")
  /\ Reply(r, "accepted")
  /\ UNCHANGED <<daemon, ledger, queue, worker, sub, app, hist>>

----------------------------------------------------------------------------
(* The app's worker and the rebuild it executes.                           *)

\* The exit status of a rebuild has been read, or nobody is left to read it.
Reap(subs, r) == [subs EXCEPT ![r] = IF @ \in {"ok", "failed", "contended"} THEN "none" ELSE @]

Idle == [pc |-> "select", job |-> Nobody, attempt |-> 0]

\* The job is over. The stop channel is looked at before the worker blocks on
\* both channels, so a closed queue starts no other job.
NextRound == IF QueueClosed THEN [Idle EXCEPT !.pc = "stopped"] ELSE Idle

TakeJob ==
  /\ worker.pc = "select"
  /\ queue # << >>
  /\ Mark(Head(queue), "syncing")
  /\ queue' = Tail(queue)
  /\ worker' = [pc |-> "syncing", job |-> Head(queue), attempt |-> 1]
  /\ UNCHANGED <<daemon, ledger, req, sub, app, hist>>

DropJob ==
  /\ QueueClosed
  /\ worker.pc \in {"select", "stopped"}
  /\ queue # << >>
  /\ Mark(Head(queue), "cancelled")
  /\ queue' = Tail(queue)
  /\ worker' = [worker EXCEPT !.pc = "stopped"]
  /\ UNCHANGED <<daemon, ledger, req, sub, app, hist>>

\* Mutant: a failed preparation does not close the job.
PrepareFailsSilently ==
  /\ worker.pc = "syncing"
  /\ worker' = NextRound
  /\ UNCHANGED <<daemon, ledger, req, jobs, queue, sub, app, trouble, hist>>

PrepareFails ==
  /\ worker.pc = "syncing"
  /\ Mark(worker.job, "failed")
  /\ worker' = NextRound
  /\ UNCHANGED <<daemon, ledger, req, queue, sub, app, hist>>

\* The baseline of the rollback history is read, as zero when that fails, and
\* the job marked building; only then does the executor wait for the deploy
\* lock. Automatic rollbacks are "old" or "new" with respect to the baseline.
Prepare ==
  /\ worker.pc = "syncing"
  /\ worker' = [worker EXCEPT !.pc = "waiting"]
  /\ \/ /\ app' = [app EXCEPT !.rollback = IF @ = "none" THEN "none" ELSE "old"]
        /\ Mark(worker.job, "building")
     \/ /\ app' = [app EXCEPT !.rollback = IF @ = "none" THEN "none" ELSE "new"]
        /\ jobs' = [jobs EXCEPT ![worker.job] = "building"]
        /\ Fails("history")
  /\ UNCHANGED <<daemon, ledger, req, queue, sub, hist>>

SpawnRebuild ==
  /\ worker.pc = "waiting"
  /\ app.lock = Nobody
  /\ worker' = [worker EXCEPT !.pc = "running"]
  /\ sub' = [sub EXCEPT ![worker.job] = "started"]
  /\ UNCHANGED <<daemon, ledger, req, jobs, queue, app, trouble, hist>>

\* Neither an unreadable lock nor a shutdown during the wait closes the job.
WaitAborted ==
  /\ worker.pc = "waiting"
  /\ \/ Fails("lock")
     \/ QueueClosed /\ app.lock # Nobody /\ UNCHANGED trouble
  /\ worker' = NextRound
  /\ UNCHANGED <<daemon, ledger, req, jobs, queue, sub, app, hist>>

\* The stage detector follows the output of the rebuild the worker waits for,
\* and of one it has left to itself until this daemon is gone.
MarkProgress(r, status) ==
  /\ worker.job = r \/ QueueClosed
  /\ sub[r] = "locked"
  /\ MayMove(jobs[r], status)
  /\ Mark(r, status)
  /\ UNCHANGED <<daemon, ledger, req, queue, worker, sub, app, hist>>

RebuildSucceeded ==
  /\ worker.pc = "running"
  /\ sub[worker.job] = "ok"
  /\ Mark(worker.job, "succeeded")
  /\ worker' = NextRound
  /\ sub' = Reap(sub, worker.job)
  /\ UNCHANGED <<daemon, ledger, req, queue, app, hist>>

\* ErrShutdownSubprocess: the rebuild is left to itself, the job stays open.
RebuildAbandoned ==
  /\ worker.pc = "running"
  /\ QueueClosed
  /\ worker' = NextRound
  /\ sub' = Reap(sub, worker.job)
  /\ UNCHANGED <<daemon, ledger, req, jobs, queue, app, trouble, hist>>

\* lockContention: the rebuild says so, or somebody holds the lock right now.
LockContention == sub[worker.job] = "contended" \/ app.lock # Nobody

RebuildRetried ==
  /\ worker.pc = "running"
  /\ sub[worker.job] \in {"failed", "contended"}
  /\ LockContention
  /\ worker.attempt < MaxAttempts
  /\ worker' = [worker EXCEPT !.pc = "waiting", !.attempt = @ + 1]
  /\ sub' = Reap(sub, worker.job)
  /\ UNCHANGED <<daemon, ledger, req, jobs, queue, app, trouble, hist>>

\* detectAutomaticRollback
RollbackDetected == app.rollback = "new"

\* Two reads behind the verdict may fail: of the rollback history, which hides
\* a rollback, and of the lock, which hides its holder.
RebuildFailed ==
  LET verdict == IF RollbackDetected THEN "rolled_back" ELSE "failed"
      final == LockContention => worker.attempt = MaxAttempts
  IN  /\ worker.pc = "running"
      /\ sub[worker.job] \in {"failed", "contended"}
      /\ \/ final /\ Mark(worker.job, verdict)
         \/ /\ final /\ RollbackDetected
            /\ Fails("history")
            /\ jobs' = [jobs EXCEPT ![worker.job] = "failed"]
         \/ /\ ~final /\ sub[worker.job] = "failed"
            /\ Fails("lock")
            /\ jobs' = [jobs EXCEPT ![worker.job] = verdict]
      /\ worker' = NextRound
      /\ sub' = Reap(sub, worker.job)
      /\ UNCHANGED <<daemon, ledger, req, queue, app, hist>>

----------------------------------------------------------------------------
(* Start and shutdown of the daemon.                                       *)

\* Whatever the process held in memory is gone; rebuild processes live on.
Gone ==
  /\ daemon' = "down"
  /\ queue' = << >>
  /\ worker' = Idle
  /\ req' = [r \in Req |-> IF req[r].pc \in {"idle", "done"} THEN req[r]
                           ELSE [req[r] EXCEPT !.pc = "done", !.reply = "lost"]]
  /\ sub' = IF worker.job = Nobody THEN sub ELSE Reap(sub, worker.job)
  /\ UNCHANGED <<ledger, jobs, app, hist>>

Crash == daemon # "down" /\ Trouble({}) /\ Gone

\* Server.Shutdown: no new requests.
Shutdown ==
  /\ daemon = "up"
  /\ Trouble({})
  /\ daemon' = "draining"
  /\ UNCHANGED <<ledger, req, jobs, queue, worker, sub, app, hist>>

\* Queue.Close, after the handlers or after their drain timeout.
CloseQueue ==
  /\ daemon = "draining"
  /\ daemon' = "closing"
  /\ UNCHANGED <<ledger, req, jobs, queue, worker, sub, app, trouble, hist>>

\* The process ends, after its worker or after the drain timeout.
Exit == daemon = "closing" /\ Gone /\ UNCHANGED trouble

\* Mutant: an older deployment of the same commit counts.
FinishedAtAnyTime(r) ==
  /\ statusRank[jobs[r]] >= statusRank["building"]
  /\ \E d \in req[r].delivery : app.commit = CommitOf[d]

\* The orphaned rebuild demonstrably finished: the current version is the
\* job's commit and was deployed after the job was accepted.
Finished(r) ==
  /\ statusRank[jobs[r]] >= statusRank["building"]
  /\ \E d \in req[r].delivery : app.commit = CommitOf[d]
  /\ r <= app.deployedAt

\* Mutant: jobs that never started stay as they are.
RecoveredIfStarted(r) ==
  IF Finished(r) THEN "succeeded"
  ELSE IF statusRank[jobs[r]] >= statusRank["syncing"] THEN "interrupted" ELSE jobs[r]

\* RecoverInterrupted on the job r of a previous run.
Recovered(r) == IF Finished(r) THEN "succeeded" ELSE "interrupted"

Restart ==
  LET open == {r \in Req : jobs[r] \in Running}
      recovered == [r \in Req |-> IF r \in open THEN Recovered(r) ELSE jobs[r]]
  IN  /\ daemon = "down"
      /\ daemon' = "up"
      /\ ledger' = [ledger EXCEPT !.mem = ledger.disk, !.err = FALSE]
      /\ \/ jobs' = recovered /\ UNCHANGED trouble
         \/ /\ Fails("jobs")
            /\ \E r \in open : \E status \in {jobs[r], "interrupted"} :
                 jobs' = [recovered EXCEPT ![r] = status]
      /\ UNCHANGED <<req, queue, worker, sub, app, hist>>

----------------------------------------------------------------------------
(* The environment: rebuild processes and manual operations.               *)

Promotes(c) == app' = [app EXCEPT !.lock = Nobody, !.commit = c, !.deployedAt = Arrived]
Deployed(c) == {r \in Req : \E d \in req[r].delivery : CommitOf[d] = c}
Releases ==
  \E rollback \in {app.rollback, "new"} :
    app' = [app EXCEPT !.lock = Nobody, !.rollback = rollback]

\* Only a worker that still waits for the process learns how it ended.
Ends(r, status) ==
  sub' = [sub EXCEPT ![r] = IF worker.job = r /\ worker.pc = "running" THEN status ELSE "none"]

RebuildLocks(r) ==
  /\ sub[r] = "started"
  /\ IF app.lock = Nobody
       THEN sub' = [sub EXCEPT ![r] = "locked"] /\ app' = [app EXCEPT !.lock = r]
       ELSE Ends(r, "contended") /\ UNCHANGED app
  /\ UNCHANGED <<daemon, ledger, req, jobs, queue, worker, trouble, hist>>

\* It deploys its commit, or finds nothing to promote.
RebuildDeploys(r) ==
  /\ sub[r] = "locked"
  /\ Ends(r, "ok")
  /\ \/ \E d \in req[r].delivery :
          /\ Promotes(CommitOf[d])
          /\ hist' = [hist EXCEPT !.proven = @ \cup Deployed(CommitOf[d])]
     \/ /\ app' = [app EXCEPT !.lock = Nobody]
        /\ hist' = [hist EXCEPT !.proven = @ \cup {r}]
  /\ UNCHANGED <<daemon, ledger, req, jobs, queue, worker, trouble>>

\* It fails or is killed, before or after it has taken the lock.
RebuildBreaks(r) ==
  /\ sub[r] \in {"started", "locked"}
  /\ Ends(r, "failed")
  /\ IF sub[r] = "locked" THEN Releases ELSE UNCHANGED app
  /\ UNCHANGED <<daemon, ledger, req, jobs, queue, worker, trouble, hist>>

ManualStarts ==
  /\ app.lock = Nobody
  /\ Trouble({})
  /\ app' = [app EXCEPT !.lock = Manual]
  /\ UNCHANGED <<daemon, ledger, req, jobs, queue, worker, sub, hist>>

ManualEnds ==
  /\ app.lock = Manual
  /\ \/ \E c \in Commit : Promotes(c) /\ hist' = [hist EXCEPT !.proven = @ \cup Deployed(c)]
     \/ Releases /\ UNCHANGED hist
  /\ UNCHANGED <<daemon, ledger, req, jobs, queue, worker, sub, trouble>>

----------------------------------------------------------------------------
Init ==
  /\ daemon = "up"
  /\ ledger = [mem |-> << >>, disk |-> << >>, err |-> FALSE]
  /\ req = [r \in Req |-> [pc |-> "idle", delivery |-> {}, reply |-> "none"]]
  /\ jobs = [r \in Req |-> "none"]
  /\ queue = << >>
  /\ worker = Idle
  /\ sub = [r \in Req |-> "none"]
  /\ app = [lock |-> Nobody, commit |-> FirstCommit, deployedAt |-> 0, rollback |-> "none"]
  /\ trouble = [count |-> 0, failed |-> {}]
  /\ hist = [enqueued |-> {}, outdated |-> {}, overrun |-> {}, proven |-> {}]

SeenOrRecord(r) ==
  \E d \in Delivery :
    \/ LedgerUnavailable(r, d)
    \/ DuplicateDelivery(r, d)
    \/ RecordDelivery(r, d)
    \/ RecordFails(r, d)

Handler(r) ==
  \/ CreateJob(r)
  \/ Enqueue(r)
  \/ ForgetUncreated(r)
  \/ ForgetUnqueued(r)
  \/ MarkQueueFailure(r)
  \/ MarkQueued(r)

Worker ==
  \/ TakeJob \/ DropJob
  \/ PrepareFails \/ Prepare
  \/ SpawnRebuild \/ WaitAborted
  \/ RebuildSucceeded \/ RebuildAbandoned \/ RebuildRetried \/ RebuildFailed

Rebuild(r) == RebuildLocks(r) \/ RebuildDeploys(r) \/ RebuildBreaks(r)

Next ==
  \/ \E r \in Req : SeenOrRecord(r) \/ Handler(r) \/ Rebuild(r)
  \/ \E r \in Req, status \in {"deploying", "health_checking"} : MarkProgress(r, status)
  \/ Worker
  \/ Crash \/ Shutdown \/ CloseQueue \/ Exit \/ Restart
  \/ ManualStarts \/ ManualEnds

\* Goroutines run, processes end, and the service manager starts the daemon
\* again. Nothing makes requests arrive, crashes happen or operators act.
Fairness ==
  /\ \A r \in Req : WF_vars(Handler(r)) /\ WF_vars(Rebuild(r))
  /\ WF_vars(Worker)
  /\ WF_vars(CloseQueue \/ Exit)
  /\ WF_vars(Restart)
  /\ WF_vars(ManualEnds)

Spec == Init /\ [][Next]_vars /\ Fairness

----------------------------------------------------------------------------
(* Properties                                                              *)

Handlers == [pc : {"idle", "recorded", "created", "uncreated", "unqueued", "rejecting",
                   "enqueued", "done"},
             delivery : SUBSET Delivery,
             reply : {"none", "accepted", "duplicate", "refused", "lost"}]
Workers == [pc : {"select", "syncing", "waiting", "running", "stopped"},
            job : Req \cup {Nobody}, attempt : 0 .. MaxAttempts]
Apps == [lock : Req \cup {Nobody, Manual}, commit : Commit, deployedAt : 0 .. Requests,
         rollback : {"none", "old", "new"}]
Histories == [enqueued : SUBSET Req, outdated : SUBSET Req, overrun : SUBSET Delivery,
              proven : SUBSET Req]

\* The ranges of all variables; the ledger never exceeds its capacity, in
\* memory or on disk, and the queue never its depth.
TypeOK ==
  /\ daemon \in {"up", "draining", "closing", "down"}
  /\ ledger \in [mem : Seq(Delivery), disk : Seq(Delivery), err : BOOLEAN]
  /\ Len(ledger.mem) <= LedgerMax /\ Len(ledger.disk) <= LedgerMax
  /\ req \in [Req -> Handlers]
  /\ jobs \in [Req -> Running \cup Terminal \cup {"none", "expired"}]
  /\ queue \in Seq(Req) /\ Len(queue) <= QueueDepth
  /\ worker \in Workers
  /\ sub \in [Req -> {"none", "started", "locked", "ok", "failed", "contended"}]
  /\ app \in Apps
  /\ trouble \in [count : 0 .. MaxTrouble, failed : SUBSET Faults]
  /\ hist \in Histories

\* DeliveryLedger: the same delivery never enqueues a second rebuild, across
\* concurrent requests and restarts, while its entry stays in the window.
\* (A delivery whose entry was evicted while its own handler was still at
\* work is out of the window's promise.)
DeliveredOnce ==
  \A r, s \in hist.enqueued \ hist.outdated :
    (r # s /\ req[r].delivery = req[s].delivery) => req[r].delivery \subseteq hist.overrun

\* handleWebhook: a delivery the ledger remembers has a handler at work, a job
\* that was enqueued, or a handler the daemon's end cut off. So a refused
\* delivery is forgotten and its redelivery starts from a clean slate, unless
\* a write of the ledger failed. A handler that is cut off before it creates
\* the job leaves its delivery behind: see AcknowledgedHasRecord.
RefusalForgotten ==
  "ledger" \notin trouble.failed =>
    \A d \in Entries(ledger.disk) :
      \E r \in For(d) :
        \/ req[r].pc \notin {"idle", "done"}
        \/ r \in hist.enqueued
        \/ req[r].reply = "lost"

\* "GitHub must never be told "accepted" while Phelix holds no durable record
\* of the job" (server.go:238-240): a delivery that was acknowledged, as new or
\* as already processed, has a job, or a handler that is about to create it.
\* The daemon's end between SeenOrRecord and Create breaks this.
AcknowledgedHasRecord ==
  \A r \in Req :
    req[r].reply \in {"accepted", "duplicate"} =>
      \E d \in req[r].delivery : \E s \in For(d) :
        jobs[s] # "none" \/ req[s].pc = "recorded"

\* The failures after which an open job may be left to the next restart.
Stranding == trouble.failed \cap {"jobs", "lock"} # {}

\* While the daemon runs and no write of a job record or look at the deploy
\* lock has failed, every open job is in
\* somebody's hands: its handler's, the queue's or the worker's.
NoStrandedJob ==
  (daemon \in {"up", "draining"} /\ ~Stranding) =>
    \A r \in Req :
      jobs[r] \in Running =>
        req[r].pc \in {"created", "unqueued", "rejecting", "enqueued"} \/ r \in Entries(queue)
          \/ worker.job = r

\* MarkSucceeded and RecoverInterrupted: never an invented success. A job is
\* succeeded only if its rebuild succeeded or its commit was deployed after
\* the job was accepted.
SucceededIsEarned == \A r \in Req : jobs[r] = "succeeded" => r \in hist.proven

\* JobStore: statuses only move forward, however handler, worker, stage
\* detector and recovery interleave; terminal records are final and only they
\* expire.
ForwardOnly ==
  [][\A r \in Req : jobs'[r] # jobs[r] =>
       \/ jobs[r] = "none" /\ jobs'[r] = "accepted"
       \/ jobs[r] \in Running /\ jobs'[r] \in Terminal
       \/ jobs[r] \in Running /\ jobs'[r] \in Running /\ statusRank[jobs'[r]] > statusRank[jobs[r]]
       \/ jobs[r] \in Terminal /\ jobs'[r] = "expired"]_vars

\* Every job that was created ends, across shutdowns and crashes, unless a
\* write of a job record or a look at the deploy lock failed.
JobsEnd == \A r \in Req : []<>(jobs[r] \notin Running \/ Stranding)

=============================================================================
