---------------------------- MODULE DeployWorld ----------------------------
(***************************************************************************)
(* What the rolling deploy and the canary rollout of one application       *)
(* share: the things a deploy operation touches and does not own (the      *)
(* processes of the machine, deploy.json, the proxy's routing table), and  *)
(* how each touch succeeds or fails.                                       *)
(*                                                                         *)
(* An instance is numbered by the order of its launch; the number stands   *)
(* for its PID and its internal port, 0 for none.  The deploy lock         *)
(* (lock.go) admits one operation at a time and vanishes with its holder:  *)
(* pc = "idle" says that nobody holds it.  Deployments carry no secret     *)
(* transaction (Secrets = nil).                                            *)
(***************************************************************************)
EXTENDS Naturals, FiniteSets

CONSTANTS
  MaxInst,     \* bound: how many instances are ever launched
  Faults,      \* which kinds of fault the environment may produce
  MaxFaults    \* bound: how many faults one operation meets

FaultKinds ==
  { "store",      \* Store fails, deploy.json keeps its old contents
    "storeSync",  \* Store fails in dir.Sync, after the rename took place
    "rpc",        \* a proxy control call fails and did not take effect
    "status",     \* the daemon's Status call fails
    "lostReply",  \* a proxy control call takes effect, its reply is lost
    "promote",    \* PromoteVersion fails and restored versions.json
    "stop",       \* a stop could not be confirmed, the process lives on
    "cancel",     \* the operation's context is cancelled
    "crash",      \* the phelix process is killed between two steps
    "die" }       \* an instance dies between two operations

ASSUME MaxInstAssumption == MaxInst \in Nat \ {0}
ASSUME FaultsAssumption == Faults \subseteq FaultKinds
ASSUME MaxFaultsAssumption == MaxFaults \in Nat

Inst == 1 .. MaxInst
Pid == 0 .. MaxInst
Version == 0 .. MaxInst

VARIABLES
  alive,     \* instances whose process runs
  proven,    \* instances that passed the health check (or listened)
  next,      \* number of the next instance to be launched
  route,     \* the proxy's targets for the app, {} when it is not enrolled
  disk,      \* deploy.json
  current,   \* the version versions.json marks current
  pc,        \* the step the operation holding the deploy lock is at
  mem,       \* its in-memory DeployState
  loc,       \* its local variables
  budget,    \* how many more faults it may meet
  misled,    \* history: a failed call hid from it what the proxy has
  strays,    \* history: live instances the operation knowingly leaves behind
  result     \* history: how the last operation ended

procs == <<alive, proven, next>>
files == <<disk, current>>
hist == <<misled, strays, result>>

NoFault == budget' = budget

Fault(kind) == kind \in Faults /\ budget > 0 /\ budget' = budget - 1

\* Store: temp file, fsync, rename, directory fsync.
StoreOK(j) == disk' = j /\ NoFault

StoreFails(j) == \/ Fault("store") /\ disk' = disk
                 \/ Fault("storeSync") /\ disk' = j

\* The failure is logged, or dropped, and the operation goes on.
StoreBestEffort(j) == StoreOK(j) \/ StoreFails(j)

\* GracefulStop / stopInstance of the instances S: SIGTERM, grace, SIGKILL.
StopOK(S) == alive' = alive \ S /\ NoFault /\ UNCHANGED strays

\* The first unconfirmed stop of several ends them: left is what lives on.
StopFails(S) == /\ S \cap alive # {}
                /\ Fault("stop")
                /\ \E left \in (SUBSET (S \cap alive)) \ {{}} :
                      alive' = alive \ (S \ left) /\ strays' = strays \cup left

\* Client.Do: the daemon replaces the app's targets, and answers.
CallOK(targets) == route' = targets /\ NoFault /\ UNCHANGED misled

CallFails(targets) == \/ Fault("rpc") /\ UNCHANGED <<route, misled>>
                      \/ Fault("lostReply") /\ route' = targets /\ misled' = TRUE

\* The launcher starts one more process.
Launch == next <= MaxInst /\ alive' = alive \cup {next} /\ next' = next + 1

=============================================================================
