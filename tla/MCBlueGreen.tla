---------------------------- MODULE MCBlueGreen ----------------------------
(* Two small instances of BlueGreen, side by side: an application whose    *)
(* operations meet a call that fails, and one whose operations meet        *)
(* everything the next one has to recover from.  The halves share nothing; *)
(* in a behaviour one of them runs and the other stays as it began.        *)
EXTENDS BlueGreen

\* Calls that fail cleanly, and a proxy that forgets its routes.
CallFaults == {"store", "storeSync", "rpc", "promote", "reset"}

\* Everything an operation can leave behind for the next one to recover.  Failed
\* proxy calls are those whose reply was lost: they leave more behind.
RecoveryFaults == {"store", "lostReply", "status", "promote", "stop",
                   "crash", "die", "remove"}

Managed == {"fresh", "classic", "bluegreen"}

Migrating == {"rolling", "bluegreen"}

VARIABLES
  alive2, proven2, classic2, next2, route2, disk2, current2,
  pc2, mem2, loc2, budget2, removal2, before2, result2,
  half   \* which of the two runs

Rec == INSTANCE BlueGreen
         WITH Faults <- RecoveryFaults, MaxFaults <- 2, Origins <- Migrating,
              alive <- alive2, proven <- proven2, classic <- classic2, next <- next2,
              route <- route2, disk <- disk2, current <- current2, pc <- pc2,
              mem <- mem2, loc <- loc2, budget <- budget2, removal <- removal2,
              before <- before2, result <- result2

rec == <<alive2, proven2, classic2, next2, route2, disk2, current2,
         pc2, mem2, loc2, budget2, removal2, before2, result2>>

BothInit ==
  /\ Init /\ Rec!Init
  /\ \/ half = "calls" /\ disk2.mode = "rolling"
     \/ half = "recovery" /\ disk.mode = "blue-green"

BothNext ==
  /\ UNCHANGED half
  /\ \/ half = "calls" /\ Next /\ UNCHANGED rec
     \/ half = "recovery" /\ Rec!Next /\ UNCHANGED vars

BothSpec == BothInit /\ [][BothNext]_<<vars, rec, half>>

\* See BlueGreen: a deploy that completes leaves the proxy, deploy.json and
\* versions.json in agreement, whatever crashes and lost replies came before.
RecoveryRestoresAgreement == Rec!DeployRestoresAgreement

=============================================================================
