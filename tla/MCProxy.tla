------------------------------ MODULE MCProxy ------------------------------
(* The proxy's control plane and its data plane, checked side by side.     *)
(* They share one thing, the calls of SetTarget, which ProxyRouting admits *)
(* at any time: an instance therefore runs one plane with the other at     *)
(* rest, and every behaviour of either is a behaviour of BothSpec.         *)
EXTENDS ProxyDaemon, Integers, TLC

CONSTANTS Backends, TargetSets, Requests, MaxPicks, MaxSwaps

VARIABLES
  state, resetDue, wrr, ready, req, swaps, served, mixed, panicked,
  plane

R == INSTANCE ProxyRouting

\* One backend, or two with the primary listed again, and last.
OneOrTwo == {[primary |-> 1, addl |-> <<>>], [primary |-> 2, addl |-> <<1, 2>>]}

T(h, w) == [host |-> h, weight |-> w]

\* A canary split, equal replicas (no weights), and three unequal targets.
Splits == { <<T(1, 4), T(2, 1)>>, <<T(1, 0), T(2, 0), T(3, 0)>>, <<T(2, 3), T(3, 2), T(1, 1)>> }

Same == Permutations(Apps) \cup Permutations(Conns)

data == <<state, resetDue, wrr, ready, req, swaps, served, mixed, panicked>>

BothInit ==
  /\ Init /\ R!Init
  /\ \/ plane = "data"
     \/ plane = "control" /\ state = <<T(1, 4)>>

BothNext ==
  /\ UNCHANGED plane
  /\ \/ plane = "control" /\ Next /\ UNCHANGED data
     \/ plane = "data" /\ R!Next /\ UNCHANGED dvars

BothSpec == BothInit /\ [][BothNext]_<<dvars, data, plane>>

\* See ProxyRouting: every target gets its weighted share of the turns.
SharesKept == R!SharesKept

=============================================================================
