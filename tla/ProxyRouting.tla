---------------------------- MODULE ProxyRouting ---------------------------
(***************************************************************************)
(* The data plane of one Proxy (proxy/proxy.go): requests read the         *)
(* published targets without a lock, probe them and take turns by smooth   *)
(* weighted round-robin, while SetTarget replaces the targets and then, in *)
(* a second step, the turn counters.                                       *)
(***************************************************************************)
EXTENDS Integers, FiniteSets, Sequences, FiniteSetsExt

CONSTANTS
  Backends,     \* the hosts
  TargetSets,   \* the target lists SetTarget is called with, primary first
  Requests,     \* requests served at the same time
  MaxPicks,     \* bound: turns taken after a reset
  MaxSwaps      \* bound: calls of SetTarget

VARIABLES
  state,     \* the published targets: a sequence of [host, weight]
  resetDue,  \* SetTarget has published the targets and not yet reset the counters
  wrr,       \* the turn counter of each host, 0 when it has none
  ready,     \* the counters' map exists
  req,       \* the requests, each with the targets it goes by
  swaps,
  served,    \* history: turns of each host since the counters were reset
  mixed,     \* history: since then a turn was taken among other targets
  panicked   \* history: a request ended in a write to the missing map

rvars == <<state, resetDue, wrr, ready, req, swaps, served, mixed, panicked>>

NoTurns == [h \in Backends |-> 0]

\* effectiveWeight: below 1 means an equal share, above 100 is clamped.
EffectiveWeight(t) == IF t.weight <= 0 THEN 1 ELSE IF t.weight > 100 THEN 100 ELSE t.weight

Total(targets) == MapThenSumSet(LAMBDA i : EffectiveWeight(targets[i]), DOMAIN targets)

\* A request is known by the healthy targets it is about to choose from.
Waiting == <<>>

-----------------------------------------------------------------------------

\* SetTarget publishes the new targets ...
Publish(targets) ==
  /\ ~resetDue /\ swaps < MaxSwaps /\ swaps' = swaps + 1
  /\ state' = targets /\ resetDue' = TRUE
  /\ UNCHANGED <<wrr, ready, req, served, mixed, panicked>>

\* A bug: the counters of the previous targets are kept.
ResetMutant ==
  /\ resetDue /\ resetDue' = FALSE
  /\ ready' = TRUE /\ served' = NoTurns /\ mixed' = FALSE
  /\ UNCHANGED <<state, wrr, req, swaps, panicked>>

\* ... and then starts the counters anew.
Reset ==
  /\ resetDue /\ resetDue' = FALSE
  /\ wrr' = NoTurns /\ ready' = TRUE /\ served' = NoTurns /\ mixed' = FALSE
  /\ UNCHANGED <<state, req, swaps, panicked>>

\* The Director loads the targets, and with several of them pickHealthyHost asks
\* hostLive for each: a remembered or a fresh verdict, any outcome.  With fewer
\* than two healthy targets no turn is taken.
Arrive(r) ==
  /\ req[r] = Waiting
  /\ \E live \in SUBSET Backends :
       LET healthy == SelectSeq(state, LAMBDA t : t.host \in live) IN
         Len(healthy) > 1 /\ req' = [req EXCEPT ![r] = healthy]
  /\ UNCHANGED <<state, resetDue, wrr, ready, swaps, served, mixed, panicked>>

\* The earliest target with the highest score.
Best(targets, score) ==
  CHOOSE i \in DOMAIN targets : \A j \in DOMAIN targets :
    score[i] > score[j] \/ (score[i] = score[j] /\ i <= j)

\* pickWeighted: every healthy target gains its weight, the best pays the total.
PickWeighted(r) ==
  /\ req[r] # Waiting /\ req' = [req EXCEPT ![r] = Waiting]
  /\ LET healthy == req[r]
         score == [i \in DOMAIN healthy |-> wrr[healthy[i].host] + EffectiveWeight(healthy[i])]
         best == Best(healthy, score)
         chosen == healthy[best].host
     IN
       \/ /\ ~ready /\ panicked' = TRUE /\ UNCHANGED <<wrr, served, mixed>>
       \/ /\ ready /\ UNCHANGED panicked
          /\ MapThenSumSet(LAMBDA h : served[h], Backends) < MaxPicks
          /\ wrr' = [h \in Backends |->
                       IF \E i \in DOMAIN healthy : healthy[i].host = h
                       THEN LET i == CHOOSE k \in DOMAIN healthy : healthy[k].host = h
                            IN  score[i] - (IF i = best THEN Total(healthy) ELSE 0)
                       ELSE wrr[h]]
          /\ served' = [served EXCEPT ![chosen] = @ + 1]
          /\ mixed' = (mixed \/ healthy # state)
  /\ UNCHANGED <<state, resetDue, ready, swaps>>

-----------------------------------------------------------------------------

Init ==
  /\ \E t \in TargetSets : state = <<t[1]>>
  /\ resetDue = FALSE /\ wrr = NoTurns /\ ready = FALSE
  /\ req = [r \in Requests |-> Waiting]
  /\ swaps = 0 /\ served = NoTurns /\ mixed = FALSE /\ panicked = FALSE

Next ==
  \/ \E t \in TargetSets : Publish(t)
  \/ Reset
  \/ \E r \in Requests : Arrive(r) \/ PickWeighted(r)

Spec == Init /\ [][Next]_rvars

-----------------------------------------------------------------------------
(* Properties.                                                             *)

Turns == MapThenSumSet(LAMBDA h : served[h], Backends)

\* Since the last reset, and as long as every request saw the same healthy targets,
\* each has been given its weighted share of the turns to within one turn, and the
\* exact share after every full round (pickWeighted: "a 95/5 split is served as
\* exactly 95%/5% over time").
SharesKept ==
  ~mixed /\ ~resetDue =>
    \A i \in DOMAIN state :
      LET due == Turns * EffectiveWeight(state[i])
          got == served[state[i].host] * Total(state)
      IN  /\ due - got < Total(state) /\ got - due < Total(state)
          /\ Turns % Total(state) = 0 => due = got

=============================================================================
