------------------------------ MODULE Service ------------------------------
(***************************************************************************)
(* What a zero-downtime deployment promises to the users of an app.        *)
(*                                                                         *)
(* There are instances that run, instances that have been proven healthy,  *)
(* and the set of instances the proxy sends requests to.  While the app is *)
(* wanted, nobody stops an instance that is routed.  Instances that die by *)
(* themselves are outside this specification.                              *)
(***************************************************************************)
EXTENDS Naturals

CONSTANT MaxInst

VARIABLES alive, proven, route, wanted

svars == <<alive, proven, route, wanted>>

Launch == /\ \E i \in 1 .. MaxInst : alive' = alive \cup {i}
          /\ UNCHANGED <<proven, route, wanted>>

Prove == /\ \E i \in alive : proven' = proven \cup {i}
         /\ UNCHANGED <<alive, route, wanted>>

\* The proxy replaces its targets as a whole; {} closes the public port.
Cutover == /\ \E targets \in SUBSET proven : route' = targets
           /\ UNCHANGED <<alive, proven, wanted>>

Retire == /\ \E gone \in SUBSET alive :
               /\ wanted => gone \cap route = {}
               /\ alive' = alive \ gone
          /\ UNCHANGED <<proven, route, wanted>>

\* The owner asks for the app to be withdrawn, or the withdrawal is over.
Want == wanted' \in BOOLEAN /\ UNCHANGED <<alive, proven, route>>

Init == alive \subseteq 1 .. MaxInst /\ proven = alive /\ route = alive /\ wanted = TRUE

Next == Launch \/ Prove \/ Cutover \/ Retire \/ Want

Spec == Init /\ [][Next]_svars

=============================================================================
