-------------------------- MODULE MCRequestLedger --------------------------
(* A small ledger: more keys than entries, so that entries are evicted.    *)
EXTENDS OpRun, TLC

AllFaults == FaultKinds

NoFaults == {}

\* Processes and keys are interchangeable, and so are fingerprints.
Symmetry == Permutations(Proc) \cup Permutations(Key) \cup Permutations(Fingerprint)

=============================================================================
