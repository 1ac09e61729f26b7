----------------------------- MODULE MCRollout -----------------------------
(* Small instances of Rollout.                                             *)
EXTENDS Rollout

AllFaults == FaultKinds

BothOrigins == {"bluegreen", "rolling"}

\* An interrupted rollout and nothing else, over an active blue slot.
Kills == {"crash"}

ActiveSlot == {"bluegreen"}

=============================================================================
