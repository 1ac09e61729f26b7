----------------------------- MODULE MCRolling -----------------------------
(* Small instances of Rolling.                                             *)
EXTENDS Rolling

AllFaults == FaultKinds

\* A fresh app is a classic one whose public port nobody owns any more.
RunningApps == {"classic", "bluegreen", "rolling"}

=============================================================================
