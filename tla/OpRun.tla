------------------------------- MODULE OpRun -------------------------------
(***************************************************************************)
(* The request-key ledger as the CLI commands use it (cmd/oprun.go).       *)
(*                                                                         *)
(* A command defers opRun.finish before it calls beginIdempotency, so      *)
(* finish also runs when the ledger has refused the request: unless the    *)
(* request was replayed, finish completes the key, with the envelope of    *)
(* the refusal.                                                            *)
(***************************************************************************)
EXTENDS RequestLedger

\* A replayed command writes the stored envelope, and that is all; one whose
\* result was not recorded only logs it.
Over(p) == pc[p] \in {"replayed", "unrecorded"} /\ Leave(p)

\* finish after a refusal: CompleteKeyData locks and re-reads the file first.
FinishRefused(p) == pc[p] = "refused" /\ Reload(p, "recordRefusal", "unrecorded")

\* completeLocked with the refusal as the result.
RecordRefusal(p) == pc[p] = "recordRefusal" /\ Complete(p, "refusal")

OpRunNext ==
  \/ \E p \in Proc : Ledger(p) \/ Over(p) \/ FinishRefused(p)
                       \/ RecordRefusal(p) \/ Crash(p) \/ ReusePid(p)
  \/ \E k \in Key : Age(k)

OpRunSpec == Init /\ [][OpRunNext]_vars

=============================================================================
