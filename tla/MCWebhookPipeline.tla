------------------------- MODULE MCWebhookPipeline -------------------------
(* Two deliveries, of one commit or of two; requests choose between them.  *)
EXTENDS WebhookPipeline, TLC

CONSTANTS d1, d2, c1, c2

TwoCommits == d1 :> c1 @@ d2 :> c2

AllFaults == FaultKinds

=============================================================================
