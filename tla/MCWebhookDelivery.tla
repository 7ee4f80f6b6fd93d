------------------------- MODULE MCWebhookDelivery -------------------------
(***************************************************************************)
(* Two concurrent jobs, one for an event of the telemetry worker and one   *)
(* from the test route; two attempts instead of five, and two failures     *)
(* disable instead of ten: the jobs can take the count to the limit and    *)
(* past it.                                                                *)
(***************************************************************************)
EXTENDS WebhookDelivery

CONSTANTS j1, j2, created, test

MCJobs == {j1, j2}
MCEventJobs == {j1}
MCKeys == {created, test}
MCKey == [j \in MCJobs |-> IF j = j1 THEN created ELSE test]
=============================================================================
