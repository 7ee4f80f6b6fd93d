------------------------ MODULE MCTelemetryPipeline ------------------------
(***************************************************************************)
(* One message, two worker processes (a stale one and its successor), one  *)
(* administrator, two attempts instead of five, one recommendation for one *)
(* endpoint.  A behaviour has a crash and either a lost lock or a trim of  *)
(* the retained job.                                                       *)
(***************************************************************************)
EXTENDS TelemetryPipeline

CONSTANTS m1, m2, w1, w2, a1, r1, r2, e1

OneMessage == {m1}
TwoMessages == {m1, m2}
OneWorker == {w1}
TwoWorkers == {w1, w2}
OneAdmin == {a1}
OneRecommendation == {r1}
TwoRecommendations == {r1, r2}
OneEndpoint == {e1}
SomeFaults == {<<1, 0, 1>>, <<1, 1, 0>>}
NoFaults == {<<0, 0, 0>>}
=============================================================================
