----------------------------- MODULE WorkLedger -----------------------------
(***************************************************************************)
(* What the worker promises for each item of work, a telemetry message or  *)
(* a webhook delivery, without queues, processors or letters: the fate of  *)
(* an item moves along a small graph, having been processed is final, and  *)
(* an item is lost only after a step that is known to put items at risk.   *)
(* Modules TelemetryPipeline and WebhookDelivery implement it.             *)
(***************************************************************************)
CONSTANT Items

VARIABLES
  fate,    \* fate[i]
  risky    \* items that went through a step that can lose them

(***************************************************************************)
(*   unknown    not in the queue's care                                    *)
(*   pending    accepted, and a job will run it                            *)
(*   processed  done with all its effects                                  *)
(*   held       set aside in a dead-letter queue for an administrator      *)
(*   lost       accepted, and nothing of the above                         *)
(***************************************************************************)
Fates == {"unknown", "pending", "processed", "held", "lost"}

Moves ==
  {<<"unknown", "pending">>,
   <<"pending", "processed">>, <<"pending", "held">>, <<"pending", "lost">>,
   <<"held", "pending">>, <<"held", "processed">>, <<"held", "lost">>,
   <<"lost", "pending">>, <<"lost", "processed">>, <<"lost", "held">>}

Init ==
  /\ fate = [i \in Items |-> "unknown"]
  /\ risky = {}

\* One step may move several items: a purge, a crash.
Next ==
  /\ fate' \in [Items -> Fates]
  /\ risky \subseteq risky'
  /\ \A i \in Items :
       fate'[i] # fate[i] =>
         /\ <<fate[i], fate'[i]>> \in Moves
         /\ fate'[i] = "lost" => i \in risky'

SafeSpec == Init /\ [][Next]_<<fate, risky>>

\* A pending item does not stay pending.
Settles == \A i \in Items : fate[i] = "pending" ~> fate[i] # "pending"

Spec == SafeSpec /\ Settles
=============================================================================
