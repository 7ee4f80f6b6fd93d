---------------------------- MODULE MCAdmission ----------------------------
(***************************************************************************)
(* Two calls carry the same request to two gateways that share a Redis.    *)
(* A behaviour is about one of three requests.  batch has two messages and *)
(* no rate key; faulty is like it, with a second message that does not     *)
(* validate; keyed has one rate key and no good credential.  The rate      *)
(* limiter and the replay guard share no state: they are explored side by  *)
(* side, not in all combinations.                                          *)
(***************************************************************************)
EXTENDS Admission, TLC

CONSTANTS p1, p2, k1, k2, batch, faulty, keyed, ip, m1, m2, m3

VARIABLE part

MCProcesses == {p1, p2}
MCCalls == {k1, k2}
MCRequests == {batch, faulty, keyed}
MCRateKeys == {ip}
MCKeysOf == batch :> <<>> @@ faulty :> <<>> @@ keyed :> <<ip>>
MCGood == {batch, faulty}
MCMessages == {m1, m2, m3}
MCBatch == batch :> <<m1, m2>> @@ faulty :> <<m1, m3>> @@ keyed :> <<m1>>
MCInvalid == {m3}
Alike == Permutations(MCProcesses) \cup Permutations(MCCalls)

MCInit == AdmissionInit /\ part \in Requests /\ \A r \in Requests \ {part} : age[r] = 0
About == \A k \in Calls : ~At(k, "idle") => call[k].req = part
MCNext == AdmissionNext /\ UNCHANGED part /\ About'
MCSpec == MCInit /\ [][MCNext]_<<admissionVars, part>>
MCFairSpec == MCSpec /\ Fairness
=============================================================================
