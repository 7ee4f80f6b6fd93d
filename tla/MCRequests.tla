----------------------------- MODULE MCRequests -----------------------------
(***************************************************************************)
(* The three components that requests of the API and the gateway go        *)
(* through, side by side: the credentials, the admission of signed         *)
(* batches, and the decisions on recommendations.  They share no state, so *)
(* in each behaviour one of them (part) moves and the others stay as they  *)
(* began; part also names the request that an admission is about.          *)
(*                                                                         *)
(* Credentials: a credential and its replacement, one of which expires,    *)
(* the API and the gateway, two administration requests at once of which   *)
(* one rotates, one lookup, and a cache that is valid for one unit of      *)
(* time: an entry is valid or gone, a lookup is fresh or too slow.         *)
(*                                                                         *)
(* Admission: two calls carry the same request to two processes that share *)
(* a Redis.  batch has two messages and no rate key; faulty is like it,    *)
(* with a second message that does not validate; keyed has one rate key    *)
(* and no good credential, because the rate limiter and the replay guard   *)
(* share no state.                                                         *)
(*                                                                         *)
(* Decisions: one row, which is all that they share, and three principals: *)
(* one who may acknowledge, one who may approve and reject, and one who    *)
(* may read (and so resolve, expire or supersede).                         *)
(***************************************************************************)
EXTENDS Credentials, Admission, RecommendationLifecycle, FiniteSets, TLC

\* Values that play like parts in two components, so that one symmetry serves both.
CONSTANTS a1, a2,   \* credential rows; processes that admit
          b1, b2    \* administration requests; calls of the gateway

CONSTANTS l1, gateway, batch, faulty, keyed, ip, m1, m2, m3, r1, operator, approver, reader

MCKeysOf == batch :> <<>> @@ faulty :> <<>> @@ keyed :> <<ip>>
MCBatch == batch :> <<m1, m2>> @@ faulty :> <<m1, m3>> @@ keyed :> <<m1>>

MCPermissions ==
  operator :> {"recommendation:acknowledge"}
  @@ approver :> {"recommendation:approve", "recommendation:reject"}
  @@ reader :> {"recommendation:read"}

Alike == Permutations({a1, a2}) \cup Permutations({b1, b2})

VARIABLE part

MCInit ==
  /\ part \in {"credentials", "decisions"} \cup Requests
  /\ CredentialInit
  /\ AdmissionInit /\ \A r \in Requests \ {part} : age[r] = 0
  /\ LifecycleInit

Rotating == {a \in AdminCalls : adminCall[a].pc \in {"rotate", "rotated", "replace"}}
OneRotates == Cardinality(Rotating) <= 1
OneExpires == Cardinality(overdue) <= 1

About == \A k \in Calls : ~At(k, "idle") => call[k].req = part

MCNext ==
  /\ UNCHANGED part
  /\ IF part = "credentials" THEN CredentialNext /\ (OneRotates /\ OneExpires)'
     ELSE UNCHANGED credentialVars
  /\ IF part \in Requests THEN AdmissionNext /\ About' ELSE UNCHANGED admissionVars
  /\ IF part = "decisions" THEN LifecycleNext ELSE UNCHANGED lifecycleVars

MCSpec == MCInit /\ [][MCNext]_<<part, credentialVars, admissionVars, lifecycleVars>>

(***************************************************************************)
(* The variables of every component have their types.                      *)
(***************************************************************************)
RequestsTypeOK == CredentialTypeOK /\ AdmissionTypeOK /\ LifecycleTypeOK
=============================================================================
