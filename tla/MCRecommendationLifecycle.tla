--------------------- MODULE MCRecommendationLifecycle ---------------------
(***************************************************************************)
(* One row, which is all that decisions share, and three principals: one   *)
(* who may acknowledge, one who may approve and reject, and one who may    *)
(* read (and so resolve, expire or supersede).                             *)
(***************************************************************************)
EXTENDS RecommendationLifecycle

CONSTANTS r1, operator, approver, reader

OneRow == {r1}
MCActors == {operator, approver, reader}

MCPermissions ==
  [a \in MCActors |->
     CASE a = operator -> {"recommendation:acknowledge"}
       [] a = approver -> {"recommendation:approve", "recommendation:reject"}
       [] a = reader -> {"recommendation:read"}]
=============================================================================
