--------------------------- MODULE MCFairnessGate ---------------------------
(***************************************************************************)
(* Five slots shared by two tenants with a limit of two: enough for two    *)
(* running operations, two parked calls of the same tenant, and a call     *)
(* that barges in between a release and the waiter's continuation.         *)
(***************************************************************************)
EXTENDS FairnessGate

CONSTANTS t1, t2, s1, s2, s3, s4, s5

MCTenants == {t1, t2}
MCSlots == {s1, s2, s3, s4, s5}
=============================================================================
