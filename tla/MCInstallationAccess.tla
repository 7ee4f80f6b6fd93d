------------------------- MODULE MCInstallationAccess -------------------------
(***************************************************************************)
(* Instance of installation access: one user of one tenant, whose two      *)
(* products each have a site with the same external key; one               *)
(* administrator's change at a time and one request.                       *)
(***************************************************************************)
EXTENDS InstallationAccess

CONSTANTS tenantA, ada, solar, battery, roof

MCPlants == [tenant : {tenantA}, product : {solar, battery}, key : {roof}]
MCMembers == {<<tenantA, ada>>}
=============================================================================
