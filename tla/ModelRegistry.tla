----------------------------- MODULE ModelRegistry -----------------------------
(***************************************************************************)
(* The registry of model cards of one process (packages/mlops/src), for    *)
(* the versions of one model name.                                         *)
(*                                                                         *)
(* A card belongs to a tenant or, without one, is global; a lookup for a   *)
(* tenant falls back to the global card.  Every operation is synchronous,  *)
(* so each is a step: what goes wrong comes from their order.              *)
(*                                                                         *)
(* Abstractions: of an evaluation, whether there is one; of a drift        *)
(* report, whether it is critical; the other fields of a card, and         *)
(* evaluateChallenger, which only compares two cards, are left out.        *)
(***************************************************************************)
CONSTANTS
  Owners,         \* tenants with cards of their own
  Global,         \* cards without a tenant
  Versions

ASSUME RegistryAssumption == Global \notin Owners

VARIABLES
  card,       \* card[o][v]: the card of o for version v; status "none": not registered
  crowned     \* history: <<o, v>> made champion by a promotion of o itself

registryVars == <<card, crowned>>

Scopes == Owners \cup {Global}
CardStatuses == {"candidate", "champion", "challenger", "disabled", "retired"}
Cards == [status : CardStatuses \cup {"none"}, evaluated : BOOLEAN]
Unregistered == [status |-> "none", evaluated |-> FALSE]

RegistryTypeOK ==
  /\ card \in [Scopes -> [Versions -> Cards]]
  /\ crowned \subseteq Scopes \X Versions

RegistryInit ==
  /\ card = [o \in Scopes |-> [v \in Versions |-> Unregistered]]
  /\ crowned = {}

\* getModel: the tenant's own card, or the global one.
HolderFor(o, v) == IF card[o][v].status # "none" THEN o ELSE Global
CardFor(o, v) == card[HolderFor(o, v)][v]

\* registerModel: the card replaces whatever was there.  A champion is evaluated.
RegisterModel(o, v, status, evaluated) ==
  /\ status = "champion" => evaluated
  /\ card' = [card EXCEPT ![o][v] = [status |-> status, evaluated |-> evaluated]]
  /\ crowned' = crowned \ {<<o, v>>}

\* Mutant: the champions that have the same version as the target.
RetireVersion(o, v, w) == v = w /\ card[o][w].status = "champion"
\* The cards of the caller's own scope that are champions.
Retires(o, v, w) == card[o][w].status = "champion"

\* promoteChampion: the target may be the global card, the retired are o's own.
PromoteChampion(o, v) ==
  LET target == HolderFor(o, v)
      retired == [w \in Versions |->
        IF Retires(o, v, w) THEN [card[o][w] EXCEPT !.status = "retired"] ELSE card[o][w]]
  IN /\ CardFor(o, v).status # "none"
     /\ CardFor(o, v).evaluated
     /\ card' = [[card EXCEPT ![o] = retired] EXCEPT ![target][v].status = "champion"]
     /\ crowned' = IF target = o THEN crowned \cup {<<o, v>>} ELSE crowned \ {<<target, v>>}

\* updateModelDrift and detectAutomatedDrift: a critical drift disables the card.
UpdateModelDrift(o, v, critical) ==
  /\ CardFor(o, v).status # "none"
  /\ card' = [card EXCEPT ![HolderFor(o, v)][v].status = IF critical THEN "disabled" ELSE @]
  /\ UNCHANGED crowned

\* The API registers its global champions again whenever models are listed.
ListModels(v) == RegisterModel(Global, v, "champion", TRUE)

RegistryNext ==
  \E v \in Versions :
    \/ \E o \in Scopes :
         \/ \E status \in {"candidate", "champion", "challenger"}, evaluated \in BOOLEAN :
              RegisterModel(o, v, status, evaluated)
         \/ PromoteChampion(o, v)
         \/ \E critical \in BOOLEAN : UpdateModelDrift(o, v, critical)
    \/ ListModels(v)

RegistrySpec == RegistryInit /\ [][RegistryNext]_registryVars
-----------------------------------------------------------------------------
(***************************************************************************)
(* A scope has at most one champion among those it promoted itself, in     *)
(* whatever order cards are registered, promoted and disabled; a second    *)
(* one was registered as such, or is global and promoted for a tenant.     *)
(***************************************************************************)
OneChampion ==
  \A o \in Scopes, v, w \in Versions :
    /\ <<o, v>> \in crowned /\ card[o][v].status = "champion"
    /\ <<o, w>> \in crowned /\ card[o][w].status = "champion"
    => v = w
=============================================================================
