------------------------------ MODULE MCOperations ------------------------------
(***************************************************************************)
(* Instance of the operational components: incidents, accounts, tenancy,   *)
(* the queue connection, dispatch, the model registry, measurements, the   *)
(* soak harness and installation access.  None of them shares state        *)
(* with another, so in each behaviour one of them (part) moves and the     *)
(* others stay as they began.                                              *)
(*                                                                         *)
(* Ids that only have to be fresh are taken in order, which leaves out     *)
(* behaviours that differ by a renaming.                                   *)
(***************************************************************************)
EXTENDS Incidents, Accounts, Tenancy, QueueConnection, Dispatch, ModelRegistry,
        Measurements, SoakHarness, InstallationAccess, FiniteSets, TLC

CONSTANTS c1, c2, i1, u1, u2, u3, u4, s1, s2, x1, x2, p1, p2, t1, t2

MCHours == [forecast : {0, 600000}, load : {200000, 500000}, exportLimit : {0, 300000},
            tariff : {10, 40}]
MCCharges == {150000, 525007, 900000}
MCSites == [power : {500000}, cRate : {200000, 600000}, reserved : {0, 100000},
            hydrogen : {1000}, flexible : {{}}, blocked : {FALSE}, root : {90, 92}]
           \cup [power : {500000}, cRate : {600000}, reserved : {0},
                 hydrogen : {1000}, flexible : {{0}}, blocked : {TRUE}, root : {96}]

Envelope(i, n, minutes, value, unit, limits, simulated, good) ==
  [id |-> i, sequence |-> n, late |-> minutes, value |-> value, unit |-> unit,
   limits |-> limits, simulated |-> simulated, complete |-> 100, good |-> good]
MCEnvelopes == {Envelope(1, 1, 0, 5, "kW", NoRange, FALSE, 100),
                Envelope(2, 2, 16, 7, "kW", [min |-> 0, max |-> 6], FALSE, 90),
                Envelope(3, NoSequence, 400, 5, NoUnit, NoRange, TRUE, 0)}
MCProfiles == {[min |-> 0, max |-> 8, unit |-> "kW"], [min |-> 0, max |-> 8, unit |-> "MW"],
               [min |-> 6, max |-> 4, unit |-> NoUnit]}
MCPhysical == [min |-> 0, max |-> 10, unit |-> "kW"]

Plant(tenantId, product, key) == [tenant |-> tenantId, product |-> product, key |-> key]
MCPlants == {Plant(t1, x1, p1), Plant(t1, x2, p1), Plant(t1, x1, p2), Plant(t2, x1, p1)}
MCMembers == {<<t1, s1>>, <<t2, s1>>, <<t1, s2>>}

VARIABLE part

Parts == {"incidents", "factor", "tokens", "lockout", "records", "people", "provisioning",
          "queue", "dispatch", "registry", "measurements", "soak",
          "access"}
AccountParts == {"factor", "tokens", "lockout"}
TenancyParts == {"records", "people", "provisioning"}

MCInit ==
  /\ part \in Parts
  /\ IncidentInit
  /\ AccountInit /\ account.password # p2
  /\ part \notin AccountParts => account.password = Nobody
  \* The persons are alike: one of them is the operator.
  /\ TenancyInit /\ person[s1] = "there"
  /\ part \notin TenancyParts => member = {}
  /\ QueueInit
  /\ part # "queue" => redis
  /\ IF part = "dispatch" THEN DispatchInit
     ELSE /\ horizon = <<>> /\ site = CHOOSE s \in MCSites : s.blocked
          /\ strategy = "greedy" /\ soc = Reserve /\ left = soc
          /\ plan = NoPlan /\ hour = 0 /\ violations = {} /\ satisfied = TRUE
  /\ RegistryInit
  /\ MeasurementInit
  /\ part # "measurements" => profile = NoRange
  /\ SoakInit
  /\ AccessInit

\* Updates begin in order; four of the statuses are left out.
IncidentOrder ==
  /\ \A u \in Updates : update'[u].pc = "write" =>
       update'[u].to \in {"OPEN", "INVESTIGATING", "RESOLVED"}
  /\ \A u \in {<<u1, u2>>, <<u2, u3>>, <<u3, u4>>} :
       update'[u[2]] # Unsent => update'[u[1]] # Unsent

\* What the account's calls are about: the second factor, tokens or failed logins.
AccountFocus ==
  /\ session'[s2] # "none" => session'[s1] # "none"
  /\ account'.password = p2 => account.password # Nobody
  /\ part # "factor" => account'.secret = account.secret
  /\ part = "factor" =>
       /\ token' = token
       /\ \A k \in AccountCalls : request'[k].pc \notin {"issue", "switch", "revoke"}
  /\ part = "lockout" =>
       /\ \A s \in Sessions : session'[s] \in {session[s], t1}
       /\ \A k \in AccountCalls : request'[k].pc # "switch"
  /\ part # "lockout" => \A k \in AccountCalls : request'[k].pc # "count"
  /\ part # "tokens" => session'[s2] = "none"
  /\ session'[s1] # t2
  /\ part # "tokens" => \A k \in AccountCalls : request'[k].ended # {t2}
  /\ part = "tokens" =>
       /\ \A k \in AccountCalls : request'[k].pc # "revoke"
       /\ session'[s2] = session[s2] \/ session'[s2] # t1
  /\ \A k \in AccountCalls :
       \/ request'[k].pc = "issue"
       \/ request'[k].thing \in {"EMAIL_VERIFICATION", "ACCOUNT_UNLOCK"}
       => \A l \in AccountCalls \ {k} : request'[l] = NoRequest

NotRetaining == \A k \in TenantCalls : ~Is(k, "retain")'
NothingOld == \A t \in TenantIds : "old" \notin offboarded'[t]

\* One tenant's audit events and retention; users and members of two tenants; or
\* provisioning one by one with everything else.
TenancyFocus ==
  /\ part = "records" =>
       /\ UNCHANGED people
       /\ \A k \in TenantCalls : work'[k].on \in {0, t1} /\ work'[k].todo = {}
  /\ part = "people" =>
       /\ UNCHANGED identity /\ NothingOld /\ NotRetaining
       /\ \A k \in TenantCalls : ~Is(k, "provision")'
  /\ part = "provisioning" =>
       /\ UNCHANGED identity /\ NothingOld /\ NotRetaining
       /\ \E k \in TenantCalls : Is(k, "idle")'
       /\ \A k \in TenantCalls : ~Is(k, "invite")' /\ (work'[k].deletes => work'[k].on = t1)

\* Only the first report's age and failure rate matter, and a cycle of the first soak in
\* which messages fail is one in which all do; a multi-day soak aborts for latency.
SoakFocus ==
  /\ report'["days"] # NoReport => ~report'["days"].stale
  /\ \A h \in Harnesses :
       /\ harness'[h].failing => ~harness'[h].success
       /\ harness'[h].kind = "days" =>
            ~harness'[h].failing /\ (harness'[h].pc = "judge" => harness'[h].success)

Started(c) == change'[c] # NoChange
Events == trail \cup lost \cup {change[c].event : c \in {d \in Changes : change[d] # NoChange}}

\* Two events about s1, a manager of t1 at most, one of which may get lost; s2
\* operates the platform.
AccessFocus ==
  /\ Cardinality(Events') <= 2 /\ Cardinality(lost') <= 1
  /\ \A c \in Changes : Started(c) =>
       LET event == change'[c].event IN
       /\ event.of[1][2] = s1 /\ event.of[2] # viewer
       /\ event.of[2] = manager => event.of[1][1] = t1
       /\ event.kind = "ROLE_REMOVED" => event.of[1][1] = t1 /\ trail # {}
  /\ \A q \in Requests :
       /\ route[q].pc # "done"
       /\ route'[q] # NewRequest /\ route'[q].user = s2 => Events' = {}

MCNext ==
  /\ UNCHANGED part
  /\ IF part = "incidents" THEN IncidentNext /\ IncidentOrder ELSE UNCHANGED incidentVars
  /\ IF part \in AccountParts THEN AccountNext /\ AccountFocus ELSE UNCHANGED accountVars
  /\ IF part \in TenancyParts THEN TenancyNext /\ TenancyFocus ELSE UNCHANGED tenancyVars
  /\ IF part = "queue" THEN QueueNext ELSE UNCHANGED queueVars
  /\ IF part = "dispatch" THEN PlanHour ELSE UNCHANGED dispatchVars
  /\ IF part = "registry" THEN RegistryNext ELSE UNCHANGED registryVars
  /\ IF part = "measurements" THEN MeasurementNext ELSE UNCHANGED measurementVars
  /\ IF part = "soak" THEN SoakNext /\ SoakFocus ELSE UNCHANGED soakVars
  /\ IF part = "access" THEN AccessNext /\ AccessFocus ELSE UNCHANGED accessVars

MCSpec == MCInit /\ [][MCNext]_<<part, incidentVars, accountVars, tenancyVars, queueVars,
                              dispatchVars, registryVars, measurementVars, soakVars, accessVars>>

Symmetry == Permutations({c1, c2})

(***************************************************************************)
(* The variables of every component have their types.                      *)
(***************************************************************************)
OperationsTypeOK ==
  /\ IncidentTypeOK /\ AccountTypeOK /\ TenancyTypeOK /\ QueueTypeOK
  /\ RegistryTypeOK /\ MeasurementTypeOK /\ SoakTypeOK
  /\ AccessTypeOK
=============================================================================
