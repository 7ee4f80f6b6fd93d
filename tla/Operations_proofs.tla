--------------------------- MODULE Operations_proofs ---------------------------
(***************************************************************************)
(* Proofs about the queue connection, the model registry, incidents,       *)
(* measurements, the soak harness, dispatch and tenancy, for any numbers   *)
(* of callers, owners, versions, updates, messages, workers, harnesses,    *)
(* hours, sites and tenants; and about the nine components side by side.   *)
(***************************************************************************)
EXTENDS MCOperations, Access_proofs

(***************************************************************************)
(* QueueConnection.  At most one reconnection is in progress, only while   *)
(* the promise is there, and until it replaces the connection the one it   *)
(* remembers is current: so the connection it ends is the only one.        *)
(***************************************************************************)
OneFlight ==
  /\ \A f \in Flights : flight[f].pc # "idle" => reconnecting
  /\ \A f, g \in Flights : flight[f].pc # "idle" /\ flight[g].pc # "idle" => f = g
  /\ \A f \in Flights : flight[f].pc = "close" => flight[f].previous = current

QueueInv == QueueTypeOK /\ OneFlight /\ OneConnection

LEMMA QueueInitInv == QueueInit => QueueInv
<1> SUFFICES ASSUME QueueInit PROVE QueueInv
  OBVIOUS
<1> USE QueueAssumption DEF QueueInit
<1>0. 1 \in Links
  BY DEF Links
<1>1. QueueTypeOK
  BY <1>0 DEF QueueTypeOK
<1>2. OneFlight
  BY DEF OneFlight
<1>3. OneConnection
  BY <1>0 DEF OneConnection
<1> QED BY <1>1, <1>2, <1>3 DEF QueueInv

LEMMA QueueInductiveInv == QueueInv /\ [QueueNext]_queueVars => QueueInv'
<1> SUFFICES ASSUME QueueInv, [QueueNext]_queueVars PROVE QueueInv'
  OBVIOUS
<1>0. QueueTypeOK /\ OneFlight /\ OneConnection
  BY DEF QueueInv
<1>1. CASE RedisChanges
  <2>1. QueueTypeOK'
    BY <1>0, <1>1 DEF QueueTypeOK, RedisChanges
  <2>2. OneFlight' /\ OneConnection'
    BY <1>0, <1>1 DEF QueueTypeOK, OneFlight, OneConnection, RedisChanges
  <2> QED BY <2>1, <2>2 DEF QueueInv
<1>2. ASSUME NEW c \in Links, LinkReady(c) PROVE QueueInv'
  <2>1. QueueTypeOK'
    BY <1>0, <1>2 DEF QueueTypeOK, LinkReady
  <2>2. OneFlight' /\ OneConnection'
    BY <1>0, <1>2 DEF QueueTypeOK, OneFlight, OneConnection, LinkReady
  <2> QED BY <2>1, <2>2 DEF QueueInv
<1>3. ASSUME NEW f \in Flights, Replace(f) PROVE QueueInv'
  <2>1. PICK c \in Links :
          /\ link[c] = "none"
          /\ link' = [link EXCEPT ![flight[f].previous] = "end", ![c] = "connecting"]
          /\ current' = c
    BY <1>3 DEF Replace
  <2>2. /\ flight[f].pc = "close" /\ flight[f].previous = current
        /\ flight' = [flight EXCEPT ![f].pc = "wait"]
        /\ UNCHANGED <<redis, reconnecting, ping>>
    BY <1>0, <1>3 DEF Replace, OneFlight
  <2>3. QueueTypeOK'
    BY <1>0, <2>1, <2>2 DEF QueueTypeOK
  <2>4. OneFlight'
    BY <1>0, <2>1, <2>2 DEF QueueTypeOK, OneFlight
  <2>5. c # current
    BY <1>0, <2>1 DEF QueueTypeOK, OneConnection
  <2>6. link' = [d \in Links |-> IF d = c THEN "connecting"
                                 ELSE IF d = current THEN "end" ELSE link[d]]
    BY <1>0, <2>1, <2>2, <2>5 DEF QueueTypeOK
  <2>7. OneConnection'
    BY <1>0, <2>1, <2>6 DEF OneConnection
  <2> QED BY <2>3, <2>4, <2>7 DEF QueueInv
<1>4. ASSUME NEW f \in Flights, Landed(f) PROVE QueueInv'
  <2>1. QueueTypeOK'
    BY <1>0, <1>4 DEF QueueTypeOK, Landed
  <2>2. OneFlight' /\ OneConnection'
    BY <1>0, <1>4 DEF QueueTypeOK, OneFlight, OneConnection, Landed
  <2> QED BY <2>1, <2>2 DEF QueueInv
<1>5. ASSUME NEW p \in Pings, StartPing(p) \/ SendPing(p) \/ Pong(p) PROVE QueueInv'
  <2>1. UNCHANGED <<redis, link, current, reconnecting, flight>>
    BY <1>5 DEF StartPing, SendPing, Pong
  <2>2. ping' \in [Pings -> [pc : {"idle", "wait", "sent"}, on : Links]]
    <3>1. CASE StartPing(p)
      BY <1>0, <3>1 DEF QueueTypeOK, StartPing
    <3>2. CASE SendPing(p)
      BY <1>0, <3>2 DEF QueueTypeOK, SendPing
    <3>3. CASE Pong(p)
      BY <1>0, <3>3 DEF QueueTypeOK, Pong
    <3> QED BY <1>5, <3>1, <3>2, <3>3
  <2>3. QueueTypeOK'
    BY <1>0, <2>1, <2>2 DEF QueueTypeOK
  <2>4. OneFlight' /\ OneConnection'
    BY <1>0, <2>1 DEF OneFlight, OneConnection
  <2> QED BY <2>3, <2>4 DEF QueueInv
<1>6. ASSUME NEW p \in Pings, PingFails(p) PROVE QueueInv'
  <2>1. UNCHANGED <<redis, link, current>> /\ ping' = [ping EXCEPT ![p].pc = "idle"]
    BY <1>6 DEF PingFails
  <2>2. ping' \in [Pings -> [pc : {"idle", "wait", "sent"}, on : Links]]
    BY <1>0, <2>1 DEF QueueTypeOK
  <2>3. CASE UNCHANGED <<reconnecting, flight>>
    BY <1>0, <2>1, <2>2, <2>3 DEF QueueInv, QueueTypeOK, OneFlight, OneConnection
  <2>4. ASSUME NEW f \in Flights, ~reconnecting, reconnecting' = TRUE,
               flight' = [flight EXCEPT ![f] = [pc |-> "close", previous |-> current]]
        PROVE  QueueInv'
    <3>1. \A g \in Flights : flight[g].pc = "idle"
      BY <1>0, <2>4 DEF OneFlight
    <3>2. QueueTypeOK'
      BY <1>0, <2>1, <2>2, <2>4 DEF QueueTypeOK
    <3>3. OneFlight'
      BY <1>0, <2>1, <2>4, <3>1 DEF QueueTypeOK, OneFlight
    <3>4. OneConnection'
      BY <1>0, <2>1 DEF OneConnection
    <3> QED BY <3>2, <3>3, <3>4 DEF QueueInv
  <2> QED BY <1>6, <2>3, <2>4 DEF PingFails, Reconnect, JoinsReconnection
<1>7. CASE UNCHANGED queueVars
  BY <1>0, <1>7 DEF queueVars, QueueInv, QueueTypeOK, OneFlight, OneConnection
<1> QED BY <1>1, <1>2, <1>3, <1>4, <1>5, <1>6, <1>7 DEF QueueNext

(***************************************************************************)
(* However many pings fail together, reconnectQueue leaves one connection. *)
(***************************************************************************)
THEOREM NoConnectionLeaks == QueueSpec => []OneConnection
<1>1. QueueInv => OneConnection
  BY DEF QueueInv
<1> QED BY <1>1, QueueInitInv, QueueInductiveInv, PTL DEF QueueSpec
-----------------------------------------------------------------------------
(***************************************************************************)
(* ModelRegistry.  With the types the property is inductive: a promotion   *)
(* retires every champion of its scope, and a global card promoted for a   *)
(* tenant is no longer one that the global scope promoted.                 *)
(***************************************************************************)
RegistryInv == RegistryTypeOK /\ OneChampion

\* A change of one card that makes no card a champion of its own scope.
LEMMA OneCardChanges ==
  ASSUME RegistryInv, NEW o \in Scopes, NEW v \in Versions, NEW new \in Cards,
         card' = [card EXCEPT ![o][v] = new],
         crowned' \subseteq crowned,
         \/ <<o, v>> \notin crowned'
         \/ new.status = "champion" => card[o][v].status = "champion"
  PROVE  RegistryInv'
<1>1. RegistryTypeOK'
  BY DEF RegistryInv, RegistryTypeOK
<1>2. \A p \in Scopes, w \in Versions :
        <<p, w>> \in crowned' /\ card'[p][w].status = "champion"
          => <<p, w>> \in crowned /\ card[p][w].status = "champion"
  BY DEF RegistryInv, RegistryTypeOK
<1>3. OneChampion'
  BY <1>2 DEF RegistryInv, OneChampion
<1> QED BY <1>1, <1>3 DEF RegistryInv

LEMMA RegisterInv ==
  ASSUME RegistryInv, NEW o \in Scopes, NEW v \in Versions,
         NEW status_ \in CardStatuses, NEW evaluated \in BOOLEAN,
         RegisterModel(o, v, status_, evaluated)
  PROVE  RegistryInv'
<1> DEFINE new == [status |-> status_, evaluated |-> evaluated]
<1>1. new \in Cards
  BY DEF Cards
<1>2. card' = [card EXCEPT ![o][v] = new] /\ crowned' = crowned \ {<<o, v>>}
  BY DEF RegisterModel
<1> HIDE DEF new
<1> QED BY <1>1, <1>2, OneCardChanges

LEMMA DriftInv ==
  ASSUME RegistryInv, NEW o \in Scopes, NEW v \in Versions, NEW critical \in BOOLEAN,
         UpdateModelDrift(o, v, critical)
  PROVE  RegistryInv'
<1> DEFINE h == HolderFor(o, v)
           new == [card[h][v] EXCEPT !.status = IF critical THEN "disabled" ELSE @]
<1>1. h \in Scopes
  BY DEF HolderFor, Scopes
<1>2. card[h][v] \in Cards
  BY <1>1 DEF RegistryInv, RegistryTypeOK
<1>3. new \in Cards /\ (new.status = "champion" => card[h][v].status = "champion")
  BY <1>2 DEF Cards, CardStatuses
<1>4. card' = [card EXCEPT ![h][v] = new] /\ crowned' = crowned
  BY <1>1, <1>2 DEF UpdateModelDrift, RegistryInv, RegistryTypeOK
<1> HIDE DEF new, h
<1> QED BY <1>1, <1>3, <1>4, OneCardChanges

LEMMA PromoteInv ==
  ASSUME RegistryInv, NEW o \in Scopes, NEW v \in Versions, PromoteChampion(o, v)
  PROVE  RegistryInv'
<1> DEFINE target == HolderFor(o, v)
           retired == [w \in Versions |->
             IF Retires(o, v, w) THEN [card[o][w] EXCEPT !.status = "retired"]
             ELSE card[o][w]]
           between == [card EXCEPT ![o] = retired]
<1>0. card \in [Scopes -> [Versions -> Cards]] /\ crowned \subseteq Scopes \X Versions
  BY DEF RegistryInv, RegistryTypeOK
<1>1. target \in Scopes
  BY DEF HolderFor, Scopes
<1>2. /\ card' = [between EXCEPT ![target][v].status = "champion"]
      /\ crowned' = IF target = o THEN crowned \cup {<<o, v>>}
                    ELSE crowned \ {<<target, v>>}
  BY DEF PromoteChampion
<1>3. \A w \in Versions : retired[w] \in Cards /\ retired[w].status # "champion"
  BY SMTT(30), <1>0 DEF Retires, Cards, CardStatuses
<1> HIDE DEF target, retired
<1>4. /\ between \in [Scopes -> [Versions -> Cards]]
      /\ \A p \in Scopes, w \in Versions :
           between[p][w] = IF p = o THEN retired[w] ELSE card[p][w]
  BY <1>0, <1>3 DEF retired
<1> HIDE DEF between
<1>5. /\ card' \in [Scopes -> [Versions -> Cards]]
      /\ \A p \in Scopes, w \in Versions :
           card'[p][w].status = IF p = target /\ w = v THEN "champion"
                                ELSE between[p][w].status
  BY <1>1, <1>2, <1>4 DEF Cards, CardStatuses
<1>6. RegistryTypeOK'
  BY <1>0, <1>1, <1>2, <1>5 DEF RegistryTypeOK
<1>7. ASSUME NEW p \in Scopes, NEW w \in Versions,
             <<p, w>> \in crowned', card'[p][w].status = "champion"
      PROVE  \/ p = o /\ w = v
             \/ p # o /\ <<p, w>> \in crowned /\ card[p][w].status = "champion"
  <2>1. CASE p = o
    <3>1. between[p][w].status # "champion"
      BY <1>3, <1>4, <2>1
    <3>2. p = target /\ w = v
      BY <1>5, <1>7, <3>1
    <3> QED BY <2>1, <3>2
  <2>2. CASE p # o
    <3>1. between[p][w] = card[p][w]
      BY <1>4, <2>2
    <3>2. <<p, w>> \in crowned
      BY <1>2, <1>7, <2>2
    <3>3. ~(p = target /\ w = v)
      BY <1>2, <1>7, <2>2
    <3> QED BY <1>5, <1>7, <2>2, <3>1, <3>2, <3>3
  <2> QED BY <2>1, <2>2
<1>8. OneChampion'
  BY <1>7 DEF RegistryInv, OneChampion
<1> QED BY <1>6, <1>8 DEF RegistryInv

LEMMA RegistryInitInv == RegistryInit => RegistryInv
BY DEF RegistryInit, RegistryInv, RegistryTypeOK, OneChampion, Unregistered, Cards

LEMMA RegistryInductiveInv == RegistryInv /\ [RegistryNext]_registryVars => RegistryInv'
<1> SUFFICES ASSUME RegistryInv, [RegistryNext]_registryVars PROVE RegistryInv'
  OBVIOUS
<1>1. ASSUME NEW o \in Scopes, NEW v \in Versions,
             NEW status_ \in {"candidate", "champion", "challenger"},
             NEW evaluated \in BOOLEAN, RegisterModel(o, v, status_, evaluated)
      PROVE  RegistryInv'
  BY <1>1, RegisterInv DEF CardStatuses
<1>2. ASSUME NEW o \in Scopes, NEW v \in Versions, PromoteChampion(o, v) PROVE RegistryInv'
  BY <1>2, PromoteInv
<1>3. ASSUME NEW o \in Scopes, NEW v \in Versions, NEW critical \in BOOLEAN,
             UpdateModelDrift(o, v, critical)
      PROVE  RegistryInv'
  BY <1>3, DriftInv
<1>4. ASSUME NEW v \in Versions, ListModels(v) PROVE RegistryInv'
  BY <1>4, RegisterInv DEF ListModels, Scopes, CardStatuses
<1>5. CASE UNCHANGED registryVars
  BY <1>5 DEF registryVars, RegistryInv, RegistryTypeOK, OneChampion
<1> QED BY <1>1, <1>2, <1>3, <1>4, <1>5 DEF RegistryNext

(***************************************************************************)
(* promoteChampion leaves a scope one champion of its own promotions.      *)
(***************************************************************************)
THEOREM PromotionsCrownOne == RegistrySpec => []OneChampion
<1>1. RegistryInv => OneChampion
  BY DEF RegistryInv
<1> QED BY <1>1, RegistryInitInv, RegistryInductiveInv, PTL DEF RegistrySpec
-----------------------------------------------------------------------------
(***************************************************************************)
(* Incidents.  Whoever is about to write has read every comment that is    *)
(* not lost already, or has not seen it: an update that has written after  *)
(* such a read is what Overwritten speaks of.                              *)
(***************************************************************************)
ReadersKnow ==
  \A v \in Updates : UpdateAt(v, "write") =>
    \A w \in written : w[2] = update[v].inc =>
      w[1] \in update[v].row.comments \cup unseen[v] \/ Overwritten(w[1])

\* A comment is written on a row that exists, and who has not begun missed nothing.
WritersBegan ==
  /\ \A w \in written : incident[w[2]] # NoValue
  /\ \A v \in Updates : UpdateAt(v, "idle") => unseen[v] = {}

IncidentInv == IncidentTypeOK /\ ReadersKnow /\ WritersBegan /\ CommentsKept

LEMMA IncidentInitInv == IncidentInit => IncidentInv
BY DEF IncidentInit, IncidentInv, IncidentTypeOK, ReadersKnow, WritersBegan,
       CommentsKept, UpdateAt, Unsent

LEMMA IncidentInductiveInv == IncidentInv /\ [IncidentNext]_incidentVars => IncidentInv'
<1> SUFFICES ASSUME IncidentInv, [IncidentNext]_incidentVars PROVE IncidentInv'
  OBVIOUS
<1> USE IncidentAssumption
<1>0. IncidentTypeOK /\ ReadersKnow /\ WritersBegan /\ CommentsKept
  BY DEF IncidentInv
<1>T. /\ incident \in [IncidentIds -> IncidentRows \cup {NoValue}]
      /\ update \in [Updates -> {Unsent, Answered} \cup Writing \cup Auditing]
      /\ unseen \in [Updates -> SUBSET Updates]
      /\ written \subseteq Updates \X IncidentIds
      /\ log \subseteq Updates \X IncidentIds
  BY <1>0 DEF IncidentTypeOK
<1>1. ASSUME NEW u \in Updates, NEW i \in IncidentIds, CreateIncident(u, i)
      PROVE  IncidentInv'
  <2> DEFINE new == [status |-> "OPEN", assignee |-> NoValue, comments |-> {},
                     acknowledgedAt |-> NoValue, mitigatedAt |-> NoValue,
                     resolvedAt |-> NoValue]
             next == [pc |-> "audit", inc |-> i]
  <2>1. /\ incident' = [incident EXCEPT ![i] = new] /\ incident[i] = NoValue
        /\ update' = [update EXCEPT ![u] = next] /\ update[u].pc = "idle"
        /\ UNCHANGED <<unseen, written, log>>
    BY <1>1 DEF CreateIncident, UpdateAt
  <2>2. new \in IncidentRows /\ next \in Auditing /\ next.pc = "audit"
    BY DEF IncidentRows, IncidentStatuses, UpdateDates, Auditing
  <2> HIDE DEF new, next
  <2>3. IncidentTypeOK'
    BY <1>T, <2>1, <2>2 DEF IncidentTypeOK
  <2>4. \A w \in written : w[2] # i
    BY <1>0, <2>1 DEF WritersBegan
  <2>5. \A w \in Updates : Overwritten(w) => Overwritten(w)'
    BY <1>T, <2>1, <2>2 DEF Overwritten, UpdateAt
  <2>6. WritersBegan'
    BY <1>0, <1>T, <2>1, <2>2, <2>4 DEF WritersBegan, UpdateAt
  <2>7. CommentsKept'
    BY <1>0, <1>T, <2>1, <2>4, <2>5 DEF CommentsKept
  <2>8. ReadersKnow'
    BY <1>0, <1>T, <2>1, <2>2, <2>5 DEF ReadersKnow, UpdateAt
  <2> QED BY <2>3, <2>6, <2>7, <2>8 DEF IncidentInv
<1>2. ASSUME NEW u \in Updates, NEW i \in IncidentIds, NEW to \in IncidentStatuses,
             NEW who \in Users \cup {NoValue}, NEW comment \in BOOLEAN,
             ReadIncident(u, i, to, who, comment)
      PROVE  IncidentInv'
  <2> DEFINE next == [pc |-> "write", inc |-> i, row |-> incident[i], to |-> to,
                      assignee |-> who, comment |-> comment]
  <2>1. /\ update[u].pc = "idle" /\ incident[i] # NoValue
        /\ update' = [update EXCEPT ![u] = next]
        /\ unseen' = [unseen EXCEPT ![u] = {}]
        /\ UNCHANGED <<incident, written, log>>
    BY <1>2 DEF ReadIncident, UpdateAt
  <2>2. /\ next \in Writing /\ next.pc = "write" /\ next.inc = i
        /\ next.row = incident[i]
    BY <1>T, <2>1 DEF Writing
  <2> HIDE DEF next
  <2>3. unseen[u] = {} /\ unseen' = unseen
    BY <1>0, <1>T, <2>1 DEF WritersBegan, UpdateAt
  <2>4. IncidentTypeOK'
    BY <1>T, <2>1, <2>2 DEF IncidentTypeOK
  <2>5. \A w \in Updates : Overwritten(w) => Overwritten(w)'
    BY <1>T, <2>1, <2>2, <2>3 DEF Overwritten, UpdateAt
  <2>6. WritersBegan'
    BY <1>0, <1>T, <2>1, <2>2, <2>3 DEF WritersBegan, UpdateAt
  <2>7. CommentsKept'
    BY <1>0, <1>T, <2>1, <2>5 DEF CommentsKept
  <2>8. ReadersKnow'
    <3> SUFFICES ASSUME NEW v \in Updates, UpdateAt(v, "write")',
                        NEW w \in written, w[2] = update'[v].inc
                 PROVE  w[1] \in update'[v].row.comments \cup unseen'[v]
                          \/ Overwritten(w[1])'
      BY <2>1 DEF ReadersKnow
    <3>1. CASE v = u
      BY <1>0, <1>T, <2>1, <2>2, <2>5, <3>1 DEF CommentsKept
    <3>2. CASE v # u
      BY <1>0, <1>T, <2>1, <2>3, <2>5, <3>2 DEF ReadersKnow, UpdateAt
    <3> QED BY <3>1, <3>2
  <2> QED BY <2>4, <2>6, <2>7, <2>8 DEF IncidentInv
<1>3. ASSUME NEW u \in Updates, WriteIncident(u) PROVE IncidentInv'
  <2> DEFINE i == update[u].inc
             new == NextRow(u)
             next == [pc |-> "audit", inc |-> i]
  <2>1. /\ update[u].pc = "write"
        /\ incident' = [incident EXCEPT ![i] = new]
        /\ update' = [update EXCEPT ![u] = next]
        /\ written' = IF update[u].comment THEN written \cup {<<u, i>>} ELSE written
        /\ unseen' = [v \in Updates |->
                        IF v # u /\ Holds(v, i) THEN unseen[v] \cup {u} ELSE unseen[v]]
        /\ UNCHANGED log
    BY <1>3 DEF WriteIncident, UpdateAt
  <2>2. update[u] \in Writing
    BY <1>T, <2>1 DEF Unsent, Answered, Auditing
  <2>3. i \in IncidentIds /\ update[u].row \in IncidentRows
    BY <2>2 DEF Writing
  <2>4. /\ new \in IncidentRows
        /\ new.comments = update[u].row.comments \cup (IF update[u].comment THEN {u} ELSE {})
    BY <2>2 DEF NextRow, Comments, Stamped, Writing, IncidentRows, UpdateDates
  <2>5. next \in Auditing /\ next.pc = "audit"
    BY <2>3 DEF Auditing
  <2> HIDE DEF i, new, next
  <2>6. IncidentTypeOK'
    BY <1>T, <2>1, <2>3, <2>4, <2>5 DEF IncidentTypeOK
  <2>7. \A v \in Updates : unseen[v] \subseteq unseen'[v]
    BY <1>T, <2>1
  <2>8. \A w \in Updates : Overwritten(w) => Overwritten(w)'
    BY <1>T, <2>1, <2>5, <2>7 DEF Overwritten, UpdateAt
  <2>9. \A w \in written : w[2] = i =>
           w[1] \in new.comments \/ Overwritten(w[1])'
    <3> SUFFICES ASSUME NEW w \in written, w[2] = i, w[1] \notin new.comments
                 PROVE  Overwritten(w[1])'
      OBVIOUS
    <3>1. w[1] \in unseen[u] \/ Overwritten(w[1])
      BY <1>0, <2>1, <2>4 DEF ReadersKnow, UpdateAt, i
    <3>2. w[1] \in Updates
      BY <1>T
    <3>3. CASE w[1] \in unseen[u]
      BY <1>T, <2>1, <2>5, <2>7, <3>3 DEF Overwritten, UpdateAt
    <3> QED BY <2>8, <3>1, <3>2, <3>3
  <2>10. \A w \in written' : w \in written \/ (w = <<u, i>> /\ update[u].comment)
    BY <2>1
  <2>11. WritersBegan'
    <3>1. new # NoValue
      BY <2>4
    <3>2. \A w \in written' : incident'[w[2]] # NoValue
      BY <1>0, <1>T, <2>1, <2>3, <2>10, <3>1 DEF WritersBegan
    <3>3. \A v \in Updates : UpdateAt(v, "idle")' => UpdateAt(v, "idle") /\ unseen'[v] = unseen[v]
      BY <1>T, <2>1, <2>5 DEF UpdateAt, Holds
    <3> QED BY <1>0, <3>2, <3>3 DEF WritersBegan
  <2>12. CommentsKept'
    <3> SUFFICES ASSUME NEW w \in written'
                 PROVE  w[1] \in incident'[w[2]].comments \/ Overwritten(w[1])'
      BY DEF CommentsKept
    <3>1. CASE w \in written /\ w[2] = i
      BY <1>T, <2>1, <2>3, <2>9, <3>1
    <3>2. CASE w \in written /\ w[2] # i
      <4>1. w[1] \in Updates /\ w[2] \in IncidentIds
        BY <1>T, <3>2
      <4> QED BY <1>0, <1>T, <2>1, <2>8, <3>2, <4>1 DEF CommentsKept
    <3>3. CASE w = <<u, i>> /\ update[u].comment
      BY <1>T, <2>1, <2>3, <2>4, <3>3
    <3> QED BY <2>10, <3>1, <3>2, <3>3
  <2>13. ReadersKnow'
    <3> SUFFICES ASSUME NEW v \in Updates, UpdateAt(v, "write")',
                        NEW w \in written', w[2] = update'[v].inc
                 PROVE  w[1] \in update'[v].row.comments \cup unseen'[v]
                          \/ Overwritten(w[1])'
      BY DEF ReadersKnow
    <3>1. v # u /\ update'[v] = update[v] /\ UpdateAt(v, "write")
      BY <1>T, <2>1, <2>5 DEF UpdateAt
    <3>2. CASE w \in written
      <4>1. w[1] \in Updates
        BY <1>T, <3>2
      <4> QED BY <1>0, <2>7, <2>8, <3>1, <3>2, <4>1 DEF ReadersKnow
    <3>3. CASE w = <<u, i>>
      BY <1>T, <2>1, <3>1, <3>3 DEF Holds
    <3> QED BY <2>10, <3>2, <3>3
  <2> QED BY <2>6, <2>11, <2>12, <2>13 DEF IncidentInv
<1>4. ASSUME NEW u \in Updates, IncidentAudit(u) \/ UpdateFails(u) PROVE IncidentInv'
  <2>1. /\ update[u].pc \in {"write", "audit"}
        /\ update' = [update EXCEPT ![u] = Answered]
        /\ unseen' = IF update[u].pc = "write" THEN [unseen EXCEPT ![u] = {}] ELSE unseen
        /\ UNCHANGED <<incident, written>>
    BY <1>4 DEF IncidentAudit, UpdateFails, UpdateAt
  <2>2. log' \subseteq Updates \X IncidentIds
    <3>1. CASE IncidentAudit(u)
      <4>1. update[u].inc \in IncidentIds
        BY <1>T, <3>1 DEF IncidentAudit, UpdateAt, Unsent, Answered, Writing, Auditing
      <4> QED BY <1>T, <3>1, <4>1 DEF IncidentAudit
    <3>2. CASE UpdateFails(u)
      BY <1>T, <3>2 DEF UpdateFails
    <3> QED BY <1>4, <3>1, <3>2
  <2>3. IncidentTypeOK'
    BY <1>T, <2>1, <2>2 DEF IncidentTypeOK
  <2>4. \A w \in Updates : Overwritten(w) => Overwritten(w)'
    <3> SUFFICES ASSUME NEW w \in Updates, NEW v \in Updates,
                        w \in unseen[v], update[v].pc # "write"
                 PROVE  Overwritten(w)'
      BY DEF Overwritten, UpdateAt
    <3>1. unseen'[v] = unseen[v] /\ update'[v].pc # "write"
      BY <1>T, <2>1 DEF Answered
    <3> QED BY <3>1 DEF Overwritten, UpdateAt
  <2>5. WritersBegan'
    BY <1>0, <1>T, <2>1 DEF WritersBegan, UpdateAt, Answered
  <2>6. CommentsKept'
    BY <1>0, <1>T, <2>1, <2>4 DEF CommentsKept
  <2>7. ReadersKnow'
    BY <1>0, <1>T, <2>1, <2>4 DEF ReadersKnow, UpdateAt, Answered
  <2> QED BY <2>3, <2>5, <2>6, <2>7 DEF IncidentInv
<1>5. CASE UNCHANGED incidentVars
  BY <1>0, <1>5 DEF incidentVars, IncidentInv, IncidentTypeOK, ReadersKnow, WritersBegan,
                    CommentsKept, Overwritten, UpdateAt
<1> QED BY <1>1, <1>2, <1>3, <1>4, <1>5 DEF IncidentNext

(***************************************************************************)
(* A comment that updateIncident has written disappears only under an      *)
(* update that overlaps it.                                                *)
(***************************************************************************)
THEOREM CommentsAreKept == IncidentSpec => []CommentsKept
<1>1. IncidentInv => CommentsKept
  BY DEF IncidentInv
<1> QED BY <1>1, IncidentInitInv, IncidentInductiveInv, PTL DEF IncidentSpec
-----------------------------------------------------------------------------
LEMMA MaxOfTwo ==
  ASSUME NEW a \in Int, NEW b \in Int
  PROVE  Max({a, b}) = IF a >= b THEN a ELSE b
<1> DEFINE m == IF a >= b THEN a ELSE b
<1>1. m \in {a, b} /\ \A y \in {a, b} : m >= y
  OBVIOUS
<1>2. \A x \in {a, b} : (\A y \in {a, b} : x >= y) => x = m
  OBVIOUS
<1> HIDE DEF m
<1>3. Max({a, b}) = m
  BY <1>1, <1>2 DEF Max
<1> QED BY <1>3 DEF m

LEMMA MinOfTwo ==
  ASSUME NEW a \in Int, NEW b \in Int
  PROVE  Min({a, b}) = IF a <= b THEN a ELSE b
<1> DEFINE m == IF a <= b THEN a ELSE b
<1>1. m \in {a, b} /\ \A y \in {a, b} : m <= y
  OBVIOUS
<1>2. \A x \in {a, b} : (\A y \in {a, b} : x <= y) => x = m
  OBVIOUS
<1> HIDE DEF m
<1>3. Min({a, b}) = m
  BY <1>1, <1>2 DEF Min
<1> QED BY <1>3 DEF m

(***************************************************************************)
(* Dispatch.  What the planner takes from the battery, the simulator's     *)
(* losses included, is what the battery holds above the reserve.           *)
(***************************************************************************)
LEMMA LeastIsLower ==
  ASSUME NEW xs, NEW least \in xs, \A y \in xs : least <= y
  PROVE  Least(xs) \in xs /\ \A y \in xs : Least(xs) <= y
BY DEF Least, Min

LEMMA LeastOfFour ==
  ASSUME NEW a \in Nat, NEW b \in Nat, NEW c \in Nat, NEW d \in Nat
  PROVE  LET m == Least({a, b, c, d})
         IN  m \in Nat /\ m <= a /\ m <= b /\ m <= c /\ m <= d
<1> DEFINE xs == {a, b, c, d}
<1>1. \E x \in xs : \A y \in xs : x <= y
  OBVIOUS
<1>2. Least(xs) \in xs /\ \A y \in xs : Least(xs) <= y
  <2> HIDE DEF xs
  <2> QED BY <1>1, LeastIsLower
<1> QED BY <1>2

LEMMA LeastOfFive ==
  ASSUME NEW a \in Nat, NEW b \in Nat, NEW c \in Nat, NEW d \in Nat, NEW e \in Nat
  PROVE  LET m == Least({a, b, c, d, e})
         IN  m \in Nat /\ m <= a /\ m <= b /\ m <= c /\ m <= d /\ m <= e
<1> DEFINE xs == {a, b, c, d, e}
<1>1. \E x \in xs : \A y \in xs : x <= y
  OBVIOUS
<1>2. Least(xs) \in xs /\ \A y \in xs : Least(xs) <= y
  <2> HIDE DEF xs
  <2> QED BY <1>1, LeastIsLower
<1> QED BY <1>2

LEMMA Difference ==
  ASSUME NEW x \in Int, NEW y \in Int, x <= y
  PROVE  \E z \in Nat : y = x + z
<1>1. y - x \in Nat /\ y = x + (y - x)
  OBVIOUS
<1> QED BY <1>1

LEMMA NotNegativeIs ==
  ASSUME NEW x \in Int PROVE NotNegative(x) = IF x >= 0 THEN x ELSE 0
BY MaxOfTwo DEF NotNegative

\* A rounded quotient is half a unit from the quotient, and crosses no whole number.
LEMMA NearestIsNear ==
  ASSUME NEW n \in Int, NEW d \in Nat \ {0}
  PROVE  /\ Nearest(n, d) \in Int
         /\ 2 * (d * Nearest(n, d)) <= 2 * n + d
         /\ n >= 0 => Nearest(n, d) \in Nat
<1> DEFINE m == 2 * n + d
           e == 2 * d
           q == m \div e
<1>1. m \in Int /\ e \in Nat \ {0} /\ (n >= 0 => m >= 0)
  OBVIOUS
<1>2. q \in Int /\ e * q <= m /\ (m >= 0 => q >= 0)
  <2> HIDE DEF m, e
  <2> QED BY <1>1
<1>3. e * q = 2 * (d * q)
  <2> HIDE DEF q
  <2> QED BY <1>2
<1>4. Nearest(n, d) = q
  BY DEF Nearest
<1> HIDE DEF q
<1> QED BY <1>1, <1>2, <1>3, <1>4

LEMMA QuotientAtMost ==
  ASSUME NEW n \in Int, NEW d \in Nat \ {0}, NEW x \in Int, n < (x + 1) * d
  PROVE  n \div d \in Int /\ n \div d <= x
<1> DEFINE q == n \div d
<1>1. q \in Int /\ q * d <= n
  OBVIOUS
<1> HIDE DEF q
<1>2. q <= x
  <2> SUFFICES ASSUME q >= x + 1 PROVE FALSE
    BY <1>1
  <2>1. PICK y \in Nat : q = x + 1 + y
    <3>1. q - (x + 1) \in Nat /\ q = x + 1 + (q - (x + 1))
      BY <1>1
    <3> QED BY <3>1
  <2>2. q * d = (x + 1) * d + y * d /\ y * d >= 0
    BY <2>1
  <2> QED BY <1>1, <2>2
<1> QED BY <1>1, <1>2 DEF q

LEMMA QuotientAtLeast ==
  ASSUME NEW n \in Int, NEW d \in Nat \ {0}, NEW x \in Int, n >= x * d
  PROVE  n \div d \in Int /\ n \div d >= x
<1> DEFINE q == n \div d
<1>1. q \in Int /\ n < q * d + d
  OBVIOUS
<1> HIDE DEF q
<1>2. q >= x
  <2> SUFFICES ASSUME q + 1 <= x PROVE FALSE
    BY <1>1
  <2>1. PICK y \in Nat : x = q + 1 + y
    <3>1. x - (q + 1) \in Nat /\ x = q + 1 + (x - (q + 1))
      BY <1>1
    <3> QED BY <3>1
  <2>2. x * d = q * d + d + y * d /\ y * d >= 0
    BY <1>1, <2>1
  <2> QED BY <1>1, <2>2
<1> QED BY <1>1, <1>2 DEF q

LEMMA NearestAtMost ==
  ASSUME NEW n \in Int, NEW d \in Nat \ {0}, NEW x \in Int, n <= x * d
  PROVE  Nearest(n, d) \in Int /\ Nearest(n, d) <= x
<1> DEFINE m == 2 * n + d
           e == 2 * d
<1>1. (x + 1) * e = 2 * (x * d) + 2 * d /\ x * d \in Int
  OBVIOUS
<1>2. m \in Int /\ e \in Nat \ {0} /\ m < (x + 1) * e
  BY <1>1
<1> HIDE DEF m, e
<1>3. m \div e \in Int /\ m \div e <= x
  BY <1>2, QuotientAtMost
<1> QED BY <1>3 DEF Nearest, m, e

LEMMA NearestAtLeast ==
  ASSUME NEW n \in Int, NEW d \in Nat \ {0}, NEW x \in Int, n >= x * d
  PROVE  Nearest(n, d) \in Int /\ Nearest(n, d) >= x
<1> DEFINE m == 2 * n + d
           e == 2 * d
<1>1. x * e = 2 * (x * d) /\ x * d \in Int
  OBVIOUS
<1>2. m \in Int /\ e \in Nat \ {0} /\ m >= x * e
  BY <1>1
<1> HIDE DEF m, e
<1>3. m \div e \in Int /\ m \div e >= x
  BY <1>2, QuotientAtLeast
<1> QED BY <1>3 DEF Nearest, m, e

LEMMA CeilingAtMost ==
  ASSUME NEW n \in Int, NEW d \in Nat \ {0}, NEW x \in Int, n <= x * d
  PROVE  Ceiling(n, d) \in Int /\ Ceiling(n, d) <= x
<1> DEFINE m == n + d - 1
<1>1. (x + 1) * d = x * d + d /\ x * d \in Int
  OBVIOUS
<1>2. m \in Int /\ m < (x + 1) * d
  BY <1>1
<1> HIDE DEF m
<1>3. m \div d \in Int /\ m \div d <= x
  BY <1>2, QuotientAtMost
<1> QED BY <1>3 DEF Ceiling, m

LEMMA DispatchNumbers ==
  /\ Grain \in Nat \ {0} /\ RoundTrip \in 50 .. 100
  /\ Percent \in Nat \ {0} /\ RoundingSoc \in Nat /\ Grain <= 2 * RoundingSoc
  /\ Reserve \in Nat /\ Maximum \in Nat
  /\ Reserve + Percent <= Maximum /\ Maximum <= 100 * Percent
<1>1. Percent \in Nat \ {0} /\ RoundingSoc = 500
  BY SMT DEF Percent, RoundingSoc
<1>2. /\ Grain \in 1 .. 1000 /\ {Reserve, Maximum} \subseteq Nat /\ RoundTrip \in 50 .. 100
      /\ Reserve + Percent <= Maximum /\ Maximum <= 100 * Percent
  BY DispatchAssumption
<1> QED BY <1>1, <1>2

\* A plan asks for what the battery can take, or for what it can give, not for both, but
\* for half a watt-hour of rounding.
Modest(p, charged, reserve) ==
  /\ p.charge \in Nat /\ 2 * p.charge <= 2 * site.power + Grain
  /\ 2 * (charged + p.charge) <= 2 * Maximum + Grain
  /\ p.discharge \in Nat /\ 2 * p.discharge <= 2 * site.power + Grain
  /\ 100 * p.discharge <= Delivered(NotNegative(charged - reserve - site.reserved)) + 50 * Grain
  /\ p.charge = 0 \/ p.discharge = 0
  /\ p.hydrogen \in Int /\ p.hydrogen <= site.hydrogen

LEMMA RoundedToGrain ==
  ASSUME NEW m \in Nat
  PROVE  LET c == Grain * Nearest(m, Grain)
         IN  c \in Nat /\ 2 * c <= 2 * m + Grain /\ (m = 0 => c = 0)
<1> DEFINE q == Nearest(m, Grain)
<1>1. Grain \in Nat \ {0}
  BY DispatchNumbers
<1>2. q \in Nat /\ 2 * (Grain * q) <= 2 * m + Grain
  BY <1>1, NearestIsNear
<1>3. m = 0 => q = 0
  <2> SUFFICES ASSUME m = 0 PROVE q <= 0
    BY <1>2
  <2>1. m <= 0 * Grain
    BY <1>1
  <2> QED BY <1>1, <2>1, NearestAtMost
<1> HIDE DEF q
<1>4. Grain * q \in Nat /\ (q = 0 => Grain * q = 0)
  BY <1>1, <1>2
<1> QED BY <1>2, <1>3, <1>4 DEF q

\* The same for what is given in hundredths.
LEMMA HundredthsToGrain ==
  ASSUME NEW m \in Nat
  PROVE  LET c == Grain * Nearest(m, 100 * Grain)
         IN  c \in Nat /\ 100 * c <= m + 50 * Grain /\ (m = 0 => c = 0)
<1> DEFINE d == 100 * Grain
           q == Nearest(m, d)
<1>1. Grain \in Nat \ {0} /\ d \in Nat \ {0}
  BY DispatchNumbers
<1> HIDE DEF d
<1>2. q \in Nat /\ 2 * (d * q) <= 2 * m + d
  BY <1>1, NearestIsNear
<1>3. m = 0 => q = 0
  <2> SUFFICES ASSUME m = 0 PROVE q <= 0
    BY <1>2
  <2>1. m <= 0 * d
    BY <1>1
  <2> QED BY <1>1, <2>1, NearestAtMost
<1> HIDE DEF q
<1>4. Grain * q \in Nat /\ (q = 0 => Grain * q = 0) /\ d * q = 100 * (Grain * q)
  BY <1>1, <1>2 DEF d
<1>5. LET c == Grain * q IN c \in Nat /\ 100 * c <= m + 50 * Grain /\ (m = 0 => c = 0)
  BY <1>1, <1>2, <1>3, <1>4 DEF d
<1> QED BY <1>5 DEF q, d

LEMMA PlanIsModest ==
  ASSUME site \in SiteRecords, NEW h \in HourRecords, NEW charged \in Reserve .. Maximum,
         NEW reserve \in Reserve .. Maximum
  PROVE  Modest(OptimiseSite(h, charged, reserve, Maximum), charged, reserve)
<1> DEFINE surplus == NotNegative(h.forecast - h.load)
           deficit == NotNegative(h.load - h.forecast)
           headroom == NotNegative(h.exportLimit - surplus)
           held == NotNegative(charged - reserve - site.reserved)
           room == Room(charged, Maximum)
           open == IF headroom = 0 THEN surplus ELSE headroom
           charging == Least({site.power, site.cRate, room, surplus, open})
           giving == Least({100 * site.power, 100 * site.cRate, Delivered(held), 100 * deficit})
           charge == IF charged >= Maximum \/ site.blocked THEN 0 ELSE charging
           discharge == IF charged <= reserve \/ site.blocked THEN 0 ELSE giving
           curtailed == NotNegative(surplus - charge + (discharge \div 100) - h.exportLimit)
           gram == 250 * Grain
           most == Least({gram * site.hydrogen, Remaining(h, curtailed)})
           p == OptimiseSite(h, charged, reserve, Maximum)
<1>1. /\ h.forecast \in Nat /\ h.load \in Nat /\ h.exportLimit \in Nat
      /\ site.power \in Nat /\ site.cRate \in Nat /\ site.hydrogen \in Nat
      /\ site.reserved \in Nat /\ Grain \in Nat \ {0}
      /\ charged \in Nat /\ reserve \in Nat /\ Maximum \in Nat /\ charged <= Maximum
  BY DispatchNumbers DEF HourRecords, SiteRecords
<1>2. /\ surplus \in Nat /\ deficit \in Nat /\ (surplus = 0 \/ deficit = 0)
      /\ room = Maximum - charged /\ room \in Nat /\ held \in Nat
  BY <1>1, NotNegativeIs DEF Room
<1>3. headroom \in Nat
  BY <1>1, <1>2, NotNegativeIs
<1>4. Delivered(held) \in Nat
  <2> HIDE DEF held
  <2>1. held * RoundTrip \in Nat
    BY <1>2, DispatchNumbers
  <2> QED BY <2>1 DEF Delivered
<1>5. p = [charge |-> Grain * Nearest(charge, Grain),
           discharge |-> Grain * Nearest(discharge, 100 * Grain),
           hydrogen |-> Nearest(most, gram),
           satisfied |-> charged \in 0 .. 100 * Percent /\ reserve < Maximum /\ ~site.blocked]
  BY DEF OptimiseSite
<1> HIDE DEF surplus, deficit, headroom, held, room, p
<1>6. /\ charging \in Nat /\ charging <= site.power /\ charging <= room
      /\ charging <= surplus
  <2>1. open \in Nat
    BY <1>2, <1>3
  <2> HIDE DEF open
  <2> QED BY <1>1, <1>2, <2>1, LeastOfFive
<1>7. /\ giving \in Nat /\ giving <= 100 * site.power /\ giving <= Delivered(held)
      /\ giving <= 100 * deficit
  <2>1. 100 * site.power \in Nat /\ 100 * site.cRate \in Nat /\ 100 * deficit \in Nat
    BY <1>1, <1>2
  <2> QED BY <1>4, <2>1, LeastOfFour
<1> HIDE DEF charging, giving
<1>8. /\ charge \in Nat /\ charge <= site.power /\ charge <= room
      /\ discharge \in Nat /\ discharge <= 100 * site.power
      /\ discharge <= Delivered(held)
      /\ charge = 0 \/ discharge = 0
  BY <1>1, <1>2, <1>4, <1>6, <1>7
<1> HIDE DEF charge, discharge
<1>9. /\ p.charge \in Nat /\ 2 * p.charge <= 2 * charge + Grain
      /\ charge = 0 => p.charge = 0
  BY <1>5, <1>8, RoundedToGrain
<1>10. /\ p.discharge \in Nat /\ 100 * p.discharge <= discharge + 50 * Grain
       /\ discharge = 0 => p.discharge = 0
  BY <1>5, <1>8, HundredthsToGrain
<1>11. p.hydrogen \in Int /\ p.hydrogen <= site.hydrogen
  <2> DEFINE all == gram * site.hydrogen
             rest == Remaining(h, curtailed)
  <2>1. rest \in Int
    <3>1. curtailed \in Nat
      <4>1. discharge \div 100 \in Int
        BY <1>8
      <4> QED BY <1>1, <1>2, <1>8, <4>1, NotNegativeIs
    <3> DEFINE spare == IF site.flexible = {} THEN h.load
                        ELSE 5 * (CHOOSE limit \in site.flexible : TRUE)
    <3>2. spare \in Int
      <4>1. site.flexible \subseteq Nat
        BY DEF SiteRecords
      <4>2. CASE site.flexible = {}
        BY <1>1, <4>2
      <4>3. CASE site.flexible # {}
        <5>1. (CHOOSE limit \in site.flexible : TRUE) \in Nat
          BY <4>1, <4>3
        <5> QED BY <4>3, <5>1
      <4> QED BY <4>2, <4>3
    <3> HIDE DEF curtailed, spare
    <3>3. NotNegative(5 * curtailed - spare) \in Int
      BY <3>1, <3>2, NotNegativeIs
    <3> QED BY <3>3 DEF Remaining, spare
  <2>2. all \in Int /\ all = site.hydrogen * gram /\ gram \in Nat \ {0}
    BY <1>1
  <2> HIDE DEF all, rest, gram, curtailed
  <2>3. Least({all, rest}) \in Int /\ Least({all, rest}) <= all
    BY <2>1, <2>2, MinOfTwo DEF Least
  <2>4. most = Least({all, rest})
    BY DEF all, rest
  <2>5. most \in Int /\ most <= site.hydrogen * gram
    BY <2>2, <2>3, <2>4
  <2> HIDE DEF most
  <2>6. Nearest(most, gram) \in Int /\ Nearest(most, gram) <= site.hydrogen
    BY <1>1, <2>2, <2>5, NearestAtMost
  <2> QED BY <1>5, <2>6
<1>12. Modest(p, charged, reserve)
  <2>1. 2 * p.charge <= 2 * site.power + Grain
    BY <1>1, <1>8, <1>9
  <2>2. 2 * (charged + p.charge) <= 2 * Maximum + Grain
    BY <1>1, <1>2, <1>8, <1>9
  <2>3. 2 * p.discharge <= 2 * site.power + Grain
    BY <1>1, <1>8, <1>10
  <2>4. 100 * p.discharge <= Delivered(held) + 50 * Grain
    BY <1>1, <1>4, <1>8, <1>10
  <2>5. p.charge = 0 \/ p.discharge = 0
    BY <1>8, <1>9, <1>10
  <2> QED BY <1>9, <1>10, <1>11, <2>1, <2>2, <2>3, <2>4, <2>5 DEF Modest, held
<1> QED BY <1>12 DEF p

LEMMA ModestIsFeasible ==
  ASSUME site \in SiteRecords, NEW charged \in Reserve .. Maximum,
         NEW reserve \in Reserve .. Maximum, NEW p, Modest(p, charged, reserve)
  PROVE  /\ After(p, charged) \in Int /\ After(p, charged) <= Maximum + Grain
         /\ Violated(p, charged) \subseteq {"reserve-soc"}
         /\ Foreseen => After(p, charged) >= Reserve - Grain /\ Violated(p, charged) = {}
<1> DEFINE a == p.charge * site.root
           b == p.discharge * 100
           r == site.root
           held == NotNegative(charged - reserve - site.reserved)
<1>1. /\ charged \in Nat /\ reserve \in Nat /\ Maximum \in Nat /\ Reserve \in Nat
      /\ charged >= Reserve /\ reserve >= Reserve
      /\ r \in Nat \ {0} /\ r <= 100 /\ site.reserved \in Nat /\ site.power \in Nat
      /\ site.hydrogen \in Nat /\ Grain \in Nat \ {0}
      /\ RoundingSoc \in Nat /\ Grain <= 2 * RoundingSoc
  BY DispatchNumbers DEF SiteRecords
<1>2. /\ p.charge \in Nat /\ p.discharge \in Nat
      /\ 2 * p.charge <= 2 * site.power + Grain /\ 2 * p.discharge <= 2 * site.power + Grain
      /\ 2 * (charged + p.charge) <= 2 * Maximum + Grain
      /\ p.hydrogen \in Int /\ p.hydrogen <= site.hydrogen
      /\ p.charge = 0 \/ p.discharge = 0
      /\ 100 * p.discharge <= Delivered(held) + 50 * Grain
  BY <1>1 DEF Modest
<1>3. /\ a \in Nat /\ a <= p.charge * 100 /\ b \in Nat
      /\ a >= 0 * 100 /\ b >= 0 * r /\ -b <= 0 * r
  <2> DEFINE c == p.charge
  <2>1. c \in Nat
    BY <1>2
  <2> HIDE DEF r, c
  <2>2. PICK y \in Nat : 100 = r + y
    BY <1>1, Difference
  <2>3. c * r \in Nat /\ c * y \in Nat /\ c * (r + y) = c * r + c * y
    BY <1>1, <2>1, <2>2
  <2>4. c * r \in Nat /\ c * r <= c * 100
    BY <2>2, <2>3
  <2>5. b \in Nat /\ 0 * r = 0
    BY <1>1, <1>2
  <2> QED BY <2>4, <2>5 DEF r, c
<1>4. held \in Nat /\ held <= charged - Reserve
  BY <1>1, NotNegativeIs
<1> HIDE DEF held
<1>5. ASSUME Foreseen PROVE b <= (held + Grain) * r
  <2>1. RoundTrip \in Nat /\ RoundTrip >= 50 /\ r >= RoundTrip
    BY <1>5, DispatchNumbers DEF Foreseen
  <2> HIDE DEF r
  <2>2. PICK y \in Nat : r = RoundTrip + y
    BY <1>1, <2>1, Difference
  <2>3. PICK z \in Nat : r = 50 + z
    BY <1>1, <2>1, Difference
  <2>4. held * r = held * RoundTrip + held * y /\ held * y \in Nat
    BY <1>4, <2>1, <2>2
  <2>5. Grain * r = 50 * Grain + Grain * z /\ Grain * z \in Nat
    BY <1>1, <2>3
  <2>6. (held + Grain) * r = held * r + Grain * r
    BY <1>1, <1>4
  <2>7. held * RoundTrip \in Nat
    BY <1>4, <2>1
  <2> QED BY <1>1, <1>2, <2>4, <2>5, <2>6, <2>7 DEF Delivered
<1> HIDE DEF a, b, r
<1>6. /\ Nearest(a, 100) \in Int /\ Nearest(a, 100) >= 0 /\ Nearest(a, 100) <= p.charge
      /\ a \div 100 \in Int /\ a \div 100 >= 0
      /\ Ceiling(a, 100) \in Int /\ Ceiling(a, 100) <= p.charge
  <2>1. Nearest(a, 100) \in Int /\ Nearest(a, 100) >= 0
    BY <1>3, NearestAtLeast
  <2>2. Nearest(a, 100) <= p.charge
    BY <1>2, <1>3, NearestAtMost
  <2>3. a \div 100 \in Int /\ a \div 100 >= 0
    BY <1>3
  <2>4. Ceiling(a, 100) \in Int /\ Ceiling(a, 100) <= p.charge
    BY <1>2, <1>3, CeilingAtMost
  <2> QED BY <2>1, <2>2, <2>3, <2>4
<1>7. /\ Nearest(-b, r) \in Int /\ Nearest(-b, r) <= 0
      /\ b \div r \in Int /\ b \div r >= 0
  <2>1. Nearest(-b, r) \in Int /\ Nearest(-b, r) <= 0
    BY <1>1, <1>3, NearestAtMost
  <2>2. b \div r \in Int /\ b \div r >= 0
    BY <1>1, <1>3, QuotientAtLeast
  <2> QED BY <2>1, <2>2
<1>8. Ceiling(b, r) \in Int
  BY <1>1, <1>3 DEF Ceiling
<1>9. Foreseen => Nearest(-b, r) >= -(held + Grain) /\ Ceiling(b, r) <= held + Grain
  <2> SUFFICES ASSUME Foreseen
               PROVE  Nearest(-b, r) >= -(held + Grain) /\ Ceiling(b, r) <= held + Grain
    OBVIOUS
  <2>1. held + Grain \in Int /\ b <= (held + Grain) * r
    BY <1>1, <1>4, <1>5
  <2>2. -(held + Grain) * r = -((held + Grain) * r) /\ (held + Grain) * r \in Int
    BY <1>1, <2>1
  <2>3. -b >= (-(held + Grain)) * r /\ -(held + Grain) \in Int /\ -b \in Int
    BY <1>1, <1>3, <2>1, <2>2
  <2>4. Nearest(-b, r) >= -(held + Grain)
    BY <1>1, <2>3, NearestAtLeast
  <2>5. Ceiling(b, r) <= held + Grain
    BY <1>1, <1>3, <2>1, CeilingAtMost
  <2> QED BY <2>4, <2>5
<1>10. /\ After(p, charged) = charged + Nearest(a, 100) + Nearest(-b, r)
       /\ AfterFloor(p, charged) = charged + a \div 100 - Ceiling(b, r)
       /\ AfterCeiling(p, charged) = charged + Ceiling(a, 100) - b \div r
  BY DEF After, AfterFloor, AfterCeiling, a, b, r
<1>11. After(p, charged) \in Int /\ After(p, charged) <= Maximum + Grain
  <2> DEFINE up == Nearest(a, 100)
             down == Nearest(-b, r)
  <2> HIDE DEF up, down
  <2>1. /\ After(p, charged) = charged + up + down
        /\ up \in Int /\ up <= p.charge /\ down \in Int /\ down <= 0
    BY <1>6, <1>7, <1>10 DEF up, down
  <2> QED BY <1>1, <1>2, <2>1
<1>12. AfterCeiling(p, charged) \in Int /\ AfterCeiling(p, charged) <= Maximum + RoundingSoc
  <2> DEFINE up == Ceiling(a, 100)
             down == b \div r
  <2> HIDE DEF up, down
  <2>1. /\ AfterCeiling(p, charged) = charged + up - down
        /\ up \in Int /\ up <= p.charge /\ down \in Int /\ down >= 0
    BY <1>6, <1>7, <1>10 DEF up, down
  <2> QED BY <1>1, <1>2, <2>1
<1>13. AfterFloor(p, charged) \in Int
  BY <1>1, <1>6, <1>8, <1>10
<1>14. Foreseen => /\ After(p, charged) >= Reserve - Grain
                   /\ AfterFloor(p, charged) >= Reserve - Grain
  BY <1>1, <1>4, <1>6, <1>7, <1>8, <1>9, <1>10
<1>15. Violated(p, charged) \subseteq {"reserve-soc"}
  BY <1>1, <1>2, <1>12 DEF Violated, RoundingKw, RoundingKg
<1>16. Foreseen => "reserve-soc" \notin Violated(p, charged)
  BY <1>1, <1>13, <1>14 DEF Violated, Foreseen
<1> QED BY <1>11, <1>14, <1>15, <1>16

LEMMA SitePlanFits ==
  ASSUME site \in SiteRecords, NEW h \in HourRecords, NEW charged \in Reserve .. Maximum,
         NEW floor \in Reserve .. Maximum
  PROVE  LET p == SitePlan(h, charged, floor)
         IN  /\ After(p, charged) \in Int /\ After(p, charged) <= Maximum + Grain
             /\ Violated(p, charged) \subseteq {"reserve-soc"}
             /\ Foreseen => After(p, charged) >= Reserve - Grain /\ Violated(p, charged) = {}
             /\ floor = Reserve => p.satisfied = ~site.blocked
<1> DEFINE reserve == Least({Maximum - Percent, Max({Reserve, floor})})
<1>1. Max({Reserve, floor}) = floor /\ Max({Reserve + Percent, Maximum}) = Maximum
  BY DispatchNumbers, MaxOfTwo
<1>2. reserve \in Reserve .. Maximum /\ (floor = Reserve => reserve = Reserve)
  <2>1. Maximum - Percent \in Int /\ floor \in Int
    BY DispatchNumbers
  <2>2. reserve = IF Maximum - Percent <= floor THEN Maximum - Percent ELSE floor
    BY <1>1, <2>1, MinOfTwo DEF Least
  <2> QED BY <2>2, DispatchNumbers
<1> HIDE DEF reserve
<1> DEFINE p == OptimiseSite(h, charged, reserve, Maximum)
<1>3. SitePlan(h, charged, floor) = p
  BY <1>1 DEF SitePlan, reserve
<1>4. Modest(p, charged, reserve)
  BY <1>2, PlanIsModest
<1>5. p.satisfied = (charged \in 0 .. 100 * Percent /\ reserve < Maximum /\ ~site.blocked)
  BY DEF OptimiseSite
<1> HIDE DEF p
<1>6. floor = Reserve => p.satisfied = ~site.blocked
  <2>1. Percent \in Nat \ {0} /\ Reserve < Maximum /\ Reserve \in Nat
    BY DispatchNumbers
  <2> DEFINE full == 100 * Percent
  <2>2. full \in Nat /\ Maximum <= full
    BY <2>1, DispatchNumbers
  <2> HIDE DEF full
  <2>3. charged \in 0 .. full
    <3>1. charged \in Int /\ charged >= Reserve /\ charged <= Maximum /\ Maximum \in Int
      BY DispatchNumbers
    <3> QED BY <2>1, <2>2, <3>1
  <2> QED BY <1>2, <1>5, <2>1, <2>3 DEF full
<1>7. /\ After(p, charged) \in Int /\ After(p, charged) <= Maximum + Grain
      /\ Violated(p, charged) \subseteq {"reserve-soc"}
      /\ Foreseen => After(p, charged) >= Reserve - Grain /\ Violated(p, charged) = {}
  BY <1>2, <1>4, ModestIsFeasible
<1> QED BY <1>3, <1>6, <1>7

\* The state of charge never leaves the limits, and only the reserve can be at stake.
DispatchInv ==
  /\ site \in Sites /\ horizon \in [1 .. Length -> Hours] /\ hour \in 0 .. Length
  /\ soc \in Reserve .. Maximum
  /\ left <= Maximum + Grain
  /\ violations \subseteq {"reserve-soc"}
  /\ PlansAreFeasible

\* The clamp moves the state of charge by what it is beyond the limits.
LEMMA ClampIsClose ==
  ASSUME NEW x \in Int
  PROVE  /\ Clamped(x) \in Reserve .. Maximum
         /\ x >= Reserve - Grain /\ x <= Maximum + Grain => Clamped(x) - x \in -Grain .. Grain
<1>1. Clamped(x) = IF x <= Reserve THEN Reserve ELSE IF x <= Maximum THEN x ELSE Maximum
  BY DispatchNumbers, MaxOfTwo, MinOfTwo DEF Clamped, Least
<1> QED BY <1>1, DispatchNumbers

LEMMA DispatchInductiveInv == DispatchInv /\ [PlanHour]_dispatchVars => DispatchInv'
<1> SUFFICES ASSUME DispatchInv, [PlanHour]_dispatchVars PROVE DispatchInv'
  OBVIOUS
<1>1. CASE PlanHour
  <2> DEFINE h == horizon[hour + 1]
             first == Decided(hour + 1)
             second == SitePlan(h, soc, Reserve)
             bad(q) == Violated(q, soc) # {} \/ ~q.satisfied
             p == IF bad(first) THEN second ELSE first
  <2>1. /\ site \in SiteRecords /\ h \in HourRecords /\ soc \in Reserve .. Maximum
        /\ Reserve \in Reserve .. Maximum
    BY <1>1, DispatchAssumption, DispatchNumbers DEF DispatchInv, PlanHour
  <2>2. /\ violations' = Violated(p, soc) /\ satisfied' = (satisfied /\ ~bad(p))
        /\ left' = After(p, soc) /\ soc' = Clamped(left') /\ hour' = hour + 1 /\ hour < Length
        /\ UNCHANGED <<horizon, site, strategy>>
    BY <1>1 DEF PlanHour
  <2>3. PICK floor \in Reserve .. Maximum : first = SitePlan(h, soc, floor)
    BY <2>1 DEF Decided
  <2> HIDE DEF h, first, second
  <2> DEFINE fits(q) == /\ After(q, soc) \in Int /\ After(q, soc) <= Maximum + Grain
                        /\ Violated(q, soc) \subseteq {"reserve-soc"}
                        /\ Foreseen => /\ After(q, soc) >= Reserve - Grain
                                       /\ Violated(q, soc) = {}
  <2>4. fits(first)
    BY <2>1, <2>3, SitePlanFits
  <2>5. fits(second) /\ second.satisfied = ~site.blocked
    BY <2>1, SitePlanFits DEF second
  <2>6. fits(p) /\ (Foreseen => ~bad(p) \/ site.blocked)
    BY <2>4, <2>5
  <2> HIDE DEF p
  <2>7. /\ Clamped(After(p, soc)) \in Reserve .. Maximum
        /\ Foreseen => Clamped(After(p, soc)) - After(p, soc) \in -Grain .. Grain
    BY <2>6, ClampIsClose
  <2>8. Foreseen' = Foreseen
    BY <2>2 DEF Foreseen
  <2>9. PlansAreFeasible'
    BY <2>2, <2>6, <2>7, <2>8 DEF DispatchInv, PlansAreFeasible
  <2>10. hour' \in 0 .. Length
    BY <2>2, DispatchAssumption DEF DispatchInv
  <2> QED BY <2>2, <2>6, <2>7, <2>9, <2>10 DEF DispatchInv
<1>2. CASE UNCHANGED dispatchVars
  BY <1>2 DEF dispatchVars, DispatchInv, PlansAreFeasible, Foreseen
<1> QED BY <1>1, <1>2

LEMMA DispatchInitInv == DispatchInit => DispatchInv
<1> SUFFICES ASSUME DispatchInit PROVE DispatchInv
  OBVIOUS
<1>1. soc \in Reserve .. Maximum /\ left = soc
  BY DispatchAssumption DEF DispatchInit
<1>2. left <= Maximum + Grain /\ soc - left \in -Grain .. Grain
  BY <1>1, DispatchNumbers
<1> QED BY <1>1, <1>2, DispatchAssumption DEF DispatchInit, DispatchInv, PlansAreFeasible

LEMMA DispatchInvariant == DispatchSpec => []DispatchInv
BY DispatchInitInv, DispatchInductiveInv, PTL DEF DispatchSpec

(***************************************************************************)
(* runHorizon: for every site, horizon and strategy, what the planner      *)
(* proposes hour after hour passes the simulation, where the battery loses *)
(* no more than the planner allows for; a plan may take the battery past   *)
(* its limits, but by the rounding of a watt-hour at most, which is all    *)
(* the clamp hides.  The plan of a blocked site is feasible too, but does  *)
(* not count as satisfying its constraints.                                *)
(***************************************************************************)
THEOREM PlannerAndSimulatorAgree == DispatchSpec => []PlansAreFeasible
<1>1. DispatchInv => PlansAreFeasible
  BY DEF DispatchInv
<1> QED BY <1>1, DispatchInvariant, PTL

(***************************************************************************)
(* Whatever the site's losses: simulateDispatch's clamp keeps the state of *)
(* charge within the limits; no plan overcharges the battery by more than  *)
(* the rounding, and none breaks a limit of power or rate: going below the *)
(* reserve is all the simulation can object to.                            *)
(***************************************************************************)
THEOREM OnlyTheReserveIsAtStake ==
  DispatchSpec => [](/\ soc \in Reserve .. Maximum /\ left <= Maximum + Grain
                     /\ violations \subseteq {"reserve-soc"})
<1> DEFINE claim == /\ soc \in Reserve .. Maximum /\ left <= Maximum + Grain
                    /\ violations \subseteq {"reserve-soc"}
<1>1. DispatchInv => claim
  BY DEF DispatchInv
<1> QED BY <1>1, DispatchInvariant, PTL
-----------------------------------------------------------------------------
(***************************************************************************)
(* Measurements.  Whatever a save has read of the device is below the      *)
(* highest number an update has had, and so is what the device keeps.      *)
(***************************************************************************)
Below(n) == n \in Int /\ n <= highest

DeviceRecords == [exists : BOOLEAN, last : Int]
SaveRecords == [pc : {"device", "row"}, env : Envelopes, seen : DeviceRecords]

SavesFit ==
  \A w \in Savers :
    save[w] = NoSave \/ (save[w] \in SaveRecords /\ Below(save[w].seen.last))

MeasurementInv ==
  /\ highest \in Int /\ device \in DeviceRecords /\ Below(device.last)
  /\ DOMAIN row = Envelopes /\ DOMAIN save = Savers /\ arrived \subseteq Envelopes
  /\ SavesFit /\ FlagsAreJustified

\* 15 minutes leave nothing of the clock score, which high trust asks 0.8 of.
LEMMA StaleIsNotTrusted ==
  ASSUME NEW e \in Envelopes, Stale(e) PROVE Trust(e) # "HIGH"
<1>1. e.late \in Int /\ e.late > 15
  BY MeasurementAssumption DEF Stale
<1> DEFINE x == 1000 - (e.late * 1000) \div 15
<1>2. x \in Int /\ x < 0
  BY <1>1
<1>3. ClockScore(e) = Between(0, 1000, x)
  BY <1>1 DEF ClockScore, Distance
<1> HIDE DEF x
<1>4. ClockScore(e) = 0
  BY <1>2, <1>3, MinOfTwo, MaxOfTwo DEF Between
<1> QED BY <1>4 DEF Trust

\* A message is out of order only before a number the device had when it was read.
LEMMA BeforeHasAReason ==
  ASSUME NEW e \in Envelopes, NEW seen, Below(seen.last), highest \in Int, Before(e, seen)
  PROVE  e.sequence < highest
<1>1. e.sequence \in Nat /\ seen.last \in Int /\ seen.last <= highest
  BY MeasurementAssumption DEF Before, Below
<1>2. e.sequence < Max({0, seen.last})
  BY DEF Before
<1> QED BY <1>1, <1>2, MaxOfTwo

LEMMA MeasurementInitInv == MeasurementInit => MeasurementInv
BY DEF MeasurementInit, MeasurementInv, NoDevice, NoSequence, Below,
       DeviceRecords, SavesFit, FlagsAreJustified

LEMMA MeasurementInductiveInv ==
  MeasurementInv /\ [MeasurementNext]_measurementVars => MeasurementInv'
<1> SUFFICES ASSUME MeasurementInv, [MeasurementNext]_measurementVars PROVE MeasurementInv'
  OBVIOUS
<1>0. NoSave.pc = "idle"
  BY DEF NoSave
<1>1. ASSUME UNCHANGED <<device, row, save, highest>>, arrived' \subseteq Envelopes
      PROVE  MeasurementInv'
  BY <1>1 DEF MeasurementInv, SavesFit, Below, FlagsAreJustified
<1>2. ASSUME NEW w \in Savers, NEW e \in arrived,
             save' = [save EXCEPT ![w] = [pc |-> "device", env |-> e, seen |-> device]],
             UNCHANGED <<arrived, device, row, highest>>
      PROVE  MeasurementInv'
  <2> DEFINE new == [pc |-> "device", env |-> e, seen |-> device]
  <2>1. new \in SaveRecords /\ new.seen = device
    BY DEF MeasurementInv, SaveRecords
  <2> HIDE DEF new
  <2>2. save' = [save EXCEPT ![w] = new]
    BY <1>2 DEF new
  <2>3. SavesFit'
    BY <1>2, <2>1, <2>2 DEF MeasurementInv, SavesFit, Below
  <2> QED BY <1>2, <2>2, <2>3 DEF MeasurementInv, Below, FlagsAreJustified
<1>3. ASSUME NEW w \in Savers, SaveDevice(w) PROVE MeasurementInv'
  <2> DEFINE e == save[w].env
  <2>1. /\ save[w] \in SaveRecords /\ save' = [save EXCEPT ![w].pc = "row"]
        /\ device' = [exists |-> TRUE,
                      last |-> IF e.sequence = NoSequence THEN device.last ELSE e.sequence]
        /\ highest' = Max({highest, e.sequence})
        /\ UNCHANGED <<arrived, row>>
    BY <1>0, <1>3 DEF SaveDevice, MeasurementInv, SavesFit
  <2>0. e \in Envelopes
    BY <2>1 DEF SaveRecords
  <2> HIDE DEF e
  <2>2. e.sequence \in Int /\ device.last \in Int /\ highest \in Int /\ device.last <= highest
    BY <2>0, MeasurementAssumption DEF MeasurementInv, Below, NoSequence
  <2>3. highest' \in Int /\ highest <= highest' /\ e.sequence <= highest'
    BY <2>1, <2>2, MaxOfTwo
  <2>4. device' \in DeviceRecords /\ Below(device.last)'
    BY <2>1, <2>2, <2>3 DEF Below, DeviceRecords
  <2>5. \A n : Below(n) => n \in Int /\ n <= highest'
    BY <2>2, <2>3 DEF Below
  <2>6. ASSUME NEW v \in Savers
        PROVE  save'[v] = NoSave \/ (/\ save'[v] \in SaveRecords
                 /\ Below(save[v].seen.last) /\ save'[v].seen = save[v].seen)
    BY <1>0, <2>1 DEF MeasurementInv, SavesFit, SaveRecords
  <2>7. SavesFit'
    BY <2>5, <2>6 DEF SavesFit, Below
  <2>8. \A f \in Envelopes : f.sequence < highest => f.sequence < highest'
    BY <2>2, <2>3, MeasurementAssumption DEF NoSequence
  <2>9. FlagsAreJustified'
    BY <2>1, <2>8 DEF MeasurementInv, FlagsAreJustified
  <2> QED BY <2>1, <2>3, <2>4, <2>7, <2>9 DEF MeasurementInv
<1>4. ASSUME NEW w \in Savers, SaveRow(w) PROVE MeasurementInv'
  <2> DEFINE e == save[w].env
             new == [saved |-> TRUE, outOfOrder |-> Before(e, save[w].seen),
                     delayed |-> Delayed(e), stale |-> Stale(e), trust |-> Trust(e),
                     quality |-> Quality(e)]
  <2>0. save[w] \in SaveRecords /\ Below(save[w].seen.last)
    BY <1>0, <1>4 DEF SaveRow, MeasurementInv, SavesFit
  <2>1. /\ e \in Envelopes /\ Below(save[w].seen.last) /\ highest \in Int
        /\ row' = [row EXCEPT ![e] = new] /\ save' = [save EXCEPT ![w] = NoSave]
        /\ UNCHANGED <<arrived, device, highest>>
    BY <1>4, <2>0 DEF SaveRow, MeasurementInv, SaveRecords
  <2>2. new.outOfOrder => e.sequence < highest
    BY <2>1, BeforeHasAReason
  <2>3. new.stale => new.trust # "HIGH"
    BY <2>1, StaleIsNotTrusted
  <2> HIDE DEF new, e
  <2>4. FlagsAreJustified'
    BY <2>1, <2>2, <2>3 DEF MeasurementInv, FlagsAreJustified
  <2>5. SavesFit'
    BY <2>1 DEF MeasurementInv, SavesFit, Below
  <2> QED BY <2>1, <2>4, <2>5 DEF MeasurementInv, Below
<1>5. ASSUME NEW w \in Savers, SaveFails(w) PROVE MeasurementInv'
  <2>1. save' = [save EXCEPT ![w] = NoSave] /\ UNCHANGED <<arrived, device, row, highest>>
    BY <1>5 DEF SaveFails
  <2> QED BY <2>1 DEF MeasurementInv, SavesFit, Below, FlagsAreJustified
<1>6. CASE MeasurementNext
  <2>1. ASSUME NEW p \in Profiles \cup {NoRange}, SetProfile(p) PROVE MeasurementInv'
    BY <1>1, <2>1 DEF SetProfile, MeasurementInv
  <2>2. ASSUME NEW e \in Envelopes, Arrives(e) PROVE MeasurementInv'
    BY <1>1, <2>2 DEF Arrives, MeasurementInv
  <2>3. ASSUME NEW w \in Savers, NEW e \in Envelopes, ReadDevice(w, e) PROVE MeasurementInv'
    BY <1>2, <2>3 DEF ReadDevice
  <2> QED BY <1>3, <1>4, <1>5, <1>6, <2>1, <2>2, <2>3 DEF MeasurementNext
<1>7. CASE UNCHANGED measurementVars
  BY <1>1, <1>7 DEF measurementVars, MeasurementInv
<1> QED BY <1>6, <1>7

(***************************************************************************)
(* No interleaving of saves flags a message out of order without a later   *)
(* number having been saved, and no stale row is of high trust.            *)
(***************************************************************************)
THEOREM FlagsHaveReasons == MeasurementSpec => []FlagsAreJustified
<1>1. MeasurementInv => FlagsAreJustified
  BY DEF MeasurementInv
<1> QED BY <1>1, MeasurementInitInv, MeasurementInductiveInv, PTL DEF MeasurementSpec
(***************************************************************************)
(* The types of Measurements: what a saved row says is bounded whatever    *)
(* the clock of the device did, and numbers come from messages.            *)
(***************************************************************************)
LEMMA BetweenBounds ==
  ASSUME NEW x \in Int PROVE Between(0, 1000, x) \in 0 .. 1000
<1> DEFINE m == Min({1000, x})
<1>1. m \in Int /\ m <= 1000
  BY MinOfTwo
<1> HIDE DEF m
<1>2. Max({0, m}) = IF 0 >= m THEN 0 ELSE m
  BY <1>1, MaxOfTwo
<1>3. Max({0, m}) \in 0 .. 1000
  BY <1>1, <1>2
<1> QED BY <1>3 DEF Between, m

LEMMA ScoreBounds ==
  ASSUME NEW e \in Envelopes
  PROVE  Quality(e) \in 0 .. 1000 /\ Trust(e) \in {"LOW", "MEDIUM", "HIGH"}
<1>1. e.late \in Int /\ e.complete \in Int /\ e.good \in Int
  BY MeasurementAssumption
<1> DEFINE x == 1000 - (Distance(e.late) * 1000) \div 15
           y == (e.complete * 35 + e.good * 40) \div 10 + ClockScore(e) \div 4
<1>2. x \in Int
  BY <1>1 DEF Distance
<1>3. ClockScore(e) = Between(0, 1000, x)
  BY DEF ClockScore
<1>4. Quality(e) = Between(0, 1000, y)
  BY DEF Quality
<1> HIDE DEF x
<1>5. ClockScore(e) \in 0 .. 1000
  BY SMTT(30), <1>2, <1>3, BetweenBounds
<1>6. y \in Int
  <2>1. PICK c \in 0 .. 1000 : c = ClockScore(e)
    BY <1>5
  <2>2. c \div 4 \in Int
    OBVIOUS
  <2>3. (e.complete * 35 + e.good * 40) \div 10 \in Int
    BY <1>1
  <2> QED BY <2>1, <2>2, <2>3
<1> HIDE DEF y
<1>7. Quality(e) \in 0 .. 1000
  BY SMTT(30), <1>4, <1>6, BetweenBounds
<1> QED BY <1>7 DEF Trust

SaveTypes == {NoSave} \cup [pc : {"device", "row"}, env : Envelopes, seen : DeviceRows]

LEMMA SaveTyped ==
  ASSUME MeasurementTypeOK, NEW w \in Savers, save[w].pc # "idle"
  PROVE  /\ save[w] \in [pc : {"device", "row"}, env : Envelopes, seen : DeviceRows]
         /\ save[w].env \in Envelopes /\ save[w].seen \in DeviceRows
         /\ [save[w] EXCEPT !.pc = "row"] \in SaveTypes
BY DEF MeasurementTypeOK, SaveTypes, NoSave

LEMMA MeasurementTypes ==
  MeasurementTypeOK /\ [MeasurementNext]_measurementVars => MeasurementTypeOK'
<1> SUFFICES ASSUME MeasurementTypeOK, [MeasurementNext]_measurementVars
             PROVE  MeasurementTypeOK'
  OBVIOUS
<1>1. ASSUME NEW p \in Profiles \cup {NoRange}, SetProfile(p) PROVE MeasurementTypeOK'
  BY <1>1 DEF SetProfile, Usable, MeasurementTypeOK
<1>2. ASSUME NEW e \in Envelopes, Arrives(e) PROVE MeasurementTypeOK'
  BY <1>2 DEF Arrives, MeasurementTypeOK
<1>3. ASSUME NEW w \in Savers, NEW e \in Envelopes, ReadDevice(w, e)
      PROVE  MeasurementTypeOK'
  <2> DEFINE new == [pc |-> "device", env |-> e, seen |-> device]
  <2>1. new \in SaveTypes
    BY DEF MeasurementTypeOK, SaveTypes
  <2>2. /\ save' = [save EXCEPT ![w] = new]
        /\ UNCHANGED <<profile, arrived, device, row, highest>>
    BY <1>3 DEF ReadDevice
  <2> HIDE DEF new
  <2> QED BY <2>1, <2>2 DEF MeasurementTypeOK, SaveTypes
<1>4. ASSUME NEW w \in Savers, SaveDevice(w) PROVE MeasurementTypeOK'
  <2> DEFINE e == save[w].env
             moved == [save[w] EXCEPT !.pc = "row"]
  <2>1. e \in Envelopes /\ moved \in SaveTypes
    BY <1>4, SaveTyped DEF SaveDevice
  <2>2. /\ device' = [exists |-> TRUE,
                      last |-> IF e.sequence = NoSequence THEN device.last ELSE e.sequence]
        /\ highest' = Max({highest, e.sequence})
        /\ save' = [save EXCEPT ![w] = moved]
        /\ UNCHANGED <<profile, arrived, row>>
    BY <1>4 DEF SaveDevice
  <2> HIDE DEF e, moved
  <2>3. SequenceNumbers \subseteq Int /\ e.sequence \in SequenceNumbers
    BY <2>1, MeasurementAssumption DEF SequenceNumbers, NoSequence
  <2>4. device' \in DeviceRows
    BY <2>2, <2>3 DEF MeasurementTypeOK, DeviceRows
  <2>5. highest' \in SequenceNumbers
    BY <2>2, <2>3, MaxOfTwo DEF MeasurementTypeOK
  <2> QED BY <2>1, <2>2, <2>4, <2>5 DEF MeasurementTypeOK, SaveTypes
<1>5. ASSUME NEW w \in Savers, SaveRow(w) PROVE MeasurementTypeOK'
  <2> DEFINE e == save[w].env
             before == Before(e, save[w].seen)
             delayed == Delayed(e)
             stale == Stale(e)
             new == [saved |-> TRUE, outOfOrder |-> before, delayed |-> delayed,
                     stale |-> stale, trust |-> Trust(e), quality |-> Quality(e)]
  <2>1. e \in Envelopes /\ before \in BOOLEAN /\ delayed \in BOOLEAN /\ stale \in BOOLEAN
    <3>1. e \in Envelopes
      BY <1>5, SaveTyped DEF SaveRow
    <3>2. before \in BOOLEAN
      BY ZenonT(20) DEF Before
    <3>3. delayed \in BOOLEAN /\ stale \in BOOLEAN
      BY DEF Delayed, Stale
    <3> QED BY <3>1, <3>2, <3>3
  <2>2. /\ row' = [row EXCEPT ![e] = new] /\ save' = [save EXCEPT ![w] = NoSave]
        /\ UNCHANGED <<profile, arrived, device, highest>>
    BY <1>5 DEF SaveRow
  <2> HIDE DEF e, before, delayed, stale
  <2>3. new \in MessageRows
    BY <2>1, ScoreBounds DEF MessageRows
  <2> HIDE DEF new
  <2> QED BY <2>1, <2>2, <2>3 DEF MeasurementTypeOK
<1>6. ASSUME NEW w \in Savers, SaveFails(w) PROVE MeasurementTypeOK'
  BY <1>6 DEF SaveFails, MeasurementTypeOK
<1>7. CASE UNCHANGED measurementVars
  BY <1>7 DEF measurementVars, MeasurementTypeOK
<1> QED BY <1>1, <1>2, <1>3, <1>4, <1>5, <1>6, <1>7 DEF MeasurementNext

LEMMA MeasurementInitTypes == MeasurementInit => MeasurementTypeOK
BY DEF MeasurementInit, MeasurementTypeOK, Usable, NoDevice, DeviceRows, SequenceNumbers

(***************************************************************************)
(* However saves of a device overlap, rows, devices and saves keep their   *)
(* types: the quality score of a row is a percentage.                      *)
(***************************************************************************)
THEOREM MeasurementTypeCorrect == MeasurementSpec => []MeasurementTypeOK
BY MeasurementInitTypes, MeasurementTypes, PTL DEF MeasurementSpec
-----------------------------------------------------------------------------
(***************************************************************************)
(* SoakHarness.  A 24-hour report that passes was written at the close of  *)
(* a harness, and only after it does the supervisor go beyond its loop.    *)
(* While nothing was mistaken, the report of a multi-day harness that is   *)
(* not closing is in progress, so that no second one is queued, and from   *)
(* the decision to queue to the start there is none.                       *)
(***************************************************************************)
Late == {"days", "queue", "start days"}

EarnedFirst ==
  /\ SoakPassed(report["day"]) => earned
  /\ supervisor \in Late => earned
  /\ DaysRunning # {} => earned

OneAtATime ==
  \/ mistaken
  \/ /\ \A g, h \in DaysRunning : g = h
     /\ \A h \in DaysRunning :
          harness[h].pc = "close" \/ (report["days"] # NoReport /\ report["days"].inProgress)
     /\ supervisor \in {"queue", "start days"} => DaysRunning = {}
     /\ supervisor = "start days" => report["days"] # NoReport /\ report["days"].inProgress

SoakInv == SoakTypeOK /\ EarnedFirst /\ OneAtATime

HarnessRecords == [pc : HarnessStates, kind : Kinds, success : BOOLEAN,
                   failing : BOOLEAN, done : BOOLEAN, aborted : BOOLEAN]

\* A step of one harness, which starts no multi-day soak.
LEMMA HarnessSteps ==
  ASSUME SoakInv, NEW h \in Harnesses, NEW new \in HarnessRecords,
         harness' = [harness EXCEPT ![h] = new], Runs(h),
         new.pc # "none" => new.kind = harness[h].kind,
         UNCHANGED <<supervisor, mistaken>>, earned' \in BOOLEAN, earned => earned',
         NEW r \in Reports \cup {NoReport}, NEW k \in Kinds,
         report' = [report EXCEPT ![k] = r],
         k = "day" /\ SoakPassed(r) => earned',
         r = report[k] \/ k = harness[h].kind,
         r = report[k] \/ new.pc \in {"none", "close"} \/ (r # NoReport /\ r.inProgress),
         r = report[k] => new.pc \in {"none", "close"} \/ harness[h].pc # "close"
  PROVE  SoakInv'
<1>1. SoakTypeOK /\ EarnedFirst /\ OneAtATime
  BY DEF SoakInv
<1>2. /\ report \in [Kinds -> Reports \cup {NoReport}]
      /\ harness \in [Harnesses -> HarnessRecords]
  BY <1>1 DEF SoakTypeOK, HarnessRecords
<1>3. SoakTypeOK'
  BY <1>1, <1>2 DEF SoakTypeOK, HarnessRecords
<1>4. /\ \A g \in Harnesses : g # h => harness'[g] = harness[g]
      /\ harness'[h] = new
      /\ \A j \in Kinds : report'[j] = IF j = k THEN r ELSE report[j]
  BY <1>2
<1>5. DaysRunning' \subseteq DaysRunning
  BY <1>4 DEF DaysRunning, Runs
<1>6. EarnedFirst'
  BY <1>1, <1>4, <1>5 DEF EarnedFirst, SoakPassed, Kinds
<1>7. ASSUME ~mistaken, NEW g \in DaysRunning'
      PROVE  harness'[g].pc = "close" \/ (report'["days"] # NoReport /\ report'["days"].inProgress)
  <2>1. g \in DaysRunning /\ \A j \in DaysRunning : j = g
    BY <1>1, <1>5, <1>7 DEF OneAtATime
  <2>2. harness[g].pc = "close" \/ (report["days"] # NoReport /\ report["days"].inProgress)
    BY <1>1, <1>7, <2>1 DEF OneAtATime
  <2>3. CASE g = h
    BY <1>4, <1>7, <2>2, <2>3 DEF DaysRunning, Runs, Kinds
  <2>4. CASE g # h
    BY <1>4, <2>1, <2>2, <2>4 DEF DaysRunning, Runs, Kinds
  <2> QED BY <2>3, <2>4
<1>8. ASSUME DaysRunning = {} PROVE report'["days"] = report["days"]
  BY <1>4, <1>8 DEF DaysRunning, Kinds
<1>9. ASSUME ~mistaken PROVE OneAtATime'
  <2>1. \A f, g \in DaysRunning' : f = g
    BY <1>1, <1>5, <1>9 DEF OneAtATime
  <2>2. supervisor' \in {"queue", "start days"} => DaysRunning' = {}
    BY <1>1, <1>5, <1>9 DEF OneAtATime
  <2>3. supervisor' = "start days" => report'["days"] # NoReport /\ report'["days"].inProgress
    BY <1>1, <1>8, <1>9 DEF OneAtATime
  <2> QED BY <1>7, <1>9, <2>1, <2>2, <2>3 DEF OneAtATime
<1> QED BY <1>1, <1>3, <1>6, <1>9 DEF SoakInv, OneAtATime

LEMMA HarnessNextInv ==
  ASSUME SoakInv, NEW h \in Harnesses, HarnessNext(h) PROVE SoakInv'
<1>1. /\ report \in [Kinds -> Reports \cup {NoReport}]
      /\ harness \in [Harnesses -> HarnessRecords] /\ earned \in BOOLEAN
      /\ NoHarness \in HarnessRecords /\ harness[h] \in HarnessRecords
      /\ NoHarness.pc = "none"
  BY DEF SoakInv, SoakTypeOK, HarnessRecords, NoHarness, HarnessStates, Kinds
<1>2. harness[h].kind \in Kinds
  BY <1>1 DEF HarnessRecords
<1>3. report["day"] = [report EXCEPT !["day"] = report["day"]]["day"] /\ report = [report EXCEPT !["day"] = report["day"]]
      /\ report["day"] \in Reports \cup {NoReport} /\ "day" \in Kinds
  BY <1>1 DEF Kinds
<1>4. CASE Preflight(h)
  <2> DEFINE new == [harness[h] EXCEPT !.pc = "cycle"]
  <2>1. new \in HarnessRecords /\ new.pc = "cycle" /\ new.kind = harness[h].kind
    BY <1>1 DEF HarnessRecords, HarnessStates
  <2>2. /\ harness' = [harness EXCEPT ![h] = new] /\ harness[h].pc = "preflight"
        /\ UNCHANGED <<report, supervisor, earned, mistaken>>
    BY <1>4 DEF Preflight
  <2> HIDE DEF new
  <2>3. SoakPassed(report["day"]) => earned
    BY DEF SoakInv, EarnedFirst
  <2> QED BY ZenonT(60), <1>1, <1>3, <2>1, <2>2, <2>3, HarnessSteps DEF Runs
<1>5. CASE PreflightFails(h)
  <2> DEFINE r == [Announced EXCEPT !.inProgress = FALSE, !.aborted = TRUE]
  <2>1. r \in Reports /\ ~SoakPassed(r)
    BY DEF Reports, Announced, SoakPassed
  <2>2. /\ harness' = [harness EXCEPT ![h] = NoHarness] /\ harness[h].pc = "preflight"
        /\ report' = [report EXCEPT ![harness[h].kind] = r]
        /\ UNCHANGED <<supervisor, earned, mistaken>>
    BY <1>5 DEF PreflightFails
  <2> HIDE DEF r
  <2> QED BY <1>1, <1>2, <2>1, <2>2, HarnessSteps DEF Runs
<1>6. CASE Cycle(h)
  <2>1. PICK success, failing, done \in BOOLEAN :
          harness' = [harness EXCEPT ![h].pc = "judge", ![h].success = success,
                                     ![h].failing = failing, ![h].done = done]
    BY <1>6 DEF Cycle
  <2> DEFINE new == [harness[h] EXCEPT !.pc = "judge", !.success = success,
                                       !.failing = failing, !.done = done]
  <2>2. new \in HarnessRecords /\ new.pc = "judge" /\ new.kind = harness[h].kind
    BY <1>1 DEF HarnessRecords, HarnessStates
  <2>3. /\ harness' = [harness EXCEPT ![h] = new] /\ harness[h].pc = "cycle"
        /\ UNCHANGED <<report, supervisor, earned, mistaken>>
    BY <1>1, <1>6, <2>1 DEF Cycle, HarnessRecords
  <2> HIDE DEF new
  <2>4. SoakPassed(report["day"]) => earned
    BY DEF SoakInv, EarnedFirst
  <2> QED BY ZenonT(60), <1>1, <1>3, <2>2, <2>3, <2>4, HarnessSteps DEF Runs
<1>7. CASE Judge(h)
  <2>1. PICK aborts \in BOOLEAN :
          /\ report' = [report EXCEPT ![harness[h].kind] =
               [ReportOf(h, ~aborts) EXCEPT !.aborted = aborts]]
          /\ harness' = [harness EXCEPT ![h].aborted = aborts,
               ![h].pc = IF aborts \/ harness[h].done THEN "close" ELSE "cycle"]
    BY <1>7 DEF Judge
  <2> DEFINE r == [ReportOf(h, ~aborts) EXCEPT !.aborted = aborts]
             new == [harness[h] EXCEPT !.aborted = aborts,
               !.pc = IF aborts \/ harness[h].done THEN "close" ELSE "cycle"]
  <2>2. r \in Reports /\ ~SoakPassed(r) /\ r.inProgress = ~aborts /\ r # NoReport
    BY ZenonT(60), <1>1, SoakAssumption DEF Reports, ReportOf, SoakPassed, HarnessRecords
  <2>3. /\ new \in HarnessRecords /\ new.kind = harness[h].kind
        /\ aborts => new.pc = "close"
    BY <1>1 DEF HarnessRecords, HarnessStates
  <2>4. /\ harness' = [harness EXCEPT ![h] = new] /\ harness[h].pc = "judge"
        /\ report' = [report EXCEPT ![harness[h].kind] = r]
        /\ UNCHANGED <<supervisor, earned, mistaken>>
    BY <1>1, <1>7, <2>1 DEF Judge, HarnessRecords
  <2> HIDE DEF r, new
  <2> QED BY <1>1, <1>2, <2>2, <2>3, <2>4, HarnessSteps DEF Runs
<1>8. CASE Close(h)
  <2> DEFINE r == ReportOf(h, FALSE)
  <2>1. r \in Reports /\ (SoakPassed(r) => harness[h].done /\ ~harness[h].aborted)
    BY <1>1 DEF Reports, ReportOf, SoakPassed, HarnessRecords
  <2>2. /\ harness' = [harness EXCEPT ![h] = NoHarness] /\ harness[h].pc = "close"
        /\ report' = [report EXCEPT ![harness[h].kind] = r]
        /\ earned' = (earned \/ (harness[h].kind = "day" /\ harness[h].done /\ ~harness[h].aborted))
        /\ UNCHANGED <<supervisor, mistaken>>
    BY <1>8 DEF Close
  <2> HIDE DEF r
  <2>3. earned' \in BOOLEAN /\ (earned => earned')
        /\ (harness[h].kind = "day" /\ SoakPassed(r) => earned')
    BY <1>1, <2>1, <2>2
  <2> QED BY <1>1, <1>2, <2>1, <2>2, <2>3, HarnessSteps DEF Runs
<1>9. CASE HarnessDies(h)
  <2>1. /\ harness' = [harness EXCEPT ![h] = NoHarness] /\ Runs(h)
        /\ UNCHANGED <<report, supervisor, earned, mistaken>>
    BY <1>9 DEF HarnessDies
  <2>2. SoakPassed(report["day"]) => earned
    BY DEF SoakInv, EarnedFirst
  <2>3. harness[h].pc # "none"
    BY <2>1 DEF Runs
  <2>4. ASSUME NEW new \in HarnessRecords, new.pc = "none",
               harness' = [harness EXCEPT ![h] = new]
        PROVE  SoakInv'
    <3>1. /\ UNCHANGED <<supervisor, mistaken>> /\ earned' \in BOOLEAN /\ (earned => earned')
          /\ report["day"] \in Reports \cup {NoReport} /\ "day" \in Kinds
          /\ report' = [report EXCEPT !["day"] = report["day"]]
          /\ (SoakPassed(report["day"]) => earned')
      BY <1>1, <1>3, <2>1, <2>2
    <3> QED BY <1>1, <2>3, <2>4, <3>1, HarnessSteps DEF Runs
  <2> QED BY <1>1, <2>1, <2>4
<1> QED BY <1>4, <1>5, <1>6, <1>7, <1>8, <1>9 DEF HarnessNext

LEMMA SupervisorInv == ASSUME SoakInv, SupervisorNext PROVE SoakInv'
<1>0. SoakTypeOK /\ EarnedFirst /\ OneAtATime
  BY DEF SoakInv
<1>1. /\ report \in [Kinds -> Reports \cup {NoReport}]
      /\ harness \in [Harnesses -> HarnessRecords]
  BY <1>0 DEF SoakTypeOK, HarnessRecords
<1>2. ~SoakPassed(NoReport)
  BY DEF SoakPassed
<1>3. CASE Boot
  <2>1. supervisor' \in {"poll", "fresh"} /\ UNCHANGED <<report, harness, earned, mistaken>>
    BY <1>3 DEF Boot, GoTo
  <2> QED BY <1>0, <2>1 DEF SoakInv, SoakTypeOK, EarnedFirst, OneAtATime, DaysRunning, Runs, Late
<1>4. ASSUME NEW kind \in Kinds, Announce(kind), kind = "days" => At("queue") PROVE SoakInv'
  <2>1. /\ report' = [report EXCEPT ![kind] = Announced]
        /\ UNCHANGED <<harness, earned, mistaken>>
    BY <1>4 DEF Announce
  <2>0. supervisor' = IF kind = "day" THEN "start day" ELSE "start days"
    <3>1. supervisor' = Starting[kind]
      BY <1>4 DEF Announce, GoTo
    <3>2. Starting[kind] = IF kind = "day" THEN "start day" ELSE "start days"
      <4>1. CASE kind = "day"
        BY <4>1 DEF Starting
      <4>2. CASE kind = "days"
        BY <4>2 DEF Starting
      <4> QED BY <4>1, <4>2 DEF Kinds
    <3> QED BY <3>1, <3>2
  <2>2. Announced \in Reports /\ ~SoakPassed(Announced) /\ Announced.inProgress
    BY DEF Announced, Reports, SoakPassed
  <2>3. SoakTypeOK'
    BY <1>0, <2>0, <2>1, <2>2 DEF SoakTypeOK
  <2>4. EarnedFirst'
    BY <1>0, <1>1, <1>4, <2>0, <2>1, <2>2 DEF EarnedFirst, DaysRunning, Runs, Late, Kinds, At
  <2>5. OneAtATime'
    <3>1. CASE kind = "day"
      <4>1. report'["days"] = report["days"]
        BY <1>1, <2>1, <3>1 DEF Kinds
      <4> QED BY <1>0, <2>0, <2>1, <3>1, <4>1 DEF OneAtATime, DaysRunning, Runs
    <3>2. CASE kind = "days"
      <4>1. supervisor = "queue" /\ supervisor' = "start days"
        BY <1>4, <2>0, <3>2 DEF At
      <4>2. report'["days"] # NoReport /\ report'["days"].inProgress
        BY <1>1, <2>1, <2>2, <3>2, SoakAssumption DEF Kinds
      <4> QED BY <1>0, <2>1, <4>1, <4>2 DEF OneAtATime, DaysRunning, Runs
    <3> QED BY <3>1, <3>2 DEF Kinds
  <2> QED BY <2>3, <2>4, <2>5 DEF SoakInv
<1>5. ASSUME NEW kind \in Kinds, StartSoak(kind),
             supervisor' = IF kind = "day" THEN "poll" ELSE "recheck"
      PROVE  SoakInv'
  <2>1. PICK h \in Harnesses :
          /\ ~Runs(h)
          /\ harness' = [harness EXCEPT ![h].pc = "preflight", ![h].kind = kind]
    BY <1>5 DEF StartSoak
  <2>2. /\ supervisor = Starting[kind] /\ UNCHANGED <<report, earned, mistaken>>
    BY <1>5 DEF StartSoak, At
  <2> DEFINE new == [harness[h] EXCEPT !.pc = "preflight", !.kind = kind]
  <2>3. new \in HarnessRecords /\ harness' = [harness EXCEPT ![h] = new]
        /\ new.kind = kind
    BY <1>1, <2>1 DEF HarnessRecords, HarnessStates
  <2> HIDE DEF new
  <2>4. /\ harness' \in [Harnesses -> HarnessRecords] /\ harness'[h].kind = kind
        /\ \A g \in Harnesses : g # h => harness'[g] = harness[g]
    BY <1>1, <2>3
  <2>5. SoakTypeOK'
    BY <1>0, <1>5, <2>2, <2>4 DEF SoakTypeOK, HarnessRecords
  <2>6. CASE kind = "day"
    <3>1. DaysRunning' \subseteq DaysRunning
      BY <2>4, <2>6 DEF DaysRunning, Runs
    <3>2. \A g \in DaysRunning' : harness'[g] = harness[g]
      BY <2>4, <2>6 DEF DaysRunning
    <3>3. EarnedFirst'
      BY <1>0, <1>5, <2>2, <2>6, <3>1 DEF EarnedFirst, Late
    <3>4. OneAtATime'
      BY <1>0, <1>5, <2>2, <2>6, <3>1, <3>2 DEF OneAtATime
    <3> QED BY <2>5, <3>3, <3>4 DEF SoakInv
  <2>7. CASE kind = "days"
    <3>1. DaysRunning' \subseteq DaysRunning \cup {h}
      BY <2>4 DEF DaysRunning, Runs
    <3>2. supervisor = "start days" /\ supervisor' = "recheck"
      BY <1>5, <2>2, <2>7 DEF Starting
    <3>3. EarnedFirst'
      BY <1>0, <2>2, <3>2 DEF EarnedFirst, Late
    <3>4. CASE ~mistaken
      <4>1. /\ DaysRunning' \subseteq {h}
            /\ report["days"] # NoReport /\ report["days"].inProgress
        BY <1>0, <3>1, <3>2, <3>4 DEF OneAtATime
      <4> QED BY <2>2, <2>5, <3>2, <3>3, <4>1 DEF SoakInv, OneAtATime
    <3>5. CASE mistaken
      BY <2>2, <2>5, <3>3, <3>5 DEF SoakInv, OneAtATime
    <3> QED BY <3>4, <3>5
  <2> QED BY <2>6, <2>7 DEF Kinds
<1>6. CASE PollDay
  <2>1. PICK r \in Readable("day") :
          supervisor' = IF SoakPassed(r) THEN "days"
                        ELSE IF r # NoReport /\ r.aborted THEN "over" ELSE "poll"
    BY <1>6 DEF PollDay, GoTo
  <2>2. SoakPassed(r) => earned
    BY <1>0, <1>2 DEF Readable, EarnedFirst
  <2>3. UNCHANGED <<report, harness, earned, mistaken>>
    BY <1>6 DEF PollDay
  <2> QED BY <1>0, <2>1, <2>2, <2>3
         DEF SoakInv, SoakTypeOK, EarnedFirst, OneAtATime, DaysRunning, Runs, Late
<1>7. CASE PollDays
  <2>1. PICK r \in Readable("days") :
          /\ supervisor' = IF MayQueue(r) THEN "queue" ELSE "recheck"
          /\ mistaken' = (mistaken \/ (MayQueue(r) /\ (r # report["days"]
                                         \/ \E h \in Harnesses : Closing(h))))
    BY <1>7 DEF PollDays, GoTo
  <2>2. supervisor = "days" /\ UNCHANGED <<report, harness, earned>>
    BY <1>7 DEF PollDays, At
  <2>3. SoakTypeOK'
    BY <1>0, <2>1, <2>2 DEF SoakTypeOK
  <2>4. EarnedFirst'
    BY <1>0, <2>1, <2>2 DEF EarnedFirst, DaysRunning, Runs, Late
  <2>5. ASSUME ~mistaken', MayQueue(r) PROVE DaysRunning = {}
    <3>1. ~mistaken /\ r = report["days"] /\ \A h \in Harnesses : ~Closing(h)
      BY <2>1, <2>5
    <3>2. \A h \in DaysRunning : harness[h].pc # "close"
      BY <3>1 DEF DaysRunning, Closing
    <3>3. \A h \in DaysRunning : r # NoReport /\ r.inProgress
      BY <1>0, <3>1, <3>2 DEF OneAtATime
    <3> QED BY <2>5, <3>3 DEF MayQueue
  <2>6. OneAtATime'
    BY <1>0, <2>1, <2>2, <2>5 DEF OneAtATime, DaysRunning, Runs
  <2> QED BY <2>3, <2>4, <2>6 DEF SoakInv
<1>8. CASE Recheck
  <2>1. supervisor' \in {"over", "poll"} /\ UNCHANGED <<report, harness, earned, mistaken>>
    BY <1>8 DEF Recheck, GoTo
  <2> QED BY <1>0, <2>1 DEF SoakInv, SoakTypeOK, EarnedFirst, OneAtATime, DaysRunning, Runs, Late
<1>9. CASE SupervisorRestarts
  <2>1. supervisor' = "boot" /\ UNCHANGED <<report, harness, earned, mistaken>>
    BY <1>9 DEF SupervisorRestarts, GoTo
  <2> QED BY <1>0, <2>1 DEF SoakInv, SoakTypeOK, EarnedFirst, OneAtATime, DaysRunning, Runs, Late
<1> QED BY <1>3, <1>4, <1>5, <1>6, <1>7, <1>8, <1>9
       DEF SupervisorNext, StartDay, StartDays, Kinds, GoTo

LEMMA ReportAgesInv == ASSUME SoakInv, NEW kind \in Kinds, ReportAges(kind) PROVE SoakInv'
<1> DEFINE r == [report[kind] EXCEPT !.stale = TRUE]
<1>0. SoakTypeOK /\ EarnedFirst /\ OneAtATime
  BY DEF SoakInv
<1>1. /\ report' = [report EXCEPT ![kind] = r]
      /\ UNCHANGED <<harness, supervisor, earned, mistaken>>
      /\ report[kind] # NoReport /\ report[kind] \in Reports
      /\ \A h \in Harnesses : Runs(h) => harness[h].kind # kind
  BY <1>0 DEF ReportAges, SoakTypeOK
<1>2. /\ r \in Reports /\ (SoakPassed(r) => SoakPassed(report[kind]))
      /\ r # NoReport /\ r.inProgress = report[kind].inProgress
  BY <1>1, SoakAssumption DEF Reports, SoakPassed
<1> HIDE DEF r
<1>3. SoakTypeOK'
  BY <1>0, <1>1, <1>2 DEF SoakTypeOK
<1>4. EarnedFirst'
  BY <1>0, <1>1, <1>2 DEF EarnedFirst, SoakTypeOK, DaysRunning, Runs, Kinds
<1>5. OneAtATime'
  <2>1. report["days"] # NoReport /\ report["days"].inProgress
          => report'["days"] # NoReport /\ report'["days"].inProgress
    BY <1>0, <1>1, <1>2 DEF SoakTypeOK, Kinds
  <2> QED BY <1>0, <1>1, <2>1 DEF OneAtATime, DaysRunning, Runs
<1> QED BY <1>3, <1>4, <1>5 DEF SoakInv

LEMMA SoakInitInv == SoakInit => SoakInv
<1> SUFFICES ASSUME SoakInit PROVE SoakInv
  OBVIOUS
<1> USE DEF SoakInit
<1>1. NoHarness \in HarnessRecords /\ NoHarness.pc = "none"
  BY DEF NoHarness, HarnessRecords, HarnessStates, Kinds
<1> HIDE DEF NoHarness
<1>2. SoakTypeOK
  BY <1>1 DEF SoakTypeOK, HarnessRecords
<1>3. DaysRunning = {}
  BY <1>1 DEF DaysRunning, Runs
<1>4. EarnedFirst
  BY <1>3 DEF EarnedFirst, SoakPassed, Kinds, Late
<1>5. OneAtATime
  BY <1>3 DEF OneAtATime
<1> QED BY <1>2, <1>4, <1>5 DEF SoakInv

LEMMA SoakInductiveInv == SoakInv /\ [SoakNext]_soakVars => SoakInv'
<1> SUFFICES ASSUME SoakInv, [SoakNext]_soakVars PROVE SoakInv'
  OBVIOUS
<1>1. CASE UNCHANGED soakVars
  <2>1. UNCHANGED <<report, harness, supervisor, earned, mistaken>>
    BY <1>1 DEF soakVars
  <2>2. SoakTypeOK' /\ EarnedFirst' /\ OneAtATime'
    BY <2>1 DEF SoakInv, SoakTypeOK, EarnedFirst, OneAtATime, DaysRunning, Runs
  <2> QED BY <2>2 DEF SoakInv
<1> QED BY <1>1, SupervisorInv, HarnessNextInv, ReportAgesInv DEF SoakNext

(***************************************************************************)
(* However often supervisor and harnesses die, a multi-day soak starts     *)
(* only after a whole 24-hour one, and a second one only by one of the two *)
(* mistakes.                                                               *)
(***************************************************************************)
THEOREM MultiDayFollowsDay == SoakSpec => []MultiDayIsEarned
<1>1. SoakInv => MultiDayIsEarned
  BY DEF SoakInv, EarnedFirst, OneAtATime, MultiDayIsEarned
<1> QED BY <1>1, SoakInitInv, SoakInductiveInv, PTL DEF SoakSpec
-----------------------------------------------------------------------------
(***************************************************************************)
(* Tenancy.  Recorded and Kept are about the event: it is young while its  *)
(* offboarding is in progress, and what a retention is about to delete is  *)
(* not the only event of an archived tenant.  Left and Listed are about    *)
(* users: who is owed a deletion has no membership, and a deletion that    *)
(* goes on has the list of all who had one when it read.                   *)
(***************************************************************************)
WorkRecords ==
  [pc : Steps, on : TenantIds \cup {0}, deletes : BOOLEAN,
   todo : SUBSET ((TenantIds \cup {0}) \X Persons), old : SUBSET TenantIds, roles : BOOLEAN, members : SUBSET Persons,
   before : SUBSET Persons]

Noted(t) == "young" \in offboarded[t] \/ t \in overtaken
Recorded == \A k \in TenantCalls : Is(k, "offboard") => work[k].on \in TenantIds /\ Noted(work[k].on)
Kept == \A k \in TenantCalls, t \in TenantIds :
          Is(k, "retain") /\ t \in work[k].old /\ tenant[t] = "archived" => Noted(t)
Left == \A u \in owed, t \in TenantIds : <<t, u>> \notin member
Listed == \A k \in TenantCalls :
            work[k].pc \in {"drop", "users"} => work[k].before = work[k].members

Rows ==
  /\ tenant \in [TenantIds -> {"none", "live", "archived"}]
  /\ person \in [Persons -> {"none", "there", "deleted"}]
  /\ offboarded \in [TenantIds -> SUBSET {"young", "old"}]
  /\ member \subseteq Pairs /\ grant \subseteq Pairs /\ owed \subseteq Persons

TenancyInv ==
  /\ Rows /\ work \in [TenantCalls -> WorkRecords]
  /\ Recorded /\ Kept /\ Left /\ Listed
  /\ OffboardingIsOnRecord /\ UsersLeaveWithTenant

\* What a call must rely on where it goes.
Fits(w) ==
  /\ w \in WorkRecords
  /\ w.pc \in {"drop", "users"} => w.before = w.members

LEMMA WorkTypes ==
  ASSUME work \in [TenantCalls -> WorkRecords], NEW k \in TenantCalls
  PROVE  /\ work[k] \in WorkRecords /\ NoWork \in WorkRecords
         /\ \A pc \in Steps : [work[k] EXCEPT !.pc = pc] \in WorkRecords
         /\ \A pc \in Steps : [work[k] EXCEPT !.pc = pc].pc = pc
         /\ \A pc \in Steps : [work[k] EXCEPT !.pc = pc].old = work[k].old
         /\ \A pc \in Steps : [work[k] EXCEPT !.pc = pc].on = work[k].on
         /\ \A pc \in Steps : [work[k] EXCEPT !.pc = pc].members = work[k].members
         /\ \A pc \in Steps : [work[k] EXCEPT !.pc = pc].before = work[k].before
         /\ NoWork.pc = "idle"
<1>1. work[k] \in WorkRecords
  OBVIOUS
<1>2. NoWork \in WorkRecords /\ NoWork.pc = "idle"
  BY DEF NoWork, WorkRecords, Steps
<1> QED BY <1>1, <1>2 DEF WorkRecords

(***************************************************************************)
(* A call goes on, and the rows the properties look at stay.               *)
(***************************************************************************)
LEMMA WorkGoesOn ==
  ASSUME TenancyInv, NEW k \in TenantCalls, NEW w, Fits(w), Sets(k, w),
         ~Is(k, "users"), w.pc \notin {"offboard", "users"},
         w.pc = "retain" => \A t \in w.old : tenant[t] # "archived" \/ (Is(k, "retain") /\ t \in work[k].old),
         UNCHANGED <<tenant, person, offboarded, member, owed, unlisted, overtaken>>,
         grant' \subseteq grant \cup Pairs
  PROVE  TenancyInv'
<1>1. /\ work \in [TenantCalls -> WorkRecords] /\ w \in WorkRecords
      /\ work' = [work EXCEPT ![k] = w]
  BY DEF TenancyInv, Sets, Fits
<1>2. /\ work' \in [TenantCalls -> WorkRecords] /\ work'[k] = w
      /\ \A j \in TenantCalls : j # k => work'[j] = work[j]
  BY <1>1
<1>3. Rows' /\ Left' /\ OffboardingIsOnRecord'
  BY DEF TenancyInv, Rows, Left, OffboardingIsOnRecord
<1>4. Recorded'
  BY <1>2 DEF TenancyInv, Recorded, Noted, Is
<1>5. Kept'
  BY <1>1, <1>2 DEF TenancyInv, Kept, Noted, Is, WorkRecords
<1>6. Listed'
  BY <1>2 DEF TenancyInv, Listed, Fits
<1>7. UsersLeaveWithTenant'
  BY <1>2 DEF TenancyInv, UsersLeaveWithTenant, Is
<1> QED BY <1>2, <1>3, <1>4, <1>5, <1>6, <1>7 DEF TenancyInv

\* The same for a step that only names the next place.
LEMMA WorkMoves ==
  ASSUME TenancyInv, NEW k \in TenantCalls, NEW pc \in Steps, Moves(k, pc),
         ~Is(k, "users"), pc \notin {"offboard", "users", "drop", "retain"},
         UNCHANGED <<tenant, person, offboarded, member, owed, unlisted, overtaken>>,
         grant' \subseteq grant \cup Pairs
  PROVE  TenancyInv'
<1>1. work \in [TenantCalls -> WorkRecords]
  BY DEF TenancyInv
<1> DEFINE w == [work[k] EXCEPT !.pc = pc]
<1>2. w \in WorkRecords /\ w.pc = pc /\ Sets(k, w)
  BY <1>1, WorkTypes DEF Moves
<1> HIDE DEF w
<1> QED BY <1>2, WorkGoesOn DEF Fits

LEMMA WorkEnds ==
  ASSUME TenancyInv, NEW k \in TenantCalls, Ends(k), ~Is(k, "users"),
         UNCHANGED <<tenant, person, offboarded, member, owed, unlisted, overtaken>>,
         grant' \subseteq grant \cup Pairs
  PROVE  TenancyInv'
<1>1. Fits(NoWork) /\ Sets(k, NoWork) /\ NoWork.pc = "idle"
  BY WorkTypes DEF TenancyInv, Ends, Fits
<1> QED BY <1>1, WorkGoesOn

(***************************************************************************)
(* A call goes on and one tenant's row changes, to "live" or to a status   *)
(* it had an event for.                                                    *)
(***************************************************************************)
LEMMA TenantChanges ==
  ASSUME TenancyInv, NEW k \in TenantCalls, NEW w, Fits(w), Sets(k, w),
         ~Is(k, "users"), w.pc \notin {"offboard", "users", "retain"},
         NEW t \in TenantIds, NEW st \in {"none", "live", "archived"},
         tenant' = [tenant EXCEPT ![t] = st],
         st = "archived" => tenant[t] = st \/ Noted(t),
         UNCHANGED <<person, offboarded, member, owed, unlisted, overtaken>>,
         grant' \subseteq grant \cup Pairs
  PROVE  TenancyInv'
<1>1. /\ work \in [TenantCalls -> WorkRecords] /\ w \in WorkRecords
      /\ work' = [work EXCEPT ![k] = w]
  BY DEF TenancyInv, Sets, Fits
<1>2. /\ work' \in [TenantCalls -> WorkRecords] /\ work'[k] = w
      /\ \A j \in TenantCalls : j # k => work'[j] = work[j]
  BY <1>1
<1>3. \A s \in TenantIds : tenant'[s] = IF s = t THEN st ELSE tenant[s]
  BY DEF TenancyInv, Rows
<1>4. Rows' /\ Left'
  BY DEF TenancyInv, Rows, Left
<1>5. OffboardingIsOnRecord'
  BY <1>3 DEF TenancyInv, OffboardingIsOnRecord, Noted
<1>6. Recorded'
  BY <1>2 DEF TenancyInv, Recorded, Noted, Is
<1>7. Kept'
  BY <1>2, <1>3 DEF TenancyInv, Kept, Noted, Is
<1>8. Listed'
  BY <1>2 DEF TenancyInv, Listed, Fits
<1>9. UsersLeaveWithTenant'
  BY <1>2 DEF TenancyInv, UsersLeaveWithTenant, Is
<1> QED BY <1>2, <1>4, <1>5, <1>6, <1>7, <1>8, <1>9 DEF TenancyInv

LEMMA IdentityInv ==
  ASSUME TenancyInv, NEW k \in TenantCalls, IdentityCalls(k) PROVE TenancyInv'
<1>0. work \in [TenantCalls -> WorkRecords] /\ tenant \in [TenantIds -> {"none", "live", "archived"}]
  BY DEF TenancyInv, Rows
<1>1. ASSUME NEW t \in TenantIds, ResolveTenant(k, t) PROVE TenancyInv'
  <2> DEFINE w == [NoWork EXCEPT !.on = t,
                     !.pc = IF tenant[t] = "live" THEN "installation" ELSE "provision"]
  <2>1. w \in WorkRecords /\ w.pc \in {"installation", "provision"}
    BY DEF NoWork, WorkRecords, Steps
  <2>2. /\ Sets(k, w) /\ ~Is(k, "users")
        /\ UNCHANGED <<tenant, person, offboarded, member, owed, unlisted, overtaken, grant>>
    BY <1>1 DEF ResolveTenant, Is, places, people, history
  <2> HIDE DEF w
  <2> QED BY <2>1, <2>2, WorkGoesOn DEF Fits
<1>2. CASE ResolveInstallation(k)
  <2>1. ~Is(k, "users") /\ UNCHANGED <<tenant, person, offboarded, member, owed, unlisted, overtaken, grant>>
    BY <1>2 DEF ResolveInstallation, Is, people, history
  <2>2. Ends(k) \/ Moves(k, "provision")
    BY <1>2 DEF ResolveInstallation
  <2> QED BY <2>1, <2>2, WorkEnds, WorkMoves DEF Steps
<1>3. CASE ProvisionTenant(k)
  <2> DEFINE t == work[k].on
             st == IF tenant[t] = "none" THEN "live" ELSE tenant[t]
             w == [work[k] EXCEPT !.pc = "install"]
  <2>1. w \in WorkRecords /\ w.pc = "install" /\ Sets(k, w) /\ ~Is(k, "users")
    BY ZenonT(60), <1>0, <1>3, WorkTypes DEF ProvisionTenant, Moves, Steps, Is
  <2>2. /\ tenant' = [tenant EXCEPT ![t] = st]
        /\ UNCHANGED <<person, offboarded, member, owed, unlisted, overtaken, grant>>
    BY <1>3 DEF ProvisionTenant, people, history
  <2> HIDE DEF w
  <2>3. CASE t \in TenantIds
    <3>1. st \in {"none", "live", "archived"} /\ (st = "archived" => tenant[t] = st)
      BY <1>0, <2>3
    <3> HIDE DEF st, t
    <3> QED BY <2>1, <2>2, <2>3, <3>1, TenantChanges DEF Fits
  <2>4. CASE t \notin TenantIds
    <3>1. tenant' = tenant
      BY <1>0, <2>2, <2>4
    <3> QED BY <2>1, <2>2, <3>1, WorkGoesOn DEF Fits
  <2> QED BY <2>3, <2>4
<1>4. CASE ProvisionInstallation(k)
  <2>1. /\ ~Is(k, "users") /\ Moves(k, "sync")
        /\ UNCHANGED <<tenant, person, offboarded, member, owed, unlisted, overtaken, grant>>
    BY <1>4 DEF ProvisionInstallation, Is, people, history
  <2> QED BY <2>1, WorkMoves DEF Steps
<1>5. CASE SyncOperators(k)
  <2> DEFINE next == {work[k].on} \X Operators
             w == [work[k] EXCEPT !.pc = "each", !.todo = next]
  <2>0. next \in SUBSET ((TenantIds \cup {0}) \X Persons)
    <3>1. Operators \subseteq Persons /\ work[k].on \in TenantIds \cup {0}
      BY <1>0 DEF TenancyInv, Rows, Operators, Pairs, WorkRecords
    <3> QED BY <3>1
  <2> HIDE DEF next
  <2>1. /\ ~Is(k, "users") /\ Sets(k, w)
        /\ UNCHANGED <<tenant, person, offboarded, member, owed, unlisted, overtaken, grant>>
    BY <1>5 DEF SyncOperators, Is, places, people, history, next
  <2>2. w \in WorkRecords /\ w.pc = "each"
    BY ZenonT(60), <1>0, <2>0 DEF WorkRecords, Steps
  <2> HIDE DEF w
  <2> QED BY <2>1, <2>2, WorkGoesOn DEF Fits
<1> QED BY <1>1, <1>2, <1>3, <1>4, <1>5 DEF IdentityCalls

(***************************************************************************)
(* A membership is written: the user is there, and owed nothing now.       *)
(***************************************************************************)
LEMMA JoinInv ==
  ASSUME TenancyInv, NEW k \in TenantCalls, NEW w, Fits(w), Sets(k, w),
         ~Is(k, "users"), w.pc \notin {"offboard", "users", "retain"},
         NEW p \in Pairs, Joins(p),
         UNCHANGED <<tenant, person, offboarded, grant, overtaken>>
  PROVE  TenancyInv'
<1>1. /\ work \in [TenantCalls -> WorkRecords] /\ w \in WorkRecords
      /\ work' = [work EXCEPT ![k] = w]
      /\ member' = member \cup {p}
      /\ owed' = owed \ {p[2]} /\ unlisted' = unlisted \ {p[2]}
  BY DEF TenancyInv, Sets, Fits, Joins
<1>2. /\ work' \in [TenantCalls -> WorkRecords] /\ work'[k] = w
      /\ \A j \in TenantCalls : j # k => work'[j] = work[j]
  BY <1>1
<1>3. Rows' /\ OffboardingIsOnRecord'
  BY <1>1 DEF TenancyInv, Rows, OffboardingIsOnRecord
<1>4. Recorded' /\ Kept'
  BY <1>2 DEF TenancyInv, Recorded, Kept, Noted, Is
<1>5. Left'
  <2>1. ASSUME NEW u \in owed', NEW t \in TenantIds PROVE <<t, u>> \notin member'
    <3>1. u \in owed /\ u # p[2]
      BY <1>1, <2>1
    <3>2. <<t, u>> \notin member
      BY <3>1 DEF TenancyInv, Left
    <3>3. <<t, u>>[2] = u
      OBVIOUS
    <3>4. <<t, u>> # p
      BY <3>1, <3>3
    <3> QED BY <1>1, <3>2, <3>4
  <2> QED BY <2>1 DEF Left
<1>6. Listed'
  BY <1>2 DEF TenancyInv, Listed, Fits
<1>7. UsersLeaveWithTenant'
  BY <1>1, <1>2 DEF TenancyInv, UsersLeaveWithTenant, Is
<1> QED BY <1>2, <1>3, <1>4, <1>5, <1>6, <1>7 DEF TenancyInv

LEMMA MembershipInv ==
  ASSUME TenancyInv, NEW k \in TenantCalls, MembershipCalls(k) PROVE TenancyInv'
<1>0. work \in [TenantCalls -> WorkRecords] /\ work[k] \in WorkRecords
  BY DEF TenancyInv
<1>1. ASSUME NEW u \in Persons, GrantAll(k, u) PROVE TenancyInv'
  <2> DEFINE w == [NoWork EXCEPT !.pc = "each", !.todo = Live \X {u}]
  <2>1. w \in WorkRecords /\ w.pc = "each"
    BY DEF NoWork, WorkRecords, Steps, Live
  <2>2. /\ Sets(k, w) /\ ~Is(k, "users")
        /\ UNCHANGED <<tenant, person, offboarded, member, owed, unlisted, overtaken, grant>>
    BY <1>1 DEF GrantAll, Is, places, people, history
  <2> HIDE DEF w
  <2> QED BY <2>1, <2>2, WorkGoesOn DEF Fits
<1>8. ASSUME NEW t \in TenantIds, NEW u \in Persons, GrantOne(k, u, t) PROVE TenancyInv'
  <2> DEFINE next == {<<t, u>>}
             w == [NoWork EXCEPT !.pc = "each", !.todo = next]
  <2>0. next \in SUBSET ((TenantIds \cup {0}) \X Persons)
    OBVIOUS
  <2> HIDE DEF next
  <2>1. w \in WorkRecords /\ w.pc = "each"
    BY <2>0 DEF NoWork, WorkRecords, Steps
  <2>2. /\ Sets(k, w) /\ ~Is(k, "users")
        /\ UNCHANGED <<tenant, person, offboarded, member, owed, unlisted, overtaken, grant>>
    BY <1>8 DEF GrantOne, Is, places, people, history, next
  <2> HIDE DEF w
  <2> QED BY <2>1, <2>2, WorkGoesOn DEF Fits
<1>2. CASE GrantsDone(k)
  <2>1. /\ ~Is(k, "users") /\ Ends(k)
        /\ UNCHANGED <<tenant, person, offboarded, member, owed, unlisted, overtaken, grant>>
    BY <1>2 DEF GrantsDone, Is, places, people, history
  <2> QED BY <2>1, WorkEnds
<1>3. ASSUME NEW p \in Pairs, EnsureRole(k, p) PROVE TenancyInv'
  <2>1. /\ ~Is(k, "users") /\ Moves(k, "join")
        /\ UNCHANGED <<tenant, person, offboarded, member, owed, unlisted, overtaken, grant>>
    BY <1>3 DEF EnsureRole, Is, places, history
  <2> QED BY <2>1, WorkMoves DEF Steps
<1>4. ASSUME NEW p \in Pairs, EnsureMember(k, p) PROVE TenancyInv'
  <2> DEFINE w == [work[k] EXCEPT !.pc = "grant"]
  <2>1. w \in WorkRecords /\ w.pc = "grant"
    BY ZenonT(60), <1>0, WorkTypes DEF Steps
  <2>2. /\ ~Is(k, "users") /\ Sets(k, w) /\ Joins(p)
        /\ UNCHANGED <<tenant, person, offboarded, grant, overtaken>>
    BY <1>4 DEF EnsureMember, Is, Moves, places
  <2> HIDE DEF w
  <2> QED BY <2>1, <2>2, JoinInv DEF Fits
<1>5. ASSUME NEW p \in Pairs, EnsureGrant(k, p) PROVE TenancyInv'
  <2> DEFINE w == [work[k] EXCEPT !.pc = "each", !.todo = @ \ {p}]
  <2>1. w \in WorkRecords /\ w.pc = "each"
    BY <1>0 DEF WorkRecords, Steps
  <2>2. /\ Sets(k, w) /\ ~Is(k, "users") /\ grant' = grant \cup {p}
        /\ UNCHANGED <<tenant, person, offboarded, member, owed, unlisted, overtaken>>
    BY <1>5 DEF EnsureGrant, Is, places, history
  <2> HIDE DEF w
  <2> QED BY <2>1, <2>2, WorkGoesOn DEF Fits
<1>6. ASSUME NEW t \in TenantIds, NEW u \in Persons, InvitePerson(k, t, u) PROVE TenancyInv'
  <2> DEFINE next == {<<t, u>>}
             w == [NoWork EXCEPT !.pc = "invite", !.todo = next]
  <2>0. next \in SUBSET ((TenantIds \cup {0}) \X Persons)
    OBVIOUS
  <2> HIDE DEF next
  <2>1. w \in WorkRecords /\ w.pc = "invite"
    BY <2>0 DEF NoWork, WorkRecords, Steps
  <2>2. /\ work' = [work EXCEPT ![k] = w] /\ ~Is(k, "users") /\ person[u] # "deleted"
        /\ person' = [person EXCEPT ![u] = "there"]
        /\ UNCHANGED <<tenant, offboarded, member, owed, unlisted, overtaken, grant>>
    BY <1>6 DEF InvitePerson, Is, Sets, places, history, next
  <2> HIDE DEF w
  <2>3. /\ work' \in [TenantCalls -> WorkRecords] /\ work'[k] = w
        /\ \A j \in TenantCalls : j # k => work'[j] = work[j]
    BY <1>0, <2>1, <2>2
  <2>4. Rows' /\ Left' /\ OffboardingIsOnRecord'
    BY <2>2 DEF TenancyInv, Rows, Left, OffboardingIsOnRecord
  <2>5. Recorded' /\ Kept' /\ Listed'
    BY <2>1, <2>2, <2>3 DEF TenancyInv, Recorded, Kept, Listed, Noted, Is
  <2>6. \A v \in Persons : person[v] = "deleted" => person'[v] = "deleted"
    BY <2>2 DEF TenancyInv, Rows
  <2>7. UsersLeaveWithTenant'
    BY <2>1, <2>2, <2>3, <2>6 DEF TenancyInv, Rows, UsersLeaveWithTenant, Is
  <2> QED BY <2>3, <2>4, <2>5, <2>7 DEF TenancyInv
<1>7. ASSUME NEW p \in Pairs, InviteMember(k, p) PROVE TenancyInv'
  <2>1. /\ ~Is(k, "users") /\ Sets(k, NoWork) /\ Joins(p)
        /\ UNCHANGED <<tenant, person, offboarded, grant, overtaken>>
    BY <1>7 DEF InviteMember, Is, Ends, places
  <2>2. Fits(NoWork) /\ NoWork.pc = "idle"
    BY <1>0, WorkTypes DEF Fits
  <2> QED BY <2>1, <2>2, JoinInv
<1> QED BY <1>1, <1>2, <1>3, <1>4, <1>5, <1>6, <1>7, <1>8 DEF MembershipCalls

(***************************************************************************)
(* Offboarding and deletion.                                               *)
(***************************************************************************)
LEMMA OffboardInv ==
  ASSUME TenancyInv, NEW k \in TenantCalls, OffboardingCalls(k) PROVE TenancyInv'
<1>0. /\ work \in [TenantCalls -> WorkRecords] /\ work[k] \in WorkRecords
      /\ tenant \in [TenantIds -> {"none", "live", "archived"}]
      /\ offboarded \in [TenantIds -> SUBSET {"young", "old"}]
      /\ person \in [Persons -> {"none", "there", "deleted"}]
      /\ member \subseteq Pairs /\ grant \subseteq Pairs /\ owed \subseteq Persons
  BY DEF TenancyInv, Rows
<1>1. ASSUME NEW t \in TenantIds, NEW deletes \in BOOLEAN, OffboardAudit(k, t, deletes)
      PROVE  TenancyInv'
  <2> DEFINE w == [NoWork EXCEPT !.pc = "offboard", !.on = t, !.deletes = deletes]
  <2>1. w \in WorkRecords /\ w.pc = "offboard" /\ w.on = t
    BY DEF NoWork, WorkRecords, Steps
  <2>2. /\ work' = [work EXCEPT ![k] = w] /\ ~Is(k, "users")
        /\ offboarded' = [offboarded EXCEPT ![t] = @ \cup {"young"}]
        /\ overtaken' = overtaken \ {t}
        /\ UNCHANGED <<tenant, person, member, owed, unlisted, grant>>
    BY <1>1 DEF OffboardAudit, Is, Sets, places, people
  <2> HIDE DEF w
  <2>3. /\ work' \in [TenantCalls -> WorkRecords] /\ work'[k] = w
        /\ \A j \in TenantCalls : j # k => work'[j] = work[j]
    BY <1>0, <2>1, <2>2
  <2>4. \A s \in TenantIds : Noted(s) \/ s = t => Noted(s)'
    BY <1>0, <2>2 DEF Noted
  <2>5. Rows' /\ Left'
    BY <2>2 DEF TenancyInv, Rows, Left
  <2>6. OffboardingIsOnRecord'
    BY <1>0, <2>2 DEF TenancyInv, OffboardingIsOnRecord
  <2>7. Recorded' /\ Kept' /\ Listed'
    BY <2>1, <2>2, <2>3, <2>4 DEF TenancyInv, Recorded, Kept, Listed, Is
  <2>8. UsersLeaveWithTenant'
    BY <2>2, <2>3 DEF TenancyInv, UsersLeaveWithTenant, Is
  <2> QED BY <2>3, <2>5, <2>6, <2>7, <2>8 DEF TenancyInv
<1>2. CASE OffboardCommit(k)
  <2> DEFINE t == work[k].on
  <2>1. t \in TenantIds /\ Noted(t) /\ ~Is(k, "users")
    BY <1>2 DEF OffboardCommit, TenancyInv, Recorded, Is
  <2>2. /\ tenant' = [tenant EXCEPT ![t] = "archived"]
        /\ UNCHANGED <<person, offboarded, member, owed, unlisted, overtaken, grant>>
    BY <1>2 DEF OffboardCommit, people, history
  <2>3. PICK w \in {NoWork, [work[k] EXCEPT !.pc = "roles"]} : Sets(k, w)
    BY <1>2 DEF OffboardCommit, Ends, Moves
  <2>4. w \in WorkRecords /\ w.pc \in {"idle", "roles"}
    <3>1. CASE w = NoWork
      BY <1>0, <3>1, WorkTypes
    <3>2. CASE w = [work[k] EXCEPT !.pc = "roles"]
      BY <1>0, <3>2 DEF WorkRecords, Steps
    <3> QED BY <2>3, <3>1, <3>2
  <2> HIDE DEF t
  <2> QED BY <2>1, <2>2, <2>3, <2>4, TenantChanges DEF Fits
<1>3. CASE ReadRoles(k)
  <2> DEFINE known == work[k].on \in role
             w == [work[k] EXCEPT !.pc = "members", !.roles = known]
  <2>0. known \in BOOLEAN
    OBVIOUS
  <2> HIDE DEF known
  <2>1. w \in WorkRecords /\ w.pc = "members"
    BY <1>0, <2>0 DEF WorkRecords, Steps
  <2>2. /\ Sets(k, w) /\ ~Is(k, "users")
        /\ UNCHANGED <<tenant, person, offboarded, member, owed, unlisted, overtaken, grant>>
    BY <1>3 DEF ReadRoles, Is, places, people, history, known
  <2> HIDE DEF w
  <2> QED BY <2>1, <2>2, WorkGoesOn DEF Fits
<1>4. CASE ReadMembers(k)
  <2> DEFINE listed == MembersRead(work[k].on)
             w == [work[k] EXCEPT !.pc = "drop", !.members = listed, !.before = listed]
  <2>0. listed = {u \in Persons : <<work[k].on, u>> \in member} /\ listed \in SUBSET Persons
    BY DEF MembersRead
  <2>1. w \in WorkRecords /\ w.pc = "drop" /\ w.before = w.members
    BY <1>0, <2>0 DEF WorkRecords, Steps
  <2>2. /\ Sets(k, w) /\ ~Is(k, "users")
        /\ UNCHANGED <<tenant, person, offboarded, member, owed, unlisted, overtaken, grant>>
    BY <1>4, <2>0 DEF ReadMembers, Is, places, people, history
  <2> HIDE DEF w
  <2> QED BY <2>1, <2>2, WorkGoesOn DEF Fits
<1>5. CASE DropTenant(k)
  <2> DEFINE t == work[k].on
             w == [work[k] EXCEPT !.pc = "users"]
             leaving == ExclusiveMembers(t)
  <2>1. /\ Is(k, "drop") /\ work' = [work EXCEPT ![k] = w]
        /\ tenant' = [tenant EXCEPT ![t] = "none"]
        /\ offboarded' = [offboarded EXCEPT ![t] = {}]
        /\ member' = Without(member, t) /\ grant' = Without(grant, t)
        /\ owed' = owed \cup leaving /\ unlisted' = unlisted \cup (leaving \ work[k].before)
        /\ person' = person
    BY <1>5 DEF DropTenant, Moves, Sets
  <2>2. overtaken' = IF \E j \in TenantCalls : Is(j, "offboard") /\ work[j].on = t
                     THEN overtaken \cup {t} ELSE overtaken
    BY <1>5 DEF DropTenant
  <2>3. /\ w \in WorkRecords /\ w.pc = "users" /\ w.before = work[k].before
        /\ w.members = work[k].members
    BY ZenonT(60), <1>0, WorkTypes DEF Steps
  <2>4. work[k].before = work[k].members /\ work[k].before \subseteq Persons
    BY <1>0, <2>1 DEF TenancyInv, Listed, Is, WorkRecords
  <2>5. /\ \A u \in leaving : /\ <<t, u>> \in member
                            /\ \A s \in TenantIds : s # t => <<s, u>> \notin member
        /\ \A u \in leaving \ unlisted' : u \in work[k].members
    BY <2>1, <2>4 DEF ExclusiveMembers, BelongsElsewhere
  <2>5a. leaving \subseteq Persons
    BY DEF ExclusiveMembers
  <2> HIDE DEF w, t, leaving
  <2>6. /\ work' \in [TenantCalls -> WorkRecords] /\ work'[k] = w
        /\ \A j \in TenantCalls : j # k => work'[j] = work[j]
    BY <1>0, <2>1, <2>3
  <2>7. member' \subseteq member /\ grant' \subseteq grant /\ \A u : <<t, u>> \notin member'
    BY <2>1 DEF Without
  <2>8. /\ \A s \in TenantIds : s # t => tenant'[s] = tenant[s] /\ offboarded'[s] = offboarded[s]
        /\ \A s \in TenantIds : s = t => tenant'[s] = "none" /\ offboarded'[s] = {}
    BY <1>0, <2>1
  <2>9. Rows'
    BY <1>0, <2>1, <2>5a, <2>7 DEF Rows
  <2>10. \A s \in TenantIds : s # t /\ Noted(s) => Noted(s)'
    BY <2>2, <2>8 DEF Noted
  <2>11. OffboardingIsOnRecord'
    BY <2>2, <2>8 DEF TenancyInv, OffboardingIsOnRecord
  <2>12. Recorded'
    <3> SUFFICES ASSUME NEW j \in TenantCalls, Is(j, "offboard")'
                 PROVE  work'[j].on \in TenantIds /\ Noted(work[j].on)'
      BY DEF Recorded
    <3>1. j # k /\ work'[j] = work[j] /\ Is(j, "offboard")
      BY <2>3, <2>6 DEF Is
    <3>2. work[j].on \in TenantIds /\ Noted(work[j].on)
      BY <3>1 DEF TenancyInv, Recorded
    <3>3. ASSUME NEW s \in TenantIds, s = work[j].on, Noted(s) PROVE Noted(s)'
      BY <2>2, <2>10, <3>1, <3>3 DEF Noted
    <3>4. work'[j].on \in TenantIds /\ \A s \in TenantIds : s = work[j].on => Noted(s)'
      BY <3>1, <3>2, <3>3
    <3> QED BY <3>1, <3>4 DEF Noted
  <2>13. Kept'
    BY <2>3, <2>6, <2>8, <2>10 DEF TenancyInv, Kept, Is
  <2>14. Listed'
    BY <2>3, <2>4, <2>6 DEF TenancyInv, Listed
  <2>15. Left'
    BY <2>1, <2>5, <2>7 DEF TenancyInv, Left
  <2>16. UsersLeaveWithTenant'
    BY <2>1, <2>3, <2>5, <2>6 DEF TenancyInv, UsersLeaveWithTenant, Is
  <2> QED BY <2>6, <2>9, <2>11, <2>12, <2>13, <2>14, <2>15, <2>16 DEF TenancyInv
<1>6. CASE DeleteUsers(k)
  <2>1. /\ work' = [work EXCEPT ![k] = NoWork]
        /\ person' = [u \in Persons |->
             IF u \in work[k].members /\ \A t \in TenantIds : <<t, u>> \notin member
             THEN "deleted" ELSE person[u]]
        /\ UNCHANGED <<tenant, offboarded, member, owed, unlisted, overtaken, grant>>
    BY <1>6 DEF DeleteUsers, Ends, Sets, places, history
  <2>2. NoWork \in WorkRecords /\ NoWork.pc = "idle"
    BY <1>0, WorkTypes
  <2>3. /\ work' \in [TenantCalls -> WorkRecords] /\ work'[k] = NoWork
        /\ \A j \in TenantCalls : j # k => work'[j] = work[j]
    BY <1>0, <2>1, <2>2
  <2>4. Rows' /\ Left' /\ OffboardingIsOnRecord'
    BY <2>1 DEF TenancyInv, Rows, Left, OffboardingIsOnRecord
  <2>5. Recorded' /\ Kept' /\ Listed'
    BY <2>1, <2>2, <2>3 DEF TenancyInv, Recorded, Kept, Listed, Noted, Is
  <2>6. ASSUME NEW u \in owed \ unlisted
        PROVE  person'[u] = "deleted" \/
               \E j \in TenantCalls : Is(j, "users")' /\ u \in work'[j].members
    <3>1. u \in Persons /\ \A t \in TenantIds : <<t, u>> \notin member
      BY <1>0 DEF TenancyInv, Left
    <3>2. \/ person[u] = "deleted"
          \/ \E j \in TenantCalls : Is(j, "users") /\ u \in work[j].members
      BY DEF TenancyInv, UsersLeaveWithTenant
    <3> QED BY <2>1, <2>3, <3>1, <3>2 DEF Is
  <2>7. UsersLeaveWithTenant'
    BY <2>1, <2>6 DEF UsersLeaveWithTenant
  <2> QED BY <2>3, <2>4, <2>5, <2>7 DEF TenancyInv
<1> QED BY <1>1, <1>2, <1>3, <1>4, <1>5, <1>6 DEF OffboardingCalls

(***************************************************************************)
(* Retention, failures, and what happens without a call.                   *)
(***************************************************************************)
LEMMA RetentionInv ==
  ASSUME TenancyInv, NEW k \in TenantCalls, RetentionCalls(k) PROVE TenancyInv'
<1>0. /\ work \in [TenantCalls -> WorkRecords] /\ work[k] \in WorkRecords
      /\ offboarded \in [TenantIds -> SUBSET {"young", "old"}]
  BY DEF TenancyInv, Rows
<1>1. CASE StartRetention(k)
  <2> DEFINE due == {t \in RetainedTenants : "old" \in offboarded[t]}
             w == [NoWork EXCEPT !.pc = "retain", !.old = due]
  <2>1. due \in SUBSET TenantIds /\ \A t \in due : tenant[t] # "archived"
    BY DEF RetainedTenants, Live
  <2> HIDE DEF due
  <2>2. w \in WorkRecords /\ w.pc = "retain" /\ w.old = due
    BY <2>1 DEF NoWork, WorkRecords, Steps
  <2>3. /\ Sets(k, w) /\ ~Is(k, "users")
        /\ UNCHANGED <<tenant, person, offboarded, member, owed, unlisted, overtaken, grant>>
    BY <1>1 DEF StartRetention, Is, places, people, history, due
  <2> HIDE DEF w
  <2> QED BY <2>1, <2>2, <2>3, WorkGoesOn DEF Fits
<1>2. ASSUME NEW t \in TenantIds, Retain(k, t) PROVE TenancyInv'
  <2> DEFINE w == [work[k] EXCEPT !.old = @ \ {t}]
  <2>1. /\ work' = [work EXCEPT ![k] = w] /\ Is(k, "retain") /\ t \in work[k].old
        /\ offboarded' = [offboarded EXCEPT ![t] = @ \ {"old"}]
        /\ UNCHANGED <<tenant, person, member, owed, unlisted, overtaken, grant>>
    BY <1>2 DEF Retain, Sets, places, people, history
  <2>2. w \in WorkRecords /\ w.pc = "retain" /\ w.old \subseteq work[k].old
    BY <1>0, <2>1 DEF WorkRecords, Is
  <2> HIDE DEF w
  <2>3. /\ work' \in [TenantCalls -> WorkRecords] /\ work'[k] = w
        /\ \A j \in TenantCalls : j # k => work'[j] = work[j]
    BY <1>0, <2>1, <2>2
  <2>4. \A s \in TenantIds : Noted(s) => Noted(s)'
    BY <1>0, <2>1 DEF Noted
  <2>5. Rows' /\ Left'
    BY <2>1 DEF TenancyInv, Rows, Left
  <2>6. OffboardingIsOnRecord'
    <3>1. tenant[t] = "archived" => Noted(t)
      BY <2>1 DEF TenancyInv, Kept
    <3> QED BY <1>0, <2>1, <2>4, <3>1 DEF TenancyInv, OffboardingIsOnRecord, Noted
  <2>7. Recorded' /\ Listed'
    BY <2>2, <2>3, <2>4 DEF TenancyInv, Recorded, Listed, Is
  <2>8. Kept'
    BY <2>1, <2>2, <2>3, <2>4 DEF TenancyInv, Kept, Is
  <2>9. UsersLeaveWithTenant'
    BY <2>1, <2>3 DEF TenancyInv, UsersLeaveWithTenant, Is
  <2> QED BY <2>3, <2>5, <2>6, <2>7, <2>8, <2>9 DEF TenancyInv
<1>3. CASE RetentionDone(k)
  <2>1. /\ ~Is(k, "users") /\ Ends(k)
        /\ UNCHANGED <<tenant, person, offboarded, member, owed, unlisted, overtaken, grant>>
    BY <1>3 DEF RetentionDone, Is, places, people, history
  <2> QED BY <2>1, WorkEnds
<1> QED BY <1>1, <1>2, <1>3 DEF RetentionCalls

LEMMA FailureInv ==
  ASSUME TenancyInv, NEW k \in TenantCalls, WorkFails(k) PROVE TenancyInv'
<1>0. work \in [TenantCalls -> WorkRecords] /\ work[k] \in WorkRecords
  BY DEF TenancyInv
<1>1. /\ Ends(k) /\ owed' = IF Is(k, "users") THEN owed \ work[k].before ELSE owed
      /\ UNCHANGED <<tenant, person, offboarded, member, unlisted, overtaken, grant>>
  BY DEF WorkFails, places, people
<1>2. CASE ~Is(k, "users")
  BY <1>1, <1>2, WorkEnds
<1>3. CASE Is(k, "users")
  <2>1. NoWork \in WorkRecords /\ NoWork.pc = "idle" /\ work' = [work EXCEPT ![k] = NoWork]
    BY <1>0, <1>1, WorkTypes DEF Ends, Sets
  <2>2. /\ work' \in [TenantCalls -> WorkRecords] /\ work'[k] = NoWork
        /\ \A j \in TenantCalls : j # k => work'[j] = work[j]
    BY <1>0, <2>1
  <2>3. owed' = owed \ work[k].members
    BY <1>1, <1>3 DEF TenancyInv, Listed, Is
  <2>4. Rows' /\ Left' /\ OffboardingIsOnRecord'
    BY <1>1, <2>3 DEF TenancyInv, Rows, Left, OffboardingIsOnRecord
  <2>5. Recorded' /\ Kept' /\ Listed'
    BY <1>1, <2>1, <2>2 DEF TenancyInv, Recorded, Kept, Listed, Noted, Is
  <2>6. UsersLeaveWithTenant'
    BY <1>1, <2>2, <2>3 DEF TenancyInv, UsersLeaveWithTenant, Is
  <2> QED BY <2>2, <2>4, <2>5, <2>6 DEF TenancyInv
<1> QED BY <1>2, <1>3

LEMMA TimeInv ==
  ASSUME TenancyInv, NEW t \in TenantIds, ForgetIdentity(t) \/ EventsAge(t) PROVE TenancyInv'
<1>1. UNCHANGED <<tenant, work, person, member, owed, unlisted, overtaken, grant>>
  BY DEF ForgetIdentity, EventsAge, people, places, history
<1>2. CASE UNCHANGED offboarded
  BY <1>1, <1>2 DEF TenancyInv, Rows, Recorded, Kept, Left, Listed, Noted, Is,
                    OffboardingIsOnRecord, UsersLeaveWithTenant
<1>3. CASE EventsAge(t)
  <2>1. /\ \A k \in TenantCalls : ~Is(k, "retain") /\ ~(Is(k, "offboard") /\ work[k].on = t)
        /\ offboarded' = [offboarded EXCEPT ![t] = {"old"}]
    BY <1>3 DEF EventsAge
  <2>2. offboarded \in [TenantIds -> SUBSET {"young", "old"}]
    BY DEF TenancyInv, Rows
  <2>3. Rows' /\ Left' /\ Listed' /\ UsersLeaveWithTenant'
    BY <1>1, <2>1 DEF TenancyInv, Rows, Left, Listed, UsersLeaveWithTenant, Is
  <2>4. Recorded'
    BY <1>1, <2>1, <2>2 DEF TenancyInv, Recorded, Noted, Is
  <2>5. Kept' /\ OffboardingIsOnRecord'
    BY <1>1, <2>1, <2>2 DEF TenancyInv, Kept, OffboardingIsOnRecord, Is
  <2> QED BY <1>1, <2>3, <2>4, <2>5 DEF TenancyInv
<1> QED BY <1>2, <1>3 DEF ForgetIdentity

LEMMA TenancyInductiveInv == TenancyInv /\ [TenancyNext]_tenancyVars => TenancyInv'
<1> SUFFICES ASSUME TenancyInv, [TenancyNext]_tenancyVars PROVE TenancyInv'
  OBVIOUS
<1>1. ASSUME UNCHANGED <<tenant, work, person, member, owed, unlisted, overtaken, offboarded>>,
             grant' \subseteq grant
      PROVE  TenancyInv'
  BY <1>1 DEF TenancyInv, Rows, Recorded, Kept, Left, Listed, Noted, Is,
              OffboardingIsOnRecord, UsersLeaveWithTenant
<1>2. ASSUME NEW p \in Pairs, RemoveGrant(p) PROVE TenancyInv'
  BY <1>1, <1>2 DEF RemoveGrant, places, history
<1>3. CASE UNCHANGED tenancyVars
  BY <1>1, <1>3 DEF tenancyVars, places, people, history
<1> QED BY <1>2, <1>3, IdentityInv, MembershipInv, OffboardInv, RetentionInv, FailureInv,
           TimeInv DEF TenancyNext

LEMMA TenancyInitInv == TenancyInit => TenancyInv
<1> SUFFICES ASSUME TenancyInit PROVE TenancyInv
  OBVIOUS
<1>1. NoWork \in WorkRecords /\ NoWork.pc = "idle"
  BY DEF NoWork, WorkRecords, Steps
<1>2. /\ work = [k \in TenantCalls |-> NoWork] /\ owed = {} /\ Rows
      /\ \A t \in TenantIds : tenant[t] # "archived"
  BY DEF TenancyInit, Rows, Pairs
<1> QED BY <1>1, <1>2 DEF TenancyInv, Recorded, Kept, Left, Listed, Is,
                          OffboardingIsOnRecord, UsersLeaveWithTenant

LEMMA TenancyInvariant == TenancySpec => []TenancyInv
BY TenancyInitInv, TenancyInductiveInv, PTL DEF TenancySpec

(***************************************************************************)
(* Whatever fails, ages or is retained meanwhile, an archived tenant has   *)
(* its TENANT_OFFBOARDED event.                                            *)
(***************************************************************************)
THEOREM OffboardingLeavesRecord == TenancySpec => []OffboardingIsOnRecord
<1>1. TenancyInv => OffboardingIsOnRecord
  BY DEF TenancyInv
<1> QED BY <1>1, TenancyInvariant, PTL

(***************************************************************************)
(* Users whose last tenant is deleted go with it, however many of their    *)
(* tenants are deleted at once, if the deletion had listed them: those who *)
(* joined after it read the members are excepted (unlisted).               *)
(***************************************************************************)
THEOREM DeletionTakesUsers == TenancySpec => []UsersLeaveWithTenant
<1>1. TenancyInv => UsersLeaveWithTenant
  BY DEF TenancyInv
<1> QED BY <1>1, TenancyInvariant, PTL
-----------------------------------------------------------------------------
(***************************************************************************)
(* The types of Tenancy.  Where a call goes on about a tenant it has one:  *)
(* the loop of grants gets its pairs from there.                           *)
(***************************************************************************)
TypedWork ==
  [pc : Steps, on : TenantIds \cup {0}, deletes : BOOLEAN, todo : SUBSET Pairs,
   old : SUBSET TenantIds, roles : BOOLEAN, members : SUBSET Persons,
   before : SUBSET Persons]

AboutTenant == {"installation", "provision", "install", "sync", "offboard", "roles",
                "members", "drop"}

Typed(w) == w \in TypedWork /\ (w.pc \in AboutTenant => w.on \in TenantIds)

TenancyTypes == TenancyTypeOK /\ \A k \in TenantCalls : Typed(work[k])

LEMMA PlacesTyped ==
  ASSUME TenancyTypes, NEW k \in TenantCalls
  PROVE  /\ Typed(work[k]) /\ Typed(NoWork)
         /\ \A pc \in Steps \ AboutTenant : Typed([work[k] EXCEPT !.pc = pc])
         /\ work[k].on \in TenantIds =>
              \A pc \in Steps : Typed([work[k] EXCEPT !.pc = pc])
<1>1. work[k] \in TypedWork
  BY DEF TenancyTypes, Typed
<1>2. NoWork \in TypedWork /\ NoWork.pc = "idle"
  BY DEF NoWork, TypedWork, Steps
<1>3. \A pc \in Steps : /\ [work[k] EXCEPT !.pc = pc] \in TypedWork
                        /\ [work[k] EXCEPT !.pc = pc].pc = pc
                        /\ [work[k] EXCEPT !.pc = pc].on = work[k].on
  BY <1>1 DEF TypedWork
<1> QED BY <1>2, <1>3 DEF TenancyTypes, Typed, AboutTenant

LEMMA SetsTyped ==
  ASSUME TenancyTypes, NEW k \in TenantCalls, NEW w, Typed(w), Sets(k, w)
  PROVE  /\ work' \in [TenantCalls -> TypedWork]
         /\ \A j \in TenantCalls : Typed(work[j])'
<1>1. /\ work \in [TenantCalls -> TypedWork] /\ w \in TypedWork
      /\ work' = [work EXCEPT ![k] = w]
  BY DEF TenancyTypes, TenancyTypeOK, TypedWork, Typed, Sets
<1>2. \A j \in TenantCalls : work'[j] = IF j = k THEN w ELSE work[j]
  BY <1>1
<1> QED BY <1>1, <1>2 DEF TenancyTypes, Typed

\* All but the calls in progress.
RowTypes ==
  /\ tenant \in [TenantIds -> {"none", "live", "archived"}]
  /\ installation \in [TenantIds -> {"none", "ACTIVE", "ARCHIVED"}]
  /\ identity \subseteq TenantIds
  /\ person \in [Persons -> {"none", "there", "deleted"}]
  /\ member \subseteq Pairs /\ role \subseteq TenantIds /\ grant \subseteq Pairs
  /\ offboarded \in [TenantIds -> SUBSET {"young", "old"}]
  /\ owed \subseteq Persons /\ unlisted \subseteq Persons
  /\ overtaken \subseteq TenantIds

LEMMA TypesAre == TenancyTypes => RowTypes
BY DEF TenancyTypes, TenancyTypeOK, RowTypes

LEMMA WorkTyped ==
  ASSUME TenancyTypes, NEW k \in TenantCalls, NEW w, Typed(w), Sets(k, w), RowTypes'
  PROVE  TenancyTypes'
<1>1. /\ work' \in [TenantCalls -> TypedWork]
      /\ \A j \in TenantCalls : Typed(work[j])'
  BY SetsTyped
<1> QED BY <1>1 DEF TenancyTypes, TenancyTypeOK, RowTypes, TypedWork

\* The step names the next place, or none.
LEMMA MovesTyped ==
  ASSUME TenancyTypes, NEW k \in TenantCalls, NEW pc \in Steps, Moves(k, pc),
         pc \in AboutTenant => work[k].on \in TenantIds, RowTypes'
  PROVE  TenancyTypes'
<1> DEFINE w == [work[k] EXCEPT !.pc = pc]
<1>1. Typed(w) /\ Sets(k, w)
  BY PlacesTyped DEF Moves
<1> HIDE DEF w
<1> QED BY <1>1, WorkTyped

LEMMA EndsTyped ==
  ASSUME TenancyTypes, NEW k \in TenantCalls, Ends(k), RowTypes'
  PROVE  TenancyTypes'
BY PlacesTyped, WorkTyped DEF Ends

LEMMA IdentityTyped ==
  ASSUME TenancyTypes, NEW k \in TenantCalls, IdentityCalls(k) PROVE TenancyTypes'
<1>0. RowTypes /\ Typed(work[k])
  BY TypesAre, PlacesTyped
<1>1. ASSUME NEW t \in TenantIds, ResolveTenant(k, t) PROVE TenancyTypes'
  <2> DEFINE pc == IF tenant[t] = "live" THEN "installation" ELSE "provision"
  <2> DEFINE w == [NoWork EXCEPT !.on = t, !.pc = pc]
  <2>0. pc \in Steps
    BY DEF Steps
  <2> HIDE DEF pc
  <2>1. Typed(w)
    BY <2>0 DEF Typed, TypedWork, NoWork
  <2>2. Sets(k, w) /\ RowTypes'
    BY <1>0, <1>1 DEF ResolveTenant, RowTypes, places, people, history, pc
  <2> HIDE DEF w
  <2> QED BY <2>1, <2>2, WorkTyped
<1>2. ASSUME ResolveInstallation(k) PROVE TenancyTypes'
  <2>1. work[k].on \in TenantIds
    BY <1>0, <1>2 DEF ResolveInstallation, Typed, Is, AboutTenant
  <2>2. RowTypes'
    BY <1>0, <1>2, <2>1 DEF ResolveInstallation, RowTypes, people, history
  <2> QED BY <1>2, <2>1, <2>2, EndsTyped, MovesTyped DEF ResolveInstallation, Steps
<1>3. ASSUME ProvisionTenant(k) PROVE TenancyTypes'
  <2>1. work[k].on \in TenantIds /\ Moves(k, "install")
    BY <1>0, <1>3 DEF ProvisionTenant, Typed, Is, AboutTenant
  <2>2. RowTypes'
    BY <1>0, <1>3, <2>1 DEF ProvisionTenant, RowTypes, people, history
  <2> QED BY <2>1, <2>2, MovesTyped DEF Steps
<1>4. ASSUME ProvisionInstallation(k) PROVE TenancyTypes'
  <2>1. work[k].on \in TenantIds /\ Moves(k, "sync")
    BY <1>0, <1>4 DEF ProvisionInstallation, Typed, Is, AboutTenant
  <2>2. RowTypes'
    BY <1>0, <1>4, <2>1 DEF ProvisionInstallation, RowTypes, people, history
  <2> QED BY <2>1, <2>2, MovesTyped DEF Steps
<1>5. ASSUME SyncOperators(k) PROVE TenancyTypes'
  <2> DEFINE pairs == {work[k].on} \X Operators
  <2> DEFINE w == [work[k] EXCEPT !.pc = "each", !.todo = pairs]
  <2>1. work[k].on \in TenantIds
    BY <1>0, <1>5 DEF SyncOperators, Typed, Is, AboutTenant
  <2>2. pairs \subseteq Pairs
    BY <1>0, <2>1 DEF Operators, RowTypes, Pairs
  <2>3. Sets(k, w) /\ RowTypes'
    BY <1>0, <1>5 DEF SyncOperators, RowTypes, places, people, history
  <2> HIDE DEF pairs
  <2>4. Typed(w)
    BY <1>0, <2>1, <2>2 DEF Typed, TypedWork, Steps
  <2> HIDE DEF w
  <2> QED BY <2>3, <2>4, WorkTyped
<1> QED BY <1>1, <1>2, <1>3, <1>4, <1>5 DEF IdentityCalls

LEMMA MembershipTyped ==
  ASSUME TenancyTypes, NEW k \in TenantCalls, MembershipCalls(k) PROVE TenancyTypes'
<1>0. RowTypes /\ Typed(work[k])
  BY TypesAre, PlacesTyped
<1>1. ASSUME NEW u \in Persons, GrantAll(k, u) PROVE TenancyTypes'
  <2> DEFINE pairs == Live \X {u}
  <2> DEFINE w == [NoWork EXCEPT !.pc = "each", !.todo = pairs]
  <2>1. pairs \subseteq Pairs
    BY DEF Live, Pairs
  <2>2. Sets(k, w) /\ RowTypes'
    BY <1>0, <1>1 DEF GrantAll, RowTypes, places, people, history
  <2> HIDE DEF pairs
  <2>3. Typed(w)
    BY <2>1 DEF Typed, TypedWork, NoWork, Steps, AboutTenant
  <2> HIDE DEF w
  <2> QED BY <2>2, <2>3, WorkTyped
<1>8. ASSUME NEW t \in TenantIds, NEW u \in Persons, GrantOne(k, u, t) PROVE TenancyTypes'
  <2> DEFINE pairs == {<<t, u>>}
  <2> DEFINE w == [NoWork EXCEPT !.pc = "each", !.todo = pairs]
  <2>1. pairs \subseteq Pairs
    BY DEF Pairs
  <2>2. Sets(k, w) /\ RowTypes'
    BY <1>0, <1>8 DEF GrantOne, RowTypes, places, people, history
  <2> HIDE DEF pairs
  <2>3. Typed(w)
    BY <2>1 DEF Typed, TypedWork, NoWork, Steps, AboutTenant
  <2> HIDE DEF w
  <2> QED BY <2>2, <2>3, WorkTyped
<1>2. ASSUME GrantsDone(k) PROVE TenancyTypes'
  <2>1. RowTypes' /\ Ends(k)
    BY <1>0, <1>2 DEF GrantsDone, RowTypes, places, people, history
  <2> QED BY <2>1, EndsTyped
<1>3. ASSUME NEW p \in Pairs, EnsureRole(k, p) PROVE TenancyTypes'
  <2>1. RowTypes' /\ Moves(k, "join")
    BY <1>0, <1>3 DEF EnsureRole, RowTypes, places, history, Pairs
  <2> QED BY <2>1, MovesTyped DEF Steps, AboutTenant
<1>4. ASSUME NEW p \in Pairs, EnsureMember(k, p) PROVE TenancyTypes'
  <2>1. RowTypes' /\ Moves(k, "grant")
    BY <1>0, <1>4 DEF EnsureMember, Joins, RowTypes, places
  <2> QED BY <2>1, MovesTyped DEF Steps, AboutTenant
<1>5. ASSUME NEW p \in Pairs, EnsureGrant(k, p) PROVE TenancyTypes'
  <2> DEFINE pairs == work[k].todo \ {p}
  <2> DEFINE w == [work[k] EXCEPT !.pc = "each", !.todo = pairs]
  <2>1. pairs \subseteq Pairs
    BY <1>0 DEF Typed, TypedWork
  <2>2. w = [work[k] EXCEPT !.pc = "each", !.todo = @ \ {p}]
    OBVIOUS
  <2>3. Sets(k, w) /\ RowTypes'
    BY <1>0, <1>5, <2>2 DEF EnsureGrant, RowTypes, places, history
  <2> HIDE DEF pairs
  <2>4. Typed(w)
    BY <1>0, <2>1 DEF Typed, TypedWork, Steps, AboutTenant
  <2> HIDE DEF w
  <2> QED BY <2>3, <2>4, WorkTyped
<1>6. ASSUME NEW t \in TenantIds, NEW u \in Persons, InvitePerson(k, t, u)
      PROVE  TenancyTypes'
  <2> DEFINE pairs == {<<t, u>>}
  <2> DEFINE w == [NoWork EXCEPT !.pc = "invite", !.todo = pairs]
  <2>1. pairs \subseteq Pairs
    BY DEF Pairs
  <2>2. Sets(k, w) /\ RowTypes'
    BY <1>0, <1>6 DEF InvitePerson, RowTypes, places, history
  <2> HIDE DEF pairs
  <2>3. Typed(w)
    BY <2>1 DEF Typed, TypedWork, NoWork, Steps, AboutTenant
  <2> HIDE DEF w
  <2> QED BY <2>2, <2>3, WorkTyped
<1>7. ASSUME NEW p \in Pairs, InviteMember(k, p) PROVE TenancyTypes'
  <2>1. RowTypes' /\ Ends(k)
    BY <1>0, <1>7 DEF InviteMember, Joins, RowTypes, places
  <2> QED BY <2>1, EndsTyped
<1> QED BY <1>1, <1>2, <1>3, <1>4, <1>5, <1>6, <1>7, <1>8 DEF MembershipCalls

LEMMA OffboardingTyped ==
  ASSUME TenancyTypes, NEW k \in TenantCalls, OffboardingCalls(k) PROVE TenancyTypes'
<1>0. RowTypes /\ Typed(work[k])
  BY TypesAre, PlacesTyped
<1>1. ASSUME NEW t \in TenantIds, NEW deletes \in BOOLEAN, OffboardAudit(k, t, deletes)
      PROVE  TenancyTypes'
  <2> DEFINE w == [NoWork EXCEPT !.pc = "offboard", !.on = t, !.deletes = deletes]
  <2>1. Typed(w)
    BY DEF Typed, TypedWork, NoWork, Steps
  <2>2. Sets(k, w) /\ RowTypes'
    BY <1>0, <1>1 DEF OffboardAudit, RowTypes, places, people
  <2> HIDE DEF w
  <2> QED BY <2>1, <2>2, WorkTyped
<1>2. ASSUME OffboardCommit(k) PROVE TenancyTypes'
  <2>1. work[k].on \in TenantIds
    BY <1>0, <1>2 DEF OffboardCommit, Typed, Is, AboutTenant
  <2>2. RowTypes'
    BY <1>0, <1>2, <2>1 DEF OffboardCommit, RowTypes, people, history
  <2> QED BY <1>2, <2>1, <2>2, EndsTyped, MovesTyped DEF OffboardCommit, Steps
<1>3. ASSUME ReadRoles(k) PROVE TenancyTypes'
  <2> DEFINE had == work[k].on \in role
  <2> DEFINE w == [work[k] EXCEPT !.pc = "members", !.roles = had]
  <2>1. work[k].on \in TenantIds /\ had \in BOOLEAN
    BY <1>0, <1>3 DEF ReadRoles, Typed, Is, AboutTenant
  <2>2. Sets(k, w) /\ RowTypes'
    BY <1>0, <1>3 DEF ReadRoles, RowTypes, places, people, history
  <2> HIDE DEF had
  <2>3. Typed(w)
    BY <1>0, <2>1 DEF Typed, TypedWork, Steps
  <2> HIDE DEF w
  <2> QED BY <2>2, <2>3, WorkTyped
<1>4. ASSUME ReadMembers(k) PROVE TenancyTypes'
  <2> DEFINE read == MembersRead(work[k].on)
             there == {u \in Persons : <<work[k].on, u>> \in member}
  <2> DEFINE w == [work[k] EXCEPT !.pc = "drop", !.members = read, !.before = there]
  <2>1. work[k].on \in TenantIds /\ read \subseteq Persons /\ there \subseteq Persons
    BY <1>0, <1>4 DEF ReadMembers, Typed, Is, AboutTenant, MembersRead
  <2>2. Sets(k, w) /\ RowTypes'
    BY <1>0, <1>4 DEF ReadMembers, RowTypes, places, people, history
  <2> HIDE DEF read, there
  <2>3. Typed(w)
    BY <1>0, <2>1 DEF Typed, TypedWork, Steps
  <2> HIDE DEF w
  <2> QED BY <2>2, <2>3, WorkTyped
<1>5. ASSUME DropTenant(k) PROVE TenancyTypes'
  <2>1. work[k].on \in TenantIds /\ work[k].before \subseteq Persons
    BY <1>0, <1>5 DEF DropTenant, Typed, TypedWork, Is, AboutTenant
  <2>2. ExclusiveMembers(work[k].on) \subseteq Persons
    BY DEF ExclusiveMembers
  <2> DEFINE exclusive == ExclusiveMembers(work[k].on)
  <2>3. Moves(k, "users")
    BY <1>5 DEF DropTenant
  <2> HIDE DEF exclusive
  <2>4. RowTypes'
    BY <1>0, <1>5, <2>1, <2>2 DEF DropTenant, RowTypes, Without, exclusive
  <2> QED BY <2>3, <2>4, MovesTyped DEF Steps, AboutTenant
<1>6. ASSUME DeleteUsers(k) PROVE TenancyTypes'
  <2>1. RowTypes' /\ Ends(k)
    BY <1>0, <1>6 DEF DeleteUsers, RowTypes, places, history
  <2> QED BY <2>1, EndsTyped
<1> QED BY <1>1, <1>2, <1>3, <1>4, <1>5, <1>6 DEF OffboardingCalls

LEMMA RetentionTyped ==
  ASSUME TenancyTypes, NEW k \in TenantCalls, RetentionCalls(k) \/ WorkFails(k)
  PROVE  TenancyTypes'
<1>0. RowTypes /\ Typed(work[k])
  BY TypesAre, PlacesTyped
<1>1. ASSUME StartRetention(k) PROVE TenancyTypes'
  <2> DEFINE due == {t \in RetainedTenants : "old" \in offboarded[t]}
  <2> DEFINE w == [NoWork EXCEPT !.pc = "retain", !.old = due]
  <2>1. due \subseteq TenantIds
    BY DEF RetainedTenants, Live
  <2>2. Sets(k, w) /\ RowTypes'
    BY <1>0, <1>1 DEF StartRetention, RowTypes, places, people, history
  <2> HIDE DEF due
  <2>3. Typed(w)
    BY <2>1 DEF Typed, TypedWork, NoWork, Steps, AboutTenant
  <2> HIDE DEF w
  <2> QED BY <2>2, <2>3, WorkTyped
<1>2. ASSUME NEW t \in TenantIds, Retain(k, t) PROVE TenancyTypes'
  <2> DEFINE leaving == work[k].old \ {t}
  <2> DEFINE w == [work[k] EXCEPT !.old = leaving]
  <2>1. leaving \subseteq TenantIds
    BY <1>0 DEF Typed, TypedWork
  <2>2. w = [work[k] EXCEPT !.old = @ \ {t}]
    OBVIOUS
  <2>3. Sets(k, w) /\ RowTypes'
    BY <1>0, <1>2, <2>2 DEF Retain, RowTypes, places, people, history
  <2> HIDE DEF leaving
  <2>4. Typed(w)
    BY <1>0, <2>1 DEF Typed, TypedWork
  <2> HIDE DEF w
  <2> QED BY <2>3, <2>4, WorkTyped
<1>3. ASSUME RetentionDone(k) PROVE TenancyTypes'
  <2>1. RowTypes' /\ Ends(k)
    BY <1>0, <1>3 DEF RetentionDone, RowTypes, places, people, history
  <2> QED BY <2>1, EndsTyped
<1>4. ASSUME WorkFails(k) PROVE TenancyTypes'
  <2>1. RowTypes' /\ Ends(k)
    BY <1>0, <1>4 DEF WorkFails, RowTypes, places, people
  <2> QED BY <2>1, EndsTyped
<1> QED BY <1>1, <1>2, <1>3, <1>4 DEF RetentionCalls

LEMMA TenancyTypesInv == TenancyTypes /\ [TenancyNext]_tenancyVars => TenancyTypes'
<1> SUFFICES ASSUME TenancyTypes, [TenancyNext]_tenancyVars PROVE TenancyTypes'
  OBVIOUS
<1>1. ASSUME NEW t \in TenantIds, ForgetIdentity(t) \/ EventsAge(t) PROVE TenancyTypes'
  BY <1>1 DEF ForgetIdentity, EventsAge, TenancyTypes, TenancyTypeOK, Typed,
              places, people, history
<1>2. ASSUME NEW p \in Pairs, RemoveGrant(p) PROVE TenancyTypes'
  BY <1>2 DEF RemoveGrant, TenancyTypes, TenancyTypeOK, Typed, places, history
<1>3. CASE UNCHANGED tenancyVars
  BY <1>3 DEF tenancyVars, TenancyTypes, TenancyTypeOK, Typed, places, people, history
<1> QED BY <1>1, <1>2, <1>3, IdentityTyped, MembershipTyped, OffboardingTyped,
           RetentionTyped DEF TenancyNext

LEMMA TenancyInitTypes == TenancyInit => TenancyTypes
<1> SUFFICES ASSUME TenancyInit PROVE TenancyTypes
  OBVIOUS
<1>1. NoWork \in TypedWork /\ NoWork.pc = "idle"
  BY DEF NoWork, TypedWork, Steps
<1>2. work = [k \in TenantCalls |-> NoWork] /\ RowTypes
  BY DEF TenancyInit, RowTypes, Pairs
<1> QED BY <1>1, <1>2 DEF TenancyTypes, TenancyTypeOK, RowTypes, TypedWork, Typed,
                          AboutTenant

(***************************************************************************)
(* Tenants, members, grants, events and the calls about them keep their    *)
(* types, in whatever order the calls take their steps or fail.            *)
(***************************************************************************)
THEOREM TenancyTypeCorrect == TenancySpec => []TenancyTypeOK
<1>1. TenancyTypes => TenancyTypeOK
  BY DEF TenancyTypes
<1> QED BY <1>1, TenancyInitTypes, TenancyTypesInv, PTL DEF TenancySpec
-----------------------------------------------------------------------------
(***************************************************************************)
(* All components side by side.  Each keeps its invariant whatever the     *)
(* others do, since a step of one leaves the variables of the others; the  *)
(* battery only has its limits where the behaviour is about dispatch.      *)
(***************************************************************************)
DispatchHolds == IF part = "dispatch" THEN DispatchInv ELSE PlansAreFeasible

OperationsInv ==
  /\ IncidentInv /\ AccountInv /\ TenancyInv /\ TenancyTypes /\ QueueInv /\ DispatchHolds
  /\ RegistryInv /\ MeasurementInv /\ MeasurementTypeOK /\ SoakInv
  /\ AccessInv /\ AccessTypeOK

LEMMA OperationsInitInv == MCInit => OperationsInv
<1> SUFFICES ASSUME MCInit PROVE OperationsInv
  OBVIOUS
<1>1. DispatchHolds
  <2>1. CASE part = "dispatch"
    BY <2>1, DispatchInitInv DEF MCInit, DispatchHolds
  <2>2. CASE part # "dispatch"
    <3>1. violations = {} /\ satisfied = TRUE /\ soc = Reserve /\ left = soc
      BY <2>2 DEF MCInit
    <3>2. soc - left \in -Grain .. Grain
      BY <3>1, DispatchNumbers
    <3> QED BY <2>2, <3>1, <3>2 DEF DispatchHolds, PlansAreFeasible
  <2> QED BY <2>1, <2>2
<1>2. /\ IncidentInit /\ AccountInit /\ TenancyInit /\ QueueInit /\ RegistryInit
      /\ MeasurementInit /\ SoakInit /\ AccessInit
  BY DEF MCInit
<1> QED BY <1>1, <1>2, IncidentInitInv, AccountInitInv, TenancyInitInv, TenancyInitTypes,
           QueueInitInv, RegistryInitInv, MeasurementInitInv, MeasurementInitTypes,
           SoakInitInv, AccessInitInv, AccessInitTypes DEF OperationsInv

LEMMA OperationsInductiveInv ==
  OperationsInv /\ [MCNext]_<<part, incidentVars, accountVars, tenancyVars, queueVars,
                             dispatchVars, registryVars, measurementVars, soakVars, accessVars>>
    => OperationsInv'
<1> SUFFICES ASSUME OperationsInv,
                    [MCNext]_<<part, incidentVars, accountVars, tenancyVars, queueVars,
                               dispatchVars, registryVars, measurementVars, soakVars,
                               accessVars>>
             PROVE  OperationsInv'
  OBVIOUS
<1>1. /\ [IncidentNext]_incidentVars /\ [AccountNext]_accountVars
      /\ [TenancyNext]_tenancyVars /\ [QueueNext]_queueVars
      /\ [RegistryNext]_registryVars /\ [MeasurementNext]_measurementVars
      /\ [SoakNext]_soakVars /\ [AccessNext]_accessVars
      /\ part' = part /\ [part = "dispatch" /\ PlanHour]_dispatchVars
  BY DEF MCNext
<1>2. DispatchHolds'
  <2>1. CASE part = "dispatch"
    BY <1>1, <2>1, DispatchInductiveInv DEF OperationsInv, DispatchHolds
  <2>2. CASE part # "dispatch"
    BY <1>1, <2>2 DEF OperationsInv, DispatchHolds, dispatchVars, PlansAreFeasible, Foreseen
  <2> QED BY <2>1, <2>2
<1>3. IncidentInv' /\ AccountInv' /\ TenancyInv' /\ TenancyTypes' /\ QueueInv'
  BY <1>1, IncidentInductiveInv, AccountInductiveInv, TenancyInductiveInv, TenancyTypesInv,
     QueueInductiveInv DEF OperationsInv
<1>4. RegistryInv' /\ MeasurementInv' /\ MeasurementTypeOK' /\ SoakInv'
  BY <1>1, RegistryInductiveInv, MeasurementInductiveInv, MeasurementTypes, SoakInductiveInv
     DEF OperationsInv
<1>5. AccessInv' /\ AccessTypeOK'
  BY <1>1, AccessInductiveInv, AccessTypesInv DEF OperationsInv
<1> QED BY <1>2, <1>3, <1>4, <1>5 DEF OperationsInv

LEMMA OperationsInvariant == MCSpec => []OperationsInv
BY OperationsInitInv, OperationsInductiveInv, PTL DEF MCSpec

(***************************************************************************)
(* Side by side, whatever the sets of ids, calls, persons and sites are:   *)
(* every component keeps the types of its variables.                       *)
(***************************************************************************)
THEOREM OperationsTypeCorrect == MCSpec => []OperationsTypeOK
<1>1. OperationsInv => OperationsTypeOK
  BY DEF OperationsInv, OperationsTypeOK, IncidentInv, AccountInv, TenancyTypes, QueueInv,
         RegistryInv, SoakInv
<1> QED BY <1>1, OperationsInvariant, PTL

(***************************************************************************)
(* Side by side: comments survive but for overlapping updates, locks and   *)
(* second factors are earned, sessions end, offboarding is on record,      *)
(* users leave with their tenant, one connection is open, plans are        *)
(* feasible, one model is champion, flags have reasons, a multi-day soak   *)
(* is earned and what a user reached is explained, all at every moment of  *)
(* one run.                                                                *)
(***************************************************************************)
THEOREM OperationsTogether ==
  MCSpec => [](/\ CommentsKept /\ EnabledSecretIsConfirmed /\ LockedAfterFailures
               /\ EndedIsOut /\ OffboardingIsOnRecord /\ UsersLeaveWithTenant
               /\ OneConnection /\ PlansAreFeasible /\ OneChampion /\ FlagsAreJustified
               /\ MultiDayIsEarned /\ ReachedIsExplained)
<1>1. OperationsInv =>
        /\ CommentsKept /\ EnabledSecretIsConfirmed /\ LockedAfterFailures
        /\ EndedIsOut /\ OffboardingIsOnRecord /\ UsersLeaveWithTenant
        /\ OneConnection /\ PlansAreFeasible /\ OneChampion /\ FlagsAreJustified
        /\ MultiDayIsEarned /\ ReachedIsExplained
  <2> SUFFICES ASSUME OperationsInv
               PROVE  /\ CommentsKept /\ EnabledSecretIsConfirmed /\ LockedAfterFailures
                      /\ EndedIsOut /\ OffboardingIsOnRecord /\ UsersLeaveWithTenant
                      /\ OneConnection /\ PlansAreFeasible /\ OneChampion
                      /\ FlagsAreJustified /\ MultiDayIsEarned /\ ReachedIsExplained
    OBVIOUS
  <2>1. CommentsKept /\ OneConnection /\ OneChampion /\ FlagsAreJustified
    BY DEF OperationsInv, IncidentInv, QueueInv, RegistryInv, MeasurementInv
  <2>2. EnabledSecretIsConfirmed /\ LockedAfterFailures /\ EndedIsOut
    BY DEF OperationsInv, AccountInv, GoodAccount
  <2>3. OffboardingIsOnRecord /\ UsersLeaveWithTenant /\ ReachedIsExplained
    BY ReachedExplained DEF OperationsInv, TenancyInv
  <2>4. PlansAreFeasible
    BY DEF OperationsInv, DispatchHolds, DispatchInv
  <2>5. MultiDayIsEarned
    BY DEF OperationsInv, SoakInv, EarnedFirst, OneAtATime, MultiDayIsEarned
  <2> QED BY <2>1, <2>2, <2>3, <2>4, <2>5
<1> QED BY <1>1, OperationsInvariant, PTL
=============================================================================
