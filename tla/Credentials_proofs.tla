------------------------- MODULE Credentials_proofs -------------------------
(***************************************************************************)
(* Proofs about Credentials for any sets of credentials, processes,        *)
(* lookups and requests and any lifetime of the cache.                     *)
(***************************************************************************)
EXTENDS Credentials, TLAPS

(***************************************************************************)
(* What a status that ends a credential stands on: the date of revocation  *)
(* or of expiry, which no later write takes back.                          *)
(***************************************************************************)
EndIsDated ==
  /\ \A c \in Credentials :
       /\ keyStatus[c] \in {"REVOKED", "ROTATED"} => c \in revoked
       /\ keyStatus[c] = "EXPIRED" => c \in overdue
       /\ rotatedFrom[c] # NoCredential => rotatedFrom[c] \in revoked
  /\ \A k \in Lookups : lookup[k].pc = "expire" => lookup[k].cred \in overdue
  /\ \A a \in AdminCalls : adminCall[a].pc \in {"rotated", "replace"} =>
       adminCall[a].cred \in revoked

(***************************************************************************)
(* The ages: a lookup that found a credential usable began before the      *)
(* credential ended, so it has been running at least as long as the        *)
(* credential has been ended.                                              *)
(***************************************************************************)
AgesAgree ==
  /\ \A c \in Credentials : c \notin Ended => endedFor[c] = 0
  /\ \A k \in Lookups :
       lookup[k].pc = "use" /\ lookup[k].cred \in Ended
         => endedFor[lookup[k].cred] <= lookup[k].elapsed

IInv == CredentialTypeOK /\ EndIsDated /\ AgesAgree /\ StaleForCacheMs

-----------------------------------------------------------------------------
\* Nothing is typed wrongly at the start, nothing has ended.
LEMMA InitInv == CredentialInit => IInv
<1> USE CredentialAssumption DEF CredentialAssumption
<1> SUFFICES ASSUME CredentialInit PROVE IInv
  OBVIOUS
<1>1. CredentialTypeOK
  <2>1. 0 \in 0..CacheMs
    OBVIOUS
  <2>2. /\ cache \in [Servers -> [Credentials -> 0..CacheMs]]
        /\ endedFor \in [Credentials -> 0..CacheMs]
    BY <2>1 DEF CredentialInit
  <2>3. /\ keyStatus \in [Credentials -> KeyStatuses]
        /\ revoked \subseteq Credentials /\ overdue \subseteq Credentials
        /\ rotatedFrom \in [Credentials -> Credentials \cup {NoCredential}]
        /\ archived \in BOOLEAN
    BY DEF CredentialInit, KeyStatuses
  <2>4. lookup = [k \in Lookups |-> NoLookup] /\ adminCall = [a \in AdminCalls |-> NoRequest]
    BY DEF CredentialInit
  <2> QED BY <2>2, <2>3, <2>4 DEF CredentialTypeOK
<1>2. EndIsDated /\ AgesAgree /\ StaleForCacheMs
  BY DEF CredentialInit, EndIsDated, AgesAgree, StaleForCacheMs, NoLookup, NoRequest, Ended
<1> QED BY <1>1, <1>2 DEF IInv

\* Every action keeps the types.
LEMMA TypeInv == CredentialTypeOK /\ [CredentialNext]_credentialVars => CredentialTypeOK'
<1> USE CredentialAssumption DEF CredentialAssumption, rowVars
<1> SUFFICES ASSUME CredentialTypeOK, [CredentialNext]_credentialVars PROVE CredentialTypeOK'
  OBVIOUS
<1> USE DEF CredentialTypeOK
<1>1. CASE CredentialTick
  <2>1. \A n \in 0..CacheMs : Later(n) \in 0..CacheMs
    BY DEF Later
  <2>2. cache' \in [Servers -> [Credentials -> 0..CacheMs]]
    BY <1>1 DEF CredentialTick
  <2>3. ASSUME NEW k \in Lookups, lookup[k].pc # "idle"
        PROVE  [lookup[k] EXCEPT !.elapsed = Later(@)] \in
                 [pc : {"find", "expire", "use"}, proc : Servers,
                  cred : Credentials, elapsed : 0..CacheMs]
    <3>1. lookup[k] \in [pc : {"find", "expire", "use"}, proc : Servers,
                         cred : Credentials, elapsed : 0..CacheMs]
      BY <2>3 DEF NoLookup
    <3> QED BY <2>1, <3>1
  <2>4. \A k \in Lookups : lookup[k].pc = "idle" => lookup[k] = NoLookup
    BY DEF NoLookup
  <2>5. endedFor' \in [Credentials -> 0..CacheMs]
    BY <1>1, <2>1 DEF CredentialTick
  <2> QED BY <1>1, <2>2, <2>3, <2>4, <2>5 DEF CredentialTick
<1>2. ASSUME NEW c \in Credentials, Expire(c) \/ Create(c) PROVE CredentialTypeOK'
  BY <1>2 DEF Expire, Create, KeyStatuses
<1>3. ASSUME NEW k \in Lookups, NEW p \in Servers, NEW c \in Credentials,
             Miss(k, p, c)
      PROVE  CredentialTypeOK'
  BY <1>3 DEF Miss
<1>4. ASSUME NEW k \in Lookups,
             Find(k) \/ MarkExpired(k) \/ Use(k) \/ LookupFails(k)
      PROVE  CredentialTypeOK'
  <2>1. lookup[k].pc # "idle" =>
          /\ lookup[k] \in [pc : {"find", "expire", "use"}, proc : Servers,
                            cred : Credentials, elapsed : 0..CacheMs]
    BY DEF NoLookup
  <2>2. CASE Find(k)
    <3>1. lookup[k].pc # "idle"
      BY <2>2 DEF Find
    <3> QED BY <2>1, <2>2, <3>1 DEF Find, NoLookup
  <2>3. CASE MarkExpired(k)
    BY <2>1, <2>3 DEF MarkExpired, KeyStatuses, NoLookup
  <2>4. CASE Use(k)
    <3>1. Valid(lookup[k].elapsed) \in 0..CacheMs
      BY <2>1, <2>4 DEF Use, Valid
    <3> QED BY <2>1, <2>4, <3>1 DEF Use, NoLookup
  <2>5. CASE LookupFails(k)
    BY <2>5 DEF LookupFails, NoLookup
  <2> QED BY <1>4, <2>2, <2>3, <2>4, <2>5
<1>5. ASSUME NEW a \in AdminCalls, NEW c \in Credentials,
             ApproveFind(a, c) \/ Revoke(a, c) \/ RotateFind(a, c) \/ Replace(a, c)
      PROVE  CredentialTypeOK'
  <2>1. adminCall[a].pc # "idle" => adminCall[a].cred \in Credentials
    BY DEF NoRequest
  <2>2. CASE Replace(a, c)
    BY <2>1, <2>2 DEF Replace, Answered, KeyStatuses, NoRequest
  <2>3. CASE ApproveFind(a, c) \/ Revoke(a, c) \/ RotateFind(a, c)
    BY <2>3 DEF ApproveFind, Revoke, RotateFind, Begin, End, KeyStatuses
  <2> QED BY <1>5, <2>2, <2>3
<1>6. ASSUME NEW a \in AdminCalls,
             Approve(a) \/ Forget(a) \/ Rotate(a) \/ ForgetRotated(a)
               \/ ReplaceFails(a) \/ RequestFails(a)
      PROVE  CredentialTypeOK'
  <2>1. adminCall[a].pc # "idle" =>
          adminCall[a] \in [pc : {"approve", "forget", "rotate", "rotated", "replace"},
                          cred : Credentials]
    <3>1. \/ adminCall[a] = NoRequest
          \/ adminCall[a] \in [pc : {"approve", "forget", "rotate", "rotated", "replace"},
                             cred : Credentials]
      OBVIOUS
    <3> QED BY <3>1 DEF NoRequest
  <2>2. CASE Approve(a) \/ Forget(a) \/ ReplaceFails(a) \/ RequestFails(a)
    <3>1. adminCall' \in [AdminCalls -> {NoRequest} \cup
                          [pc : {"approve", "forget", "rotate", "rotated", "replace"},
                           cred : Credentials]]
      BY <2>2 DEF Approve, Forget, ReplaceFails, RequestFails, Answered
    <3>2. adminCall[a].cred \in Credentials
      BY <2>1, <2>2 DEF Approve, Forget, ReplaceFails, RequestFails
    <3>3. CASE Approve(a)
      BY <3>1, <3>2, <3>3 DEF Approve, KeyStatuses
    <3>4. CASE Forget(a)
      <4>1. cache' \in [Servers -> [Credentials -> 0..CacheMs]]
        BY <3>2, <3>4 DEF Forget, Forgotten
      <4> QED BY <3>1, <3>4, <4>1 DEF Forget
    <3>5. CASE ReplaceFails(a) \/ RequestFails(a)
      BY <3>1, <3>5 DEF ReplaceFails, RequestFails
    <3> QED BY <2>2, <3>3, <3>4, <3>5
  <2>3. CASE Rotate(a) \/ ForgetRotated(a)
    <3>1. adminCall[a] \in [pc : {"approve", "forget", "rotate", "rotated", "replace"},
                          cred : Credentials]
      BY <2>1, <2>3 DEF Rotate, ForgetRotated
    <3>2. \A where \in {"rotated", "replace"} :
            Proceed(a, where) =>
              adminCall' \in [AdminCalls -> {NoRequest} \cup
                [pc : {"approve", "forget", "rotate", "rotated", "replace"},
                 cred : Credentials]]
      <4> SUFFICES ASSUME NEW where \in {"rotated", "replace"}, Proceed(a, where)
                   PROVE  adminCall' \in [AdminCalls -> {NoRequest} \cup
                            [pc : {"approve", "forget", "rotate", "rotated", "replace"},
                             cred : Credentials]]
        OBVIOUS
      <4>1. [adminCall[a] EXCEPT !.pc = where] \in
              [pc : {"approve", "forget", "rotate", "rotated", "replace"},
               cred : Credentials]
        BY <3>1
      <4> QED BY <4>1 DEF Proceed
    <3>3. CASE Rotate(a)
      <4>1. /\ keyStatus' \in [Credentials -> KeyStatuses]
            /\ revoked' \subseteq Credentials
        BY <3>3, <3>1 DEF Rotate, End, KeyStatuses
      <4> QED BY <3>2, <3>3, <4>1 DEF Rotate
    <3>4. CASE ForgetRotated(a)
      <4>1. cache' \in [Servers -> [Credentials -> 0..CacheMs]]
        BY <3>1, <3>4 DEF ForgetRotated, Forgotten
      <4> QED BY <3>2, <3>4, <4>1 DEF ForgetRotated
    <3> QED BY <2>3, <3>3, <3>4
  <2> QED BY <1>6, <2>2, <2>3
<1>7. ASSUME NEW S \in SUBSET Revocable, EmergencyRevoke(S) PROVE CredentialTypeOK'
  BY <1>7 DEF EmergencyRevoke, End, Revocable, KeyStatuses
<1>8. CASE Offboard
  BY <1>8 DEF Offboard, End, Revocable, KeyStatuses
<1>9. ASSUME NEW p \in Servers, ServerRestarts(p) PROVE CredentialTypeOK'
  BY <1>9 DEF ServerRestarts, NoLookup, NoRequest
<1>10. CASE UNCHANGED credentialVars
  BY <1>10 DEF credentialVars
<1> QED BY <1>1, <1>2, <1>3, <1>4, <1>5, <1>6, <1>7, <1>8, <1>9, <1>10 DEF CredentialNext
-----------------------------------------------------------------------------
(***************************************************************************)
(* Dates                                                                   *)
(***************************************************************************)
\* A step may write the statuses it likes as long as the dates are right.
LEMMA DatedInv == CredentialTypeOK /\ EndIsDated /\ [CredentialNext]_credentialVars => EndIsDated'
<1> USE CredentialAssumption DEF CredentialAssumption, rowVars
<1> SUFFICES ASSUME CredentialTypeOK, EndIsDated, [CredentialNext]_credentialVars PROVE EndIsDated'
  OBVIOUS
<1> USE DEF CredentialTypeOK, EndIsDated
<1>1. CASE CredentialTick
  BY <1>1 DEF CredentialTick
<1>2. ASSUME NEW c \in Credentials, Expire(c) \/ Create(c) PROVE EndIsDated'
  BY <1>2 DEF Expire, Create
<1>3. ASSUME NEW k \in Lookups, NEW p \in Servers, NEW c \in Credentials,
             Miss(k, p, c)
      PROVE  EndIsDated'
  BY <1>3 DEF Miss
<1>4. ASSUME NEW k \in Lookups,
             Find(k) \/ MarkExpired(k) \/ Use(k) \/ LookupFails(k)
      PROVE  EndIsDated'
  <2>1. CASE Find(k)
    <3>1. lookup[k].pc = "find" /\ lookup[k] # NoLookup
      BY <2>1 DEF Find, NoLookup
    <3>2. lookup[k] \in [pc : {"find", "expire", "use"}, proc : Servers,
                         cred : Credentials, elapsed : 0..CacheMs]
      BY <3>1
    <3>3. lookup'[k].pc = "expire" => lookup'[k].cred \in overdue
      BY <2>1, <3>2 DEF Find, NoLookup
    <3> QED BY <2>1, <3>3 DEF Find
  <2>2. CASE MarkExpired(k)
    <3>1. lookup[k].cred \in Credentials /\ lookup[k].cred \in overdue
      BY <2>2 DEF MarkExpired, NoLookup
    <3> QED BY <2>2, <3>1 DEF MarkExpired, NoLookup
  <2>3. CASE Use(k) \/ LookupFails(k)
    BY <2>3 DEF Use, LookupFails, NoLookup
  <2> QED BY <1>4, <2>1, <2>2, <2>3
<1>5. ASSUME NEW a \in AdminCalls, NEW c \in Credentials,
             ApproveFind(a, c) \/ Revoke(a, c) \/ RotateFind(a, c) \/ Replace(a, c)
      PROVE  EndIsDated'
  <2>1. CASE ApproveFind(a, c) \/ RotateFind(a, c)
    <3>1. \E where \in {"approve", "rotate"} :
            adminCall' = [adminCall EXCEPT ![a] = [pc |-> where, cred |-> c]]
      BY <2>1 DEF ApproveFind, RotateFind, Begin
    <3>2. \A b \in AdminCalls :
            adminCall'[b].pc \in {"rotated", "replace"} => adminCall'[b] = adminCall[b]
      BY <3>1
    <3>3. UNCHANGED <<keyStatus, revoked, rotatedFrom, overdue, lookup>>
      BY <2>1 DEF ApproveFind, RotateFind
    <3> QED BY <3>2, <3>3
  <2>2. CASE Revoke(a, c)
    BY <2>2 DEF Revoke, Begin, End
  <2>3. CASE Replace(a, c)
    <3>1. adminCall[a].cred \in revoked
      BY <2>3 DEF Replace
    <3> QED BY <2>3, <3>1 DEF Replace, Answered, NoRequest
  <2> QED BY <1>5, <2>1, <2>2, <2>3
<1>6. ASSUME NEW a \in AdminCalls,
             Approve(a) \/ Forget(a) \/ Rotate(a) \/ ForgetRotated(a)
               \/ ReplaceFails(a) \/ RequestFails(a)
      PROVE  EndIsDated'
  <2>1. CASE Approve(a)
    BY <2>1 DEF Approve, Answered, NoRequest
  <2>2. CASE Forget(a) \/ ReplaceFails(a) \/ RequestFails(a)
    <3>1. \A b \in AdminCalls : adminCall'[b] \in {adminCall[b], NoRequest}
      BY <2>2 DEF Forget, ReplaceFails, RequestFails, Answered
    <3>2. UNCHANGED <<keyStatus, revoked, rotatedFrom, overdue, lookup>>
      BY <2>2 DEF Forget, ReplaceFails, RequestFails
    <3> QED BY <3>1, <3>2 DEF NoRequest
  <2>3. CASE Rotate(a)
    <3>1. adminCall[a].cred \in Credentials
      BY <2>3 DEF Rotate, NoRequest
    <3>2. /\ adminCall[a].cred \in revoked' /\ revoked \subseteq revoked'
          /\ \A c \in Credentials :
               \/ keyStatus'[c] = keyStatus[c]
               \/ keyStatus'[c] = "ROTATED" /\ c \in revoked'
      <4>1. /\ revoked' = revoked \cup {adminCall[a].cred}
            /\ keyStatus' = [c \in Credentials |->
                            IF c \in {adminCall[a].cred} THEN "ROTATED" ELSE keyStatus[c]]
        BY <2>3 DEF Rotate, End
      <4> QED BY <4>1
    <3>3. \A b \in AdminCalls :
            /\ adminCall'[b].cred = adminCall[b].cred
            /\ b # a => adminCall'[b] = adminCall[b]
      BY <2>3 DEF Rotate, Proceed
    <3>4. UNCHANGED <<rotatedFrom, overdue, lookup>>
      BY <2>3 DEF Rotate
    <3> QED BY <3>2, <3>3, <3>4
  <2>4. CASE ForgetRotated(a)
    <3>1. adminCall[a].cred \in revoked
      BY <2>4 DEF ForgetRotated
    <3>2. \A b \in AdminCalls :
            /\ adminCall'[b].cred = adminCall[b].cred
            /\ b # a => adminCall'[b] = adminCall[b]
      BY <2>4 DEF ForgetRotated, Proceed
    <3>3. UNCHANGED <<keyStatus, revoked, rotatedFrom, overdue, lookup>>
      BY <2>4 DEF ForgetRotated
    <3> QED BY <3>1, <3>2, <3>3
  <2> QED BY <1>6, <2>1, <2>2, <2>3, <2>4
<1>7. ASSUME NEW S \in SUBSET Revocable, EmergencyRevoke(S) PROVE EndIsDated'
  BY <1>7 DEF EmergencyRevoke, End
<1>8. CASE Offboard
  BY <1>8 DEF Offboard, End
<1>9. ASSUME NEW p \in Servers, ServerRestarts(p) PROVE EndIsDated'
  BY <1>9 DEF ServerRestarts, NoLookup, NoRequest
<1>10. CASE UNCHANGED credentialVars
  BY <1>10 DEF credentialVars
<1> QED BY <1>1, <1>2, <1>3, <1>4, <1>5, <1>6, <1>7, <1>8, <1>9, <1>10 DEF CredentialNext
-----------------------------------------------------------------------------
(***************************************************************************)
(* Ages                                                                    *)
(***************************************************************************)
AgeInv == AgesAgree /\ StaleForCacheMs

\* Ending credentials starts their clocks at 0; entries are at most CacheMs.
LEMMA EndingKeepsAges ==
  ASSUME CredentialTypeOK, AgeInv, CredentialTypeOK', Ended \subseteq Ended',
         UNCHANGED <<cache, lookup, endedFor>>
  PROVE  AgeInv'
<1> USE CredentialAssumption DEF CredentialAssumption
<1>1. AgesAgree'
  <2>1. \A c \in Credentials : c \notin Ended' => endedFor'[c] = 0
    BY DEF AgeInv, AgesAgree
  <2>2. ASSUME NEW k \in Lookups, lookup[k].pc = "use", lookup[k].cred \in Ended'
        PROVE  endedFor[lookup[k].cred] <= lookup[k].elapsed
    <3>1. lookup[k].cred \in Credentials /\ lookup[k].elapsed \in Nat
      BY <2>2 DEF CredentialTypeOK, NoLookup
    <3>2. CASE lookup[k].cred \in Ended
      BY <2>2, <3>2 DEF AgeInv, AgesAgree
    <3>3. CASE lookup[k].cred \notin Ended
      BY <3>1, <3>3 DEF AgeInv, AgesAgree
    <3> QED BY <3>2, <3>3
  <2> QED BY <2>1, <2>2 DEF AgesAgree
<1>2. ASSUME NEW p \in Servers, NEW c \in Ended', cache[p][c] > 0
      PROVE  cache[p][c] + endedFor[c] <= CacheMs
  <2>0. c \in Credentials
    BY DEF CredentialTypeOK, Ended
  <2>1. cache[p][c] \in 0..CacheMs /\ endedFor[c] \in 0..CacheMs
    BY <2>0 DEF CredentialTypeOK
  <2>2. CASE c \in Ended
    BY <1>2, <2>2 DEF AgeInv, StaleForCacheMs
  <2>3. CASE c \notin Ended
    BY <2>0, <2>1, <2>3 DEF AgeInv, AgesAgree
  <2> QED BY <2>2, <2>3
<1> QED BY <1>1, <1>2 DEF AgeInv, StaleForCacheMs

\* A unit of time passes for entries, lookups and ended credentials alike.
LEMMA TickKeepsAges ==
  ASSUME CredentialTypeOK, AgeInv, CredentialTick
  PROVE  AgeInv'
<1> USE CredentialAssumption DEF CredentialAssumption
<1>1. /\ Ended' = Ended /\ Ended \subseteq Credentials
      /\ \A c \in Credentials :
           endedFor'[c] = IF c \in Ended THEN Later(endedFor[c]) ELSE endedFor[c]
      /\ \A p \in Servers, c \in Credentials :
           cache'[p][c] = IF cache[p][c] > 0 THEN cache[p][c] - 1 ELSE 0
  BY DEF CredentialTick, Ended, CredentialTypeOK, rowVars
<1>2. \A c \in Credentials : endedFor[c] \in 0..CacheMs
  BY DEF CredentialTypeOK
<1>3. AgesAgree'
  <2>1. \A c \in Credentials : c \notin Ended' => endedFor'[c] = 0
    BY <1>1 DEF AgeInv, AgesAgree
  <2>2. ASSUME NEW k \in Lookups, lookup'[k].pc = "use", lookup'[k].cred \in Ended'
        PROVE  endedFor'[lookup'[k].cred] <= lookup'[k].elapsed
    <3>1. lookup[k].pc # "idle"
      BY <2>2 DEF CredentialTick, NoLookup
    <3>2. lookup[k] \in [pc : {"find", "expire", "use"}, proc : Servers,
                         cred : Credentials, elapsed : 0..CacheMs]
      BY <3>1 DEF CredentialTypeOK, NoLookup
    <3>3. lookup'[k] = [lookup[k] EXCEPT !.elapsed = Later(lookup[k].elapsed)]
      BY <3>1 DEF CredentialTick
    <3>4. /\ lookup'[k].pc = lookup[k].pc /\ lookup'[k].cred = lookup[k].cred
          /\ lookup'[k].elapsed = Later(lookup[k].elapsed)
      BY <3>2, <3>3
    <3>5. endedFor[lookup[k].cred] <= lookup[k].elapsed
      BY <1>1, <2>2, <3>4 DEF AgeInv, AgesAgree
    <3>6. endedFor'[lookup[k].cred] = Later(endedFor[lookup[k].cred])
      BY <1>1, <2>2, <3>2, <3>4
    <3>7. lookup[k].elapsed \in 0..CacheMs /\ endedFor[lookup[k].cred] \in 0..CacheMs
      BY <1>2, <3>2
    <3> QED BY <3>4, <3>5, <3>6, <3>7 DEF Later
  <2> QED BY <2>1, <2>2 DEF AgesAgree
<1>4. ASSUME NEW p \in Servers, NEW c \in Ended', cache'[p][c] > 0
      PROVE  cache'[p][c] + endedFor'[c] <= CacheMs
  <2>1. c \in Credentials /\ c \in Ended
    BY <1>1
  <2>2. cache[p][c] \in Nat
    BY <2>1 DEF CredentialTypeOK
  <2>3. cache[p][c] > 0 /\ cache'[p][c] = cache[p][c] - 1
    BY <1>1, <1>4, <2>1, <2>2
  <2>4. cache[p][c] + endedFor[c] <= CacheMs
    BY <2>1, <2>3 DEF AgeInv, StaleForCacheMs
  <2>5. endedFor'[c] = Later(endedFor[c])
    BY <1>1, <2>1
  <2> QED BY <1>2, <2>1, <2>2, <2>3, <2>4, <2>5 DEF Later
<1> QED BY <1>3, <1>4 DEF AgeInv, StaleForCacheMs

\* Entries that go, and lookups that stop, disturb nothing.
LEMMA ForgettingKeepsAges ==
  ASSUME CredentialTypeOK, AgeInv, UNCHANGED <<revoked, overdue, endedFor>>,
         \A p \in Servers, c \in Credentials : cache'[p][c] \in {0, cache[p][c]},
         \A k \in Lookups : lookup'[k] = lookup[k] \/ lookup'[k].pc # "use"
  PROVE  AgeInv'
<1> USE CredentialAssumption DEF CredentialAssumption
<1>1. Ended' = Ended /\ Ended \subseteq Credentials
  BY DEF Ended, CredentialTypeOK
<1>2. AgesAgree'
  BY <1>1 DEF AgeInv, AgesAgree
<1>3. StaleForCacheMs'
  BY <1>1 DEF AgeInv, StaleForCacheMs
<1> QED BY <1>2, <1>3 DEF AgeInv

\* A lookup that finds the row usable finds a credential that has not ended.
LEMMA FindKeepsAges ==
  ASSUME CredentialTypeOK, AgeInv, NEW k \in Lookups, Find(k)
  PROVE  AgeInv'
<1>1. Ended' = Ended /\ UNCHANGED <<cache, endedFor>>
  BY DEF Find, Ended, rowVars
<1>2. lookup[k] \in [pc : {"find", "expire", "use"}, proc : Servers,
                     cred : Credentials, elapsed : 0..CacheMs]
  BY DEF Find, CredentialTypeOK, NoLookup
<1>3. lookup'[k].pc = "use" => lookup'[k].cred \notin Ended
  BY <1>2 DEF Find, CredentialTypeOK, Ended, NoLookup
<1>4. \A j \in Lookups \ {k} : lookup'[j] = lookup[j]
  BY DEF Find, CredentialTypeOK
<1>5. AgesAgree'
  BY <1>1, <1>3, <1>4 DEF AgeInv, AgesAgree
<1> QED BY <1>1, <1>5 DEF AgeInv, StaleForCacheMs

\* The entry a lookup leaves is as much shorter as the lookup was long.
LEMMA UseKeepsAges ==
  ASSUME CredentialTypeOK, AgeInv, NEW k \in Lookups, Use(k)
  PROVE  AgeInv'
<1> USE CredentialAssumption DEF CredentialAssumption
<1> DEFINE l == lookup[k]
<1>1. Ended' = Ended /\ Ended \subseteq Credentials /\ endedFor' = endedFor
  BY DEF Use, Ended, rowVars, CredentialTypeOK
<1>2. l \in [pc : {"find", "expire", "use"}, proc : Servers,
             cred : Credentials, elapsed : 0..CacheMs]
  BY DEF Use, CredentialTypeOK, NoLookup
<1>3. lookup'[k].pc = "idle" /\ \A j \in Lookups \ {k} : lookup'[j] = lookup[j]
  BY DEF Use, CredentialTypeOK, NoLookup
<1>4. AgesAgree'
  BY <1>1, <1>3 DEF AgeInv, AgesAgree
<1>5. ASSUME NEW p \in Servers, NEW c \in Ended, cache'[p][c] > 0
      PROVE  cache'[p][c] + endedFor[c] <= CacheMs
  <2>1. c \in Credentials
    BY <1>1
  <2>2. CASE p = l.proc /\ c = l.cred
    <3>1. cache'[p][c] = CacheMs - l.elapsed
      BY <1>2, <2>2 DEF Use, CredentialTypeOK, Valid
    <3>2. endedFor[c] <= l.elapsed
      BY <2>2 DEF AgeInv, AgesAgree, Use
    <3>3. endedFor[c] \in Nat /\ l.elapsed \in Nat
      BY <1>2, <2>1 DEF CredentialTypeOK
    <3> QED BY <3>1, <3>2, <3>3
  <2>3. CASE ~(p = l.proc /\ c = l.cred)
    <3>1. cache'[p][c] = cache[p][c]
      BY <2>1, <2>3 DEF Use, CredentialTypeOK
    <3> QED BY <1>5, <3>1 DEF AgeInv, StaleForCacheMs
  <2> QED BY <2>2, <2>3
<1> QED BY <1>1, <1>4, <1>5 DEF AgeInv, StaleForCacheMs
-----------------------------------------------------------------------------
\* Every step keeps the ages.
LEMMA AgesInv == CredentialTypeOK /\ CredentialTypeOK' /\ AgeInv /\ [CredentialNext]_credentialVars => AgeInv'
<1> USE CredentialAssumption DEF CredentialAssumption, rowVars
<1> SUFFICES ASSUME CredentialTypeOK, CredentialTypeOK', AgeInv, [CredentialNext]_credentialVars PROVE AgeInv'
  OBVIOUS
<1>1. CASE CredentialTick
  BY <1>1, TickKeepsAges
<1>2. ASSUME NEW c \in Credentials, Expire(c) \/ Create(c) PROVE AgeInv'
  BY <1>2, EndingKeepsAges DEF Expire, Create, Ended
<1>3. ASSUME NEW k \in Lookups, NEW p \in Servers, NEW c \in Credentials,
             Miss(k, p, c)
      PROVE  AgeInv'
  BY <1>3, ForgettingKeepsAges DEF Miss, CredentialTypeOK
<1>4. ASSUME NEW k \in Lookups,
             Find(k) \/ MarkExpired(k) \/ Use(k) \/ LookupFails(k)
      PROVE  AgeInv'
  <2>1. CASE MarkExpired(k) \/ LookupFails(k)
    BY <2>1, ForgettingKeepsAges DEF MarkExpired, LookupFails, NoLookup, CredentialTypeOK
  <2> QED BY <1>4, <2>1, FindKeepsAges, UseKeepsAges
<1>5. ASSUME NEW a \in AdminCalls, NEW c \in Credentials,
             ApproveFind(a, c) \/ Revoke(a, c) \/ RotateFind(a, c) \/ Replace(a, c)
      PROVE  AgeInv'
  <2>1. CASE ApproveFind(a, c) \/ Revoke(a, c) \/ RotateFind(a, c)
    BY <2>1, EndingKeepsAges DEF ApproveFind, Revoke, RotateFind, End, Ended
  <2>2. CASE Replace(a, c)
    BY <2>2, EndingKeepsAges DEF Replace, Ended
  <2> QED BY <1>5, <2>1, <2>2
<1>6. ASSUME NEW a \in AdminCalls,
             Approve(a) \/ Forget(a) \/ Rotate(a) \/ ForgetRotated(a)
               \/ ReplaceFails(a) \/ RequestFails(a)
      PROVE  AgeInv'
  <2>1. CASE Approve(a) \/ Rotate(a) \/ ReplaceFails(a) \/ RequestFails(a)
    BY <2>1, EndingKeepsAges
       DEF Approve, Rotate, ReplaceFails, RequestFails, End, Ended
  <2>2. CASE Forget(a) \/ ForgetRotated(a)
    <3>1. cache' = Forgotten(adminCall[a].cred)
      BY <2>2 DEF Forget, ForgetRotated
    <3>2. \A p \in Servers, c \in Credentials :
            cache'[p][c] \in {cache[p][c], 0}
      BY <3>1 DEF Forgotten, CredentialTypeOK
    <3>3. UNCHANGED <<revoked, overdue, lookup, endedFor>>
      BY <2>2 DEF Forget, ForgetRotated
    <3> QED BY <3>2, <3>3, ForgettingKeepsAges
  <2> QED BY <1>6, <2>1, <2>2
<1>7. ASSUME NEW S \in SUBSET Revocable, EmergencyRevoke(S) PROVE AgeInv'
  BY <1>7, EndingKeepsAges DEF EmergencyRevoke, End, Ended
<1>8. CASE Offboard
  BY <1>8, EndingKeepsAges DEF Offboard, End, Ended
<1>9. ASSUME NEW p \in Servers, ServerRestarts(p) PROVE AgeInv'
  BY <1>9, ForgettingKeepsAges DEF ServerRestarts, NoLookup, CredentialTypeOK
<1>10. CASE UNCHANGED credentialVars
  BY <1>10, EndingKeepsAges DEF credentialVars, Ended
<1> QED BY <1>1, <1>2, <1>3, <1>4, <1>5, <1>6, <1>7, <1>8, <1>9, <1>10 DEF CredentialNext

LEMMA InductiveInv == IInv /\ [CredentialNext]_credentialVars => IInv'
BY TypeInv, DatedInv, AgesInv DEF IInv, AgeInv
\* No step takes a date back.
LEMMA DatesStay ==
  [CredentialNext]_credentialVars => revoked \subseteq revoked' /\ overdue \subseteq overdue'
<1> SUFFICES ASSUME [CredentialNext]_credentialVars
             PROVE  revoked \subseteq revoked' /\ overdue \subseteq overdue'
  OBVIOUS
<1> USE DEF rowVars
<1>1. CASE UNCHANGED credentialVars \/ CredentialTick \/ Offboard
  BY <1>1 DEF credentialVars, CredentialTick, Offboard, End
<1>2. ASSUME NEW c \in Credentials, Expire(c) \/ Create(c)
      PROVE  revoked \subseteq revoked' /\ overdue \subseteq overdue'
  BY <1>2 DEF Expire, Create
<1>3. ASSUME NEW k \in Lookups,
             \/ \E p \in Servers, c \in Credentials : Miss(k, p, c)
             \/ Find(k) \/ MarkExpired(k) \/ Use(k) \/ LookupFails(k)
      PROVE  revoked \subseteq revoked' /\ overdue \subseteq overdue'
  BY <1>3 DEF Miss, Find, MarkExpired, Use, LookupFails
<1>4. ASSUME NEW a \in AdminCalls, NEW c \in Credentials,
             ApproveFind(a, c) \/ Revoke(a, c) \/ RotateFind(a, c) \/ Replace(a, c)
      PROVE  revoked \subseteq revoked' /\ overdue \subseteq overdue'
  BY <1>4 DEF ApproveFind, Revoke, RotateFind, Replace, End
<1>5. ASSUME NEW a \in AdminCalls,
             Approve(a) \/ Forget(a) \/ Rotate(a) \/ ForgetRotated(a)
               \/ ReplaceFails(a) \/ RequestFails(a)
      PROVE  revoked \subseteq revoked' /\ overdue \subseteq overdue'
  BY <1>5 DEF Approve, Forget, Rotate, ForgetRotated, ReplaceFails,
              RequestFails, End
<1>6. ASSUME NEW S \in SUBSET Revocable, EmergencyRevoke(S)
      PROVE  revoked \subseteq revoked' /\ overdue \subseteq overdue'
  BY <1>6 DEF EmergencyRevoke, End
<1>7. ASSUME NEW p \in Servers, ServerRestarts(p)
      PROVE  revoked \subseteq revoked' /\ overdue \subseteq overdue'
  BY <1>7 DEF ServerRestarts
<1> QED BY <1>1, <1>2, <1>3, <1>4, <1>5, <1>6, <1>7 DEF CredentialNext
-----------------------------------------------------------------------------
\* The inductive invariant holds in every reachable state.
THEOREM Invariance == CredentialSpec => []IInv
BY InitInv, InductiveInv, PTL DEF CredentialSpec

\* Type correctness of the rows, the caches, the lookups and the requests.
THEOREM TypeCorrect == CredentialSpec => []CredentialTypeOK
<1>1. IInv => CredentialTypeOK
  BY DEF IInv
<1> QED BY <1>1, Invariance, PTL

(***************************************************************************)
(* No process answers from its cache for a credential that ended more than *)
(* CREDENTIAL_CACHE_MS ago, for any number of processes and lookups.       *)
(***************************************************************************)
THEOREM StaleBound == CredentialSpec => []StaleForCacheMs
<1>1. IInv => StaleForCacheMs
  BY DEF IInv
<1> QED BY <1>1, Invariance, PTL

(***************************************************************************)
(* A rotated credential and its replacement are not both usable.           *)
(***************************************************************************)
THEOREM OneOfTwoKeys == CredentialSpec => []OneKeyWorks
<1>1. IInv => OneKeyWorks
  BY DEF IInv, EndIsDated, OneKeyWorks, Usable, Ended
<1> QED BY <1>1, Invariance, PTL

(***************************************************************************)
(* A credential whose status says it has ended is not usable after any     *)
(* further step, although steps in progress may write its status again.    *)
(***************************************************************************)
THEOREM EndsForGood == CredentialSpec => NeverUsableAgain
<1>1. IInv /\ IInv' /\ [CredentialNext]_credentialVars =>
        [\A c \in Credentials :
           keyStatus[c] \in {"REVOKED", "ROTATED", "EXPIRED"} => ~Usable(c)']_credentialVars
  <2> SUFFICES ASSUME IInv, [CredentialNext]_credentialVars, NEW c \in Credentials,
                      keyStatus[c] \in {"REVOKED", "ROTATED", "EXPIRED"}
               PROVE  ~Usable(c)'
    OBVIOUS
  <2>1. c \in Ended
    BY DEF IInv, EndIsDated, Ended
  <2> QED BY <2>1, DatesStay DEF Usable, Ended
<1> QED BY <1>1, Invariance, PTL DEF CredentialSpec, NeverUsableAgain
=============================================================================
