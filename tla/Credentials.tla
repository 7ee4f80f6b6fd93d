---------------------------- MODULE Credentials ----------------------------
(***************************************************************************)
(* API credentials of one tenant (packages/database/src/repositories/      *)
(* credentials.ts, the credential routes of apps/api/src/server.ts).       *)
(*                                                                         *)
(* Every process that authenticates requests keeps the principals it has   *)
(* resolved in a map for CREDENTIAL_CACHE_MS and answers from it without   *)
(* looking at the database; an invalidation reaches the map of the process *)
(* that runs it only.  Lookups, and the requests of administrators, are    *)
(* sequences of awaited statements, so the same credential may be looked   *)
(* up, approved, rotated and revoked at once.                              *)
(*                                                                         *)
(* Time is what the cache is about: Tick lets one unit pass, and the state *)
(* holds durations (how much longer an entry is valid, how long a lookup   *)
(* has been running) instead of instants, so that no clock grows.          *)
(*                                                                         *)
(* Abstractions: the permissions of a new credential are high-risk or not  *)
(* by choice; keys, hashes and scopes are left out, a key identifies its   *)
(* credential; the audit events are not kept.  A cache hit changes nothing *)
(* but lastUsedAt, which is left out, so a hit is no step: the credentials *)
(* a process would answer for are those of its valid entries.              *)
(***************************************************************************)
EXTENDS Naturals

CONSTANTS
  Credentials,   \* credential rows the tenant ever has
  Servers,     \* processes that authenticate requests: API, gateway
  Api,           \* the one that serves the administration routes
  Lookups,       \* concurrent calls of resolveApiCredential
  AdminCalls,      \* concurrent administration requests
  CacheMs,       \* CREDENTIAL_CACHE_MS in units of time
  NoCredential           \* no credential, no process

ASSUME CredentialAssumption ==
  /\ Api \in Servers
  /\ CacheMs \in Nat
  /\ NoCredential \notin Credentials \cup Servers

VARIABLES
  keyStatus,        \* status column; "none": no row yet
  revoked,       \* credentials whose revokedAt is set
  overdue,       \* credentials whose expiresAt has passed
  rotatedFrom,   \* rotatedFromId column
  archived,      \* the tenant is archived
  cache,         \* cache[p][c]: until - Date.now(), 0 without a valid entry
  lookup,        \* lookup[k]: a call of resolveApiCredential
  adminCall,       \* request[a]: an administration request
  endedFor       \* history: time since c was revoked or overdue, up to CacheMs

rowVars == <<keyStatus, revoked, rotatedFrom, archived>>
credentialVars == <<rowVars, overdue, cache, lookup, adminCall, endedFor>>

KeyStatuses == {"none", "PENDING_APPROVAL", "ACTIVE", "REVOKED", "ROTATED",
             "EXPIRED"}
NoLookup == [pc |-> "idle", proc |-> NoCredential, cred |-> NoCredential, elapsed |-> 0]
NoRequest == [pc |-> "idle", cred |-> NoCredential]

CredentialTypeOK ==
  /\ keyStatus \in [Credentials -> KeyStatuses]
  /\ revoked \subseteq Credentials
  /\ overdue \subseteq Credentials
  /\ rotatedFrom \in [Credentials -> Credentials \cup {NoCredential}]
  /\ archived \in BOOLEAN
  /\ cache \in [Servers -> [Credentials -> 0..CacheMs]]
  /\ lookup \in [Lookups -> {NoLookup} \cup
                   [pc : {"find", "expire", "use"}, proc : Servers,
                    cred : Credentials, elapsed : 0..CacheMs]]
  /\ adminCall \in [AdminCalls -> {NoRequest} \cup
                    [pc : {"approve", "forget", "rotate", "rotated", "replace"},
                     cred : Credentials]]
  /\ endedFor \in [Credentials -> 0..CacheMs]

CredentialInit ==
  /\ keyStatus = [c \in Credentials |-> "none"]
  /\ revoked = {} /\ overdue = {}
  /\ rotatedFrom = [c \in Credentials |-> NoCredential]
  /\ archived = FALSE
  /\ cache = [p \in Servers |-> [c \in Credentials |-> 0]]
  /\ lookup = [k \in Lookups |-> NoLookup]
  /\ adminCall = [a \in AdminCalls |-> NoRequest]
  /\ endedFor = [c \in Credentials |-> 0]
-----------------------------------------------------------------------------
(***************************************************************************)
(* Time                                                                    *)
(***************************************************************************)
Ended == revoked \cup overdue
Later(n) == IF n < CacheMs THEN n + 1 ELSE n

\* A unit of time passes.
CredentialTick ==
  /\ cache' = [p \in Servers |-> [c \in Credentials |->
                 IF cache[p][c] > 0 THEN cache[p][c] - 1 ELSE 0]]
  /\ lookup' = [k \in Lookups |->
                  IF lookup[k].pc = "idle" THEN lookup[k]
                  ELSE [lookup[k] EXCEPT !.elapsed = Later(@)]]
  /\ endedFor' = [c \in Credentials |->
                    IF c \in Ended THEN Later(endedFor[c]) ELSE endedFor[c]]
  /\ UNCHANGED <<rowVars, overdue, adminCall>>

\* expiresAt passes.
Expire(c) ==
  /\ keyStatus[c] # "none"
  /\ overdue' = overdue \cup {c}
  /\ UNCHANGED <<rowVars, cache, lookup, adminCall, endedFor>>
-----------------------------------------------------------------------------
(***************************************************************************)
(* resolveApiCredential                                                    *)
(***************************************************************************)
\* A request with the key of c finds no valid entry; now is taken here.
Miss(k, p, c) ==
  /\ lookup[k].pc = "idle"
  /\ keyStatus[c] # "none"
  /\ cache[p][c] = 0
  /\ lookup' = [lookup EXCEPT ![k] =
                  [pc |-> "find", proc |-> p, cred |-> c, elapsed |-> 0]]
  /\ UNCHANGED <<rowVars, overdue, cache, adminCall, endedFor>>

\* The rows findMany asks for.
Listed(c) == keyStatus[c] = "ACTIVE" /\ ~archived

\* findMany returned, and the checks of the row it found.
Find(k) ==
  LET c == lookup[k].cred IN
  /\ lookup[k].pc = "find"
  /\ lookup' = [lookup EXCEPT ![k] =
                  IF ~Listed(c) THEN NoLookup
                  ELSE IF c \in overdue THEN [@ EXCEPT !.pc = "expire"]
                  ELSE IF c \in revoked THEN NoLookup
                  ELSE [@ EXCEPT !.pc = "use"]]
  /\ UNCHANGED <<rowVars, overdue, cache, adminCall, endedFor>>

\* The update of an expired row, by id: whatever its status is by now.
MarkExpired(k) ==
  /\ lookup[k].pc = "expire"
  /\ keyStatus' = [keyStatus EXCEPT ![lookup[k].cred] = "EXPIRED"]
  /\ lookup' = [lookup EXCEPT ![k] = NoLookup]
  /\ UNCHANGED <<revoked, rotatedFrom, archived, overdue, cache, adminCall,
                 endedFor>>

\* Mutants: the entry is valid from the end of the lookup on; the time the
\* lookup took is added.
ValidFromNow(elapsed) == CacheMs
ValidLonger(elapsed) == CacheMs + elapsed
\* until = now + CREDENTIAL_CACHE_MS, with the now of the beginning.
Valid(elapsed) == CacheMs - elapsed

\* lastUsedAt and CREDENTIAL_USED are written, the principal is cached.
Use(k) ==
  LET l == lookup[k] IN
  /\ l.pc = "use"
  /\ cache' = [cache EXCEPT ![l.proc][l.cred] = Valid(l.elapsed)]
  /\ lookup' = [lookup EXCEPT ![k] = NoLookup]
  /\ UNCHANGED <<rowVars, overdue, adminCall, endedFor>>

\* An await of the lookup rejects.
LookupFails(k) ==
  /\ lookup[k].pc # "idle"
  /\ lookup' = [lookup EXCEPT ![k] = NoLookup]
  /\ UNCHANGED <<rowVars, overdue, cache, adminCall, endedFor>>
-----------------------------------------------------------------------------
(***************************************************************************)
(* Administration                                                          *)
(***************************************************************************)
\* createApiCredential: PENDING_APPROVAL if a permission is high-risk.
Create(c) ==
  /\ keyStatus[c] = "none"
  /\ \E first \in {"ACTIVE", "PENDING_APPROVAL"} :
       keyStatus' = [keyStatus EXCEPT ![c] = first]
  /\ UNCHANGED <<revoked, rotatedFrom, archived, overdue, cache, lookup,
                 adminCall, endedFor>>

Begin(a, where, c) ==
  /\ adminCall[a].pc = "idle"
  /\ adminCall' = [adminCall EXCEPT ![a] = [pc |-> where, cred |-> c]]
Answered(a) == adminCall' = [adminCall EXCEPT ![a] = NoRequest]

\* approveApiCredential found the row pending.
ApproveFind(a, c) ==
  /\ keyStatus[c] = "PENDING_APPROVAL"
  /\ Begin(a, "approve", c)
  /\ UNCHANGED <<rowVars, overdue, cache, lookup, endedFor>>

\* Its update by id.
Approve(a) ==
  /\ adminCall[a].pc = "approve"
  /\ keyStatus' = [keyStatus EXCEPT ![adminCall[a].cred] = "ACTIVE"]
  /\ Answered(a)
  /\ UNCHANGED <<revoked, rotatedFrom, archived, overdue, cache, lookup,
                 endedFor>>

\* Sets the status and revokedAt of the credentials in S.
End(S, final) ==
  /\ keyStatus' = [c \in Credentials |-> IF c \in S THEN final ELSE keyStatus[c]]
  /\ revoked' = revoked \cup S

\* revokeApiCredential: its update.
Revoke(a, c) ==
  /\ keyStatus[c] # "none"
  /\ End({c}, "REVOKED")
  /\ Begin(a, "forget", c)
  /\ UNCHANGED <<rotatedFrom, archived, overdue, cache, lookup, endedFor>>

Forgotten(c) == [cache EXCEPT ![Api][c] = 0]

\* invalidateCredentialCache, when the update has returned.
Forget(a) ==
  /\ adminCall[a].pc = "forget"
  /\ cache' = Forgotten(adminCall[a].cred)
  /\ Answered(a)
  /\ UNCHANGED <<rowVars, overdue, lookup, endedFor>>

Revocable == {c \in Credentials : keyStatus[c] \in {"ACTIVE", "PENDING_APPROVAL"}}

\* Mutant: revokedAt is left out of the bulk update.
EmergencyRevokeUndated(S) ==
  /\ S # {}
  /\ keyStatus' = [c \in Credentials |-> IF c \in S THEN "REVOKED" ELSE keyStatus[c]]
  /\ UNCHANGED <<revoked, rotatedFrom, archived, overdue, cache, lookup,
                 adminCall, endedFor>>

\* revokeCredentialsForIdentity for a user or a kind: caches are not told.
EmergencyRevoke(S) ==
  /\ S # {}
  /\ End(S, "REVOKED")
  /\ UNCHANGED <<rotatedFrom, archived, overdue, cache, lookup, adminCall,
                 endedFor>>

\* offboardTenant's transaction.
Offboard ==
  /\ ~archived
  /\ archived' = TRUE
  /\ End(Revocable, "REVOKED")
  /\ UNCHANGED <<rotatedFrom, overdue, cache, lookup, adminCall, endedFor>>

\* rotateApiCredential found the row, in whatever status.
RotateFind(a, c) ==
  /\ keyStatus[c] # "none"
  /\ Begin(a, "rotate", c)
  /\ UNCHANGED <<rowVars, overdue, cache, lookup, endedFor>>

Proceed(a, where) == adminCall' = [adminCall EXCEPT ![a].pc = where]

\* Mutant: revokedAt is not set.
RotateUndated(a) ==
  /\ adminCall[a].pc = "rotate"
  /\ keyStatus' = [keyStatus EXCEPT ![adminCall[a].cred] = "ROTATED"]
  /\ Proceed(a, "rotated")
  /\ UNCHANGED <<revoked, rotatedFrom, archived, overdue, cache, lookup,
                 endedFor>>

\* The update of the old row.
Rotate(a) ==
  /\ adminCall[a].pc = "rotate"
  /\ End({adminCall[a].cred}, "ROTATED")
  /\ Proceed(a, "rotated")
  /\ UNCHANGED <<rotatedFrom, archived, overdue, cache, lookup, endedFor>>

\* Its update has returned: invalidateCredentialCache, the insert is sent.
ForgetRotated(a) ==
  /\ adminCall[a].pc = "rotated"
  /\ cache' = Forgotten(adminCall[a].cred)
  /\ Proceed(a, "replace")
  /\ UNCHANGED <<rowVars, overdue, lookup, endedFor>>

\* The row that replaces it.
Replace(a, d) ==
  /\ adminCall[a].pc = "replace"
  /\ keyStatus[d] = "none"
  /\ keyStatus' = [keyStatus EXCEPT ![d] = "ACTIVE"]
  /\ rotatedFrom' = [rotatedFrom EXCEPT ![d] = adminCall[a].cred]
  /\ Answered(a)
  /\ UNCHANGED <<revoked, archived, overdue, cache, lookup, endedFor>>

\* The insert of the replacement is rejected: the old key is gone, there is
\* no new one.
ReplaceFails(a) ==
  /\ adminCall[a].pc = "replace"
  /\ Answered(a)
  /\ UNCHANGED <<rowVars, overdue, cache, lookup, endedFor>>

\* A statement is rejected before anything is written.
RequestFails(a) ==
  /\ adminCall[a].pc \in {"approve", "rotate"}
  /\ Answered(a)
  /\ UNCHANGED <<rowVars, overdue, cache, lookup, endedFor>>

\* A process restarts: its map, its lookups and its requests are gone.
ServerRestarts(p) ==
  /\ cache' = [cache EXCEPT ![p] = [c \in Credentials |-> 0]]
  /\ lookup' = [k \in Lookups |-> IF lookup[k].proc = p THEN NoLookup
                                  ELSE lookup[k]]
  /\ adminCall' = IF p = Api THEN [a \in AdminCalls |-> NoRequest] ELSE adminCall
  /\ UNCHANGED <<rowVars, overdue, endedFor>>

CredentialNext ==
  \/ CredentialTick
  \/ \E c \in Credentials : Expire(c) \/ Create(c)
  \/ \E k \in Lookups :
       \/ \E p \in Servers, c \in Credentials : Miss(k, p, c)
       \/ Find(k) \/ MarkExpired(k) \/ Use(k) \/ LookupFails(k)
  \/ \E a \in AdminCalls :
       \/ \E c \in Credentials :
            ApproveFind(a, c) \/ Revoke(a, c) \/ RotateFind(a, c) \/ Replace(a, c)
       \/ Approve(a) \/ Forget(a) \/ Rotate(a) \/ ForgetRotated(a)
       \/ ReplaceFails(a) \/ RequestFails(a)
  \/ \E S \in SUBSET Revocable : EmergencyRevoke(S)
  \/ Offboard
  \/ \E p \in Servers : ServerRestarts(p)

CredentialSpec == CredentialInit /\ [][CredentialNext]_credentialVars
-----------------------------------------------------------------------------
(***************************************************************************)
(* A lookup would resolve the key of c now.                                *)
(***************************************************************************)
Usable(c) == Listed(c) /\ c \notin Ended

(***************************************************************************)
(* The cache is stale for CREDENTIAL_CACHE_MS at most: no process answers  *)
(* for a revoked, rotated or overdue credential longer than that after its *)
(* end, however slow the lookups are that were in progress, and although   *)
(* no process tells another.                                               *)
(***************************************************************************)
StaleForCacheMs ==
  \A p \in Servers, c \in Ended :
    cache[p][c] > 0 => cache[p][c] + endedFor[c] <= CacheMs

(***************************************************************************)
(* A credential that was ended never becomes usable again, whatever        *)
(* approvals, lookups and rotations were in progress when it ended: each   *)
(* of them writes the status without looking at it.                        *)
(***************************************************************************)
NeverUsableAgain ==
  [][\A c \in Credentials :
       keyStatus[c] \in {"REVOKED", "ROTATED", "EXPIRED"} => ~Usable(c)']_credentialVars

(***************************************************************************)
(* The two keys of a rotation do not both work: once the replacement       *)
(* exists the rotated credential is not usable.                            *)
(***************************************************************************)
OneKeyWorks ==
  \A d \in Credentials :
    rotatedFrom[d] # NoCredential => ~Usable(rotatedFrom[d])
=============================================================================
