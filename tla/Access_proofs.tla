----------------------------- MODULE Access_proofs -----------------------------
(***************************************************************************)
(* Proofs about accounts and installation access, for any numbers of       *)
(* calls, sessions, sites and users and any lockout threshold.             *)
(***************************************************************************)
EXTENDS Accounts, InstallationAccess, TLAPS

(***************************************************************************)
(* Accounts.  GoodCall is what a call in progress can rely on, whatever    *)
(* the others have written since it read: the number of failures it will   *)
(* write is not above the failures there were; a code was shown for the    *)
(* secret it will enable, unless that secret was replaced meanwhile; and   *)
(* if the account is deactivated, the call is known to have begun before.  *)
(***************************************************************************)
Opening == {"code", "enter", "open", "switch"}

GoodCall(k) ==
  /\ In(k, "count") => request[k].failed <= failures
  /\ In(k, "issue") => request[k].thing \in Purposes
  /\ In(k, "confirm") => account.secret \in confirmed \cup replaced
  /\ request[k].pc \in Opening => account.active \/ request[k].ended = AccountTenants
GoodCalls == \A k \in AccountCalls : GoodCall(k)

GoodAccount ==
  /\ account.failed <= failures
  /\ LockedAfterFailures /\ EnabledSecretIsConfirmed /\ EndedIsOut

AccountInv == AccountTypeOK /\ GoodCalls /\ GoodAccount

CallRecords == [pc : CallStates, failed : 0 .. Threshold, thing : Things,
                ended : SUBSET AccountTenants]

\* The types of what a lookup in the functions and records of the model gives.
LEMMA AccountTypes ==
  ASSUME AccountTypeOK
  PROVE  /\ Threshold \in Nat /\ Threshold > 0 /\ failures \in 0 .. Threshold
         /\ account \in AccountRows
         /\ request \in [AccountCalls -> CallRecords]
         /\ NoRequest \in CallRecords /\ NoRequest.pc = "idle"
BY AccountAssumption
   DEF AccountTypeOK, CallRecords, NoRequest, CallStates, Things

LEMMA OneMoreBounds ==
  ASSUME Threshold \in Nat, NEW m \in 0 .. Threshold, NEW n \in 0 .. Threshold, m <= n
  PROVE  /\ OneMore(m) \in 0 .. Threshold /\ OneMore(n) \in 0 .. Threshold
         /\ OneMore(m) <= OneMore(n) /\ n <= OneMore(n)
BY DEF OneMore

(***************************************************************************)
(* A call that only reads: it goes to where GoodCall holds of it.          *)
(***************************************************************************)
LEMMA CallReads ==
  ASSUME AccountInv, NEW k \in AccountCalls, NEW r \in CallRecords,
         request' = [request EXCEPT ![k] = r],
         r.pc = "count" => r.failed <= failures,
         r.pc = "issue" => r.thing \in Purposes,
         r.pc \in Opening => account.active \/ r.ended = AccountTenants,
         r.pc = "confirm" => account.secret \in confirmed' \cup replaced,
         confirmed' \in SUBSET Secrets, confirmed \subseteq confirmed',
         UNCHANGED <<account, session, token, code, failures, replaced, since, late>>
  PROVE  AccountInv'
<1>1. AccountTypeOK /\ GoodCalls /\ GoodAccount
  BY DEF AccountInv
<1>2. AccountTypeOK'
  BY <1>1, AccountTypes DEF AccountTypeOK, CallRecords
<1>3. GoodCalls'
  BY <1>1, AccountTypes DEF GoodCalls, GoodCall, In
<1>4. GoodAccount'
  BY <1>1 DEF GoodAccount, LockedAfterFailures, EnabledSecretIsConfirmed, EndedIsOut, LoggedIn
<1> QED BY <1>2, <1>3, <1>4 DEF AccountInv

\* A call that ends, or goes on to where it relies on nothing new.
LEMMA CallGoesOn ==
  ASSUME AccountTypeOK, GoodCalls, NEW k \in AccountCalls, NEW r \in CallRecords,
         request' = [request EXCEPT ![k] = r],
         r.pc \notin {"count", "issue", "confirm"},
         r.pc \in Opening => account'.active \/ r.ended = AccountTenants,
         account'.active <=> account.active, account'.secret = account.secret,
         failures' \in 0 .. Threshold, failures <= failures',
         UNCHANGED <<confirmed, replaced>>
  PROVE  GoodCalls' /\ request' \in [AccountCalls -> CallRecords]
<1>1. /\ Threshold \in Nat /\ failures \in 0 .. Threshold
      /\ request \in [AccountCalls -> CallRecords]
  BY AccountTypes
<1>2. ASSUME NEW j \in AccountCalls PROVE GoodCall(j)'
  <2>1. CASE j = k
    BY <1>1, <2>1 DEF GoodCall, In
  <2>2. CASE j # k
    <3>1. request'[j] = request[j] /\ request[j].failed \in 0 .. Threshold
      BY <1>1, <2>2 DEF CallRecords
    <3> QED BY <1>1, <3>1 DEF GoodCalls, GoodCall, In
  <2> QED BY <2>1, <2>2
<1> QED BY <1>1, <1>2 DEF GoodCalls

(***************************************************************************)
(* Calls in progress when the sessions in some tenants end: what is live   *)
(* afterwards was live, in another tenant.                                 *)
(***************************************************************************)
LEMMA SessionsEnd ==
  ASSUME AccountTypeOK, GoodCalls, NEW requests \in [AccountCalls -> CallRecords],
         \A k \in AccountCalls : requests[k] = request[k] \/ requests[k] = NoRequest,
         NEW tenants \in SUBSET AccountTenants, EndSessions(tenants, requests),
         account'.active => account.active,
         account.active => account'.active \/ tenants = AccountTenants,
         account'.secret = account.secret, UNCHANGED <<failures, confirmed, replaced>>
  PROVE  /\ GoodCalls' /\ request' \in [AccountCalls -> CallRecords]
         /\ session' \in [Sessions -> {"none", "revoked"} \cup AccountTenants]
         /\ since' \in SUBSET Sessions /\ late' \in SUBSET since'
         /\ \A s \in Sessions : LoggedIn(s)' =>
              /\ LoggedIn(s) /\ session[s] \notin tenants
              /\ s \in since => s \in since' /\ (s \in late => s \in late')
<1> DEFINE open(S) == {s \in S : session[s] \notin tenants}
           ended(k) == IF requests[k].pc = "idle" THEN {} ELSE requests[k].ended \cup tenants
<1>1. /\ request' = [k \in AccountCalls |-> [requests[k] EXCEPT !.ended = ended(k)]]
      /\ session' = SomeRevoked(tenants) /\ since' = open(since) /\ late' = open(late)
  BY DEF EndSessions
<1>2. /\ session \in [Sessions -> {"none", "revoked"} \cup AccountTenants]
      /\ since \subseteq Sessions /\ late \subseteq since
      /\ AccountTenants \cap {"none", "revoked"} = {}
  BY AccountAssumption DEF AccountTypeOK
<1>3. /\ session' \in [Sessions -> {"none", "revoked"} \cup AccountTenants]
      /\ since' \in SUBSET Sessions /\ late' \in SUBSET since'
  BY <1>1, <1>2 DEF SomeRevoked
<1>4. ASSUME NEW s \in Sessions, LoggedIn(s)'
      PROVE  /\ LoggedIn(s) /\ session[s] \notin tenants
             /\ s \in since => s \in since' /\ (s \in late => s \in late')
  <2>1. session'[s] \in AccountTenants /\ session'[s] # "revoked"
    BY <1>2, <1>4 DEF LoggedIn
  <2>2. session[s] \notin tenants /\ session[s] \in AccountTenants
    BY <1>1, <2>1 DEF SomeRevoked
  <2> QED BY <1>1, <2>2 DEF LoggedIn
<1>5. ASSUME NEW k \in AccountCalls
      PROVE  /\ request'[k] \in CallRecords
             /\ request'[k].pc = requests[k].pc /\ request'[k].failed = requests[k].failed
             /\ request'[k].thing = requests[k].thing
             /\ request'[k].pc # "idle" => request'[k].ended = requests[k].ended \cup tenants
  <2>1. requests[k] \in CallRecords /\ request'[k] = [requests[k] EXCEPT !.ended = ended(k)]
    BY <1>1
  <2>2. ended(k) \in SUBSET AccountTenants
    BY <2>1 DEF CallRecords
  <2>3. requests[k].pc # "idle" => ended(k) = requests[k].ended \cup tenants
    OBVIOUS
  <2> HIDE DEF ended
  <2> QED BY <2>1, <2>2, <2>3 DEF CallRecords
<1>6. ASSUME NEW k \in AccountCalls PROVE GoodCall(k)'
  <2>1. CASE requests[k] = request[k]
    <3>1. request[k].ended \subseteq AccountTenants
      BY <2>1 DEF CallRecords
    <3>2. request'[k].pc \in Opening =>
            account'.active \/ request'[k].ended = AccountTenants
      BY <1>5, <2>1, <3>1 DEF GoodCalls, GoodCall, Opening
    <3> QED BY <1>5, <2>1, <3>2 DEF GoodCalls, GoodCall, In
  <2>2. CASE requests[k] = NoRequest
    BY <1>5, <2>2 DEF GoodCall, In, Opening, NoRequest
  <2> QED BY <2>1, <2>2
<1>7. request' \in [AccountCalls -> CallRecords]
  <2> HIDE DEF ended
  <2> QED BY <1>1, <1>5
<1> QED BY <1>3, <1>4, <1>6, <1>7 DEF GoodCalls

(***************************************************************************)
(* /v1/auth: calls that only read.                                         *)
(***************************************************************************)
LEMMA ReadingCalls ==
  ASSUME AccountInv, NEW k \in AccountCalls,
         \/ Refused(k) \/ ReadMfa(k)
         \/ \E guess \in Passwords :
              \/ WrongPassword(k, guess)
              \/ \E totp \in Secrets \cup {Nobody} : RightPassword(k, guess, totp)
              \/ \E c \in RecoveryCodes : FindCode(k, guess, c)
         \/ \E s \in Sessions : FindSwitch(k, s) \/ FindSession(k, s)
         \/ \E purpose \in Purposes : RequestToken(k, purpose)
         \/ \E t \in Tokens : FindToken(k, t)
  PROVE  AccountInv'
<1>1. AccountTypeOK /\ GoodCalls /\ GoodAccount
  BY DEF AccountInv
<1>2. /\ Threshold \in Nat /\ failures \in 0 .. Threshold /\ account \in AccountRows
      /\ NoRequest \in CallRecords /\ NoRequest.pc = "idle" /\ confirmed \in SUBSET Secrets
  BY <1>1, AccountTypes DEF AccountTypeOK
<1>3. CASE Refused(k)
  BY <1>2, <1>3, CallReads DEF Refused, Answers, Opening
<1> DEFINE call(pc, failed, thing) ==
             [pc |-> pc, failed |-> failed, thing |-> thing, ended |-> {}]
<1>4. ASSUME NEW guess \in Passwords, WrongPassword(k, guess) PROVE AccountInv'
  <2>1. call("count", account.failed, Nobody) \in CallRecords /\ account.failed <= failures
    BY <1>1, <1>2 DEF CallRecords, CallStates, Things, AccountRows, GoodAccount
  <2> QED BY <1>2, <1>4, <2>1, CallReads DEF WrongPassword, Opening
<1>5. ASSUME NEW pc \in CallStates \ {"count", "issue", "confirm"}, NEW thing \in Things,
             Begins(k, pc, thing), pc \in Opening => account.active,
             UNCHANGED <<account, session, token, code, failures, confirmed, replaced, since, late>>
      PROVE  AccountInv'
  <2>1. call(pc, 0, thing) \in CallRecords
    BY <1>2 DEF CallRecords
  <2> QED BY <1>2, <1>5, <2>1, CallReads DEF Begins
<1>6. ASSUME NEW guess \in Passwords, NEW totp \in Secrets \cup {Nobody},
             RightPassword(k, guess, totp)
      PROVE  AccountInv'
  <2>1. Nobody \in Things /\ "enter" \in CallStates \ {"count", "issue", "confirm"}
    BY DEF Things, CallStates
  <2> QED BY <1>5, <1>6, <2>1 DEF RightPassword, MayLogin
<1>7. ASSUME NEW guess \in Passwords, NEW c \in RecoveryCodes, FindCode(k, guess, c)
      PROVE  AccountInv'
  <2>1. c \in Things /\ "code" \in CallStates \ {"count", "issue", "confirm"}
    BY DEF Things, CallStates
  <2> QED BY <1>5, <1>7, <2>1 DEF FindCode, MayLogin
<1>8. ASSUME NEW s \in Sessions, FindSwitch(k, s) \/ FindSession(k, s) PROVE AccountInv'
  <2>1. /\ s \in Things /\ "switch" \in CallStates \ {"count", "issue", "confirm"}
        /\ "revoke" \in CallStates \ {"count", "issue", "confirm"} /\ "revoke" \notin Opening
    BY DEF Things, CallStates, Opening
  <2>2. CASE FindSwitch(k, s)
    BY <1>5, <2>1, <2>2 DEF FindSwitch, Resolves
  <2>3. CASE FindSession(k, s)
    BY <1>5, <2>1, <2>3 DEF FindSession
  <2> QED BY <1>8, <2>2, <2>3
<1>9. ASSUME NEW purpose \in Purposes, RequestToken(k, purpose) PROVE AccountInv'
  <2>1. call("issue", 0, purpose) \in CallRecords
    BY <1>2 DEF CallRecords, CallStates, Things
  <2> QED BY <1>2, <1>9, <2>1, CallReads DEF RequestToken, Begins, Opening
<1>10. ASSUME NEW t \in Tokens, FindToken(k, t) PROVE AccountInv'
  <2>1. /\ t \in Things /\ "use" \in CallStates \ {"count", "issue", "confirm"}
        /\ "use" \notin Opening
    BY DEF Things, CallStates, Opening
  <2> QED BY <1>5, <1>10, <2>1 DEF FindToken
<1>11. CASE ReadMfa(k)
  <2>1. /\ call("confirm", 0, account.secret) \in CallRecords
        /\ confirmed' = confirmed \cup {account.secret} /\ account.secret \in Secrets
    BY <1>2, <1>11 DEF CallRecords, CallStates, Things, ReadMfa, AccountRows
  <2> QED BY <1>2, <1>11, <2>1, CallReads DEF ReadMfa, Begins, Opening
<1> QED BY <1>3, <1>4, <1>6, <1>7, <1>8, <1>9, <1>10, <1>11

(***************************************************************************)
(* Calls that write one row: account, codes, tokens or sessions.           *)
(***************************************************************************)
LEMMA WritingCalls ==
  ASSUME AccountInv, NEW k \in AccountCalls,
         \/ CountFailure(k) \/ UseCode(k) \/ Enter(k) \/ UseToken(k) \/ VerifyEmail(k)
         \/ UnlockAccount(k) \/ RevokeSession(k)
         \/ \E p \in Passwords : AcceptInvitation(k, p)
         \/ \E s \in Sessions, t \in AccountTenants : OpenSession(k, s, t) \/ Switch(k, s, t)
         \/ \E t \in Tokens : IssueToken(k, t)
  PROVE  AccountInv'
<1>1. AccountTypeOK /\ GoodCalls /\ GoodAccount
  BY DEF AccountInv
<1>2. /\ Threshold \in Nat /\ Threshold > 0 /\ failures \in 0 .. Threshold
      /\ failures <= failures /\ 0 \in 0 .. Threshold /\ account \in AccountRows
      /\ request \in [AccountCalls -> CallRecords] /\ request[k] \in CallRecords
      /\ NoRequest \in CallRecords /\ NoRequest.pc = "idle"
  BY <1>1, AccountTypes
<1> DEFINE next(pc) == [request[k] EXCEPT !.pc = pc]
<1>3. /\ Answers(k) => request' = [request EXCEPT ![k] = NoRequest]
      /\ \A pc \in CallStates : next(pc) \in CallRecords /\ next(pc).pc = pc
                                  /\ next(pc).ended = request[k].ended
      /\ \A pc \in CallStates : Goes(k, pc) => request' = [request EXCEPT ![k] = next(pc)]
  BY <1>2 DEF Answers, Goes, CallRecords
<1>4. CASE CountFailure(k)
  <2> DEFINE failed == OneMore(request[k].failed)
  <2>1. /\ request[k].failed \in 0 .. Threshold /\ request[k].failed <= failures
    BY <1>1, <1>2, <1>4 DEF GoodCalls, GoodCall, CountFailure, CallRecords
  <2>2. /\ account' = [account EXCEPT !.failed = failed, !.locked = Locks(failed)]
        /\ failures' = OneMore(failures)
        /\ UNCHANGED <<session, token, code, confirmed, replaced, since, late>>
    BY <1>4 DEF CountFailure
  <2>3. /\ failed \in 0 .. Threshold /\ failures' \in 0 .. Threshold /\ failed <= failures'
        /\ failures <= failures'
    BY <1>2, <2>1, <2>2, OneMoreBounds
  <2> HIDE DEF failed
  <2>4. Locks(failed) \in BOOLEAN /\ (Locks(failed) => failures' >= Threshold)
    BY <1>2, <2>3 DEF Locks
  <2>5. /\ account' \in AccountRows /\ account'.failed = failed
        /\ account'.locked = Locks(failed) /\ account'.active = account.active
        /\ account'.secret = account.secret /\ account'.mfaEnabled = account.mfaEnabled
    BY <1>2, <2>2, <2>3, <2>4 DEF AccountRows
  <2>6. GoodCalls' /\ request' \in [AccountCalls -> CallRecords]
    BY <1>1, <1>2, <1>3, <1>4, <2>2, <2>3, <2>5, CallGoesOn DEF CountFailure, Opening
  <2>7. AccountTypeOK'
    BY <1>1, <2>2, <2>3, <2>5, <2>6 DEF AccountTypeOK, CallRecords
  <2>8. GoodAccount'
    BY <1>1, <2>2, <2>3, <2>4, <2>5
       DEF GoodAccount, LockedAfterFailures, EnabledSecretIsConfirmed, EndedIsOut, LoggedIn
  <2> QED BY <2>6, <2>7, <2>8 DEF AccountInv
<1>5. ASSUME account' \in AccountRows, account'.active = account.active,
             account'.secret = account.secret, account'.mfaEnabled = account.mfaEnabled,
             \/ account'.failed = 0 /\ ~account'.locked
             \/ account'.failed = account.failed /\ account'.locked = account.locked,
             code' \in SUBSET RecoveryCodes,
             UNCHANGED <<session, token, failures, confirmed, replaced, since, late>>,
             NEW r \in CallRecords, request' = [request EXCEPT ![k] = r],
             r.pc \notin {"count", "issue", "confirm"},
             r.pc \in Opening => request[k].pc \in Opening /\ r.ended = request[k].ended
      PROVE  AccountInv'
  <2>1. r.pc \in Opening => account'.active \/ r.ended = AccountTenants
    BY <1>1, <1>5 DEF GoodCalls, GoodCall
  <2>2. GoodCalls' /\ request' \in [AccountCalls -> CallRecords]
    <3>1. failures' \in 0 .. Threshold /\ failures <= failures'
          /\ UNCHANGED <<confirmed, replaced>>
      BY <1>2, <1>5
    <3> QED BY <1>1, <1>5, <2>1, <3>1, CallGoesOn
  <2>3. AccountTypeOK'
    BY <1>1, <1>5, <2>2 DEF AccountTypeOK, CallRecords
  <2>4. GoodAccount'
    BY <1>1, <1>2, <1>5
       DEF GoodAccount, LockedAfterFailures, EnabledSecretIsConfirmed, EndedIsOut, LoggedIn
  <2> QED BY <2>2, <2>3, <2>4 DEF AccountInv
<1>6. code \in SUBSET RecoveryCodes /\ code \ {request[k].thing} \in SUBSET RecoveryCodes
  BY <1>1 DEF AccountTypeOK
<1>7. CASE UseCode(k)
  <2>1. "enter" \in CallStates /\ request[k].pc \in Opening
    BY <1>7 DEF UseCode, In, CallStates, Opening
  <2>2. /\ UNCHANGED <<account, session, token, failures, confirmed, replaced, since, late>>
        /\ code' \in SUBSET RecoveryCodes /\ Goes(k, "enter")
    BY <1>6, <1>7 DEF UseCode
  <2>3. PICK r \in CallRecords :
          /\ request' = [request EXCEPT ![k] = r] /\ r.pc = "enter"
          /\ r.ended = request[k].ended
    BY <1>3, <2>1, <2>2
  <2>4. account' \in AccountRows /\ account' = account
    BY <1>2, <2>2
  <2> QED BY <1>5, <2>1, <2>2, <2>3, <2>4
<1>8. CASE Enter(k)
  <2>1. "open" \in CallStates /\ request[k].pc \in Opening
    BY <1>8 DEF Enter, In, CallStates, Opening
  <2>2. /\ account' \in AccountRows /\ account'.active = account.active
        /\ account'.secret = account.secret /\ account'.mfaEnabled = account.mfaEnabled
        /\ account'.failed = 0 /\ ~account'.locked
    BY <1>2, <1>8 DEF Enter, AccountRows
  <2> QED BY <1>3, <1>5, <1>6, <1>8, <2>1, <2>2 DEF Enter
<1>9. CASE VerifyEmail(k) \/ UnlockAccount(k) \/ \E p \in Passwords : AcceptInvitation(k, p)
  <2>1. /\ account' \in AccountRows /\ account'.active = account.active
        /\ account'.secret = account.secret /\ account'.mfaEnabled = account.mfaEnabled
        /\ \/ account'.failed = 0 /\ ~account'.locked
           \/ account'.failed = account.failed /\ account'.locked = account.locked
    <3>1. CASE VerifyEmail(k)
      BY <1>2, <3>1 DEF VerifyEmail, AccountRows
    <3>2. CASE UnlockAccount(k)
      BY <1>2, <3>2 DEF UnlockAccount, AccountRows
    <3>3. ASSUME NEW p \in Passwords, AcceptInvitation(k, p)
          PROVE  /\ account' \in AccountRows /\ account'.active = account.active
                 /\ account'.secret = account.secret /\ account'.mfaEnabled = account.mfaEnabled
                 /\ account'.failed = account.failed /\ account'.locked = account.locked
      BY <1>2, <3>3 DEF AcceptInvitation, AccountRows
    <3> QED BY <1>9, <3>1, <3>2, <3>3
  <2>2. /\ Answers(k)
        /\ UNCHANGED <<session, token, code, failures, confirmed, replaced, since, late>>
    BY <1>9 DEF VerifyEmail, UnlockAccount, AcceptInvitation
  <2>3. "idle" \notin Opening
    BY DEF Opening
  <2> QED BY <1>2, <1>3, <1>5, <1>6, <2>1, <2>2, <2>3
<1>10. ASSUME NEW r \in CallRecords, request' = [request EXCEPT ![k] = r],
              r.pc \in {"idle", "apply"},
              session' \in [Sessions -> {"none", "revoked"} \cup AccountTenants],
              since' \in SUBSET Sessions, late' \in SUBSET since',
              since \subseteq since', late \subseteq late',
              \A s \in Sessions : session'[s] \in AccountTenants =>
                \/ session[s] \in AccountTenants
                \/ s \in since' /\ (~account.active => s \in late'),
              token' \in [Tokens -> [purpose : Purposes, state : {"none", "unused", "used"}]],
              UNCHANGED <<account, code, failures, confirmed, replaced>>
       PROVE  AccountInv'
  <2>1. GoodCalls' /\ request' \in [AccountCalls -> CallRecords]
    <3>1. failures' \in 0 .. Threshold /\ failures <= failures' /\ r.pc \notin Opening
          /\ r.pc \notin {"count", "issue", "confirm"}
          /\ account'.active = account.active /\ account'.secret = account.secret
          /\ UNCHANGED <<confirmed, replaced>>
      BY <1>2, <1>10 DEF Opening
    <3> QED BY <1>1, <1>10, <3>1, CallGoesOn
  <2>2. AccountTypeOK'
    BY <1>1, <1>10, <2>1 DEF AccountTypeOK, CallRecords
  <2>3. GoodAccount'
    BY <1>1, <1>2, <1>10
       DEF GoodAccount, LockedAfterFailures, EnabledSecretIsConfirmed, EndedIsOut, LoggedIn
  <2> QED BY <2>1, <2>2, <2>3 DEF AccountInv
<1>11. /\ session \in [Sessions -> {"none", "revoked"} \cup AccountTenants]
       /\ since \in SUBSET Sessions /\ late \in SUBSET since
       /\ token \in [Tokens -> [purpose : Purposes, state : {"none", "unused", "used"}]]
  BY <1>1 DEF AccountTypeOK
<1>12. CASE UseToken(k)
  <2>1. token' \in [Tokens -> [purpose : Purposes, state : {"none", "unused", "used"}]]
    BY <1>11, <1>12 DEF UseToken
  <2>2. "apply" \in CallStates
    BY DEF CallStates
  <2> QED BY <1>3, <1>10, <1>11, <1>12, <2>1, <2>2 DEF UseToken
<1>13. ASSUME NEW t \in Tokens, IssueToken(k, t) PROVE AccountInv'
  <2>1. request[k].thing \in Purposes
    BY <1>1, <1>13 DEF GoodCalls, GoodCall, IssueToken
  <2>2. token' \in [Tokens -> [purpose : Purposes, state : {"none", "unused", "used"}]]
    BY <1>11, <1>13, <2>1 DEF IssueToken
  <2> QED BY <1>2, <1>3, <1>10, <1>11, <1>13, <2>2 DEF IssueToken
<1>14. CASE RevokeSession(k)
  <2>1. /\ session' \in [Sessions -> {"none", "revoked"} \cup AccountTenants]
        /\ \A s \in Sessions :
             session'[s] \in AccountTenants => session[s] \in AccountTenants
    BY <1>11, <1>14, AccountAssumption DEF RevokeSession
  <2> QED BY <1>2, <1>3, <1>10, <1>11, <1>14, <2>1 DEF RevokeSession
<1>15. ASSUME NEW s \in Sessions, NEW t \in AccountTenants,
              OpenSession(k, s, t) \/ Switch(k, s, t)
       PROVE  AccountInv'
  <2>1. account.active \/ request[k].ended = AccountTenants
    BY <1>1, <1>15 DEF GoodCalls, GoodCall, OpenSession, Switch, In, Opening
  <2>2. /\ session' \in [Sessions -> {"none", "revoked"} \cup AccountTenants]
        /\ \A x \in Sessions :
             session'[x] \in AccountTenants => session[x] \in AccountTenants \/ x = s
        /\ Answers(k) /\ since' = since \cup {s}
        /\ late' = late \cup {x \in {s} : t \in request[k].ended}
        /\ UNCHANGED <<account, token, code, failures, confirmed, replaced>>
    <3>1. CASE OpenSession(k, s, t)
      BY <1>11, <3>1, AccountAssumption DEF OpenSession, Opened
    <3>2. CASE Switch(k, s, t)
      BY <1>11, <3>2, AccountAssumption DEF Switch, Opened
    <3> QED BY <1>15, <3>1, <3>2
  <2>3. /\ since' \in SUBSET Sessions /\ late' \in SUBSET since'
        /\ since \subseteq since' /\ late \subseteq late'
        /\ s \in since' /\ (~account.active => s \in late')
    BY <1>11, <2>1, <2>2
  <2> QED BY <1>2, <1>3, <1>10, <1>11, <2>2, <2>3
<1> QED BY <1>4, <1>7, <1>8, <1>9, <1>12, <1>13, <1>14, <1>15

(***************************************************************************)
(* Calls that end sessions.                                                *)
(***************************************************************************)
LEMMA EndingCalls ==
  ASSUME AccountInv,
         \/ Deactivate \/ \E t \in AccountTenants : RevokeAll(t)
         \/ \E k \in AccountCalls, p \in Passwords : ResetPassword(k, p)
  PROVE  AccountInv'
<1>1. AccountTypeOK /\ GoodCalls /\ GoodAccount
  BY DEF AccountInv
<1>2. /\ Threshold \in Nat /\ Threshold > 0 /\ failures \in 0 .. Threshold
      /\ failures <= failures /\ 0 \in 0 .. Threshold /\ account \in AccountRows
      /\ request \in [AccountCalls -> CallRecords] /\ NoRequest \in CallRecords
  BY <1>1, AccountTypes
<1>3. ASSUME NEW requests \in [AccountCalls -> CallRecords],
             \A k \in AccountCalls : requests[k] = request[k] \/ requests[k] = NoRequest,
             NEW tenants \in SUBSET AccountTenants, EndSessions(tenants, requests),
             account' \in AccountRows,
             account'.active => account.active,
             account.active => account'.active \/ tenants = AccountTenants,
             account'.secret = account.secret, account'.mfaEnabled = account.mfaEnabled,
             \/ account'.failed = 0 /\ ~account'.locked
             \/ account'.failed = account.failed /\ account'.locked = account.locked,
             UNCHANGED <<token, code, failures, confirmed, replaced>>
      PROVE  AccountInv'
  <2>2. /\ GoodCalls' /\ request' \in [AccountCalls -> CallRecords]
        /\ session' \in [Sessions -> {"none", "revoked"} \cup AccountTenants]
        /\ since' \in SUBSET Sessions /\ late' \in SUBSET since'
        /\ \A s \in Sessions : LoggedIn(s)' =>
             /\ LoggedIn(s) /\ session[s] \notin tenants
             /\ s \in since => s \in since' /\ (s \in late => s \in late')
    BY <1>1, <1>3, SessionsEnd
  <2>3. EndedIsOut'
    <3>1. ASSUME NEW s \in Sessions, LoggedIn(s)'
          PROVE  s \in since' /\ (~account'.active => s \in late')
      <4>1. LoggedIn(s) /\ session[s] \notin tenants
        BY <2>2, <3>1
      <4>2. tenants # AccountTenants
        BY <4>1 DEF LoggedIn
      <4> QED BY <1>1, <1>3, <2>2, <3>1, <4>1, <4>2 DEF GoodAccount, EndedIsOut
    <3> QED BY <3>1 DEF EndedIsOut
  <2>4. AccountTypeOK'
    BY <1>1, <1>3, <2>2 DEF AccountTypeOK, CallRecords
  <2>5. GoodAccount'
    BY <1>1, <1>2, <1>3, <2>3
       DEF GoodAccount, LockedAfterFailures, EnabledSecretIsConfirmed
  <2> QED BY <2>2, <2>4, <2>5 DEF AccountInv
<1>4. ASSUME NEW t \in AccountTenants, RevokeAll(t) PROVE AccountInv'
  <2>1. /\ {t} \in SUBSET AccountTenants /\ EndSessions({t}, request)
        /\ UNCHANGED <<token, code, failures, confirmed, replaced>>
        /\ account' = account
    BY <1>4 DEF RevokeAll
  <2>2. /\ account' \in AccountRows /\ account'.active = account.active
        /\ account'.secret = account.secret /\ account'.mfaEnabled = account.mfaEnabled
        /\ account'.failed = account.failed /\ account'.locked = account.locked
    BY <1>2, <2>1
  <2> QED BY <1>2, <1>3, <2>1, <2>2
<1>5. CASE Deactivate
  <2>1. /\ account' \in AccountRows /\ ~account'.active
        /\ account'.secret = account.secret /\ account'.mfaEnabled = account.mfaEnabled
        /\ account'.failed = account.failed /\ account'.locked = account.locked
        /\ EndSessions(AccountTenants, request) /\ AccountTenants \in SUBSET AccountTenants
        /\ UNCHANGED <<token, code, failures, confirmed, replaced>>
    BY <1>2, <1>5 DEF Deactivate, AccountRows
  <2> QED BY <1>2, <1>3, <2>1
<1>6. ASSUME NEW k \in AccountCalls, NEW p \in Passwords, ResetPassword(k, p)
      PROVE  AccountInv'
  <2> DEFINE requests == [request EXCEPT ![k] = NoRequest]
  <2>1. /\ requests \in [AccountCalls -> CallRecords]
        /\ \A j \in AccountCalls : requests[j] = request[j] \/ requests[j] = NoRequest
    BY <1>2
  <2>2. /\ account' \in AccountRows /\ account'.active = account.active
        /\ account'.secret = account.secret /\ account'.mfaEnabled = account.mfaEnabled
        /\ account'.failed = 0 /\ ~account'.locked
    BY <1>2, <1>6 DEF ResetPassword, AccountRows
  <2>3. /\ EndSessions(AccountTenants, requests) /\ AccountTenants \in SUBSET AccountTenants
        /\ UNCHANGED <<token, code, failures, confirmed, replaced>>
    BY <1>6 DEF ResetPassword
  <2> HIDE DEF requests
  <2> QED BY <1>3, <2>1, <2>2, <2>3
<1> QED BY <1>4, <1>5, <1>6

(***************************************************************************)
(* The second factor and the rest: a new secret disables the factor, so    *)
(* that what is enabled later is a secret for which a code was shown.      *)
(***************************************************************************)
LEMMA OtherCalls ==
  ASSUME AccountInv,
         \/ \E new \in Secrets : BeginMfa(new)
         \/ \E k \in AccountCalls : ConfirmMfa(k, RecoveryCodes) \/ Invite(k)
         \/ \E s \in Sessions : SessionExpires(s)
         \/ LockEnds
  PROVE  AccountInv'
<1>1. AccountTypeOK /\ GoodCalls /\ GoodAccount
  BY DEF AccountInv
<1>2. /\ Threshold \in Nat /\ Threshold > 0 /\ failures \in 0 .. Threshold
      /\ failures <= failures /\ 0 \in 0 .. Threshold /\ account \in AccountRows
      /\ request \in [AccountCalls -> CallRecords]
      /\ NoRequest \in CallRecords /\ NoRequest.pc = "idle"
  BY <1>1, AccountTypes
<1>3. ASSUME NEW new \in Secrets, BeginMfa(new) PROVE AccountInv'
  <2>1. /\ account' = [account EXCEPT !.secret = new, !.mfaEnabled = FALSE]
        /\ replaced' = replaced \cup {new : k \in {j \in AccountCalls : In(j, "confirm")}}
        /\ UNCHANGED <<session, token, code, request, failures, confirmed, since, late>>
    BY <1>3 DEF BeginMfa, EnabledAtEnrolment
  <2>2. /\ account' \in AccountRows /\ account'.secret = new /\ ~account'.mfaEnabled
        /\ account'.active = account.active /\ account'.locked = account.locked
        /\ account'.failed = account.failed
    BY <1>2, <2>1 DEF AccountRows
  <2>3. replaced' \in SUBSET Secrets
    BY <1>1, <2>1 DEF AccountTypeOK
  <2>4. AccountTypeOK'
    BY <1>1, <2>1, <2>2, <2>3 DEF AccountTypeOK
  <2>5. GoodCalls'
    BY <1>1, <2>1, <2>2 DEF GoodCalls, GoodCall, In
  <2>6. GoodAccount'
    BY <1>1, <2>1, <2>2
       DEF GoodAccount, LockedAfterFailures, EnabledSecretIsConfirmed, EndedIsOut, LoggedIn
  <2> QED BY <2>4, <2>5, <2>6 DEF AccountInv
<1>4. ASSUME NEW k \in AccountCalls, ConfirmMfa(k, RecoveryCodes) PROVE AccountInv'
  <2>1. /\ account' = [account EXCEPT !.mfaEnabled = TRUE] /\ code' = RecoveryCodes
        /\ request' = [request EXCEPT ![k] = NoRequest]
        /\ account.secret \in confirmed \cup replaced
        /\ UNCHANGED <<session, token, failures, confirmed, replaced, since, late>>
    BY <1>1, <1>4 DEF ConfirmMfa, GoodCalls, GoodCall, Answers
  <2>2. /\ account' \in AccountRows /\ account'.secret = account.secret
        /\ account'.active = account.active /\ account'.locked = account.locked
        /\ account'.failed = account.failed
    BY <1>2, <2>1 DEF AccountRows
  <2>3. GoodCalls' /\ request' \in [AccountCalls -> CallRecords]
    <3>1. failures' \in 0 .. Threshold /\ failures <= failures' /\ "idle" \notin Opening
      BY <1>2, <2>1 DEF Opening
    <3> QED BY <1>1, <1>2, <2>1, <2>2, <3>1, CallGoesOn
  <2>4. AccountTypeOK'
    BY <1>1, <2>1, <2>2, <2>3 DEF AccountTypeOK, CallRecords
  <2>5. GoodAccount'
    BY <1>1, <2>1, <2>2
       DEF GoodAccount, LockedAfterFailures, EnabledSecretIsConfirmed, EndedIsOut, LoggedIn
  <2> QED BY <2>3, <2>4, <2>5 DEF AccountInv
<1>5. ASSUME NEW k \in AccountCalls, Invite(k) PROVE AccountInv'
  <2> DEFINE r == [pc |-> "issue", failed |-> 0, thing |-> "INVITATION", ended |-> {}]
  <2>1. /\ account' = [account EXCEPT !.active = TRUE]
        /\ request' = [request EXCEPT ![k] = r]
        /\ UNCHANGED <<session, token, code, failures, confirmed, replaced, since, late>>
    BY <1>5 DEF Invite, Begins
  <2>2. /\ r \in CallRecords /\ r.pc = "issue" /\ r.thing \in Purposes
    BY <1>2 DEF CallRecords, CallStates, Things, Purposes
  <2> HIDE DEF r
  <2>3. /\ account' \in AccountRows /\ account'.secret = account.secret
        /\ account'.active /\ account'.locked = account.locked
        /\ account'.mfaEnabled = account.mfaEnabled /\ account'.failed = account.failed
    BY <1>2, <2>1 DEF AccountRows
  <2>4. AccountTypeOK'
    BY <1>1, <1>2, <2>1, <2>2, <2>3 DEF AccountTypeOK, CallRecords
  <2>5. GoodCalls'
    BY <1>1, <1>2, <2>1, <2>2, <2>3 DEF GoodCalls, GoodCall, In, Opening
  <2>6. GoodAccount'
    BY <1>1, <2>1, <2>3
       DEF GoodAccount, LockedAfterFailures, EnabledSecretIsConfirmed, EndedIsOut, LoggedIn
  <2> QED BY <2>4, <2>5, <2>6 DEF AccountInv
<1>6. ASSUME NEW s \in Sessions, SessionExpires(s) PROVE AccountInv'
  BY <1>1, <1>6
     DEF SessionExpires, AccountInv, AccountTypeOK, GoodCalls, GoodCall, In, GoodAccount,
         LockedAfterFailures, EnabledSecretIsConfirmed, EndedIsOut, LoggedIn
<1>7. CASE LockEnds
  <2>1. /\ account' \in AccountRows /\ account'.secret = account.secret
        /\ account'.active = account.active /\ ~account'.locked
        /\ account'.mfaEnabled = account.mfaEnabled /\ account'.failed = account.failed
    BY <1>2, <1>7 DEF LockEnds, AccountRows
  <2> QED BY <1>1, <1>7, <2>1
          DEF LockEnds, AccountInv, AccountTypeOK, GoodCalls, GoodCall, In, GoodAccount,
              LockedAfterFailures, EnabledSecretIsConfirmed, EndedIsOut, LoggedIn
<1> QED BY <1>3, <1>4, <1>5, <1>6, <1>7

LEMMA AccountInitInv == AccountInit => AccountInv
<1> SUFFICES ASSUME AccountInit PROVE AccountInv
  OBVIOUS
<1> USE AccountAssumption DEF AccountInit
<1>1. PICK p \in Passwords \cup {Nobody} : account = NewAccount(p)
  OBVIOUS
<1>2. account \in AccountRows /\ account.active /\ account.failed = 0 /\ ~account.locked
      /\ ~account.mfaEnabled
  BY <1>1 DEF AccountRows, NewAccount
<1>3. NoRequest \in CallRecords /\ NoRequest.pc = "idle"
  BY DEF CallRecords, NoRequest, CallStates, Things
<1>4. AccountTypeOK
  BY <1>2, <1>3 DEF AccountTypeOK, CallRecords, Purposes
<1>5. GoodCalls
  BY <1>3 DEF GoodCalls, GoodCall, In, Opening
<1>6. GoodAccount
  BY <1>2 DEF GoodAccount, LockedAfterFailures, EnabledSecretIsConfirmed, EndedIsOut, LoggedIn
<1> QED BY <1>4, <1>5, <1>6 DEF AccountInv

LEMMA AccountInductiveInv == AccountInv /\ [AccountNext]_accountVars => AccountInv'
<1> SUFFICES ASSUME AccountInv, [AccountNext]_accountVars PROVE AccountInv'
  OBVIOUS
<1>1. ASSUME NEW k \in AccountCalls, AuthRoutes(k) PROVE AccountInv'
  BY <1>1, ReadingCalls, WritingCalls, EndingCalls DEF AuthRoutes
<1>2. ASSUME NEW k \in AccountCalls, MeRoutes(k) \/ UserRoutes(k) \/ Refused(k)
      PROVE  AccountInv'
  BY <1>2, ReadingCalls, WritingCalls, EndingCalls, OtherCalls DEF MeRoutes, UserRoutes
<1>3. CASE LockEnds \/ \E s \in Sessions : SessionExpires(s)
  BY <1>3, OtherCalls
<1>4. CASE UNCHANGED accountVars
  BY <1>4 DEF accountVars, AccountInv, AccountTypeOK, GoodCalls, GoodCall, In, GoodAccount,
              LockedAfterFailures, EnabledSecretIsConfirmed, EndedIsOut, LoggedIn
<1> QED BY <1>1, <1>2, <1>3, <1>4 DEF AccountNext

\* The inductive invariant holds in every reachable state.
LEMMA AccountInvariant == AccountSpec => []AccountInv
BY AccountInitInv, AccountInductiveInv, PTL DEF AccountSpec

(***************************************************************************)
(* authenticateUser locks an account only after Threshold wrong passwords. *)
(***************************************************************************)
THEOREM LockIsEarned == AccountSpec => []LockedAfterFailures
<1>1. AccountInv => LockedAfterFailures
  BY DEF AccountInv, GoodAccount
<1> QED BY <1>1, AccountInvariant, PTL

(***************************************************************************)
(* The secret a login is held to is one for which its user showed a code,  *)
(* or replaced one under a confirmation in progress.                       *)
(***************************************************************************)
THEOREM FactorIsConfirmed == AccountSpec => []EnabledSecretIsConfirmed
<1>1. AccountInv => EnabledSecretIsConfirmed
  BY DEF AccountInv, GoodAccount
<1> QED BY <1>1, AccountInvariant, PTL

(***************************************************************************)
(* What is live was opened after the last reset, deactivation or "log out  *)
(* everywhere" that concerned its tenant; deactivateUser leaves no session *)
(* but those of calls that were in progress.                               *)
(***************************************************************************)
THEOREM SessionsAreEnded == AccountSpec => []EndedIsOut
<1>1. AccountInv => EndedIsOut
  BY DEF AccountInv, GoodAccount
<1> QED BY <1>1, AccountInvariant, PTL
-----------------------------------------------------------------------------
(***************************************************************************)
(* Installation access.  The trail accounts for every role and every       *)
(* access there is, and so for what a request once read of them; it only   *)
(* grows, so what is taken away later takes no explanation away.           *)
(***************************************************************************)
\* What explains that u reached s: a role, or access to it or, where the route is
\* checked by key, to a site of its tenant that answers to its key.
OnAccount(u, s, byKey) ==
  \/ [kind |-> "ROLE_ASSIGNED", of |-> <<<<s.tenant, u>>, manager>>] \in OnRecord
  \/ \E x \in Plants :
       /\ [kind |-> "ACCESS_GRANTED", of |-> <<<<s.tenant, u>>, x>>] \in OnRecord
       /\ x = s \/ (byKey /\ s.key \in {x, x.key})
ReachedOnRecord ==
  \A q \in Requests : \A s \in reached[q] :
    \/ route[q].user \in PlatformUsers
    \/ OnAccount(route[q].user, s, route[q].next \in {"site", "stream"})

Assigned(t, u) == [kind |-> "ROLE_ASSIGNED", of |-> <<<<t, u>>, manager>>] \in OnRecord
Granted(t, u, s) == [kind |-> "ACCESS_GRANTED", of |-> <<<<t, u>>, s>>] \in OnRecord

RouteRecords ==
  [pc : {"routed", "check", "site", "stream", "installations", "devices",
         "recommendations", "feedback", "done"},
   tenant : {m[1] : m \in Members}, user : {m[2] : m \in Members}, all : BOOLEAN,
   asked : Tenants, product : {s.product : s \in Plants} \cup {NoRef},
   ref : Refs \cup {NoRef},
   next : {"done", "site", "stream", "installations", "devices", "recommendations", "feedback"}]
ChangeRecords == [pc : {"write", "audit"}, event : Grants]

AccessTypes ==
  /\ roles \subseteq {<<m[1], m[2], r>> : m \in Members, r \in Roles}
  /\ access \subseteq {<<m[2], s>> : m \in Members, s \in Plants}
  /\ change \in [Changes -> {NoChange} \cup ChangeRecords]
  /\ route \in [Requests -> {NewRequest} \cup RouteRecords]
  /\ reached \in [Requests -> SUBSET Plants]

\* Who is a manager, or has access, has it on record.
RightsOnRecord ==
  /\ \A m \in Members : <<m[1], m[2], manager>> \in roles => Assigned(m[1], m[2])
  /\ \A m \in Members, s \in Plants : <<m[2], s>> \in access => Granted(s.tenant, m[2], s)

\* Access is granted to a site of the membership's tenant.
GrantsFit ==
  \A c \in Changes :
    change[c].pc = "write" /\ change[c].event.kind = "ACCESS_GRANTED" =>
      change[c].event.of[2].tenant = change[c].event.of[1][1]

\* Why a request in state r is where it is.
Justified(r) ==
  /\ r.all => r.user \in PlatformUsers \/ Assigned(r.tenant, r.user)
  /\ r.user \in PlatformUsers \/ r.asked = r.tenant
  /\ r.pc \in {"site", "stream"} =>
       /\ r.next = r.pc
       /\ r.all \/ \E x \in Plants : Granted(r.tenant, r.user, x) /\ r.ref \in {x, x.key}
  /\ r.pc = "feedback" => r.all \/ Granted(r.tenant, r.user, r.ref)

RoutesJustified ==
  \A q \in Requests :
    /\ route[q] # NewRequest => Justified(route[q])
    /\ route[q].pc \in {"new", "routed"} => reached[q] = {}

AccessInv ==
  AccessTypes /\ RightsOnRecord /\ GrantsFit /\ RoutesJustified /\ ReachedOnRecord

\* Events stay on record.
LEMMA RecordGrows ==
  ASSUME AccessInv, OnRecord \subseteq OnRecord'
  PROVE  /\ \A t, u : Assigned(t, u) => Assigned(t, u)'
         /\ \A t, u, s : Granted(t, u, s) => Granted(t, u, s)'
BY DEF Assigned, Granted

LEMMA AccessInitInv == AccessInit => AccessInv
<1> SUFFICES ASSUME AccessInit PROVE AccessInv
  OBVIOUS
<1> USE DEF AccessInit
<1>1. AccessTypes
  BY DEF AccessTypes, Roles
<1>2. RightsOnRecord
  BY AccessAssumption DEF RightsOnRecord
<1>3. GrantsFit /\ RoutesJustified /\ ReachedOnRecord
  BY DEF GrantsFit, NoChange, RoutesJustified, NewRequest, ReachedOnRecord
<1> QED BY <1>1, <1>2, <1>3 DEF AccessInv

(***************************************************************************)
(* Administration.                                                         *)
(***************************************************************************)
\* Steps of administrators keep what requests rely on.
LEMMA RequestsUnaffected ==
  ASSUME AccessInv, OnRecord \subseteq OnRecord', UNCHANGED <<route, reached>>
  PROVE  RoutesJustified' /\ ReachedOnRecord'
<1>1. RoutesJustified /\ ReachedOnRecord
  BY DEF AccessInv
<1>2. /\ \A t, u : Assigned(t, u) => Assigned(t, u)'
      /\ \A t, u, s : Granted(t, u, s) => Granted(t, u, s)'
  BY RecordGrows
<1>3. RoutesJustified'
  BY <1>1, <1>2 DEF RoutesJustified, Justified
<1>4. \A u, s, byKey : OnAccount(u, s, byKey) => OnAccount(u, s, byKey)'
  BY DEF OnAccount
<1>5. ReachedOnRecord'
  BY <1>1, <1>4 DEF ReachedOnRecord
<1> QED BY <1>3, <1>5

LEMMA BeginInv ==
  ASSUME AccessInv, NEW c \in Changes, NEW event \in Grants, Begin(c, event),
         event.kind = "ACCESS_GRANTED" => event.of[2].tenant = event.of[1][1]
  PROVE  AccessInv'
<1> DEFINE new == [pc |-> "write", event |-> event]
<1>1. AccessTypes /\ RightsOnRecord /\ GrantsFit
  BY DEF AccessInv
<1>2. /\ change[c] = NoChange /\ change' = [change EXCEPT ![c] = new]
      /\ UNCHANGED <<roles, access, trail, lost, route, reached>>
  BY DEF Begin
<1>3. new \in ChangeRecords /\ new.pc = "write" /\ new.event = event
  BY DEF ChangeRecords
<1> HIDE DEF new
<1>4. AccessTypes'
  BY <1>1, <1>2, <1>3 DEF AccessTypes
<1>5. \A d \in Changes : change'[d] = IF d = c THEN new ELSE change[d]
  BY <1>1, <1>2 DEF AccessTypes
<1>6. OnRecord' = OnRecord
  BY <1>2, <1>3, <1>5 DEF OnRecord, NoChange
<1>7. RightsOnRecord'
  BY <1>1, <1>2, <1>6 DEF RightsOnRecord, Assigned, Granted
<1>8. GrantsFit'
  BY <1>1, <1>3, <1>5 DEF GrantsFit
<1> QED BY <1>2, <1>4, <1>6, <1>7, <1>8, RequestsUnaffected DEF AccessInv

LEMMA WriteRowInv ==
  ASSUME AccessInv, NEW c \in Changes, WriteRow(c)
  PROVE  AccessInv'
<1> DEFINE event == change[c].event
           m == event.of[1]
           role == <<m[1], m[2], event.of[2]>>
           new == [pc |-> "audit", event |-> event]
<1>1. AccessTypes /\ RightsOnRecord /\ GrantsFit
  BY DEF AccessInv
<1>2. change[c].pc = "write" /\ change[c] \in ChangeRecords
  BY <1>1 DEF WriteRow, AccessTypes, NoChange
<1>3. /\ event \in Grants /\ new \in ChangeRecords /\ new.pc = "audit" /\ new.event = event
      /\ [change[c] EXCEPT !.pc = "audit"] = new
  BY <1>2 DEF ChangeRecords
<1>4. /\ change' = [change EXCEPT ![c] = new]
      /\ roles' = CASE event.kind = "ROLE_ASSIGNED" -> roles \cup {role}
                    [] event.kind = "ROLE_REMOVED" -> roles \ {role}
                    [] OTHER -> roles
      /\ access' = IF event.kind = "ACCESS_GRANTED"
                   THEN access \cup {<<m[2], event.of[2]>>} ELSE access
      /\ UNCHANGED <<trail, lost, route, reached>>
  BY <1>1, <1>3 DEF WriteRow, AccessTypes
<1>5. \/ /\ event.kind \in {"ROLE_ASSIGNED", "ROLE_REMOVED"}
         /\ \E n \in Members, r \in Roles : event.of = <<n, r>>
      \/ /\ event.kind = "ACCESS_GRANTED"
         /\ \E n \in Members, s \in Plants : event.of = <<n, s>>
  BY <1>3 DEF Grants
<1>6. event.kind = "ACCESS_GRANTED" => event.of[2].tenant = m[1]
  BY <1>1, <1>2 DEF GrantsFit
<1>7. event = [kind |-> event.kind, of |-> event.of]
  BY <1>3 DEF Grants
<1> HIDE DEF event, new
<1>8. \A d \in Changes : change'[d] = IF d = c THEN new ELSE change[d]
  BY <1>1, <1>4 DEF AccessTypes
<1>9. OnRecord \subseteq OnRecord' /\ event \in OnRecord'
  BY <1>2, <1>3, <1>4, <1>8 DEF OnRecord
<1>10. /\ \A t, u : Assigned(t, u) => Assigned(t, u)'
       /\ \A t, u, s : Granted(t, u, s) => Granted(t, u, s)'
  BY <1>9, RecordGrows
<1>11. ASSUME event.kind \in {"ROLE_ASSIGNED", "ROLE_REMOVED"}
       PROVE  AccessTypes' /\ RightsOnRecord'
  <2>1. PICK n \in Members, r \in Roles : event.of = <<n, r>>
    BY <1>5, <1>11
  <2>2. m = n /\ role = <<n[1], n[2], r>> /\ access' = access
    BY <1>4, <1>11, <2>1
  <2>3. AccessTypes'
    BY <1>1, <1>3, <1>4, <1>11, <2>2 DEF AccessTypes
  <2>4. ASSUME NEW k \in Members, <<k[1], k[2], manager>> \in roles'
        PROVE  Assigned(k[1], k[2])'
    <3>1. CASE <<k[1], k[2], manager>> \in roles
      BY <1>1, <1>10, <3>1 DEF RightsOnRecord
    <3>2. CASE <<k[1], k[2], manager>> \notin roles
      <4>1. event.kind = "ROLE_ASSIGNED" /\ <<k[1], k[2], manager>> = <<n[1], n[2], r>>
        BY <1>4, <1>11, <2>2, <2>4, <3>2
      <4>2. event = [kind |-> "ROLE_ASSIGNED", of |-> <<<<k[1], k[2]>>, manager>>]
        BY <1>7, <2>1, <4>1, AccessAssumption
      <4> QED BY <1>9, <4>2 DEF Assigned
    <3> QED BY <3>1, <3>2
  <2>5. RightsOnRecord'
    BY <1>1, <1>10, <2>2, <2>4 DEF RightsOnRecord
  <2> QED BY <2>3, <2>5
<1>12. ASSUME event.kind = "ACCESS_GRANTED" PROVE AccessTypes' /\ RightsOnRecord'
  <2>1. PICK n \in Members, x \in Plants : event.of = <<n, x>>
    BY <1>5, <1>12
  <2>2. /\ m = n /\ x.tenant = n[1] /\ roles' = roles
        /\ access' = access \cup {<<n[2], x>>}
    BY <1>4, <1>6, <1>12, <2>1
  <2>3. AccessTypes'
    BY <1>1, <1>3, <1>4, <2>2 DEF AccessTypes
  <2>4. ASSUME NEW k \in Members, NEW s \in Plants, <<k[2], s>> \in access'
        PROVE  Granted(s.tenant, k[2], s)'
    <3>1. CASE <<k[2], s>> \in access
      BY <1>1, <1>10, <3>1 DEF RightsOnRecord
    <3>2. CASE <<k[2], s>> = <<n[2], x>>
      <4>1. n = <<s.tenant, k[2]>> /\ x = s
        BY <2>2, <3>2, AccessAssumption
      <4>2. event = [kind |-> "ACCESS_GRANTED", of |-> <<<<s.tenant, k[2]>>, s>>]
        BY <1>7, <1>12, <2>1, <4>1
      <4> QED BY <1>9, <4>2 DEF Granted
    <3> QED BY <2>2, <2>4, <3>1, <3>2
  <2>5. RightsOnRecord'
    BY <1>1, <1>10, <2>2, <2>4 DEF RightsOnRecord
  <2> QED BY <2>3, <2>5
<1>13. GrantsFit'
  BY <1>1, <1>3, <1>8 DEF GrantsFit
<1>14. AccessTypes' /\ RightsOnRecord'
  BY <1>5, <1>11, <1>12
<1> QED BY <1>4, <1>9, <1>13, <1>14, RequestsUnaffected DEF AccessInv

LEMMA ChangeEnds ==
  ASSUME AccessInv, NEW c \in Changes, WriteEvent(c) \/ ChangeFails(c)
  PROVE  AccessInv'
<1>1. AccessTypes /\ RightsOnRecord /\ GrantsFit
  BY DEF AccessInv
<1>2. /\ change' = [change EXCEPT ![c] = NoChange]
      /\ UNCHANGED <<roles, access, route, reached>>
      /\ trail \subseteq trail' /\ lost \subseteq lost'
      /\ change[c].pc = "audit" => change[c].event \in trail' \cup lost'
  BY DEF WriteEvent, ChangeFails
<1>3. AccessTypes'
  BY <1>1, <1>2 DEF AccessTypes
<1>4. \A d \in Changes : change'[d] = IF d = c THEN NoChange ELSE change[d]
  BY <1>1, <1>2 DEF AccessTypes
<1>5. OnRecord \subseteq OnRecord'
  BY <1>2, <1>4 DEF OnRecord
<1>6. RightsOnRecord'
  BY <1>1, <1>2, <1>5, RecordGrows DEF RightsOnRecord
<1>7. GrantsFit'
  BY <1>1, <1>4 DEF GrantsFit, NoChange
<1> QED BY <1>2, <1>3, <1>5, <1>6, <1>7, RequestsUnaffected DEF AccessInv

(***************************************************************************)
(* Requests: one moves to a state that is justified, and reaches only      *)
(* sites that are explained.                                               *)
(***************************************************************************)
LEMMA RequestMoves ==
  ASSUME AccessInv, UNCHANGED administration, NEW q \in Requests, NEW r \in RouteRecords,
         NEW sites \in SUBSET Plants,
         route' = [route EXCEPT ![q] = r], Justified(r),
         reached' = [reached EXCEPT ![q] = reached[q] \cup sites],
         r.pc = "routed" => reached[q] \cup sites = {},
         \/ reached[q] = {}
         \/ r.user = route[q].user /\ r.next = route[q].next,
         \A s \in sites : \/ r.user \in PlatformUsers
                          \/ OnAccount(r.user, s, r.next \in {"site", "stream"})
  PROVE  AccessInv'
<1>1. AccessTypes /\ RightsOnRecord /\ GrantsFit /\ RoutesJustified /\ ReachedOnRecord
  BY DEF AccessInv
<1>2. UNCHANGED <<roles, access, trail, change, lost>>
  BY DEF administration
<1>3. OnRecord' = OnRecord
  BY <1>2 DEF OnRecord
<1>4. AccessTypes'
  BY <1>1, <1>2 DEF AccessTypes
<1>5. RightsOnRecord' /\ GrantsFit'
  BY <1>1, <1>2, <1>3 DEF RightsOnRecord, GrantsFit, Assigned, Granted
<1>6. \A p \in Requests : /\ route'[p] = IF p = q THEN r ELSE route[p]
                          /\ reached'[p] = IF p = q THEN reached[q] \cup sites ELSE reached[p]
  BY <1>1 DEF AccessTypes
<1>7. r.pc # "new"
  BY DEF RouteRecords
<1>8. /\ \A t, u : Assigned(t, u)' <=> Assigned(t, u)
      /\ \A t, u, s : Granted(t, u, s)' <=> Granted(t, u, s)
      /\ \A u, s, byKey : OnAccount(u, s, byKey)' <=> OnAccount(u, s, byKey)
  BY <1>3 DEF Assigned, Granted, OnAccount
<1>9. RoutesJustified'
  <2>1. ASSUME NEW p \in Requests
        PROVE  /\ route'[p] # NewRequest => Justified(route[p])'
               /\ route'[p].pc \in {"new", "routed"} => reached'[p] = {}
    <3>1. CASE p = q
      <4>1. route'[p] = r
        BY <1>6, <3>1
      <4>2. Justified(route[p])'
        BY <1>8, <4>1 DEF Justified
      <4> QED BY <1>6, <1>7, <3>1, <4>1, <4>2
    <3>2. CASE p # q
      <4>1. route'[p] = route[p] /\ reached'[p] = reached[p]
        BY <1>6, <3>2
      <4>2. Justified(route[p]) => Justified(route[p])'
        BY <1>8, <4>1 DEF Justified
      <4> QED BY <1>1, <4>1, <4>2 DEF RoutesJustified
    <3> QED BY <3>1, <3>2
  <2> QED BY <2>1 DEF RoutesJustified
<1>10. ReachedOnRecord'
  <2> SUFFICES ASSUME NEW p \in Requests, NEW s \in reached'[p]
               PROVE  \/ route'[p].user \in PlatformUsers
                      \/ OnAccount(route'[p].user, s, route'[p].next \in {"site", "stream"})
    BY <1>8 DEF ReachedOnRecord
  <2>1. CASE p = q
    <3>1. route'[p] = r /\ reached'[p] = reached[q] \cup sites
      BY <1>6, <2>1
    <3>2. CASE s \in sites
      BY <3>1, <3>2
    <3>3. CASE s \in reached[q]
      BY <1>1, <3>1, <3>3 DEF ReachedOnRecord
    <3> QED BY <3>1, <3>2, <3>3
  <2>2. CASE p # q
    BY <1>1, <1>6, <2>2 DEF ReachedOnRecord
  <2> QED BY <2>1, <2>2
<1> QED BY <1>4, <1>5, <1>9, <1>10 DEF AccessInv

LEMMA AuthenticateInv ==
  ASSUME AccessInv, NEW q \in Requests, NEW m \in Members, Authenticate(q, m)
  PROVE  AccessInv'
<1> DEFINE r == [pc |-> "routed", tenant |-> m[1], user |-> m[2],
                 all |-> Unrestricted(m[1], m[2]), asked |-> m[1], product |-> NoRef,
                 ref |-> NoRef, next |-> "done"]
<1>1. AccessTypes /\ RightsOnRecord /\ RoutesJustified
  BY DEF AccessInv
<1>2. /\ route' = [route EXCEPT ![q] = r] /\ route[q] = NewRequest
      /\ UNCHANGED administration /\ reached' = reached
  BY DEF Authenticate
<1>3. Unrestricted(m[1], m[2]) \in BOOLEAN
  BY DEF Unrestricted
<1>4. r \in RouteRecords /\ r.pc = "routed"
  BY <1>3 DEF RouteRecords, Tenants
<1>5. reached[q] = {} /\ reached' = [reached EXCEPT ![q] = reached[q] \cup {}]
  BY <1>1, <1>2 DEF RoutesJustified, NewRequest, AccessTypes
<1>6. Unrestricted(m[1], m[2]) => m[2] \in PlatformUsers \/ Assigned(m[1], m[2])
  BY <1>1 DEF Unrestricted, RolesIn, RightsOnRecord
<1>7. Justified(r)
  BY <1>6 DEF Justified
<1> HIDE DEF r
<1> QED BY <1>2, <1>4, <1>5, <1>7, RequestMoves

\* Every route takes the request from "routed" to where its parameters are known.
LEMMA RoutesInv ==
  ASSUME AccessInv, NEW q \in Requests,
         NEW pc \in {"check", "installations", "devices", "recommendations"},
         NEW t \in Tenants,
         NEW product \in {s.product : s \in Plants} \cup {NoRef}, NEW ref \in Refs \cup {NoRef},
         NEW next \in {"site", "stream", "installations", "devices", "recommendations",
                       "feedback"},
         Routes(q, pc, t, product, ref, next)
  PROVE  AccessInv'
<1> DEFINE r == [route[q] EXCEPT !.pc = pc, !.asked = t, !.product = product,
                                 !.ref = ref, !.next = next]
<1>1. AccessTypes /\ RoutesJustified
  BY DEF AccessInv
<1>2. /\ route[q].pc = "routed" /\ Bound(q, t)
      /\ UNCHANGED administration /\ reached' = reached
  BY DEF Routes
<1>3. route[q] \in RouteRecords /\ route[q] # NewRequest
  BY <1>1, <1>2 DEF AccessTypes, NewRequest
<1>4. route' = [route EXCEPT ![q] = r]
  BY <1>1, <1>3 DEF Routes, AccessTypes
<1>5. /\ r.pc = pc /\ r.asked = t /\ r.all = route[q].all
      /\ r.user = route[q].user /\ r.tenant = route[q].tenant
  BY <1>3 DEF RouteRecords
<1> DEFINE r1 == [route[q] EXCEPT !.pc = pc]
           r2 == [r1 EXCEPT !.asked = t]
           r3 == [r2 EXCEPT !.product = product]
           r4 == [r3 EXCEPT !.ref = ref]
           r5 == [r4 EXCEPT !.next = next]
<1>5a. r \in RouteRecords
  <2>1. r1 \in RouteRecords
    BY <1>3 DEF RouteRecords
  <2> HIDE DEF r1
  <2>2. r2 \in RouteRecords
    BY <2>1 DEF RouteRecords
  <2> HIDE DEF r2
  <2>3. r3 \in RouteRecords
    BY <2>2 DEF RouteRecords
  <2> HIDE DEF r3
  <2>4. r4 \in RouteRecords
    BY <2>3 DEF RouteRecords
  <2> HIDE DEF r4
  <2>5. r5 \in RouteRecords
    BY <2>4 DEF RouteRecords
  <2>6. r5 = r
    BY <1>3 DEF RouteRecords, r1, r2, r3, r4
  <2> QED BY <2>5, <2>6
<1> HIDE DEF r
<1>6. reached[q] = {} /\ reached' = [reached EXCEPT ![q] = reached[q] \cup {}]
  BY <1>1, <1>2 DEF RoutesJustified, AccessTypes
<1>7. Justified(route[q])
  BY <1>1, <1>3 DEF RoutesJustified
<1>8. Justified(r)
  BY <1>2, <1>5, <1>7 DEF Justified, Bound
<1> QED BY <1>2, <1>4, <1>5, <1>5a, <1>6, <1>8, RequestMoves

LEMMA ParametersFit ==
  ASSUME AccessInv, NEW q \in Requests, RouteNext(q)
  PROVE  AccessInv'
<1>1. \A s \in Plants : /\ s.product \in {x.product : x \in Plants} \cup {NoRef}
                        /\ s.key \in Refs /\ s \in Refs /\ s.tenant \in Tenants
  BY DEF Refs, Tenants
<1>2. route[q].pc = "routed" => route[q].tenant \in Tenants
  BY SMTT(40) DEF AccessInv, AccessTypes, RouteRecords, NewRequest, Tenants
<1>3. CASE Installations(q)
  BY ZenonT(60), <1>2, <1>3, RoutesInv DEF Installations, Routes
<1>4. ASSUME NEW ref \in Refs \cup {NoRef}, Devices(q, ref) PROVE AccessInv'
  <2>1. CASE ref = NoRef
    BY ZenonT(60), <1>2, <1>4, <2>1, RoutesInv DEF Devices, Routes
  <2>2. CASE ref # NoRef
    BY ZenonT(60), <1>2, <1>4, <2>2, RoutesInv DEF Devices, Routes
  <2> QED BY <2>1, <2>2
<1>5. ASSUME NEW t \in Tenants, NEW site_ \in Plants,
             \/ Telemetry(q, t, site_.product, site_.key)
             \/ Analysis(q, t, site_.product, site_.key)
             \/ Stream(q, t, site_.product, site_.key)
             \/ Feedback(q, t, site_)
      PROVE  AccessInv'
  BY <1>1, <1>5, RoutesInv DEF Telemetry, Analysis, Stream, Feedback
<1>6. ASSUME NEW t \in Tenants, NEW site_ \in Plants,
             NEW product \in {site_.product, NoRef}, NEW key \in {site_.key, NoRef},
             Recommendations(q, t, product, key)
      PROVE  AccessInv'
  <2>1. /\ product \in {x.product : x \in Plants} \cup {NoRef}
        /\ key \in Refs \cup {NoRef}
    BY <1>1
  <2> QED BY <1>6, <2>1, RoutesInv DEF Recommendations
<1> QED BY <1>3, <1>4, <1>5, <1>6 DEF RouteNext

LEMMA ChecksInv ==
  ASSUME AccessInv, NEW q \in Requests, Check(q) \/ CheckRecommendation(q)
  PROVE  AccessInv'
<1> DEFINE r == route[q]
<1>1. AccessTypes /\ RightsOnRecord /\ RoutesJustified
  BY DEF AccessInv
<1>2. r.pc = "check" /\ UNCHANGED administration /\ reached' = reached
  BY DEF Check, CheckRecommendation
<1>3. r \in RouteRecords /\ r # NewRequest /\ Justified(r)
  BY <1>1, <1>2 DEF AccessTypes, NewRequest, RoutesJustified
<1>4. r.user \in {m[2] : m \in Members} /\ r.ref \in Refs \cup {NoRef}
  BY <1>3 DEF RouteRecords
<1>5. ASSUME NEW pc \in {"done", "site", "stream", "installations", "devices",
                         "recommendations", "feedback"},
             route' = [route EXCEPT ![q].pc = pc],
             pc \in {"site", "stream"} =>
               /\ r.next = pc
               /\ r.all \/ \E x \in Plants : Granted(r.tenant, r.user, x) /\ r.ref \in {x, x.key},
             pc = "feedback" => r.all \/ Granted(r.tenant, r.user, r.ref)
      PROVE  AccessInv'
  <2> DEFINE new == [r EXCEPT !.pc = pc]
  <2>1. route' = [route EXCEPT ![q] = new]
    BY <1>1, <1>5 DEF AccessTypes
  <2>2. /\ new \in RouteRecords /\ new.pc = pc /\ new.all = r.all /\ new.user = r.user
        /\ new.tenant = r.tenant /\ new.asked = r.asked /\ new.next = r.next /\ new.ref = r.ref
    BY <1>3, <1>5 DEF RouteRecords
  <2> HIDE DEF new
  <2>3. Justified(new)
    BY <1>3, <1>5, <2>2 DEF Justified
  <2>4. reached' = [reached EXCEPT ![q] = reached[q] \cup {}]
    BY <1>1, <1>2 DEF AccessTypes
  <2>5. new.pc # "routed" /\ {} \in SUBSET Plants
    BY <1>5, <2>2
  <2> QED BY <1>2, <2>1, <2>2, <2>3, <2>4, <2>5, RequestMoves
<1>6. CASE Check(q)
  <2>1. /\ r.next # "feedback"
        /\ route' = [route EXCEPT ![q].pc =
             IF r.all \/ HasAccess(r.tenant, r.user, r.ref) THEN r.next ELSE "done"]
    BY <1>6 DEF Check
  <2>2. HasAccess(r.tenant, r.user, r.ref) =>
          \E x \in Plants : Granted(r.tenant, r.user, x) /\ r.ref \in {x, x.key}
    BY <1>1, <1>4 DEF HasAccess, RightsOnRecord
  <2>3. r.next \in {"done", "site", "stream", "installations", "devices", "recommendations"}
    BY <1>3, <2>1 DEF RouteRecords
  <2>4. CASE r.all \/ HasAccess(r.tenant, r.user, r.ref)
    BY <1>5, <2>1, <2>2, <2>3, <2>4
  <2>5. CASE ~(r.all \/ HasAccess(r.tenant, r.user, r.ref))
    BY <1>5, <2>1, <2>5
  <2> QED BY <2>4, <2>5
<1>7. CASE CheckRecommendation(q)
  <2>1. route' = [route EXCEPT ![q].pc =
          IF r.all \/ HasRecommendationAccess(r.tenant, r.user, r.ref)
          THEN "feedback" ELSE "done"]
    BY <1>7 DEF CheckRecommendation
  <2>2. HasRecommendationAccess(r.tenant, r.user, r.ref) => Granted(r.tenant, r.user, r.ref)
    <3> SUFFICES ASSUME <<r.user, r.ref>> \in access, r.ref.tenant = r.tenant
                 PROVE  Granted(r.tenant, r.user, r.ref)
      BY DEF HasRecommendationAccess
    <3>1. PICK m \in Members, s \in Plants : <<r.user, r.ref>> = <<m[2], s>>
      BY <1>1 DEF AccessTypes
    <3> QED BY <1>1, <3>1 DEF RightsOnRecord
  <2>3. CASE r.all \/ HasRecommendationAccess(r.tenant, r.user, r.ref)
    BY <1>5, <2>1, <2>2, <2>3
  <2>4. CASE ~(r.all \/ HasRecommendationAccess(r.tenant, r.user, r.ref))
    BY <1>5, <2>1, <2>4
  <2> QED BY <2>3, <2>4
<1> QED BY <1>6, <1>7

(***************************************************************************)
(* Queries.                                                                *)
(***************************************************************************)
LEMMA QueriesInv ==
  ASSUME AccessInv, NEW q \in Requests,
         \/ ReadSite(q) \/ Sends(q) \/ ListInstallations(q) \/ ListDevices(q)
         \/ ListRecommendations(q) \/ RecordFeedback(q)
  PROVE  AccessInv'
<1> DEFINE r == route[q]
<1>1. AccessTypes /\ RightsOnRecord /\ RoutesJustified
  BY DEF AccessInv
<1>2. r.pc \in {"site", "stream", "installations", "devices", "recommendations", "feedback"}
  BY DEF ReadSite, Sends, ListInstallations, ListDevices, ListRecommendations, RecordFeedback
<1>3. r \in RouteRecords /\ r # NewRequest /\ Justified(r)
  BY <1>1, <1>2 DEF AccessTypes, NewRequest, RoutesJustified
<1>4. r.user \in {m[2] : m \in Members}
  BY <1>3 DEF RouteRecords
<1>5. ASSUME NEW sites \in SUBSET Plants, NEW pc \in {"done", "stream"},
             Reaches(q, sites, pc), pc = "stream" => r.pc = "stream",
             \A s \in sites : \/ r.user \in PlatformUsers
                              \/ OnAccount(r.user, s, r.next \in {"site", "stream"})
      PROVE  AccessInv'
  <2> DEFINE new == [r EXCEPT !.pc = pc]
  <2>1. /\ route' = [route EXCEPT ![q] = new]
        /\ reached' = [reached EXCEPT ![q] = reached[q] \cup sites]
        /\ UNCHANGED administration
    BY <1>1, <1>5 DEF Reaches, AccessTypes
  <2>2. /\ new \in RouteRecords /\ new.pc = pc /\ new.all = r.all /\ new.user = r.user
        /\ new.tenant = r.tenant /\ new.asked = r.asked /\ new.next = r.next /\ new.ref = r.ref
    BY <1>3 DEF RouteRecords
  <2> HIDE DEF new
  <2>3. Justified(new)
    BY <1>3, <1>5, <2>2 DEF Justified
  <2> QED BY <1>5, <2>1, <2>2, <2>3, RequestMoves
<1>6. ASSUME NEW s \in Plants, s.tenant = r.asked, r.all
      PROVE  r.user \in PlatformUsers \/ OnAccount(r.user, s, r.next \in {"site", "stream"})
  BY <1>3, <1>6 DEF Justified, OnAccount, Assigned
<1>7. CASE ReadSite(q) \/ Sends(q)
  <2>1. ASSUME NEW s \in Named(q)
        PROVE  r.user \in PlatformUsers \/ OnAccount(r.user, s, r.next \in {"site", "stream"})
    <3>1. s \in Plants /\ s.tenant = r.asked /\ s.key = r.ref
      BY DEF Named
    <3>2. r.pc \in {"site", "stream"} /\ r.next \in {"site", "stream"}
      BY <1>3, <1>7 DEF ReadSite, Sends, Justified
    <3>3. CASE r.all
      BY <1>6, <3>1, <3>3
    <3>4. CASE ~r.all
      <4>1. PICK x \in Plants : Granted(r.tenant, r.user, x) /\ r.ref \in {x, x.key}
        BY <1>3, <3>2, <3>4 DEF Justified
      <4> QED BY <1>3, <3>1, <3>2, <4>1 DEF Justified, OnAccount, Granted
    <3> QED BY <3>3, <3>4
  <2>2. Named(q) \in SUBSET Plants
    BY DEF Named
  <2> QED BY <1>5, <1>7, <2>1, <2>2 DEF ReadSite, Sends
<1>8. CASE ListInstallations(q) \/ ListDevices(q) \/ ListRecommendations(q)
  <2>1. ASSUME NEW s \in InScope(q)
        PROVE  /\ s \in Plants
               /\ \/ r.user \in PlatformUsers
                  \/ OnAccount(r.user, s, r.next \in {"site", "stream"})
    <3>1. s \in Plants /\ s.tenant = r.asked /\ (r.all \/ <<r.user, s>> \in access)
      BY DEF InScope, Tenantwide
    <3>2. CASE r.all
      BY <1>6, <3>1, <3>2
    <3>3. CASE <<r.user, s>> \in access
      <4>1. Granted(s.tenant, r.user, s)
        BY <1>1, <1>4, <3>1, <3>3 DEF RightsOnRecord
      <4> QED BY <3>1, <4>1 DEF OnAccount, Granted
    <3> QED BY <3>1, <3>2, <3>3
  <2>2. \E sites \in SUBSET InScope(q) : Reaches(q, sites, "done")
    BY <1>8 DEF ListInstallations, ListDevices, ListRecommendations
  <2> QED BY <1>5, <2>1, <2>2
<1>9. CASE RecordFeedback(q)
  <2> DEFINE sites == {r.ref} \cap Tenantwide(q)
  <2>1. Reaches(q, sites, "done") /\ r.pc = "feedback"
    BY <1>9 DEF RecordFeedback
  <2>2. ASSUME NEW s \in sites
        PROVE  /\ s \in Plants
               /\ \/ r.user \in PlatformUsers
                  \/ OnAccount(r.user, s, r.next \in {"site", "stream"})
    <3>1. s \in Plants /\ s.tenant = r.asked /\ s = r.ref
      BY DEF Tenantwide
    <3>2. CASE r.all
      BY <1>6, <3>1, <3>2
    <3>3. CASE ~r.all
      BY <1>3, <2>1, <3>1, <3>3 DEF Justified, OnAccount, Granted
    <3> QED BY <3>1, <3>2, <3>3
  <2> QED BY <1>5, <2>1, <2>2
<1> QED BY <1>7, <1>8, <1>9

LEMMA AccessInductiveInv == AccessInv /\ [AccessNext]_accessVars => AccessInv'
<1> SUFFICES ASSUME AccessInv, [AccessNext]_accessVars PROVE AccessInv'
  OBVIOUS
<1>1. ASSUME NEW c \in Changes, NEW m \in Members, NEW r \in Roles,
             AssignRole(c, m, r) \/ RemoveRole(c, m, r)
      PROVE  AccessInv'
  <2>1. /\ [kind |-> "ROLE_ASSIGNED", of |-> <<m, r>>] \in Grants
        /\ [kind |-> "ROLE_REMOVED", of |-> <<m, r>>] \in Grants
    BY DEF Grants
  <2> QED BY <1>1, <2>1, BeginInv DEF AssignRole, RemoveRole
<1>2. ASSUME NEW c \in Changes, NEW m \in Members, NEW s \in Plants, GrantAccess(c, m, s)
      PROVE  AccessInv'
  <2>1. [kind |-> "ACCESS_GRANTED", of |-> <<m, s>>] \in Grants
    BY DEF Grants
  <2> QED BY <1>2, <2>1, BeginInv DEF GrantAccess
<1>3. ASSUME NEW c \in Changes, WriteRow(c) \/ WriteEvent(c) \/ ChangeFails(c)
      PROVE  AccessInv'
  BY <1>3, WriteRowInv, ChangeEnds
<1>4. ASSUME NEW q \in Requests, NEW m \in Members, Authenticate(q, m) PROVE AccessInv'
  BY <1>4, AuthenticateInv
<1>5. ASSUME NEW q \in Requests, RouteNext(q) PROVE AccessInv'
  BY <1>5, ParametersFit
<1>6. ASSUME NEW q \in Requests, Check(q) \/ CheckRecommendation(q) PROVE AccessInv'
  BY <1>6, ChecksInv
<1>7. ASSUME NEW q \in Requests,
             \/ ReadSite(q) \/ Sends(q) \/ ListInstallations(q) \/ ListDevices(q)
             \/ ListRecommendations(q) \/ RecordFeedback(q)
      PROVE  AccessInv'
  BY <1>7, QueriesInv
<1>8. CASE UNCHANGED accessVars
  <2>1. UNCHANGED <<roles, access, trail, change, lost, route, reached>>
    BY <1>8 DEF accessVars, administration
  <2>2. OnRecord' = OnRecord
    BY <2>1 DEF OnRecord
  <2> QED BY <2>1, <2>2, RequestsUnaffected
          DEF AccessInv, AccessTypes, RightsOnRecord, GrantsFit, Assigned, Granted
<1> QED BY <1>1, <1>2, <1>3, <1>4, <1>5, <1>6, <1>7, <1>8 DEF AccessNext

LEMMA AccessInvariant == AccessSpec => []AccessInv
BY AccessInitInv, AccessInductiveInv, PTL DEF AccessSpec

LEMMA ReachedExplained == AccessInv => ReachedIsExplained
<1>1. ASSUME NEW u, NEW s \in Plants, OnAccount(u, s, FALSE) PROVE Explained(u, s)
  BY <1>1 DEF OnAccount, Explained
<1>2. ASSUME AccessInv, NEW q \in Requests, route[q].next \notin {"site", "stream"},
             NEW s \in reached[q]
      PROVE  route[q].user \in PlatformUsers \/ Explained(route[q].user, s)
  <2>1. s \in Plants
    BY <1>2 DEF AccessInv, AccessTypes
  <2>2. (route[q].next \in {"site", "stream"}) = FALSE
    BY <1>2
  <2>3. \/ route[q].user \in PlatformUsers
        \/ OnAccount(route[q].user, s, route[q].next \in {"site", "stream"})
    BY <1>2 DEF AccessInv, ReachedOnRecord
  <2> QED BY <1>1, <2>1, <2>2, <2>3
<1> QED BY <1>2 DEF ReachedIsExplained, Accounted

(***************************************************************************)
(* Whatever the lists and the feedback route reached is explained by the   *)
(* audit trail, however administration overlaps with them.                 *)
(***************************************************************************)
THEOREM TrailExplains == AccessSpec => []ReachedIsExplained
<1> QED BY ReachedExplained, AccessInvariant, PTL

\* An external key names one site of its tenant, and is no site's id.
KeysNameOneSite ==
  \A s, x \in Plants : s.tenant = x.tenant /\ s.key \in {x, x.key} => s = x

\* The installation of a grant on record is one of the membership's tenant.
OfItsTenant(e) == e.kind = "ACCESS_GRANTED" => e.of[2].tenant = e.of[1][1]
GrantsOfTenant == \A e \in OnRecord : OfItsTenant(e)

LEMMA GrantsOfTenantInv ==
  AccessInv /\ GrantsOfTenant /\ [AccessNext]_accessVars => GrantsOfTenant'
<1> SUFFICES ASSUME AccessInv, GrantsOfTenant, [AccessNext]_accessVars
             PROVE  GrantsOfTenant'
  OBVIOUS
<1>1. change \in [Changes -> {NoChange} \cup ChangeRecords] /\ GrantsFit
  BY DEF AccessInv, AccessTypes
<1>2. ASSUME OnRecord' \subseteq OnRecord PROVE GrantsOfTenant'
  BY <1>2 DEF GrantsOfTenant, OfItsTenant
<1>3. ASSUME NEW c \in Changes, NEW event, Begin(c, event) PROVE GrantsOfTenant'
  BY <1>1, <1>2, <1>3 DEF Begin, OnRecord, NoChange
<1>4. ASSUME NEW c \in Changes, WriteRow(c) PROVE GrantsOfTenant'
  <2>1. OfItsTenant(change[c].event)
    BY <1>1, <1>4 DEF WriteRow, GrantsFit, OfItsTenant
  <2>2. \A d \in Changes : change'[d].event = change[d].event
    BY <1>1, <1>4 DEF WriteRow, ChangeRecords, NoChange
  <2>3. /\ \A d \in Changes : d # c => change'[d] = change[d]
        /\ UNCHANGED <<trail, lost>>
    BY <1>1, <1>4 DEF WriteRow
  <2>4. OnRecord' \subseteq OnRecord \cup {change[c].event}
    BY <2>2, <2>3 DEF OnRecord
  <2> QED BY <2>1, <2>4 DEF GrantsOfTenant, OfItsTenant
<1>5. ASSUME NEW c \in Changes, WriteEvent(c) \/ ChangeFails(c) PROVE GrantsOfTenant'
  BY <1>1, <1>2, <1>5 DEF WriteEvent, ChangeFails, OnRecord, NoChange
<1>6. ASSUME UNCHANGED <<trail, lost, change>> PROVE GrantsOfTenant'
  BY <1>2, <1>6 DEF OnRecord
<1>7. ASSUME NEW c \in Changes, NEW m \in Members,
             \/ \E r \in Roles : AssignRole(c, m, r) \/ RemoveRole(c, m, r)
             \/ \E s \in Plants : GrantAccess(c, m, s)
      PROVE  GrantsOfTenant'
  BY <1>3, <1>7 DEF AssignRole, RemoveRole, GrantAccess
<1>8. ASSUME NEW q \in Requests,
             \/ \E m \in Members : Authenticate(q, m)
             \/ RouteNext(q) \/ Check(q) \/ CheckRecommendation(q) \/ ReadSite(q)
             \/ Sends(q) \/ ListInstallations(q) \/ ListDevices(q)
             \/ ListRecommendations(q) \/ RecordFeedback(q)
      PROVE  UNCHANGED <<trail, lost, change>>
  <2>1. CASE RouteNext(q)
    <3>1. ASSUME NEW pc, NEW t, NEW product, NEW ref, NEW next,
                 Routes(q, pc, t, product, ref, next)
          PROVE  UNCHANGED <<trail, lost, change>>
      BY <3>1 DEF Routes, administration
    <3>2. ASSUME \/ Installations(q)
                 \/ \E ref : Devices(q, ref)
                 \/ \E t, s : Feedback(q, t, s)
          PROVE  UNCHANGED <<trail, lost, change>>
      BY <3>1, <3>2 DEF Installations, Devices, Feedback
    <3>3. ASSUME \E t, product, key :
                   \/ Telemetry(q, t, product, key) \/ Analysis(q, t, product, key)
                   \/ Stream(q, t, product, key) \/ Recommendations(q, t, product, key)
          PROVE  UNCHANGED <<trail, lost, change>>
      BY <3>1, <3>3 DEF Telemetry, Analysis, Stream, Recommendations
    <3> QED BY <2>1, <3>2, <3>3 DEF RouteNext
  <2>2. CASE \/ ReadSite(q) \/ Sends(q) \/ ListInstallations(q) \/ ListDevices(q)
             \/ ListRecommendations(q) \/ RecordFeedback(q)
    BY <2>2 DEF ReadSite, Sends, ListInstallations, ListDevices, ListRecommendations,
                RecordFeedback, Reaches, administration
  <2>3. CASE Check(q) \/ CheckRecommendation(q) \/ \E m \in Members : Authenticate(q, m)
    BY <2>3 DEF Check, CheckRecommendation, Authenticate, administration
  <2> QED BY <1>8, <2>1, <2>2, <2>3
<1>9. ASSUME UNCHANGED accessVars PROVE GrantsOfTenant'
  BY <1>6, <1>9 DEF accessVars, administration
<1> QED BY <1>4, <1>5, <1>6, <1>7, <1>8, <1>9 DEF AccessNext

LEMMA AccessGrants == AccessSpec => []GrantsOfTenant
<1>1. AccessInit => GrantsOfTenant
  BY DEF AccessInit, GrantsOfTenant, OnRecord, NoChange
<1> QED BY <1>1, GrantsOfTenantInv, AccessInvariant, PTL DEF AccessSpec

(***************************************************************************)
(* Where no two products of a tenant have sites with the same key, every   *)
(* route reaches only what was granted: the one thing that separates the   *)
(* code from ReachedIsGranted is that hasInstallationAccess leaves the     *)
(* product out.                                                            *)
(***************************************************************************)
THEOREM GrantedWhereKeysDiffer ==
  ASSUME KeysNameOneSite PROVE AccessSpec => []ReachedIsGranted
<1>1. AccessInv /\ GrantsOfTenant => ReachedIsGranted
  <2>1. ASSUME AccessInv, GrantsOfTenant, NEW q \in Requests, NEW s \in reached[q]
        PROVE  route[q].user \in PlatformUsers \/ Explained(route[q].user, s)
    <3>1. s \in Plants
      BY <2>1 DEF AccessInv, AccessTypes
    <3>2. \/ route[q].user \in PlatformUsers
          \/ OnAccount(route[q].user, s, route[q].next \in {"site", "stream"})
      BY <2>1 DEF AccessInv, ReachedOnRecord
    <3>3. ASSUME NEW x \in Plants, x = s \/ s.key \in {x, x.key},
                 Granted(s.tenant, route[q].user, x)
          PROVE  x = s
      BY <2>1, <3>1, <3>3 DEF KeysNameOneSite, GrantsOfTenant, OfItsTenant, Granted
    <3>4. OnAccount(route[q].user, s, route[q].next \in {"site", "stream"})
            => Explained(route[q].user, s)
      BY <3>3 DEF OnAccount, Explained, Granted
    <3> QED BY <3>2, <3>4
  <2> QED BY <2>1 DEF ReachedIsGranted, Accounted
<1> QED BY <1>1, AccessInvariant, AccessGrants, PTL

(***************************************************************************)
(* What a request knows stays of the membership it authenticated with, and *)
(* no other event than those of administration is on record.               *)
(***************************************************************************)
SessionsOfMembers ==
  \A q \in Requests : route[q] # NewRequest => <<route[q].tenant, route[q].user>> \in Members
EventsAreGrants == trail \subseteq Grants /\ lost \subseteq Grants

LEMMA SessionStays ==
  ASSUME AccessInv, NEW q \in Requests, SessionsOfMembers,
         \/ \E m \in Members : Authenticate(q, m)
         \/ RouteNext(q) \/ Check(q) \/ CheckRecommendation(q) \/ ReadSite(q) \/ Sends(q)
         \/ ListInstallations(q) \/ ListDevices(q) \/ ListRecommendations(q)
         \/ RecordFeedback(q)
  PROVE  SessionsOfMembers' /\ UNCHANGED administration
<1>1. route \in [Requests -> {NewRequest} \cup RouteRecords]
  BY DEF AccessInv, AccessTypes
<1>2. ASSUME NEW r, route' = [route EXCEPT ![q] = r], <<r.tenant, r.user>> \in Members
      PROVE  SessionsOfMembers'
  <2>1. \A p \in Requests : route'[p] = IF p = q THEN r ELSE route[p]
    BY <1>1, <1>2
  <2> QED BY <1>2, <2>1 DEF SessionsOfMembers
<1>3. ASSUME NEW pc, route[q].pc # "new", route' = [route EXCEPT ![q].pc = pc]
      PROVE  SessionsOfMembers'
  <2>1. route[q] \in RouteRecords /\ route[q] # NewRequest
    BY <1>1, <1>3 DEF NewRequest
  <2>2. /\ route' = [route EXCEPT ![q] = [route[q] EXCEPT !.pc = pc]]
        /\ [route[q] EXCEPT !.pc = pc].tenant = route[q].tenant
        /\ [route[q] EXCEPT !.pc = pc].user = route[q].user
    BY <1>1, <1>3, <2>1 DEF RouteRecords
  <2> QED BY <1>2, <2>1, <2>2 DEF SessionsOfMembers
<1>4. ASSUME NEW m \in Members, Authenticate(q, m)
      PROVE  SessionsOfMembers' /\ UNCHANGED administration
  <2>1. m = <<m[1], m[2]>>
    BY AccessAssumption
  <2> QED BY <1>2, <1>4, <2>1 DEF Authenticate
<1>5. ASSUME NEW pc, NEW t, NEW product, NEW ref, NEW next, Routes(q, pc, t, product, ref, next)
      PROVE  SessionsOfMembers' /\ UNCHANGED administration
  <2> DEFINE r == [route[q] EXCEPT !.pc = pc, !.asked = t, !.product = product,
                                   !.ref = ref, !.next = next]
  <2>1. route[q] \in RouteRecords /\ route[q] # NewRequest
    BY <1>1, <1>5 DEF Routes, NewRequest
  <2>2. /\ route' = [route EXCEPT ![q] = r] /\ UNCHANGED administration
        /\ r.tenant = route[q].tenant /\ r.user = route[q].user
    BY <1>1, <1>5, <2>1 DEF Routes, RouteRecords
  <2> HIDE DEF r
  <2> QED BY <1>2, <2>1, <2>2 DEF SessionsOfMembers
<1>6. CASE RouteNext(q)
  BY <1>5, <1>6 DEF RouteNext, Installations, Devices, Telemetry, Analysis, Stream, Feedback,
                    Recommendations
<1>7. CASE Check(q) \/ CheckRecommendation(q)
  BY <1>3, <1>7 DEF Check, CheckRecommendation
<1>8. ASSUME NEW sites, NEW pc, route[q].pc # "new", Reaches(q, sites, pc)
      PROVE  SessionsOfMembers' /\ UNCHANGED administration
  BY <1>3, <1>8 DEF Reaches
<1>9. CASE \/ ReadSite(q) \/ Sends(q) \/ ListInstallations(q) \/ ListDevices(q)
           \/ ListRecommendations(q) \/ RecordFeedback(q)
  BY <1>8, <1>9 DEF ReadSite, Sends, ListInstallations, ListDevices, ListRecommendations,
                    RecordFeedback
<1> QED BY <1>4, <1>6, <1>7, <1>9

LEMMA AccessTypesAre ==
  AccessInv /\ SessionsOfMembers /\ EventsAreGrants => AccessTypeOK
<1> SUFFICES ASSUME AccessInv, SessionsOfMembers, EventsAreGrants
             PROVE  AccessTypeOK
  OBVIOUS
<1>1. AccessTypes
  BY DEF AccessInv
<1>2. ASSUME NEW q \in Requests, route[q] # NewRequest PROVE route[q] \in RouteRecords
  BY <1>1, <1>2 DEF AccessTypes
<1>3. ASSUME NEW c \in Changes, change[c] # NoChange PROVE change[c] \in ChangeRecords
  BY <1>1, <1>3 DEF AccessTypes
<1> QED BY <1>1, <1>2, <1>3
        DEF AccessTypes, AccessTypeOK, SessionsOfMembers, EventsAreGrants, RouteRecords, ChangeRecords

LEMMA AccessTypesInv == AccessInv /\ AccessTypeOK /\ [AccessNext]_accessVars => AccessTypeOK'
<1> SUFFICES ASSUME AccessInv, AccessTypeOK, [AccessNext]_accessVars PROVE AccessTypeOK'
  OBVIOUS
<1>1. /\ SessionsOfMembers /\ trail \subseteq Grants /\ lost \subseteq Grants
      /\ \A c \in Changes : change[c] # NoChange => change[c].event \in Grants
  BY DEF AccessTypeOK, SessionsOfMembers
<1>2. AccessInv'
  BY AccessInductiveInv
<1>3. ASSUME NEW c \in Changes, WriteEvent(c) \/ ChangeFails(c)
      PROVE  route' = route /\ EventsAreGrants'
  BY <1>1, <1>3 DEF EventsAreGrants, WriteEvent, ChangeFails, NoChange
<1>4. ASSUME NEW q \in Requests,
             \/ \E m \in Members : Authenticate(q, m)
             \/ RouteNext(q) \/ Check(q) \/ CheckRecommendation(q) \/ ReadSite(q)
             \/ Sends(q) \/ ListInstallations(q) \/ ListDevices(q)
             \/ ListRecommendations(q) \/ RecordFeedback(q)
      PROVE  SessionsOfMembers' /\ EventsAreGrants'
  BY <1>1, <1>4, SessionStays DEF administration, EventsAreGrants
<1>5. ASSUME NEW c \in Changes,
             \/ \E event \in Grants : Begin(c, event)
             \/ WriteRow(c)
      PROVE  UNCHANGED <<route, trail, lost>>
  BY <1>5 DEF Begin, WriteRow
<1>6. ASSUME NEW c \in Changes, NEW m \in Members,
             \/ \E r \in Roles : AssignRole(c, m, r) \/ RemoveRole(c, m, r)
             \/ \E s \in Plants : GrantAccess(c, m, s)
      PROVE  UNCHANGED <<route, trail, lost>>
  BY <1>6 DEF AssignRole, RemoveRole, GrantAccess, Begin
<1>7. ASSUME UNCHANGED accessVars PROVE UNCHANGED <<route, trail, lost>>
  BY <1>7 DEF accessVars, administration
<1>8. SessionsOfMembers' /\ EventsAreGrants'
  BY <1>1, <1>3, <1>4, <1>5, <1>6, <1>7 DEF AccessNext, SessionsOfMembers, EventsAreGrants
<1> QED BY <1>2, <1>8, AccessTypesAre, PTL

LEMMA AccessInitTypes == AccessInit => AccessTypeOK
<1> SUFFICES ASSUME AccessInit PROVE AccessTypeOK
  OBVIOUS
<1>1. SessionsOfMembers /\ EventsAreGrants
  BY DEF AccessInit, SessionsOfMembers, EventsAreGrants
<1> QED BY <1>1, AccessInitInv, AccessTypesAre

(***************************************************************************)
(* Requests and administrators' calls keep their types: whatever a request *)
(* asks for, it stays the request of the membership it authenticated with. *)
(***************************************************************************)
THEOREM AccessTypeCorrect == AccessSpec => []AccessTypeOK
BY AccessInitInv, AccessInductiveInv, AccessInitTypes, AccessTypesInv, PTL DEF AccessSpec
=============================================================================
