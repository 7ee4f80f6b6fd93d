------------------------------ MODULE Accounts ------------------------------
(***************************************************************************)
(* One user's account: password, lockout counter, second factor, one-time  *)
(* tokens and sessions (packages/database/src/repositories/users.ts and    *)
(* the routes /v1/auth, /v1/me and /v1/users of the API).                  *)
(*                                                                         *)
(* Nearly every operation reads the user row, or a token or session row    *)
(* with its user, awaits, and writes by id what it computed from what it   *)
(* read; the operations that must not come apart are transactions.  Calls  *)
(* interleave at every await.                                              *)
(*                                                                         *)
(* Abstractions: accounts share nothing, so there is one, which is a       *)
(* member of several tenants and has each session in one of them; hashes,  *)
(* codes and tokens match when they are equal; expiry is a step that may   *)
(* happen at any time; a count beyond Threshold is Threshold; audit events *)
(* and the dates only people look at are left out.                         *)
(***************************************************************************)
EXTENDS Naturals

CONSTANTS
  AccountCalls,   \* requests in progress at once
  Sessions, Tokens, Secrets, RecoveryCodes,   \* rows and values still to come
  AccountTenants, \* the tenants the user is a member of
  Passwords,
  Nobody,         \* no password, no secret
  Threshold       \* ZOLT_LOCKOUT_THRESHOLD

ASSUME AccountAssumption ==
  /\ Threshold \in Nat \ {0} /\ Nobody \notin Secrets \cup Passwords
  /\ AccountTenants \cap {"none", "revoked"} = {}

Purposes == {"INVITATION", "PASSWORD_RESET", "EMAIL_VERIFICATION", "ACCOUNT_UNLOCK"}

AccountRows ==
  [active : BOOLEAN,              \* deactivatedAt and archivedAt are null
   password : Passwords \cup {Nobody},
   failed : 0 .. Threshold,       \* failedLogins
   locked : BOOLEAN,              \* lockedUntil is in the future
   verified : BOOLEAN,            \* emailVerifiedAt is set
   secret : Secrets \cup {Nobody}, mfaEnabled : BOOLEAN]

VARIABLES
  account,     \* the user row
  session,     \* session[s]: "none", "revoked", or the tenant it is live in
  token,       \* token[t]: [purpose, state]
  code,        \* unused recovery codes
  request,     \* request[k]: where a call is, and what of the user it will use
  failures,    \* history: password checks that failed
  confirmed,   \* history: secrets for which a code was verified
  replaced,    \* history: a secret was replaced while its confirmation was in progress
  since,       \* history: sessions opened after the last ending in their tenant
  late         \* history: those of since whose call began before that ending

accountVars == <<account, session, token, code, request, failures, confirmed,
                 replaced, since, late>>

CallStates == {"idle", "count", "code", "enter", "open", "switch", "revoke",
               "issue", "use", "apply", "confirm"}
Things == Sessions \cup Tokens \cup Secrets \cup RecoveryCodes \cup Purposes \cup {Nobody}

AccountTypeOK ==
  /\ account \in AccountRows
  /\ session \in [Sessions -> {"none", "revoked"} \cup AccountTenants]
  /\ token \in [Tokens -> [purpose : Purposes, state : {"none", "unused", "used"}]]
  /\ code \subseteq RecoveryCodes
  /\ request \in [AccountCalls -> [pc : CallStates, failed : 0 .. Threshold,
                                   thing : Things, ended : SUBSET AccountTenants]]
  /\ failures \in 0 .. Threshold
  /\ confirmed \subseteq Secrets
  /\ replaced \subseteq Secrets
  /\ since \subseteq Sessions /\ late \subseteq since

\* Somebody invited who has not accepted yet, or (with a password) a seeded account.
NewAccount(p) == [active |-> TRUE, password |-> p, failed |-> 0, locked |-> FALSE,
                  verified |-> p # Nobody, secret |-> Nobody, mfaEnabled |-> FALSE]
NoRequest == [pc |-> "idle", failed |-> 0, thing |-> Nobody, ended |-> {}]

AccountInit ==
  /\ \E p \in Passwords \cup {Nobody} : account = NewAccount(p)
  /\ session = [s \in Sessions |-> "none"]
  /\ token = [t \in Tokens |-> [purpose |-> "INVITATION", state |-> "none"]]
  /\ code = {}
  /\ request = [k \in AccountCalls |-> NoRequest]
  /\ failures = 0 /\ confirmed = {} /\ replaced = {}
  /\ since = {} /\ late = {}

In(k, pc) == request[k].pc = pc
Goes(k, pc) == request' = [request EXCEPT ![k].pc = pc]
Begins(k, pc, thing) ==
  /\ In(k, "idle")
  /\ request' = [request EXCEPT ![k] = [pc |-> pc, failed |-> 0, thing |-> thing,
                                        ended |-> {}]]
Answers(k) == request' = [request EXCEPT ![k] = NoRequest]

\* An await rejects, a check refuses: the route answers with an error.
Refused(k) ==
  /\ ~In(k, "idle")
  /\ Answers(k)
  /\ UNCHANGED <<account, session, token, code, failures, confirmed, replaced, since, late>>
-----------------------------------------------------------------------------
(***************************************************************************)
(* authenticateUser: one read of the user decides what the login writes.   *)
(* A user who is not there, deactivated or locked is refused, as is one    *)
(* whose address is not verified.                                          *)
(***************************************************************************)
MayLogin == account.active /\ ~account.locked

WrongPassword(k, guess) ==
  /\ MayLogin
  /\ account.password # guess
  /\ In(k, "idle")
  /\ request' = [request EXCEPT ![k] = [pc |-> "count", failed |-> account.failed,
                                        thing |-> Nobody, ended |-> {}]]
  /\ UNCHANGED <<account, session, token, code, failures, confirmed, replaced, since, late>>

\* Mutant: the lock is one failure early.
LocksBefore(failed) == failed + 1 >= Threshold
\* failed >= LOCKOUT_THRESHOLD.
Locks(failed) == failed >= Threshold

OneMore(n) == IF n < Threshold THEN n + 1 ELSE n

\* The failure is counted from the number read before: failedLogins and lockedUntil.
CountFailure(k) ==
  LET failed == OneMore(request[k].failed) IN
  /\ In(k, "count")
  /\ account' = [account EXCEPT !.failed = failed, !.locked = Locks(failed)]
  /\ failures' = OneMore(failures)
  /\ Answers(k)
  /\ UNCHANGED <<session, token, code, confirmed, replaced, since, late>>

\* The password matches; without a second factor, or with a valid code of it.
RightPassword(k, guess, totp) ==
  /\ MayLogin /\ account.verified
  /\ account.password = guess /\ guess # Nobody
  /\ ~account.mfaEnabled \/ totp = account.secret
  /\ Begins(k, "enter", Nobody)
  /\ UNCHANGED <<account, session, token, code, failures, confirmed, replaced, since, late>>

\* The password matches and a recovery code is found unused (useRecoveryCode)...
FindCode(k, guess, c) ==
  /\ MayLogin /\ account.verified /\ account.mfaEnabled
  /\ account.password = guess /\ guess # Nobody
  /\ c \in code
  /\ Begins(k, "code", c)
  /\ UNCHANGED <<account, session, token, code, failures, confirmed, replaced, since, late>>

\* ...and marked by its id, used or not by now.
UseCode(k) ==
  /\ In(k, "code")
  /\ code' = code \ {request[k].thing}
  /\ Goes(k, "enter")
  /\ UNCHANGED <<account, session, token, failures, confirmed, replaced, since, late>>

\* The counters are reset...
Enter(k) ==
  /\ In(k, "enter")
  /\ account' = [account EXCEPT !.failed = 0, !.locked = FALSE]
  /\ Goes(k, "open")
  /\ UNCHANGED <<session, token, code, failures, confirmed, replaced, since, late>>

\* A session in t is new; ended holds the tenants whose sessions ended meanwhile.
Opened(k, s, t) ==
  /\ session[s] = "none"
  /\ since' = since \cup {s}
  /\ late' = late \cup {x \in {s} : t \in request[k].ended}

\* ...and the session is created.
OpenSession(k, s, t) ==
  /\ In(k, "open")
  /\ Opened(k, s, t)
  /\ session' = [session EXCEPT ![s] = t]
  /\ Answers(k)
  /\ UNCHANGED <<account, token, code, failures, confirmed, replaced>>

\* LOCKOUT_MS after the last failure.
LockEnds ==
  /\ account.locked
  /\ account' = [account EXCEPT !.locked = FALSE]
  /\ UNCHANGED <<session, token, code, request, failures, confirmed, replaced, since, late>>
-----------------------------------------------------------------------------
\* resolveSession: what requireApiKey asks of a bearer token.
LoggedIn(s) == session[s] \in AccountTenants
Resolves(s) == LoggedIn(s) /\ account.active

\* revokeSession and revokeSessionById find the session...
FindSession(k, s) ==
  /\ LoggedIn(s)
  /\ Begins(k, "revoke", s)
  /\ UNCHANGED <<account, session, token, code, failures, confirmed, replaced, since, late>>

\* ...and end it by its id.
RevokeSession(k) ==
  /\ In(k, "revoke")
  /\ session' = [session EXCEPT ![request[k].thing] = "revoked"]
  /\ Answers(k)
  /\ UNCHANGED <<account, token, code, failures, confirmed, replaced, since, late>>

\* expiresAt passes.
SessionExpires(s) ==
  /\ LoggedIn(s)
  /\ session' = [session EXCEPT ![s] = "revoked"]
  /\ UNCHANGED <<account, token, code, request, failures, confirmed, replaced, since, late>>

\* switchTenantSession: the session is found, with a membership of an active user...
FindSwitch(k, s) ==
  /\ Resolves(s)
  /\ Begins(k, "switch", s)
  /\ UNCHANGED <<account, session, token, code, failures, confirmed, replaced, since, late>>

\* ...and replaced by one in tenant t, in a transaction.
Switch(k, s, t) ==
  /\ In(k, "switch")
  /\ Opened(k, s, t)
  /\ session' = [session EXCEPT ![request[k].thing] = "revoked", ![s] = t]
  /\ Answers(k)
  /\ UNCHANGED <<account, token, code, failures, confirmed, replaced>>

\* Mutant: the sessions are left alone.
KeepSessions(tenants) == session
\* updateMany of the sessions in tenants with revokedAt: null.
SomeRevoked(tenants) ==
  [s \in Sessions |-> IF session[s] \in tenants THEN "revoked" ELSE session[s]]

\* The sessions in tenants end, in the statement or the transaction of whatever ends
\* them; requests are the requests as they go on, each of which began before.
EndSessions(tenants, requests) ==
  LET open(S) == {s \in S : session[s] \notin tenants} IN
  /\ session' = SomeRevoked(tenants)
  /\ since' = open(since) /\ late' = open(late)
  /\ request' = [k \in AccountCalls |->
                   [requests[k] EXCEPT !.ended = IF requests[k].pc = "idle" THEN {}
                                                 ELSE @ \cup tenants]]

\* revokeAllUserSessions, by the user or an administrator: those in one tenant.
RevokeAll(t) ==
  /\ EndSessions({t}, request)
  /\ UNCHANGED <<account, token, code, failures, confirmed, replaced>>

\* deactivateUser: the date and the sessions in all tenants, in one transaction.
Deactivate ==
  /\ account' = [account EXCEPT !.active = FALSE]
  /\ EndSessions(AccountTenants, request)
  /\ UNCHANGED <<token, code, failures, confirmed, replaced>>
-----------------------------------------------------------------------------
\* requestPasswordReset (of active users), issueAccountUnlock, issueEmailVerification...
RequestToken(k, purpose) ==
  /\ purpose # "INVITATION"
  /\ purpose = "PASSWORD_RESET" => account.active
  /\ Begins(k, "issue", purpose)
  /\ UNCHANGED <<account, session, token, code, failures, confirmed, replaced, since, late>>

\* ...inviteUser, whose upsert makes the user active again...
Invite(k) ==
  /\ Begins(k, "issue", "INVITATION")
  /\ account' = [account EXCEPT !.active = TRUE]
  /\ UNCHANGED <<session, token, code, failures, confirmed, replaced, since, late>>

\* ...and issueAccountToken for each of them.
IssueToken(k, t) ==
  /\ In(k, "issue") /\ token[t].state = "none"
  /\ token' = [token EXCEPT ![t] = [purpose |-> request[k].thing, state |-> "unused"]]
  /\ Answers(k)
  /\ UNCHANGED <<account, session, code, failures, confirmed, replaced, since, late>>

\* consumeAccountToken: the token is found unused and not expired...
FindToken(k, t) ==
  /\ token[t].state = "unused"
  /\ Begins(k, "use", t)
  /\ UNCHANGED <<account, session, token, code, failures, confirmed, replaced, since, late>>

\* ...and marked by its id.
UseToken(k) ==
  /\ In(k, "use")
  /\ token' = [token EXCEPT ![request[k].thing].state = "used"]
  /\ Goes(k, "apply")
  /\ UNCHANGED <<account, session, code, failures, confirmed, replaced, since, late>>

Applies(k, purpose) == In(k, "apply") /\ token[request[k].thing].purpose = purpose

\* acceptInvitation.  A password against the policy is Refused, its token used.
AcceptInvitation(k, p) ==
  /\ Applies(k, "INVITATION")
  /\ account' = [account EXCEPT !.password = p, !.verified = TRUE]
  /\ Answers(k)
  /\ UNCHANGED <<session, token, code, failures, confirmed, replaced, since, late>>

\* resetPassword: password, counters and the sessions in all tenants in one transaction.
ResetPassword(k, p) ==
  /\ Applies(k, "PASSWORD_RESET")
  /\ account' = [account EXCEPT !.password = p, !.failed = 0, !.locked = FALSE]
  /\ EndSessions(AccountTenants, [request EXCEPT ![k] = NoRequest])
  /\ UNCHANGED <<token, code, failures, confirmed, replaced>>

VerifyEmail(k) ==
  /\ Applies(k, "EMAIL_VERIFICATION")
  /\ account' = [account EXCEPT !.verified = TRUE]
  /\ Answers(k)
  /\ UNCHANGED <<session, token, code, failures, confirmed, replaced, since, late>>

UnlockAccount(k) ==
  /\ Applies(k, "ACCOUNT_UNLOCK")
  /\ account' = [account EXCEPT !.failed = 0, !.locked = FALSE]
  /\ Answers(k)
  /\ UNCHANGED <<session, token, code, failures, confirmed, replaced, since, late>>
-----------------------------------------------------------------------------
\* Mutant: the factor stays enabled while a new secret is enrolled.
StillEnabled(enabled) == enabled
\* mfaEnabled: false.
EnabledAtEnrolment(enabled) == FALSE

\* beginMfaEnrollment: a new secret, in use from its confirmation on.
BeginMfa(new) ==
  /\ \E s \in Sessions : Resolves(s)
  /\ new \notin confirmed \cup replaced /\ account.secret # new
  /\ account' = [account EXCEPT !.secret = new, !.mfaEnabled = EnabledAtEnrolment(@)]
  /\ replaced' = replaced \cup
       {new : k \in {j \in AccountCalls : In(j, "confirm")}}
  /\ UNCHANGED <<session, token, code, request, failures, confirmed, since, late>>

\* confirmMfaEnrollment verifies a code against the secret it read...
ReadMfa(k) ==
  /\ \E s \in Sessions : Resolves(s)
  /\ account.secret # Nobody
  /\ Begins(k, "confirm", account.secret)
  /\ confirmed' = confirmed \cup {account.secret}
  /\ UNCHANGED <<account, session, token, code, failures, replaced, since, late>>

\* ...and enables the factor with new recovery codes in one transaction.
ConfirmMfa(k, codes) ==
  /\ In(k, "confirm")
  /\ account' = [account EXCEPT !.mfaEnabled = TRUE]
  /\ code' = codes
  /\ Answers(k)
  /\ UNCHANGED <<session, token, failures, confirmed, replaced, since, late>>

\* /v1/auth: login, one-time tokens, switching the tenant.
AuthRoutes(k) ==
  \/ \E guess \in Passwords :
       \/ WrongPassword(k, guess)
       \/ \E totp \in Secrets \cup {Nobody} : RightPassword(k, guess, totp)
       \/ \E c \in RecoveryCodes : FindCode(k, guess, c)
  \/ CountFailure(k) \/ UseCode(k) \/ Enter(k)
  \/ \E s \in Sessions : FindSwitch(k, s)
  \/ \E s \in Sessions, t \in AccountTenants : OpenSession(k, s, t) \/ Switch(k, s, t)
  \/ \E purpose \in Purposes : RequestToken(k, purpose)
  \/ \E t \in Tokens : IssueToken(k, t) \/ FindToken(k, t)
  \/ UseToken(k) \/ VerifyEmail(k) \/ UnlockAccount(k)
  \/ \E p \in Passwords : AcceptInvitation(k, p) \/ ResetPassword(k, p)

\* The second factor and the sessions of whoever is logged in.
MeRoutes(k) ==
  \/ \E new \in Secrets : BeginMfa(new)
  \/ ReadMfa(k) \/ ConfirmMfa(k, RecoveryCodes)
  \/ \E s \in Sessions : FindSession(k, s)
  \/ RevokeSession(k)

\* What an administrator does to the account.
UserRoutes(k) == Invite(k) \/ Deactivate \/ \E t \in AccountTenants : RevokeAll(t)

AccountNext ==
  \/ \E k \in AccountCalls : AuthRoutes(k) \/ MeRoutes(k) \/ UserRoutes(k) \/ Refused(k)
  \/ \E s \in Sessions : SessionExpires(s)
  \/ LockEnds

AccountSpec == AccountInit /\ [][AccountNext]_accountVars
-----------------------------------------------------------------------------
(***************************************************************************)
(* The second factor a login asks for is one whose code the user has       *)
(* shown: an enrolment in progress never turns an unconfirmed secret on,   *)
(* except where it replaced the secret under a confirmation in progress.   *)
(***************************************************************************)
EnabledSecretIsConfirmed ==
  account.mfaEnabled => account.secret \in confirmed \cup replaced

(***************************************************************************)
(* However logins interleave, and whatever counts get lost, an account is  *)
(* locked only after at least Threshold failed password checks.            *)
(***************************************************************************)
LockedAfterFailures == account.locked => failures >= Threshold

(***************************************************************************)
(* A reset or a deactivation ends every session there is, and "log out     *)
(* everywhere" every one in its tenant: a live session was opened after    *)
(* the last of these that concerned its tenant.  Whoever is logged in on a *)
(* deactivated account was in the middle of logging in or of switching     *)
(* tenant when it was deactivated, or when its sessions were ended since.  *)
(***************************************************************************)
EndedIsOut ==
  \A s \in Sessions : LoggedIn(s) =>
    /\ s \in since
    /\ ~account.active => s \in late
=============================================================================
