----------------------------- MODULE Admission -----------------------------
(***************************************************************************)
(* How a signed batch gets in (packages/auth/src/rate-limit.ts,            *)
(* middleware.ts, apps/connector-gateway/src/server.ts).                   *)
(*                                                                         *)
(* A request is counted under each of its rate keys, authenticated,        *)
(* checked against its signature's date, claims its replay key, and then   *)
(* its messages are enqueued one after the other.  Counters and claims are *)
(* kept in Redis; a process whose Redis client has thrown once keeps its   *)
(* own in memory from then on.  Calls of several processes interleave at   *)
(* every await, a statement that is rejected may have taken effect.        *)
(*                                                                         *)
(* Time is kept as durations that Tick moves: age[r] counts from the first *)
(* instant at which the timestamp of r is acceptable (the client's clock   *)
(* may be Skew ahead) to the last, 2 * Skew later; left = n + 1 says that  *)
(* an entry is there for n more units, and still at the last instant, as   *)
(* both Redis and the maps' comparisons have it.                           *)
(*                                                                         *)
(* Abstractions: whether the identity matches and the payload is a batch   *)
(* is a choice; a request has its own replay key; a count beyond Limit + 1 *)
(* is Limit + 1.                                                           *)
(***************************************************************************)
EXTENDS Naturals, Sequences

CONSTANTS
  Processes,     \* gateway processes
  Redis,         \* the shared store
  Calls,         \* requests in progress at once
  Requests,      \* signed requests, each of which may be sent again
  RateKeys,      \* ip:... and tenant:...
  KeysOf,        \* KeysOf[r]: the rate keys of r, in order
  Limit,         \* requests per window
  Window,        \* windowMs
  Skew,          \* accepted skew of the timestamp; a claim lasts twice that
  Good,          \* those with a good credential and a good signature
  Messages,
  Batch,         \* Batch[r]: the messages of r
  Invalid        \* messages that do not validate

Stores == {Redis} \cup Processes

ASSUME AdmissionAssumption ==
  /\ Redis \notin Processes
  /\ KeysOf \in [Requests -> Seq(RateKeys)]
  /\ Batch \in [Requests -> Seq(Messages)]
  /\ Limit \in Nat \ {0} /\ Window \in Nat /\ Skew \in Nat

VARIABLES
  count,         \* count[s][key]: requests counted, 0 without an entry
  left,          \* left[s][key]: 0 for an entry that never expires
  claim,         \* claim[s][r]: likewise, 0 without a claim
  limiter,       \* limiter[p]: the store of p's rate limiter
  guard,         \* guard[p]: the store of p's replay guard
  age,           \* age[r] up to Expired
  call,          \* call[k]: a request in progress
  queue,         \* messages whose job id the queue knows
  accepted,      \* history: requests answered 202
  granted,       \* history: <<s, r>>, s let r through and remembers it
  handled        \* history: requests that were let through

rateVars == <<count, left, limiter>>
admissionVars == <<rateVars, claim, guard, age, call, queue, accepted, granted, handled>>

Expired == 2 * Skew + 1
Idle == [pc |-> "idle"]
Stages == {"limit", "incr", "expire", "authenticate", "claim", "handle",
           "profile", "enqueue"}

AdmissionTypeOK ==
  /\ count \in [Stores -> [RateKeys -> 0..(Limit + 1)]]
  /\ left \in [Stores -> [RateKeys -> 0..(Window + 1)]]
  /\ claim \in [Stores -> [Requests -> 0..Expired]]
  /\ limiter \in [Processes -> Stores] /\ guard \in [Processes -> Stores]
  /\ age \in [Requests -> 0..Expired]
  /\ call \in [Calls -> {Idle} \cup
                 [pc : Stages, proc : Processes, req : Requests, next : Nat]]
  /\ queue \subseteq Messages
  /\ accepted \subseteq Requests
  /\ granted \subseteq Stores \X Requests
  /\ handled \subseteq Requests

\* Clients sign at any time before the timestamp goes out of date.
AdmissionInit ==
  /\ count = [s \in Stores |-> [key \in RateKeys |-> 0]]
  /\ left = [s \in Stores |-> [key \in RateKeys |-> 0]]
  /\ claim = [s \in Stores |-> [r \in Requests |-> 0]]
  /\ limiter = [p \in Processes |-> Redis]
  /\ guard = [p \in Processes |-> Redis]
  /\ age \in [Requests -> 0..(2 * Skew)]
  /\ call = [k \in Calls |-> Idle]
  /\ queue = {} /\ accepted = {} /\ granted = {} /\ handled = {}
-----------------------------------------------------------------------------
(***************************************************************************)
(* Time                                                                    *)
(***************************************************************************)
Sooner(n) == IF n > 0 THEN n - 1 ELSE 0

\* A unit of time passes; entries in their last instant are gone.
Tick ==
  /\ count' = [s \in Stores |-> [key \in RateKeys |->
                 IF left[s][key] = 1 THEN 0 ELSE count[s][key]]]
  /\ left' = [s \in Stores |-> [key \in RateKeys |-> Sooner(left[s][key])]]
  /\ claim' = [s \in Stores |-> [r \in Requests |-> Sooner(claim[s][r])]]
  /\ age' = [r \in Requests |->
               IF age[r] < Expired THEN age[r] + 1 ELSE Expired]
  /\ UNCHANGED <<limiter, guard, call, queue, accepted, granted, handled>>
-----------------------------------------------------------------------------
(***************************************************************************)
(* The life of a call                                                      *)
(***************************************************************************)
At(k, stage) == call[k].pc = stage
GoTo(k, stage) == call' = [call EXCEPT ![k].pc = stage]
Advance(k, stage) ==
  call' = [call EXCEPT ![k].pc = stage, ![k].next = @ + 1]
Answer(k) == call' = [call EXCEPT ![k] = Idle]

\* A request is received.
Arrive(k, p, r) ==
  /\ At(k, "idle")
  /\ call' = [call EXCEPT ![k] = [pc |-> "limit", proc |-> p, req |-> r,
                                  next |-> 1]]
  /\ UNCHANGED <<rateVars, claim, guard, age, queue, accepted, granted, handled>>
-----------------------------------------------------------------------------
(***************************************************************************)
(* enforceRateLimit, for one key after the other                           *)
(***************************************************************************)
Key(k) == KeysOf[call[k].req][call[k].next]
Counted(s, key) == IF count[s][key] <= Limit THEN count[s][key] + 1 ELSE Limit + 1

\* 429, or on to the next key.
Decide(k, n) == IF n > Limit THEN Answer(k) ELSE Advance(k, "limit")

\* The count in the memory of the process: the first of a window passes.
CountInMemory(k) ==
  LET p == call[k].proc
      key == Key(k) IN
  /\ count' = [count EXCEPT ![p][key] = Counted(p, key)]
  /\ left' = [left EXCEPT ![p][key] = IF count[p][key] = 0 THEN Window + 1 ELSE @]
  /\ Decide(k, Counted(p, key))

\* Up to the first await: the store is the one of this moment.
LimitKey(k) ==
  /\ At(k, "limit")
  /\ call[k].next <= Len(KeysOf[call[k].req])
  /\ IF limiter[call[k].proc] = Redis
       THEN GoTo(k, "incr") /\ UNCHANGED <<count, left>>
       ELSE CountInMemory(k)
  /\ UNCHANGED <<limiter, claim, guard, age, queue, accepted, granted, handled>>

\* Every key let the request through.
Limited(k) ==
  /\ At(k, "limit")
  /\ call[k].next > Len(KeysOf[call[k].req])
  /\ GoTo(k, "authenticate")
  /\ UNCHANGED <<rateVars, claim, guard, age, queue, accepted, granted, handled>>

\* redis.incr returned; the first of a window goes on to set its end.
Incr(k) ==
  /\ At(k, "incr")
  /\ count' = [count EXCEPT ![Redis][Key(k)] = Counted(Redis, Key(k))]
  /\ IF count[Redis][Key(k)] = 0 THEN GoTo(k, "expire")
                                 ELSE Decide(k, Counted(Redis, Key(k)))
  /\ UNCHANGED <<left, limiter, claim, guard, age, queue, accepted, granted, handled>>

\* redis.pexpire returned.
Pexpire(k) ==
  /\ At(k, "expire")
  /\ left' = [left EXCEPT ![Redis][Key(k)] = Window + 1]
  /\ Decide(k, 1)
  /\ UNCHANGED <<count, limiter, claim, guard, age, queue, accepted, granted, handled>>

\* The client threw: whether or not the command took effect, the process
\* counts in its memory, now and from now on.
LimiterThrows(k) ==
  LET p == call[k].proc
      key == Key(k)
      mine == Counted(p, key) IN
  /\ call[k].pc \in {"incr", "expire"}
  /\ limiter' = [limiter EXCEPT ![p] = p]
  /\ \E done \in BOOLEAN :
       /\ count' = [count EXCEPT ![p][key] = mine,
                                 ![Redis][key] = IF done /\ At(k, "incr")
                                                   THEN Counted(Redis, key) ELSE @]
       /\ left' = [left EXCEPT ![p][key] = IF count[p][key] = 0 THEN Window + 1 ELSE @,
                               ![Redis][key] = IF done /\ At(k, "expire")
                                                 THEN Window + 1 ELSE @]
  /\ Decide(k, mine)
  /\ UNCHANGED <<claim, guard, age, queue, accepted, granted, handled>>
-----------------------------------------------------------------------------
(***************************************************************************)
(* requireSignedIngest                                                     *)
(***************************************************************************)
\* Mutant: an entry is pruned at its last instant.
ClaimPrunedEarly == 2 * Skew
\* 10 * 60 * 1000 against a skew of 5 * 60 * 1000.
ClaimLasts == 2 * Skew + 1

\* Mutant: what the store answers is not looked at.
ClaimBlind(k, s) ==
  LET r == call[k].req IN
  /\ GoTo(k, "handle")
  /\ claim' = [claim EXCEPT ![s][r] = ClaimLasts]
  /\ granted' = granted \cup {<<s, r>>}
  /\ handled' = handled \cup {r}

\* Store s answers the claim: 409, or the handler runs.
Claim(k, s) ==
  LET r == call[k].req IN
  IF claim[s][r] > 0
    THEN Answer(k) /\ UNCHANGED <<claim, granted, handled>>
    ELSE /\ GoTo(k, "handle")
         /\ claim' = [claim EXCEPT ![s][r] = ClaimLasts]
         /\ granted' = granted \cup {<<s, r>>}
         /\ handled' = handled \cup {r}

\* A good credential, a signature in date: to the first await of the claim.
Authenticate(k) ==
  LET p == call[k].proc IN
  /\ At(k, "authenticate")
  /\ call[k].req \in Good /\ age[call[k].req] < Expired
  /\ IF guard[p] = Redis THEN GoTo(k, "claim") /\ UNCHANGED <<claim, granted, handled>>
                         ELSE Claim(k, p)
  /\ UNCHANGED <<rateVars, guard, age, queue, accepted>>

\* 401 or 403, and whatever the handler refuses before its loop.
Refuse(k) ==
  /\ call[k].pc \in {"authenticate", "handle"}
  /\ Answer(k)
  /\ UNCHANGED <<rateVars, claim, guard, age, queue, accepted, granted, handled>>

\* redis.set NX returned.
SetReturns(k) ==
  /\ At(k, "claim")
  /\ Claim(k, Redis)
  /\ UNCHANGED <<rateVars, guard, age, queue, accepted>>

\* The client threw: the claim is made in memory, now and from now on,
\* although Redis may have it too.
GuardThrows(k) ==
  LET p == call[k].proc
      r == call[k].req IN
  /\ At(k, "claim")
  /\ guard' = [guard EXCEPT ![p] = p]
  /\ \E done \in BOOLEAN :
       LET seen == IF done /\ claim[Redis][r] = 0
                     THEN [claim EXCEPT ![Redis][r] = ClaimLasts] ELSE claim IN
       IF claim[p][r] > 0
         THEN Answer(k) /\ claim' = seen /\ UNCHANGED <<granted, handled>>
         ELSE /\ GoTo(k, "handle")
              /\ claim' = [seen EXCEPT ![p][r] = ClaimLasts]
              /\ granted' = granted \cup {<<p, r>>}
              /\ handled' = handled \cup {r}
  /\ UNCHANGED <<rateVars, age, queue, accepted>>
-----------------------------------------------------------------------------
(***************************************************************************)
(* POST /v1/ingest/gridflex                                                *)
(***************************************************************************)
Message(k) == Batch[call[k].req][call[k].next]
Done(k) == call[k].next > Len(Batch[call[k].req])

\* Access is verified, the payload transformed: to the loop.
Handle(k) ==
  /\ At(k, "handle")
  /\ call' = [call EXCEPT ![k].pc = "profile", ![k].next = 1]
  /\ UNCHANGED <<rateVars, claim, guard, age, queue, accepted, granted, handled>>

\* The profile of the next message is there, and the message validates.
Validate(k) ==
  /\ At(k, "profile")
  /\ ~Done(k)
  /\ IF Message(k) \in Invalid THEN Answer(k) ELSE GoTo(k, "enqueue")
  /\ UNCHANGED <<rateVars, claim, guard, age, queue, accepted, granted, handled>>

\* The message is in the queue, by its job id once.
Enqueue(k) ==
  /\ At(k, "enqueue")
  /\ queue' = queue \cup {Message(k)}
  /\ Advance(k, "profile")
  /\ UNCHANGED <<rateVars, claim, guard, age, accepted, granted, handled>>

\* 202.
Accept(k) ==
  /\ At(k, "profile")
  /\ Done(k)
  /\ accepted' = accepted \cup {call[k].req}
  /\ Answer(k)
  /\ UNCHANGED <<rateVars, claim, guard, age, queue, granted, handled>>

\* Mutant: the rejection of one message is swallowed, the loop goes on.
HandlerGoesOn(k) ==
  /\ call[k].pc = "enqueue"
  /\ Advance(k, "profile")
  /\ UNCHANGED <<rateVars, claim, guard, age, queue, accepted, granted, handled>>

\* An await of the loop rejects: 500, and the messages before stay.
HandlerThrows(k) ==
  /\ call[k].pc \in {"profile", "enqueue"}
  /\ ~Done(k)
  /\ queue' \in {queue} \cup (IF At(k, "enqueue") THEN {queue \cup {Message(k)}} ELSE {})
  /\ Answer(k)
  /\ UNCHANGED <<rateVars, claim, guard, age, accepted, granted, handled>>
-----------------------------------------------------------------------------
\* A process restarts: its calls and its maps are gone, Redis is tried again.
Restart(p) ==
  /\ call' = [k \in Calls |->
                IF ~At(k, "idle") /\ call[k].proc = p THEN Idle ELSE call[k]]
  /\ count' = [count EXCEPT ![p] = [key \in RateKeys |-> 0]]
  /\ left' = [left EXCEPT ![p] = [key \in RateKeys |-> 0]]
  /\ claim' = [claim EXCEPT ![p] = [r \in Requests |-> 0]]
  /\ limiter' = [limiter EXCEPT ![p] = Redis]
  /\ guard' = [guard EXCEPT ![p] = Redis]
  /\ granted' = {g \in granted : g[1] # p}
  /\ UNCHANGED <<age, queue, accepted, handled>>

\* What a call does when its awaits settle.
Step(k) ==
  \/ LimitKey(k) \/ Limited(k) \/ Incr(k) \/ Pexpire(k) \/ LimiterThrows(k)
  \/ Authenticate(k) \/ Refuse(k) \/ SetReturns(k) \/ GuardThrows(k)
  \/ Handle(k) \/ Validate(k) \/ Enqueue(k) \/ Accept(k) \/ HandlerThrows(k)

AdmissionNext ==
  \/ Tick
  \/ \E k \in Calls :
       \/ Step(k)
       \/ \E p \in Processes, r \in Requests : Arrive(k, p, r)
  \/ \E p \in Processes : Restart(p)

\* Time passes and awaited commands settle.
Fairness == WF_admissionVars(Tick) /\ \A k \in Calls : WF_admissionVars(Step(k))

AdmissionSpec == AdmissionInit /\ [][AdmissionNext]_admissionVars
FairSpec == AdmissionSpec /\ Fairness
-----------------------------------------------------------------------------
(***************************************************************************)
(* A store that let a request through remembers it for as long as its      *)
(* signature is accepted: the lifetime of a claim and the skew, constants  *)
(* of different functions, fit each other to the last instant, also for a  *)
(* client whose clock is ahead.                                            *)
(***************************************************************************)
ClaimOutlivesSignature ==
  \A s \in Stores, r \in Requests :
    <<s, r>> \in granted /\ age[r] < Expired => claim[s][r] > 0

LetThrough(k) == call[k].pc # "handle" /\ call'[k].pc = "handle"

(***************************************************************************)
(* "Replay keys are single-use for 10 minutes" (docs/SECRETS.md): a        *)
(* request is let through once while its signature is in date, whatever    *)
(* calls of whatever processes carry it and wherever the key is kept.      *)
(***************************************************************************)
SingleUse ==
  [][\A k \in Calls :
       LetThrough(k) /\ call[k].req \in handled
         => age[call[k].req] = Expired]_admissionVars

(***************************************************************************)
(* What is left of it when a Redis client throws: each store keeps its own *)
(* keys single-use, although a process may change its store between two    *)
(* claims.  A request passes twice only if it was let through by two       *)
(* stores, or by a memory that a restart has emptied.                      *)
(***************************************************************************)
SingleUsePerStore ==
  [][\A k \in Calls, s \in Stores :
       /\ LetThrough(k)
       /\ <<s, call[k].req>> \in granted
       /\ claim'[s][call[k].req] > claim[s][call[k].req]
       => age[call[k].req] = Expired]_admissionVars

(***************************************************************************)
(* 202 means the whole batch: every message of an accepted request has     *)
(* reached the queue, and was valid.                                       *)
(***************************************************************************)
AcceptedIsEnqueued ==
  \A r \in accepted : \A i \in 1..Len(Batch[r]) :
    Batch[r][i] \in queue /\ Batch[r][i] \notin Invalid

(***************************************************************************)
(* "ZOLT_RATE_LIMIT_PER_MINUTE": a window ends.  A key that has reached    *)
(* the limit in Redis is counted from zero again.                          *)
(***************************************************************************)
WindowEnds ==
  \A key \in RateKeys : count[Redis][key] > 0 ~> count[Redis][key] = 0
=============================================================================
