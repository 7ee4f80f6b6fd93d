--------------------------- MODULE QueueConnection ---------------------------
(***************************************************************************)
(* The Redis connection behind the queues of one process                   *)
(* (packages/queue/src/index.ts): pingQueue, which asks for a new          *)
(* connection when a ping fails, and reconnectQueue, of which one is in    *)
(* progress at a time.                                                     *)
(*                                                                         *)
(* A reconnection remembers the connection and the queues that are         *)
(* current, awaits their closing, and then, without an await, disconnects  *)
(* the old connection and makes a new one current, which it waits for.     *)
(***************************************************************************)
EXTENDS Naturals

CONSTANTS
  Pings,        \* health probes in progress at once
  Flights,      \* reconnections that may be in progress at once
  MaxLinks      \* bound on connections ever made

ASSUME QueueAssumption == MaxLinks \in Nat \ {0}

VARIABLES
  redis,        \* Redis answers
  link,         \* link[c]: "none", "connecting", "ready" or "end"
  current,      \* connection, and the queues built on it
  reconnecting, \* the promise is there
  flight,       \* flight[f]: where a reconnection is, and its previousConnection
  ping          \* ping[p]: where a ping is, and the connection it is on

queueVars == <<redis, link, current, reconnecting, flight, ping>>

Links == 1 .. MaxLinks

QueueTypeOK ==
  /\ redis \in BOOLEAN /\ reconnecting \in BOOLEAN
  /\ link \in [Links -> {"none", "connecting", "ready", "end"}]
  /\ current \in Links
  /\ flight \in [Flights -> [pc : {"idle", "close", "wait"}, previous : Links]]
  /\ ping \in [Pings -> [pc : {"idle", "wait", "sent"}, on : Links]]

QueueInit ==
  /\ redis \in BOOLEAN
  /\ link = [c \in Links |-> IF c = 1 THEN "connecting" ELSE "none"]
  /\ current = 1 /\ reconnecting = FALSE
  /\ flight = [f \in Flights |-> [pc |-> "idle", previous |-> 1]]
  /\ ping = [p \in Pings |-> [pc |-> "idle", on |-> 1]]

\* Redis stops or starts to answer; retryStrategy brings a connection back.
RedisChanges ==
  /\ redis' = ~redis
  /\ link' = [c \in Links |-> IF redis /\ link[c] = "ready" THEN "connecting" ELSE link[c]]
  /\ UNCHANGED <<current, reconnecting, flight, ping>>

LinkReady(c) ==
  /\ redis /\ link[c] = "connecting"
  /\ link' = [link EXCEPT ![c] = "ready"]
  /\ UNCHANGED <<redis, current, reconnecting, flight, ping>>
-----------------------------------------------------------------------------
\* Mutant: every failed ping reconnects.
AlwaysJoins == FALSE
\* if (reconnecting) return reconnecting.
JoinsReconnection == reconnecting

\* reconnectQueue up to its first await.
Reconnect ==
  \/ /\ JoinsReconnection
     /\ UNCHANGED <<reconnecting, flight>>
  \/ \E f \in Flights :
       /\ ~JoinsReconnection /\ flight[f].pc = "idle"
       /\ flight' = [flight EXCEPT ![f] = [pc |-> "close", previous |-> current]]
       /\ reconnecting' = TRUE

\* Promise.allSettled: the queues are closed, or could not be.
Replace(f) ==
  /\ flight[f].pc = "close"
  /\ \E c \in Links :
       /\ link[c] = "none" /\ \A d \in Links : d < c => link[d] # "none"
       /\ link' = [link EXCEPT ![flight[f].previous] = "end", ![c] = "connecting"]
       /\ current' = c
  /\ flight' = [flight EXCEPT ![f].pc = "wait"]
  /\ UNCHANGED <<redis, reconnecting, ping>>

\* The new connection is ready, or REDIS_READY_TIMEOUT; then finally.
Landed(f) ==
  /\ flight[f].pc = "wait"
  /\ flight' = [flight EXCEPT ![f].pc = "idle"]
  /\ reconnecting' = FALSE
  /\ UNCHANGED <<redis, link, current, ping>>
-----------------------------------------------------------------------------
\* pingQueue: waitUntilReady of the connection there is...
StartPing(p) ==
  /\ ping[p].pc = "idle"
  /\ ping' = [ping EXCEPT ![p] = [pc |-> "wait", on |-> current]]
  /\ UNCHANGED <<redis, link, current, reconnecting, flight>>

\* ...and then PING, on the connection there is by then.
SendPing(p) ==
  /\ ping[p].pc = "wait" /\ link[ping[p].on] = "ready"
  /\ ping' = [ping EXCEPT ![p] = [pc |-> "sent", on |-> current]]
  /\ UNCHANGED <<redis, link, current, reconnecting, flight>>

Pong(p) ==
  /\ ping[p].pc = "sent" /\ link[ping[p].on] = "ready"
  /\ ping' = [ping EXCEPT ![p].pc = "idle"]
  /\ UNCHANGED <<redis, link, current, reconnecting, flight>>

\* A timeout, or the connection is disconnected under the ping.
PingFails(p) ==
  /\ ping[p].pc # "idle"
  /\ ping' = [ping EXCEPT ![p].pc = "idle"]
  /\ Reconnect
  /\ UNCHANGED <<redis, link, current>>

QueueNext ==
  \/ RedisChanges
  \/ \E c \in Links : LinkReady(c)
  \/ \E f \in Flights : Replace(f) \/ Landed(f)
  \/ \E p \in Pings : StartPing(p) \/ SendPing(p) \/ Pong(p) \/ PingFails(p)

QueueSpec == QueueInit /\ [][QueueNext]_queueVars
-----------------------------------------------------------------------------
(***************************************************************************)
(* Every connection but the current one has been disconnected, and the     *)
(* current one has not: pings that fail together, or on a connection that  *)
(* a reconnection has replaced, leak none and lose none.                   *)
(***************************************************************************)
OneConnection ==
  \A c \in Links : link[c] \in {"connecting", "ready"} <=> c = current
=============================================================================
