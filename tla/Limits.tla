------------------------------- MODULE Limits -------------------------------
(***************************************************************************)
(* The rate limit of the MCP endpoints (core/auth_oidc.py, called from     *)
(* mcp/router.py) for one client, over the replicas of the API.  It counts *)
(* in Redis, for all replicas, and falls back to the memory of the replica *)
(* when Redis refuses or cannot be reached.                                *)
(*                                                                         *)
(* A call of the client stands for its time stamp, which is the call's own *)
(* (no member of the sorted set replaces another), and is kept as an age   *)
(* in ticks.  A tick is long against a call to Redis.                      *)
(***************************************************************************)
EXTENDS Naturals, FiniteSets

CONSTANTS
    Replicas,
    RPM,              \* MCP_RATE_LIMIT_RPM
    Window,           \* the 60 seconds of the rate limit, in ticks
    CallIds,          \* bound: calls of the client within a window and a tick
    MaxOutages,       \* bound: outages of Redis and answers it loses
    MaxRestarts       \* bound: restarts of replicas, and of Redis

ASSUME LimitAssumption ==
    /\ IsFiniteSet(Replicas) /\ Replicas # {}
    /\ IsFiniteSet(CallIds)
    /\ RPM \in Nat \ {0}
    /\ Window \in Nat \ {0}
    /\ MaxOutages \in Nat
    /\ MaxRestarts \in Nat

VARIABLES
    up,               \* Redis answers
    outages,          \* outages of Redis so far
    restarts,         \* restarts so far that emptied a memory
    calls,            \* the client's calls within the last window and a tick
    age,              \* [CallIds -> ticks since the call]
    zset,             \* the sorted set sc:rl:<client_id>
    deque,            \* [Replicas -> SUBSET CallIds]: _rate_limit_store[client_id]
    admitted,         \* history: the calls that were let through
    refused           \* history: which call of its window was refused last

redisVars == <<up, outages, restarts>>
rateVars == <<calls, age, zset, deque, admitted, refused>>
vars == <<redisVars, rateVars>>

LimitsTypeOK ==
    /\ up \in BOOLEAN
    /\ outages \in 0 .. MaxOutages
    /\ restarts \in 0 .. MaxRestarts
    /\ calls \subseteq CallIds
    /\ age \in [CallIds -> 0 .. Window]
    /\ zset \subseteq calls /\ admitted \subseteq calls
    /\ deque \in [Replicas -> SUBSET calls]
    /\ \A p \in Replicas : Cardinality(deque[p]) <= RPM     \* deque(maxlen=RPM)
    /\ refused \in 0 .. Cardinality(CallIds)

LimitsInit ==
    /\ up = TRUE /\ outages = 0 /\ restarts = 0
    /\ calls = {} /\ zset = {} /\ admitted = {}
    /\ age = [c \in CallIds |-> 0]
    /\ deque = [p \in Replicas |-> {}]
    /\ refused = 0

-----------------------------------------------------------------------------
(* The rate limit of the MCP endpoints.                                    *)

\* Mutant of Recent: a time stamp at window_start itself still counts.
RecentInclusive(S) == {c \in S : age[c] <= Window}

\* The time stamps after window_start; the others are evicted.
Recent(S) == {c \in S : age[c] < Window}

\* The calls of the last window.
InWindow(S) == {c \in S : age[c] < Window}

\* check_rate_limit_redis: evict, count and add, in one transaction; the call
\* is added whether it is then refused or not.
InRedis(c) == zset' = Recent(zset) \cup {c}

RedisAdmits == Cardinality(Recent(zset)) < RPM

Admit(c) ==
    /\ admitted' = admitted \cup {c}
    /\ refused' = 0

\* The 429: which call it is, counted within the window.
Refuse ==
    /\ refused' = Cardinality(InWindow(calls)) + 1
    /\ UNCHANGED admitted

\* Mutant of InMemory: the time stamp is appended before the check.
InMemoryAppendsFirst(p, c) ==
    LET dq == Recent(deque[p]) \cup {c} IN
    /\ deque' = [deque EXCEPT ![p] = dq]
    /\ IF Cardinality(dq) > RPM THEN Refuse ELSE Admit(c)

\* Mutant of InMemory: the check lets one too many through; deque(maxlen) drops
\* the oldest.
InMemoryOneMore(p, c) ==
    LET dq == Recent(deque[p])
        oldest == {d \in dq : \A e \in dq : age[e] <= age[d]}
    IN  \E d \in IF Cardinality(dq) < RPM THEN {c} ELSE oldest :
            /\ deque' = [deque EXCEPT ![p] = (dq \ {d}) \cup {c}]
            /\ Admit(c)

\* check_rate_limit in the memory of replica p.
InMemory(p, c) ==
    LET dq == Recent(deque[p]) IN
    IF Cardinality(dq) >= RPM
    THEN /\ deque' = [deque EXCEPT ![p] = dq]
         /\ Refuse
    ELSE /\ deque' = [deque EXCEPT ![p] = dq \cup {c}]
         /\ Admit(c)

(***************************************************************************)
(* list_tools and dispatch_tool: any exception of the check in Redis, its  *)
(* own 429 included, leads to the check in memory.  A lost answer is an    *)
(* exception too, although Redis has counted the call.                     *)
(***************************************************************************)
Call(p, c) ==
    /\ c \notin calls
    /\ calls' = calls \cup {c}
    /\ age' = [age EXCEPT ![c] = 0]
    /\ \/ /\ up /\ InRedis(c) /\ RedisAdmits
          /\ Admit(c)
          /\ UNCHANGED <<outages, deque>>
       \/ /\ up /\ InRedis(c) /\ ~RedisAdmits
          /\ InMemory(p, c)
          /\ UNCHANGED outages
       \/ /\ up /\ InRedis(c) /\ outages < MaxOutages
          /\ outages' = outages + 1
          /\ InMemory(p, c)
       \/ /\ ~up
          /\ InMemory(p, c)
          /\ UNCHANGED <<outages, zset>>
    /\ UNCHANGED <<up, restarts>>

\* Calls grow older.  Those a tick out of the window are forgotten, since the
\* limiters evict them before they count again.
Tick ==
    /\ calls' = InWindow(calls)
    /\ age' = [c \in CallIds |-> IF c \in calls' THEN age[c] + 1 ELSE 0]
    /\ zset' = InWindow(zset)
    /\ deque' = [p \in Replicas |-> InWindow(deque[p])]
    /\ admitted' = InWindow(admitted)
    /\ refused' = 0
    /\ UNCHANGED redisVars

-----------------------------------------------------------------------------
(* Faults.                                                                 *)

RedisFails ==
    /\ up /\ outages < MaxOutages
    /\ up' = FALSE
    /\ outages' = outages + 1
    /\ UNCHANGED <<restarts, rateVars>>

\* Redis can be reached again and has kept its data, or it was restarted from
\* its last snapshot and has forgotten the calls that came since.
RedisRecovers ==
    /\ ~up
    /\ up' = TRUE
    /\ \/ UNCHANGED <<zset, restarts>>
       \/ /\ restarts < MaxRestarts
          /\ restarts' = restarts + 1
          /\ zset' \in SUBSET zset
    /\ UNCHANGED <<outages, calls, age, deque, admitted, refused>>

\* A replica is restarted: its memory is lost.
Restart(p) ==
    /\ restarts < MaxRestarts
    /\ restarts' = restarts + 1
    /\ deque' = [deque EXCEPT ![p] = {}]
    /\ UNCHANGED <<up, outages, calls, age, zset, admitted, refused>>

LimitsNext ==
    \/ \E p \in Replicas, c \in CallIds : Call(p, c)
    \/ \E p \in Replicas : Restart(p)
    \/ Tick \/ RedisFails \/ RedisRecovers

LimitsSpec == LimitsInit /\ [][LimitsNext]_vars

-----------------------------------------------------------------------------
(***************************************************************************)
(* How many calls get through in any window, whichever replicas they reach *)
(* and whatever fails: RPM by Redis, RPM by each replica's fallback, and   *)
(* RPM for each restart of a replica or of Redis.  A refusal by Redis is   *)
(* caught and handed to the fallback, so RPM alone is not the limit.       *)
(***************************************************************************)
AdmissionIsBounded ==
    Cardinality(InWindow(admitted)) <= RPM * (1 + Cardinality(Replicas) + restarts)

(***************************************************************************)
(* Nobody is refused below the limit: a call is refused only if it is at   *)
(* least the (RPM + 1)st of the client within the window.                  *)
(***************************************************************************)
RefusedOnlyAboveLimit == refused # 0 => refused > RPM
=============================================================================
