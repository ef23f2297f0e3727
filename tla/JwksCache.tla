----------------------------- MODULE JwksCache ------------------------------
(***************************************************************************)
(* Token verification in one API process (core/auth_oidc.py): the signing  *)
(* keys of Keycloak are cached for a TTL behind an asyncio.Lock with       *)
(* double-checked locking.  The coroutines of one event loop interleave    *)
(* only where the code awaits: at the lock and during the HTTP request.    *)
(*                                                                         *)
(* Time passes in ticks.  Ages, not instants, are kept, so that behaviours *)
(* may go on for ever.                                                     *)
(***************************************************************************)
EXTENDS Naturals, Sequences, FiniteSets

CONSTANTS
    Requests,         \* coroutines that verify a token
    TTL,              \* _JWKS_TTL, in ticks
    FetchMax,         \* assumed: ticks within which a fetch ends, see Tick
    MaxRotations      \* bound: how often Keycloak rotates its key

ASSUME JwksAssumption ==
    /\ TTL \in Nat \ {0}
    /\ FetchMax \in Nat
    /\ MaxRotations \in Nat

VARIABLES
    issuer,           \* the kid Keycloak publishes now; kids count up
    gone,             \* [Kids -> 0 .. Forever]: ticks since a kid was withdrawn
    cache,            \* _jwks_keyset and the age of _jwks_fetched_at
    waiters,          \* _jwks_lock: its holder, then who waits, first come first
    request           \* [Requests -> Request]

vars == <<issuer, gone, cache, waiters, request>>

Kids == 0 .. MaxRotations

NoKid == MaxRotations + 1     \* no key set: nothing fetched yet

\* Ages are not told apart from here on.
Forever == TTL + FetchMax + 1

(***************************************************************************)
(* kid: what the token of the request is signed with; got: what Keycloak   *)
(* answered; wait: ticks since the fetch began; late: when the token was   *)
(* accepted, how long its key had been withdrawn.                          *)
(***************************************************************************)
Request ==
    [pc : {"idle", "lock", "fetch", "answered", "ok", "invalid", "error"},
     kid : Kids, got : Kids \cup {NoKid}, wait : 0 .. FetchMax,
     late : 0 .. Forever]

NoRequest == [pc |-> "idle", kid |-> 0, got |-> NoKid, wait |-> 0, late |-> 0]

KeySet == [kid : Kids \cup {NoKid}, age : 0 .. TTL]

JwksTypeOK ==
    /\ issuer \in Kids
    /\ gone \in [Kids -> 0 .. Forever]
    /\ cache \in KeySet
    /\ waiters \in Seq(Requests)
    /\ request \in [Requests -> Request]

JwksInit ==
    /\ issuer = 0
    /\ gone = [k \in Kids |-> 0]
    /\ cache = [kid |-> NoKid, age |-> TTL]
    /\ waiters = << >>
    /\ request = [r \in Requests |-> NoRequest]

\* Mutant of Fresh: a key set is used up to and including its TTL.
FreshInclusive == cache.kid # NoKid /\ cache.age <= TTL

\* _jwks_keyset is not None and now - _jwks_fetched_at < _JWKS_TTL
Fresh == cache.kid # NoKid /\ cache.age < TTL

\* _decode_with_jwks: the kid of the token is looked up in the key set keys.
Verified(req, keys) ==
    IF req.kid = keys
    THEN [req EXCEPT !.pc = "ok", !.late = gone[req.kid]]
    ELSE [req EXCEPT !.pc = "invalid"]

Set(r, req) == request' = [request EXCEPT ![r] = req]

-----------------------------------------------------------------------------
\* A client sends a token it was given under some key, now or earlier.
\* The first check needs no lock.
Arrive(r) ==
    /\ request[r].pc = "idle"
    /\ \E k \in 0 .. issuer :
          LET req == [NoRequest EXCEPT !.kid = k] IN
          IF Fresh
          THEN Set(r, Verified(req, cache.kid)) /\ UNCHANGED waiters
          ELSE Set(r, [req EXCEPT !.pc = "lock"]) /\ waiters' = Append(waiters, r)
    /\ UNCHANGED <<issuer, gone, cache>>

\* Mutant of Acquire: the key set is not checked again under the lock.
AcquireUnchecked(r) ==
    /\ request[r].pc = "lock"
    /\ Head(waiters) = r
    /\ Set(r, [request[r] EXCEPT !.pc = "fetch"])
    /\ UNCHANGED <<issuer, gone, cache, waiters>>

\* The lock is r's: the second check, and the request to Keycloak.
Acquire(r) ==
    /\ request[r].pc = "lock"
    /\ Head(waiters) = r
    /\ IF Fresh
       THEN Set(r, Verified(request[r], cache.kid)) /\ waiters' = Tail(waiters)
       ELSE Set(r, [request[r] EXCEPT !.pc = "fetch"]) /\ UNCHANGED waiters
    /\ UNCHANGED <<issuer, gone, cache>>

\* Keycloak answers with the key it publishes; the answer is on its way.
Answer(r) ==
    /\ request[r].pc = "fetch"
    /\ Set(r, [request[r] EXCEPT !.pc = "answered", !.got = issuer])
    /\ UNCHANGED <<issuer, gone, cache, waiters>>

\* The answer arrives: the key set is replaced and dated, the lock released.
Store(r) ==
    /\ request[r].pc = "answered"
    /\ cache' = [kid |-> request[r].got, age |-> 0]
    /\ Set(r, Verified(request[r], request[r].got))
    /\ waiters' = Tail(waiters)
    /\ UNCHANGED <<issuer, gone>>

\* Mutant of FetchFails: the lock is not released by the exception.
FetchFailsLocked(r) ==
    /\ request[r].pc \in {"fetch", "answered"}
    /\ Set(r, [request[r] EXCEPT !.pc = "error"])
    /\ UNCHANGED <<issuer, gone, cache, waiters>>

\* The request fails or times out: httpx raises through the async with.
FetchFails(r) ==
    /\ request[r].pc \in {"fetch", "answered"}
    /\ Set(r, [request[r] EXCEPT !.pc = "error"])
    /\ waiters' = Tail(waiters)
    /\ UNCHANGED <<issuer, gone, cache>>

\* The response is sent.
Respond(r) ==
    /\ request[r].pc \in {"ok", "invalid", "error"}
    /\ Set(r, NoRequest)
    /\ UNCHANGED <<issuer, gone, cache, waiters>>

\* Keycloak publishes a new signing key in place of the old one.
RotateKey ==
    /\ issuer < MaxRotations
    /\ issuer' = issuer + 1
    /\ UNCHANGED <<gone, cache, waiters, request>>

Capped(n, bound) == IF n < bound THEN n + 1 ELSE bound

Fetching(r) == request[r].pc \in {"fetch", "answered"}

\* Mutant of Tick: the client has no timeout.
TickWithoutTimeout ==
    /\ cache' = [cache EXCEPT !.age = Capped(@, TTL)]
    /\ gone' = [k \in Kids |-> IF k < issuer THEN Capped(gone[k], Forever) ELSE 0]
    /\ request' = [r \in Requests |->
                     [request[r] EXCEPT !.wait = IF Fetching(r) THEN @ + 1 ELSE @]]
    /\ UNCHANGED <<issuer, waiters>>

(***************************************************************************)
(* Time passes.  A fetch ends within FetchMax: the timeout of httpx bounds *)
(* each connect, write and read, not the whole, so this is an assumption   *)
(* on a Keycloak and a network that do not feed the answer drop by drop.   *)
(***************************************************************************)
Tick ==
    /\ \A r \in Requests : Fetching(r) => request[r].wait < FetchMax
    /\ cache' = [cache EXCEPT !.age = Capped(@, TTL)]
    /\ gone' = [k \in Kids |-> IF k < issuer THEN Capped(gone[k], Forever) ELSE 0]
    /\ request' = [r \in Requests |->
                     [request[r] EXCEPT !.wait = IF Fetching(r) THEN @ + 1 ELSE @]]
    /\ UNCHANGED <<issuer, waiters>>

Verify(r) ==
    Acquire(r) \/ Answer(r) \/ Store(r) \/ FetchFails(r) \/ Respond(r)

JwksNext ==
    \/ \E r \in Requests : Arrive(r) \/ Verify(r)
    \/ RotateKey
    \/ Tick

\* The event loop runs every coroutine that can run, and httpx times out.
JwksSpec ==
    /\ JwksInit /\ [][JwksNext]_vars
    /\ \A r \in Requests : WF_vars(Verify(r))

-----------------------------------------------------------------------------
(***************************************************************************)
(* No thundering herd: at most one request at a time goes to Keycloak, and *)
(* none while the cached key set is fresh, however many coroutines found   *)
(* it expired before they queued for the lock (_get_jwks).                 *)
(***************************************************************************)
NoHerd ==
    /\ Cardinality({r \in Requests : Fetching(r)}) <= 1
    /\ \A r \in Requests : Fetching(r) => ~Fresh

(***************************************************************************)
(* A withdrawn key dies out: no token is accepted whose key was withdrawn  *)
(* as long ago as the TTL and the longest fetch together.  The TTL alone   *)
(* would not do: _jwks_fetched_at dates the arrival of the answer.         *)
(***************************************************************************)
WithdrawnKeysDieOut ==
    \A r \in Requests : request[r].pc = "ok" => request[r].late < TTL + FetchMax

(***************************************************************************)
(* Every request is answered, also when Keycloak is down: a failing fetch  *)
(* passes the lock on.                                                     *)
(***************************************************************************)
EveryRequestEnds ==
    \A r \in Requests : request[r].pc = "lock" ~> request[r].pc = "idle"
=============================================================================
