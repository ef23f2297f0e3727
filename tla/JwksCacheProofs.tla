-------------------------- MODULE JwksCacheProofs ---------------------------
(***************************************************************************)
(* Proofs about the cached signing keys, for any number of coroutines, any *)
(* TTL, any FetchMax and any number of key rotations.                      *)
(*                                                                         *)
(* NoHerd is not inductive: that nobody else goes to Keycloak follows from *)
(* the queue of the lock, whose head is the only coroutine that fetches.   *)
(* WithdrawnKeysDieOut needs to know how old a key can be that is cached   *)
(* or on its way.                                                          *)
(***************************************************************************)
EXTENDS JwksCache, FiniteSetTheorems, TLAPS

\* Who fetches holds the lock, and who waits for it is in its queue.
LockInv ==
    /\ \A r \in Requests :
          Fetching(r) => waiters # << >> /\ Head(waiters) = r
    /\ \A r \in Requests :
          request[r].pc = "lock" => \E i \in 1 .. Len(waiters) : waiters[i] = r

HerdInv ==
    /\ JwksTypeOK
    /\ LockInv
    /\ \A r \in Requests : Fetching(r) => ~Fresh

(***************************************************************************)
(* A published key is not withdrawn.  A key in use was withdrawn at most   *)
(* one fetch before the key set was dated, an answer on its way no earlier *)
(* than its fetch began.                                                   *)
(***************************************************************************)
AgeInv ==
    /\ \A k \in Kids : k >= issuer => gone[k] = 0
    /\ Fresh => gone[cache.kid] <= cache.age + FetchMax
    /\ \A r \in Requests : request[r].pc = "answered" =>
          request[r].got \in Kids /\ gone[request[r].got] <= request[r].wait

DeathInv == HerdInv /\ AgeInv /\ WithdrawnKeysDieOut

-----------------------------------------------------------------------------
(* Queues and verified requests.                                           *)

\* Joining the queue of the lock leaves everyone where they are.
LEMMA JoinQueue ==
    ASSUME NEW q \in Seq(Requests), NEW r \in Requests
    PROVE  /\ Append(q, r) \in Seq(Requests)
           /\ q # << >> => Append(q, r) # << >> /\ Head(Append(q, r)) = Head(q)
           /\ \E i \in 1 .. Len(Append(q, r)) : Append(q, r)[i] = r
           /\ \A p : (\E i \in 1 .. Len(q) : q[i] = p)
                 => \E i \in 1 .. Len(Append(q, r)) : Append(q, r)[i] = p
<1>1. /\ Append(q, r) \in Seq(Requests)
      /\ Len(Append(q, r)) = Len(q) + 1 /\ Len(q) \in Nat
      /\ \A i \in 1 .. Len(q) : Append(q, r)[i] = q[i]
      /\ Append(q, r)[Len(q) + 1] = r
  OBVIOUS
<1>2. q # << >> => Append(q, r) # << >> /\ Head(Append(q, r)) = Head(q)
  BY <1>1
<1>3. \E i \in 1 .. Len(Append(q, r)) : Append(q, r)[i] = r
  BY <1>1
<1>4. ASSUME NEW p, NEW i \in 1 .. Len(q), q[i] = p
      PROVE  \E j \in 1 .. Len(Append(q, r)) : Append(q, r)[j] = p
  BY <1>1, <1>4
<1> QED BY <1>1, <1>2, <1>3, <1>4

\* Releasing the lock removes its holder only.
LEMMA LeaveQueue ==
    ASSUME NEW q \in Seq(Requests), q # << >>
    PROVE  /\ Tail(q) \in Seq(Requests)
           /\ \A p : p # Head(q) /\ (\E i \in 1 .. Len(q) : q[i] = p)
                 => \E i \in 1 .. Len(Tail(q)) : Tail(q)[i] = p
<1>1. Tail(q) \in Seq(Requests) /\ Len(q) \in Nat
  OBVIOUS
<1>2. Len(Tail(q)) = Len(q) - 1 /\ \A j \in 1 .. Len(q) - 1 : Tail(q)[j] = q[j + 1]
  OBVIOUS
<1>3. ASSUME NEW p, p # Head(q), NEW i \in 1 .. Len(q), q[i] = p
      PROVE  \E j \in 1 .. Len(Tail(q)) : Tail(q)[j] = p
  <2>1. i # 1
    BY <1>3
  <2>2. i - 1 \in 1 .. Len(q) - 1 /\ (i - 1) + 1 = i
    BY <1>1, <2>1
  <2> QED BY <1>2, <1>3, <2>2
<1> QED BY <1>1, <1>3

\* A verified request is a request that is over; if its token was accepted,
\* the key set had its key.
LEMMA VerifiedRequest ==
    ASSUME gone \in [Kids -> 0 .. Forever], NEW req \in Request, NEW keys
    PROVE  /\ Verified(req, keys) \in Request
           /\ Verified(req, keys).pc \in {"ok", "invalid"}
           /\ Verified(req, keys).pc = "ok" =>
                 keys \in Kids /\ Verified(req, keys).late = gone[keys]
<1>1. req.kid \in Kids /\ gone[req.kid] \in 0 .. Forever
  BY DEF Request
<1>2. CASE req.kid = keys
  <2>1. Verified(req, keys) = [req EXCEPT !.pc = "ok", !.late = gone[req.kid]]
    BY <1>2 DEF Verified
  <2> QED BY <1>1, <1>2, <2>1 DEF Request
<1>3. CASE req.kid # keys
  <2>1. Verified(req, keys) = [req EXCEPT !.pc = "invalid"]
    BY <1>3 DEF Verified
  <2> QED BY <2>1 DEF Request
<1> QED BY <1>2, <1>3

-----------------------------------------------------------------------------
(* The lock.                                                               *)

LEMMA HerdInit == JwksInit => HerdInv
<1> SUFFICES ASSUME JwksInit PROVE HerdInv
  OBVIOUS
<1> USE JwksAssumption
<1>1. NoRequest \in Request
  BY DEF NoRequest, Request, Kids, NoKid, Forever
<1>2. JwksTypeOK
  BY <1>1 DEF JwksInit, JwksTypeOK, KeySet, Kids, NoKid, Forever
<1>3. \A r \in Requests : request[r].pc = "idle"
  BY DEF JwksInit, NoRequest
<1> QED BY <1>2, <1>3 DEF HerdInv, LockInv, Fetching

\* A step of r that leaves the lock and the key set alone, and with which r
\* neither joins the queue nor begins to fetch.
LEMMA StayStep ==
    ASSUME HerdInv, NEW r \in Requests, NEW req \in Request, Set(r, req),
           req.pc \in {"fetch", "answered"} => Fetching(r),
           req.pc # "lock",
           UNCHANGED <<issuer, gone, cache, waiters>>
    PROVE  HerdInv'
<1>1. request' \in [Requests -> Request]
  BY DEF Set, HerdInv, JwksTypeOK
<1>2. request'[r] = req /\ \A p \in Requests : p # r => request'[p] = request[p]
  BY DEF Set, HerdInv, JwksTypeOK
<1>3. JwksTypeOK'
  BY <1>1 DEF HerdInv, JwksTypeOK
<1>4. \A p \in Requests : Fetching(p)' => Fetching(p)
  BY <1>2 DEF Fetching
<1>5. \A p \in Requests : request'[p].pc = "lock" => request[p].pc = "lock"
  BY <1>2
<1>6. Fresh' = Fresh
  BY DEF Fresh
<1> QED BY <1>3, <1>4, <1>5, <1>6 DEF HerdInv, LockInv

\* A step by which the holder of the lock releases it.
LEMMA ReleaseStep ==
    ASSUME HerdInv, NEW r \in Requests, NEW req \in Request, Set(r, req),
           req.pc \notin {"lock", "fetch", "answered"},
           waiters # << >>, Head(waiters) = r, waiters' = Tail(waiters),
           cache' \in KeySet,
           UNCHANGED <<issuer, gone>>
    PROVE  HerdInv'
<1>1. request' \in [Requests -> Request]
  BY DEF Set, HerdInv, JwksTypeOK
<1>2. request'[r] = req /\ \A p \in Requests : p # r => request'[p] = request[p]
  BY DEF Set, HerdInv, JwksTypeOK
<1>3. waiters \in Seq(Requests)
  BY DEF HerdInv, JwksTypeOK
<1>4. JwksTypeOK'
  BY <1>1, <1>3, LeaveQueue DEF HerdInv, JwksTypeOK
<1>5. \A p \in Requests : ~Fetching(p)'
  BY <1>2 DEF Fetching, HerdInv, LockInv
<1>6. ASSUME NEW p \in Requests, request'[p].pc = "lock"
      PROVE  \E i \in 1 .. Len(waiters') : waiters'[i] = p
  <2>1. p # r /\ request[p].pc = "lock"
    BY <1>2, <1>6
  <2>2. \E i \in 1 .. Len(waiters) : waiters[i] = p
    BY <2>1 DEF HerdInv, LockInv
  <2> QED BY <1>3, <2>1, <2>2, LeaveQueue
<1> QED BY <1>4, <1>5, <1>6 DEF HerdInv, LockInv

\* A client's token: verified at once, or queued for the lock.
LEMMA ArriveStep ==
    ASSUME HerdInv, NEW r \in Requests, Arrive(r)
    PROVE  HerdInv'
<1> USE JwksAssumption
<1>1. PICK k \in 0 .. issuer :
        LET req == [NoRequest EXCEPT !.kid = k] IN
        IF Fresh
        THEN Set(r, Verified(req, cache.kid)) /\ UNCHANGED waiters
        ELSE Set(r, [req EXCEPT !.pc = "lock"]) /\ waiters' = Append(waiters, r)
  BY DEF Arrive
<1> DEFINE req == [NoRequest EXCEPT !.kid = k]
<1>2. k \in Kids
  BY DEF HerdInv, JwksTypeOK, Kids
<1>3. req \in Request
  BY <1>2 DEF NoRequest, Request, Kids, NoKid, Forever
<1>4. UNCHANGED <<issuer, gone, cache>>
  BY DEF Arrive
<1>5. CASE Fresh
  <2>1. Set(r, Verified(req, cache.kid)) /\ UNCHANGED waiters
    BY <1>1, <1>5
  <2>2. /\ Verified(req, cache.kid) \in Request
        /\ Verified(req, cache.kid).pc \in {"ok", "invalid"}
    BY <1>3, VerifiedRequest DEF HerdInv, JwksTypeOK
  <2> HIDE DEF req
  <2> QED BY <1>4, <2>1, <2>2, StayStep
<1>6. CASE ~Fresh
  <2>1. PICK q : q = [req EXCEPT !.pc = "lock"]
    OBVIOUS
  <2>2. q \in Request /\ q.pc = "lock"
    BY <1>3, <2>1 DEF Request
  <2>3. request' = [request EXCEPT ![r] = q] /\ waiters' = Append(waiters, r)
    BY <1>1, <1>6, <2>1 DEF Set
  <2>4. request'[r] = q /\ \A p \in Requests : p # r => request'[p] = request[p]
    BY <2>3 DEF HerdInv, JwksTypeOK
  <2>5. waiters \in Seq(Requests)
    BY DEF HerdInv, JwksTypeOK
  <2>6. JwksTypeOK'
    BY <1>4, <2>2, <2>3, <2>5, JoinQueue DEF HerdInv, JwksTypeOK
  <2>7. \A p \in Requests : Fetching(p)' => Fetching(p)
    BY <2>2, <2>4 DEF Fetching
  <2>8. Fresh' = Fresh
    BY <1>4 DEF Fresh
  <2>9. ASSUME NEW p \in Requests, Fetching(p)'
        PROVE  waiters' # << >> /\ Head(waiters') = p
    BY <2>3, <2>5, <2>7, <2>9, JoinQueue DEF HerdInv, LockInv
  <2>10. ASSUME NEW p \in Requests, request'[p].pc = "lock"
         PROVE  \E i \in 1 .. Len(waiters') : waiters'[i] = p
    <3>1. CASE p = r
      BY <2>3, <2>5, <3>1, JoinQueue
    <3>2. CASE p # r
      <4>1. \E i \in 1 .. Len(waiters) : waiters[i] = p
        BY <2>4, <2>10, <3>2 DEF HerdInv, LockInv
      <4> QED BY <2>3, <2>5, <4>1, JoinQueue
    <3> QED BY <3>1, <3>2
  <2> QED BY <2>6, <2>7, <2>8, <2>9, <2>10 DEF HerdInv, LockInv
<1> QED BY <1>5, <1>6

\* A step of a coroutine that was queued, fetches or is done.
LEMMA VerifyStep ==
    ASSUME HerdInv, NEW r \in Requests, Verify(r)
    PROVE  HerdInv'
<1> USE JwksAssumption
<1>1. /\ request[r] \in Request
      /\ cache \in KeySet
      /\ gone \in [Kids -> 0 .. Forever]
      /\ issuer \in Kids
  BY DEF HerdInv, JwksTypeOK
<1>2. Fetching(r) \/ request[r].pc = "lock" => waiters # << >>
  BY DEF HerdInv, LockInv, JwksTypeOK
<1>3. CASE Acquire(r)
  <2>1. request[r].pc = "lock" /\ Head(waiters) = r /\ UNCHANGED <<issuer, gone, cache>>
    BY <1>3 DEF Acquire
  <2>2. CASE Fresh
    <3>1. Set(r, Verified(request[r], cache.kid)) /\ waiters' = Tail(waiters)
      BY <1>3, <2>2 DEF Acquire
    <3>2. /\ Verified(request[r], cache.kid) \in Request
          /\ Verified(request[r], cache.kid).pc \in {"ok", "invalid"}
      BY <1>1, VerifiedRequest
    <3>3. cache' \in KeySet
      BY <1>1, <2>1
    <3> QED BY <1>2, <2>1, <3>1, <3>2, <3>3, ReleaseStep
  <2>3. CASE ~Fresh
    <3>1. PICK q : q = [request[r] EXCEPT !.pc = "fetch"]
      OBVIOUS
    <3>2. q \in Request /\ q.pc = "fetch"
      BY <1>1, <3>1 DEF Request
    <3>3. request' = [request EXCEPT ![r] = q] /\ waiters' = waiters
      BY <1>3, <2>3, <3>1 DEF Acquire, Set
    <3>4. request'[r] = q /\ \A p \in Requests : p # r => request'[p] = request[p]
      BY <3>3 DEF HerdInv, JwksTypeOK
    <3>5. JwksTypeOK'
      BY <2>1, <3>2, <3>3 DEF HerdInv, JwksTypeOK
    <3>6. \A p \in Requests : p # r => (Fetching(p)' <=> Fetching(p))
      BY <3>4 DEF Fetching
    <3>7. \A p \in Requests : request'[p].pc = "lock" => request[p].pc = "lock"
      BY <3>2, <3>4
    <3>8. LockInv'
      BY <1>2, <2>1, <3>3, <3>6, <3>7 DEF HerdInv, LockInv
    <3>9. ~Fresh'
      BY <2>1, <2>3 DEF Fresh
    <3> QED BY <3>5, <3>8, <3>9 DEF HerdInv
  <2> QED BY <2>2, <2>3
<1>4. CASE Answer(r)
  <2>1. PICK q : q = [request[r] EXCEPT !.pc = "answered", !.got = issuer]
    OBVIOUS
  <2>2. q \in Request /\ q.pc = "answered"
    BY <1>1, <2>1 DEF Request
  <2>3. Set(r, q) /\ Fetching(r) /\ UNCHANGED <<issuer, gone, cache, waiters>>
    BY <1>4, <2>1 DEF Answer, Fetching
  <2> QED BY <2>2, <2>3, StayStep
<1>5. CASE Store(r)
  <2>1. Fetching(r) /\ waiters # << >> /\ Head(waiters) = r
    BY <1>5 DEF Store, Fetching, HerdInv, LockInv
  <2>2. cache' \in KeySet
    BY <1>1, <1>5 DEF Store, KeySet, Request
  <2>3. /\ Verified(request[r], request[r].got) \in Request
        /\ Verified(request[r], request[r].got).pc \in {"ok", "invalid"}
    BY <1>1, VerifiedRequest
  <2> QED BY <1>5, <2>1, <2>2, <2>3, ReleaseStep DEF Store
<1>6. CASE FetchFails(r)
  <2>1. Fetching(r) /\ waiters # << >> /\ Head(waiters) = r
    BY <1>6 DEF FetchFails, Fetching, HerdInv, LockInv
  <2>2. PICK q : q = [request[r] EXCEPT !.pc = "error"]
    OBVIOUS
  <2>3. q \in Request /\ q.pc = "error"
    BY <1>1, <2>2 DEF Request
  <2>4. /\ Set(r, q) /\ waiters' = Tail(waiters)
        /\ cache' \in KeySet /\ UNCHANGED <<issuer, gone>>
    BY <1>1, <1>6, <2>2 DEF FetchFails
  <2> QED BY <2>1, <2>3, <2>4, ReleaseStep
<1>7. CASE Respond(r)
  <2>1. NoRequest \in Request /\ NoRequest.pc = "idle"
    BY DEF NoRequest, Request, Kids, NoKid, Forever
  <2>2. Set(r, NoRequest) /\ UNCHANGED <<issuer, gone, cache, waiters>>
    BY <1>7 DEF Respond
  <2> QED BY <2>1, <2>2, StayStep
<1> QED BY <1>3, <1>4, <1>5, <1>6, <1>7 DEF Verify

\* What a tick does to one request.
LEMMA TickRequest ==
    ASSUME JwksTypeOK, Tick, NEW r \in Requests
    PROVE  /\ request'[r] \in Request
           /\ request'[r].pc = request[r].pc
           /\ request'[r].got = request[r].got
           /\ request'[r].late = request[r].late
           /\ Fetching(r) => request'[r].wait = request[r].wait + 1
<1>1. PICK w : w = IF Fetching(r) THEN request[r].wait + 1 ELSE request[r].wait
  OBVIOUS
<1>2. request'[r] = [request[r] EXCEPT !.wait = w]
  BY <1>1 DEF Tick
<1>3. request[r] \in Request
  BY DEF JwksTypeOK
<1>4. w \in 0 .. FetchMax
  BY <1>1, <1>3, JwksAssumption DEF Tick, Request
<1> QED BY <1>1, <1>2, <1>3, <1>4 DEF Request

\* Time does not make a key set fresh.
LEMMA TickCache ==
    ASSUME JwksTypeOK, Tick
    PROVE  /\ cache' \in KeySet
           /\ cache'.kid = cache.kid
           /\ cache'.age < TTL => cache.age < TTL /\ cache'.age = cache.age + 1
<1>1. PICK a : a = Capped(cache.age, TTL)
  OBVIOUS
<1>2. cache' = [cache EXCEPT !.age = a] /\ cache \in KeySet
  BY <1>1 DEF Tick, JwksTypeOK
<1>3. a \in 0 .. TTL /\ (a < TTL => cache.age < TTL /\ a = cache.age + 1)
  BY <1>1, <1>2, JwksAssumption DEF Capped, KeySet
<1> QED BY <1>2, <1>3 DEF KeySet

\* How long a kid has been withdrawn grows by at most one.
LEMMA TickGone ==
    ASSUME JwksTypeOK, Tick
    PROVE  /\ gone' \in [Kids -> 0 .. Forever]
           /\ \A k \in Kids : gone'[k] <= gone[k] + 1
           /\ \A k \in Kids : k >= issuer => gone'[k] = 0
<1> USE JwksAssumption
<1>1. /\ gone' = [k \in Kids |-> IF k < issuer THEN Capped(gone[k], Forever) ELSE 0]
      /\ gone \in [Kids -> 0 .. Forever] /\ issuer \in Kids
  BY DEF Tick, JwksTypeOK
<1>2. ASSUME NEW k \in Kids
      PROVE  /\ gone'[k] \in 0 .. Forever
             /\ gone'[k] <= gone[k] + 1
             /\ k >= issuer => gone'[k] = 0
  BY <1>1 DEF Capped, Forever, Kids
<1>3. gone' \in [Kids -> 0 .. Forever]
  <2>1. DOMAIN gone' = Kids /\ gone' = [k \in Kids |-> gone'[k]]
    BY <1>1
  <2> QED BY <1>2, <2>1
<1> QED BY <1>2, <1>3

LEMMA TickStep ==
    ASSUME HerdInv, Tick
    PROVE  HerdInv'
<1>1. JwksTypeOK
  BY DEF HerdInv
<1>2. request' \in [Requests -> Request]
  <2>1. request' = [r \in Requests |-> request'[r]]
    BY DEF Tick
  <2> QED BY <1>1, <2>1, TickRequest
<1>3. UNCHANGED <<issuer, waiters>>
  BY DEF Tick
<1>4. JwksTypeOK'
  BY <1>1, <1>2, <1>3, TickCache, TickGone DEF JwksTypeOK
<1>5. \A r \in Requests : request'[r].pc = request[r].pc
  BY <1>1, TickRequest
<1>6. Fresh' => Fresh
  BY <1>1, TickCache DEF Fresh
<1>7. \A r \in Requests : Fetching(r)' <=> Fetching(r)
  BY <1>5 DEF Fetching
<1> QED BY <1>3, <1>4, <1>5, <1>6, <1>7 DEF HerdInv, LockInv

LEMMA HerdStep ==
    ASSUME HerdInv, [JwksNext]_vars
    PROVE  HerdInv'
<1>1. CASE UNCHANGED vars
  BY <1>1 DEF vars, HerdInv, LockInv, JwksTypeOK, Fetching, Fresh
<1>2. CASE RotateKey
  BY <1>2, JwksAssumption
     DEF RotateKey, HerdInv, LockInv, JwksTypeOK, Fetching, Fresh, Kids
<1>3. CASE Tick
  BY <1>3, TickStep
<1>4. ASSUME NEW r \in Requests, Arrive(r) \/ Verify(r) PROVE HerdInv'
  BY <1>4, ArriveStep, VerifyStep
<1> QED BY <1>1, <1>2, <1>3, <1>4 DEF JwksNext

\* Only the head of the queue fetches, so at most one coroutine does.
LEMMA OneFetches == HerdInv => NoHerd
<1> SUFFICES ASSUME HerdInv PROVE NoHerd
  OBVIOUS
<1> DEFINE S == {r \in Requests : Fetching(r)}
<1>1. Cardinality(S) <= 1
  <2>1. CASE S = {}
    BY <2>1, FS_EmptySet
  <2>2. CASE S # {}
    <3>1. S = {Head(waiters)}
      BY <2>2 DEF HerdInv, LockInv
    <3> QED BY <3>1, FS_Singleton
  <2> QED BY <2>1, <2>2
<1> QED BY <1>1 DEF NoHerd, HerdInv

-----------------------------------------------------------------------------
(* The age of keys.                                                        *)

\* A step of r that leaves Keycloak and the key set alone.
LEMMA AgeStay ==
    ASSUME DeathInv, NEW r \in Requests, NEW req \in Request, Set(r, req),
           UNCHANGED <<issuer, gone, cache>>,
           req.pc = "answered" => req.got \in Kids /\ gone[req.got] <= req.wait,
           req.pc = "ok" => req.late < TTL + FetchMax
    PROVE  AgeInv' /\ WithdrawnKeysDieOut'
<1>1. request'[r] = req /\ \A p \in Requests : p # r => request'[p] = request[p]
  BY DEF Set, DeathInv, HerdInv, JwksTypeOK
<1>2. Fresh' = Fresh
  BY DEF Fresh
<1> QED BY <1>1, <1>2 DEF DeathInv, AgeInv, WithdrawnKeysDieOut

\* A token that a fresh key set accepts was withdrawn in time.
LEMMA FreshAccepts ==
    ASSUME DeathInv, Fresh, NEW req \in Request
    PROVE  /\ Verified(req, cache.kid) \in Request
           /\ Verified(req, cache.kid).pc \in {"ok", "invalid"}
           /\ Verified(req, cache.kid).pc = "ok"
                 => Verified(req, cache.kid).late < TTL + FetchMax
<1>1. /\ gone \in [Kids -> 0 .. Forever] /\ cache \in KeySet
      /\ cache.age < TTL
      /\ gone[cache.kid] <= cache.age + FetchMax
  BY DEF DeathInv, HerdInv, JwksTypeOK, AgeInv, Fresh
<1>2. cache.kid \in Kids => gone[cache.kid] < TTL + FetchMax
  BY <1>1, JwksAssumption DEF KeySet, Forever
<1> QED BY <1>1, <1>2, VerifiedRequest

LEMMA AgeArrive ==
    ASSUME DeathInv, NEW r \in Requests, Arrive(r)
    PROVE  AgeInv' /\ WithdrawnKeysDieOut'
<1> USE JwksAssumption
<1>1. PICK k \in 0 .. issuer :
        LET req == [NoRequest EXCEPT !.kid = k] IN
        IF Fresh
        THEN Set(r, Verified(req, cache.kid)) /\ UNCHANGED waiters
        ELSE Set(r, [req EXCEPT !.pc = "lock"]) /\ waiters' = Append(waiters, r)
  BY DEF Arrive
<1> DEFINE req == [NoRequest EXCEPT !.kid = k]
<1>2. k \in Kids
  BY DEF DeathInv, HerdInv, JwksTypeOK, Kids
<1>3. req \in Request
  BY <1>2 DEF NoRequest, Request, Kids, NoKid, Forever
<1>4. UNCHANGED <<issuer, gone, cache>>
  BY DEF Arrive
<1>5. CASE Fresh
  <2>1. Set(r, Verified(req, cache.kid))
    BY <1>1, <1>5
  <2> HIDE DEF req
  <2>2. /\ Verified(req, cache.kid) \in Request
        /\ Verified(req, cache.kid).pc # "answered"
        /\ Verified(req, cache.kid).pc = "ok"
              => Verified(req, cache.kid).late < TTL + FetchMax
    BY <1>3, <1>5, FreshAccepts
  <2> QED BY <1>4, <2>1, <2>2, AgeStay
<1>6. CASE ~Fresh
  <2>1. PICK q : q = [req EXCEPT !.pc = "lock"]
    OBVIOUS
  <2>2. q \in Request /\ q.pc = "lock"
    BY <1>3, <2>1 DEF Request
  <2>3. Set(r, q)
    BY <1>1, <1>6, <2>1
  <2> QED BY <1>4, <2>2, <2>3, AgeStay
<1> QED BY <1>5, <1>6

LEMMA AgeVerify ==
    ASSUME DeathInv, NEW r \in Requests, Verify(r)
    PROVE  AgeInv' /\ WithdrawnKeysDieOut'
<1> USE JwksAssumption
<1>1. /\ request[r] \in Request
      /\ cache \in KeySet
      /\ gone \in [Kids -> 0 .. Forever]
      /\ issuer \in Kids
  BY DEF DeathInv, HerdInv, JwksTypeOK
<1>2. CASE Acquire(r)
  <2>1. UNCHANGED <<issuer, gone, cache>>
    BY <1>2 DEF Acquire
  <2>2. CASE Fresh
    <3>1. Set(r, Verified(request[r], cache.kid))
      BY <1>2, <2>2 DEF Acquire
    <3>2. /\ Verified(request[r], cache.kid) \in Request
          /\ Verified(request[r], cache.kid).pc # "answered"
          /\ Verified(request[r], cache.kid).pc = "ok"
                => Verified(request[r], cache.kid).late < TTL + FetchMax
      BY <1>1, <2>2, FreshAccepts
    <3> QED BY <2>1, <3>1, <3>2, AgeStay
  <2>3. CASE ~Fresh
    <3>1. PICK q : q = [request[r] EXCEPT !.pc = "fetch"]
      OBVIOUS
    <3>2. q \in Request /\ q.pc = "fetch"
      BY <1>1, <3>1 DEF Request
    <3>3. Set(r, q)
      BY <1>2, <2>3, <3>1 DEF Acquire
    <3> QED BY <2>1, <3>2, <3>3, AgeStay
  <2> QED BY <2>2, <2>3
<1>3. CASE Answer(r)
  <2>1. PICK q : q = [request[r] EXCEPT !.pc = "answered", !.got = issuer]
    OBVIOUS
  <2>2. q \in Request /\ q.pc = "answered" /\ q.got = issuer
    BY <1>1, <2>1 DEF Request
  <2>3. q.wait \in Nat
    BY <2>2 DEF Request
  <2>4. gone[issuer] = 0
    BY <1>1 DEF DeathInv, AgeInv, Kids
  <2>5. Set(r, q) /\ UNCHANGED <<issuer, gone, cache>>
    BY <1>3, <2>1 DEF Answer
  <2> QED BY <1>1, <2>2, <2>3, <2>4, <2>5, AgeStay
<1>4. CASE Store(r)
  <2>1. PICK q, g : g = request[r].got /\ q = Verified(request[r], g)
    OBVIOUS
  <2>2. g \in Kids /\ gone[g] <= request[r].wait
    BY <1>4, <2>1 DEF Store, DeathInv, AgeInv
  <2>3. gone[g] <= FetchMax /\ gone[g] \in Nat
    BY <1>1, <2>2 DEF Request
  <2>4. q \in Request /\ q.pc \in {"ok", "invalid"} /\ (q.pc = "ok" => q.late = gone[g])
    BY <1>1, <2>1, VerifiedRequest
  <2>5. request'[r] = q /\ \A p \in Requests : p # r => request'[p] = request[p]
    BY <1>4, <2>1 DEF Store, Set, DeathInv, HerdInv, JwksTypeOK
  <2>6. cache'.kid = g /\ cache'.age = 0 /\ UNCHANGED <<issuer, gone>>
    BY <1>4, <2>1 DEF Store
  <2>7. AgeInv'
    BY <2>3, <2>4, <2>5, <2>6 DEF DeathInv, AgeInv
  <2>8. WithdrawnKeysDieOut'
    BY <2>3, <2>4, <2>5 DEF DeathInv, WithdrawnKeysDieOut
  <2> QED BY <2>7, <2>8
<1>5. CASE FetchFails(r)
  <2>1. PICK q : q = [request[r] EXCEPT !.pc = "error"]
    OBVIOUS
  <2>2. q \in Request /\ q.pc = "error"
    BY <1>1, <2>1 DEF Request
  <2>3. Set(r, q) /\ UNCHANGED <<issuer, gone, cache>>
    BY <1>5, <2>1 DEF FetchFails
  <2> QED BY <2>2, <2>3, AgeStay
<1>6. CASE Respond(r)
  <2>1. NoRequest \in Request /\ NoRequest.pc = "idle"
    BY DEF NoRequest, Request, Kids, NoKid, Forever
  <2>2. Set(r, NoRequest) /\ UNCHANGED <<issuer, gone, cache>>
    BY <1>6 DEF Respond
  <2> QED BY <2>1, <2>2, AgeStay
<1> QED BY <1>2, <1>3, <1>4, <1>5, <1>6 DEF Verify

\* Keys age, and so do the key set and the fetches that could bring them in.
LEMMA AgeTick ==
    ASSUME DeathInv, Tick
    PROVE  AgeInv' /\ WithdrawnKeysDieOut'
<1> USE JwksAssumption
<1>1. JwksTypeOK /\ issuer' = issuer
  BY DEF DeathInv, HerdInv, Tick
<1>2. \A k \in Kids : gone[k] \in Nat /\ gone'[k] \in Nat /\ gone'[k] <= gone[k] + 1
  BY <1>1, TickGone DEF JwksTypeOK, Forever
<1>3. Fresh' => gone'[cache'.kid] <= cache'.age + FetchMax
  <2> SUFFICES ASSUME Fresh' PROVE gone'[cache'.kid] <= cache'.age + FetchMax
    OBVIOUS
  <2>1. cache'.kid = cache.kid /\ cache.kid \in Kids
    BY <1>1, TickCache DEF Fresh, JwksTypeOK, KeySet
  <2>2. Fresh /\ cache'.age = cache.age + 1 /\ cache.age \in Nat
    BY <1>1, <2>1, TickCache DEF Fresh, JwksTypeOK, KeySet
  <2>3. gone[cache.kid] <= cache.age + FetchMax
    BY <2>2 DEF DeathInv, AgeInv
  <2> QED BY <1>2, <2>1, <2>2, <2>3
<1>4. ASSUME NEW r \in Requests, request'[r].pc = "answered"
      PROVE  request'[r].got \in Kids /\ gone'[request'[r].got] <= request'[r].wait
  <2>1. /\ request[r].pc = "answered" /\ Fetching(r)
        /\ request'[r].got = request[r].got
        /\ request'[r].wait = request[r].wait + 1
    BY <1>1, <1>4, TickRequest DEF Fetching
  <2>2. request[r].got \in Kids /\ gone[request[r].got] <= request[r].wait
    BY <2>1 DEF DeathInv, AgeInv
  <2>3. request[r].wait \in Nat
    BY <1>1 DEF JwksTypeOK, Request
  <2> QED BY <1>2, <2>1, <2>2, <2>3
<1>5. AgeInv'
  BY <1>1, <1>3, <1>4, TickGone DEF AgeInv
<1>6. WithdrawnKeysDieOut'
  BY <1>1, TickRequest DEF DeathInv, WithdrawnKeysDieOut
<1> QED BY <1>5, <1>6

LEMMA DeathStep ==
    ASSUME DeathInv, [JwksNext]_vars
    PROVE  DeathInv'
<1>1. HerdInv'
  BY HerdStep DEF DeathInv
<1>2. AgeInv' /\ WithdrawnKeysDieOut'
  <2>1. CASE UNCHANGED vars
    BY <2>1 DEF vars, DeathInv, AgeInv, WithdrawnKeysDieOut, Fresh
  <2>2. CASE RotateKey
    <3>1. issuer' = issuer + 1 /\ issuer \in Nat /\ UNCHANGED <<gone, cache, request>>
      BY <2>2 DEF RotateKey, DeathInv, HerdInv, JwksTypeOK, Kids
    <3> QED BY <3>1 DEF DeathInv, AgeInv, WithdrawnKeysDieOut, Fresh, Kids
  <2>3. CASE Tick
    BY <2>3, AgeTick
  <2>4. ASSUME NEW r \in Requests, Arrive(r) \/ Verify(r)
        PROVE  AgeInv' /\ WithdrawnKeysDieOut'
    BY <2>4, AgeArrive, AgeVerify
  <2> QED BY <2>1, <2>2, <2>3, <2>4 DEF JwksNext
<1> QED BY <1>1, <1>2 DEF DeathInv

LEMMA DeathInit == JwksInit => DeathInv
<1> SUFFICES ASSUME JwksInit PROVE DeathInv
  OBVIOUS
<1>1. ~Fresh
  BY DEF JwksInit, Fresh
<1>2. \A r \in Requests : request[r].pc = "idle"
  BY DEF JwksInit, NoRequest
<1>3. \A k \in Kids : gone[k] = 0
  BY DEF JwksInit
<1> QED BY <1>1, <1>2, <1>3, HerdInit DEF DeathInv, AgeInv, WithdrawnKeysDieOut

-----------------------------------------------------------------------------
(* Theorems.                                                               *)

(***************************************************************************)
(* Key sets, requests and the queue of the lock stay well typed: no fetch  *)
(* outlives FetchMax, and the lock is only released by who holds it.       *)
(***************************************************************************)
THEOREM JwksTypeCorrect == JwksSpec => []JwksTypeOK
<1>1. HerdInv /\ [JwksNext]_vars => HerdInv'
  BY HerdStep
<1>2. HerdInv => JwksTypeOK
  BY DEF HerdInv
<1> QED BY <1>1, <1>2, HerdInit, PTL DEF JwksSpec

(***************************************************************************)
(* However many coroutines find the key set expired at once, one of them   *)
(* asks Keycloak and the others use its answer (_get_jwks).                *)
(***************************************************************************)
THEOREM OneFetchAtATime == JwksSpec => []NoHerd
<1>1. HerdInv /\ [JwksNext]_vars => HerdInv'
  BY HerdStep
<1> QED BY <1>1, HerdInit, OneFetches, PTL DEF JwksSpec

(***************************************************************************)
(* For every TTL and every bound on how long a fetch takes, a withdrawn    *)
(* key is accepted for less than the two together.                         *)
(***************************************************************************)
THEOREM WithdrawalTakesEffect == JwksSpec => []WithdrawnKeysDieOut
<1>1. DeathInv /\ [JwksNext]_vars => DeathInv'
  BY DeathStep
<1>2. DeathInv => WithdrawnKeysDieOut
  BY DEF DeathInv
<1> QED BY <1>1, <1>2, DeathInit, PTL DEF JwksSpec
=============================================================================
