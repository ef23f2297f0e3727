---------------------------- MODULE LimitsProofs ----------------------------
(***************************************************************************)
(* Proofs about the rate limit, for any number of replicas, calls, outages *)
(* and restarts, any limit and any window.                                 *)
(*                                                                         *)
(* How many calls got through is no invariant by itself: each of them is   *)
(* put down to Redis, to the memory of a replica, or to a memory or a      *)
(* sorted set that a restart has emptied.                                  *)
(***************************************************************************)
EXTENDS Limits, FiniteSetTheorems, FunctionTheorems, TLAPS

\* The calls that replicas remember.
Remembered == UNION {deque[p] : p \in Replicas}

\* What Redis admitted (Z) is still in the sorted set; L was lost by restarts.
Accounted ==
    \E Z, L \in SUBSET CallIds :
        /\ Z \subseteq zset /\ Cardinality(Z) <= RPM
        /\ Cardinality(L) <= RPM * restarts
        /\ InWindow(admitted) \subseteq Z \cup L \cup Remembered

RedisTypeOK ==
    /\ up \in BOOLEAN
    /\ outages \in 0 .. MaxOutages
    /\ restarts \in 0 .. MaxRestarts

RateTypeOK ==
    /\ calls \subseteq CallIds
    /\ age \in [CallIds -> 0 .. Window]
    /\ zset \subseteq calls /\ admitted \subseteq calls
    /\ deque \in [Replicas -> SUBSET calls]
    /\ \A p \in Replicas : Cardinality(deque[p]) <= RPM
    /\ refused \in 0 .. Cardinality(CallIds)

RateInv == RedisTypeOK /\ RateTypeOK /\ RefusedOnlyAboveLimit /\ Accounted

-----------------------------------------------------------------------------
(* Counting.                                                               *)

LEMMA CallsFinite ==
    ASSUME NEW S \in SUBSET CallIds
    PROVE  IsFiniteSet(S) /\ Cardinality(S) \in Nat
<1>1. IsFiniteSet(S)
  BY FS_Subset, LimitAssumption
<1> QED BY <1>1, FS_CardinalityType

LEMMA FewerCalls ==
    ASSUME NEW S \in SUBSET CallIds, NEW R \in SUBSET S
    PROVE  Cardinality(R) <= Cardinality(S)
BY CallsFinite, FS_Subset

LEMMA OneMoreCall ==
    ASSUME NEW S \in SUBSET CallIds, NEW c \in CallIds
    PROVE  /\ S \cup {c} \in SUBSET CallIds
           /\ Cardinality(S \cup {c}) <= Cardinality(S) + 1
           /\ c \notin S => Cardinality(S \cup {c}) = Cardinality(S) + 1
<1>1. IsFiniteSet(S) /\ Cardinality(S) \in Nat
  BY CallsFinite
<1>2. Cardinality(S \cup {c}) = IF c \in S THEN Cardinality(S) ELSE Cardinality(S) + 1
  BY <1>1, FS_AddElement
<1> QED BY <1>1, <1>2

\* Two sets of calls together are no more than each counted for itself.
LEMMA TwoSets ==
    ASSUME NEW S \in SUBSET CallIds, NEW R \in SUBSET CallIds
    PROVE  Cardinality(S \cup R) <= Cardinality(S) + Cardinality(R)
<1>1. IsFiniteSet(S) /\ Cardinality(S) \in Nat /\ IsFiniteSet(R) /\ Cardinality(R) \in Nat
  BY CallsFinite
<1>2. Cardinality(S \cap R) \in Nat
  BY CallsFinite
<1>3. Cardinality(S \cup R) = Cardinality(S) + Cardinality(R) - Cardinality(S \cap R)
  BY <1>1, FS_Union
<1> QED BY <1>1, <1>2, <1>3

\* Replicas that remember at most RPM calls each remember RPM * their number.
LEMMA AllMemories ==
    ASSUME NEW q \in [Replicas -> SUBSET CallIds],
           \A p \in Replicas : Cardinality(q[p]) <= RPM
    PROVE  Cardinality(UNION {q[p] : p \in Replicas}) <= RPM * Cardinality(Replicas)
<1> DEFINE U == UNION {q[p] : p \in Replicas}
           Places == Replicas \X (1 .. RPM)
           Seat(p) == CHOOSE f \in [q[p] -> 1 .. RPM] :
                          \A c, d \in q[p] : f[c] = f[d] => c = d
           Owner(c) == CHOOSE p \in Replicas : c \in q[p]
           place == [c \in U |-> <<Owner(c), Seat(Owner(c))[c]>>]
<1>1. ASSUME NEW p \in Replicas
      PROVE  /\ Seat(p) \in [q[p] -> 1 .. RPM]
             /\ \A c, d \in q[p] : Seat(p)[c] = Seat(p)[d] => c = d
  <2>1. q[p] \in SUBSET CallIds /\ Cardinality(q[p]) <= RPM
    BY <1>1
  <2>2. IsFiniteSet(q[p]) /\ Cardinality(q[p]) \in Nat
    BY <2>1, CallsFinite
  <2>3. ExistsBijection(1 .. Cardinality(q[p]), q[p])
    BY <2>2, FS_CardinalityType
  <2>4. ExistsBijection(q[p], 1 .. Cardinality(q[p]))
    BY <2>3, Fun_ExistsBijSymmetric
  <2>5. PICK f : f \in Bijection(q[p], 1 .. Cardinality(q[p]))
    BY <2>4 DEF ExistsBijection
  <2>6. f \in [q[p] -> 1 .. Cardinality(q[p])] /\ \A c, d \in q[p] : f[c] = f[d] => c = d
    BY <2>5 DEF Bijection, Injection, IsInjective
  <2>7. 1 .. Cardinality(q[p]) \subseteq 1 .. RPM
    BY <2>1, <2>2, LimitAssumption
  <2>8. f \in [q[p] -> 1 .. RPM]
    BY <2>6, <2>7
  <2> QED BY <2>6, <2>8
<1>2. ASSUME NEW c \in U PROVE Owner(c) \in Replicas /\ c \in q[Owner(c)]
  BY <1>2
<1> HIDE DEF Seat, Owner
<1>3. place \in [U -> Places]
  BY <1>1, <1>2
<1>4. ASSUME NEW c \in U, NEW d \in U, place[c] = place[d] PROVE c = d
  <2>1. Owner(c) = Owner(d) /\ Seat(Owner(c))[c] = Seat(Owner(d))[d]
    BY <1>4
  <2> QED BY <1>1, <1>2, <2>1
<1>5. place \in Injection(U, Places)
  BY <1>3, <1>4 DEF Injection, IsInjective
<1>6. IsFiniteSet(1 .. RPM) /\ Cardinality(1 .. RPM) = RPM
  BY FS_Interval, LimitAssumption
<1>7. IsFiniteSet(Places) /\ Cardinality(Places) = Cardinality(Replicas) * RPM
  BY <1>6, FS_Product, LimitAssumption
<1>8. Cardinality(U) <= Cardinality(Places)
  BY <1>5, <1>7, FS_Injection
<1>9. Cardinality(Replicas) \in Nat
  BY FS_CardinalityType, LimitAssumption
<1>10. Cardinality(Replicas) * RPM = RPM * Cardinality(Replicas)
  BY <1>9, LimitAssumption
<1> QED BY <1>7, <1>8, <1>10

-----------------------------------------------------------------------------
(* The rate limit.                                                         *)

LEMMA RateInit == LimitsInit => RateInv
<1> SUFFICES ASSUME LimitsInit PROVE RateInv
  OBVIOUS
<1>1. Cardinality({}) = 0 /\ Cardinality(CallIds) \in Nat
  BY FS_EmptySet, FS_CardinalityType, LimitAssumption
<1>2. RedisTypeOK /\ RateTypeOK
  BY <1>1, LimitAssumption DEF LimitsInit, RedisTypeOK, RateTypeOK
<1>3. RefusedOnlyAboveLimit
  BY DEF LimitsInit, RefusedOnlyAboveLimit
<1>4. RPM * restarts = 0
  BY LimitAssumption DEF LimitsInit
<1>5. InWindow(admitted) = {}
  BY DEF LimitsInit, InWindow
<1>6. Accounted
  BY <1>1, <1>4, <1>5, LimitAssumption DEF Accounted
<1> QED BY <1>2, <1>3, <1>6 DEF RateInv

\* What a call leaves alone: the ages of the calls before it.
LEMMA CallAges ==
    ASSUME RateInv, NEW p \in Replicas, NEW c \in CallIds, Call(p, c)
    PROVE  /\ c \notin calls /\ calls' = calls \cup {c} /\ calls' \subseteq CallIds
           /\ age' \in [CallIds -> 0 .. Window]
           /\ age'[c] = 0 /\ \A d \in calls : age'[d] = age[d]
           /\ RedisTypeOK' /\ restarts' = restarts
<1>1. /\ c \notin calls /\ calls' = calls \cup {c} /\ age' = [age EXCEPT ![c] = 0]
      /\ UNCHANGED <<up, restarts>>
  BY DEF Call
<1>2. outages' = outages \/ (outages < MaxOutages /\ outages' = outages + 1)
  BY DEF Call
<1>3. RedisTypeOK'
  BY <1>1, <1>2, LimitAssumption DEF RateInv, RedisTypeOK
<1> QED BY <1>1, <1>3, LimitAssumption DEF RateInv, RateTypeOK

\* The two outcomes of check_rate_limit.
LEMMA MemoryCases ==
    ASSUME RateInv, NEW p \in Replicas, NEW c \in CallIds, InMemory(p, c)
    PROVE  \/ /\ Cardinality(Recent(deque[p])) >= RPM
              /\ deque' = [deque EXCEPT ![p] = Recent(deque[p])]
              /\ Refuse
           \/ /\ Cardinality(Recent(deque[p])) < RPM
              /\ deque' = [deque EXCEPT ![p] = Recent(deque[p]) \cup {c}]
              /\ Admit(c)
<1>1. Recent(deque[p]) \in SUBSET CallIds
  BY DEF RateInv, RateTypeOK, Recent
<1>2. Cardinality(Recent(deque[p])) \in Nat
  BY <1>1, CallsFinite
<1>3. CASE Cardinality(Recent(deque[p])) >= RPM
  BY <1>3 DEF InMemory
<1>4. CASE ~(Cardinality(Recent(deque[p])) >= RPM)
  <2>1. Cardinality(Recent(deque[p])) < RPM
    BY <1>2, <1>4, LimitAssumption
  <2> QED BY <1>4, <2>1 DEF InMemory
<1> QED BY <1>3, <1>4

\* A call that Redis admits.
LEMMA RedisStep ==
    ASSUME RateInv, NEW p \in Replicas, NEW c \in CallIds, Call(p, c),
           InRedis(c), RedisAdmits, Admit(c), UNCHANGED deque
    PROVE  RateInv'
<1>1. /\ c \notin calls /\ calls' = calls \cup {c} /\ calls' \subseteq CallIds
      /\ age' \in [CallIds -> 0 .. Window]
      /\ age'[c] = 0 /\ \A d \in calls : age'[d] = age[d]
      /\ RedisTypeOK' /\ restarts' = restarts
  BY CallAges
<1>2. /\ zset' = Recent(zset) \cup {c} /\ admitted' = admitted \cup {c} /\ refused' = 0
      /\ deque' = deque
  BY DEF InRedis, Admit
<1>3. Recent(zset) \in SUBSET CallIds /\ Recent(zset) \subseteq calls
  BY DEF RateInv, RateTypeOK, Recent
<1>4. RateTypeOK'
  <2>1. zset' \subseteq calls' /\ admitted' \subseteq calls'
    BY <1>1, <1>2, <1>3 DEF RateInv, RateTypeOK
  <2>2. deque' \in [Replicas -> SUBSET calls']
    BY <1>1, <1>2 DEF RateInv, RateTypeOK
  <2>3. \A q \in Replicas : Cardinality(deque'[q]) <= RPM
    BY <1>2 DEF RateInv, RateTypeOK
  <2>4. refused' \in 0 .. Cardinality(CallIds)
    BY <1>2, FS_CardinalityType, LimitAssumption
  <2> QED BY <1>1, <2>1, <2>2, <2>3, <2>4 DEF RateTypeOK
<1>5. RefusedOnlyAboveLimit'
  BY <1>2 DEF RefusedOnlyAboveLimit
<1>6. PICK Z \in SUBSET CallIds, L \in SUBSET CallIds :
          /\ Z \subseteq zset /\ Cardinality(Z) <= RPM
          /\ Cardinality(L) <= RPM * restarts
          /\ InWindow(admitted) \subseteq Z \cup L \cup Remembered
  BY DEF RateInv, Accounted
<1>7. Cardinality(zset') <= RPM /\ zset' \in SUBSET CallIds
  <2>1. Cardinality(Recent(zset)) \in Nat /\ Cardinality(Recent(zset)) < RPM
    BY <1>3, CallsFinite DEF RedisAdmits
  <2>2. /\ zset' \in SUBSET CallIds /\ Cardinality(zset') \in Nat
        /\ Cardinality(zset') <= Cardinality(Recent(zset)) + 1
    BY <1>2, <1>3, OneMoreCall, CallsFinite
  <2> QED BY <2>1, <2>2, LimitAssumption
<1>8. InWindow(admitted)' \subseteq zset' \cup L \cup Remembered'
  <2> SUFFICES ASSUME NEW x \in admitted', age'[x] < Window, x # c
               PROVE  x \in zset' \cup L \cup Remembered'
    BY <1>2 DEF InWindow
  <2>1. x \in InWindow(admitted)
    BY <1>1, <1>2 DEF InWindow, RateInv, RateTypeOK
  <2>2. x \in Z => x \in zset'
    BY <1>2, <1>6, <2>1 DEF InWindow, Recent
  <2>3. Remembered' = Remembered
    BY <1>2 DEF Remembered
  <2> QED BY <1>6, <2>1, <2>2, <2>3
<1>9. Accounted'
  BY <1>1, <1>6, <1>7, <1>8 DEF Accounted
<1> QED BY <1>1, <1>4, <1>5, <1>9 DEF RateInv

\* A call that is checked in the memory of replica p, whatever Redis did.
LEMMA MemoryStep ==
    ASSUME RateInv, NEW p \in Replicas, NEW c \in CallIds, Call(p, c),
           zset' = zset \/ InRedis(c), InMemory(p, c)
    PROVE  RateInv'
<1> DEFINE dq == Recent(deque[p])
<1>1. /\ c \notin calls /\ calls' = calls \cup {c} /\ calls' \subseteq CallIds
      /\ age' \in [CallIds -> 0 .. Window]
      /\ age'[c] = 0 /\ \A d \in calls : age'[d] = age[d]
      /\ RedisTypeOK' /\ restarts' = restarts
  BY CallAges
<1>2. /\ Recent(zset) \subseteq zset' /\ zset' \subseteq calls'
  BY <1>1 DEF InRedis, Recent, RateInv, RateTypeOK
<1>3. /\ dq \in SUBSET CallIds /\ dq \subseteq InWindow(calls) /\ dq \in SUBSET deque[p]
      /\ deque[p] \in SUBSET CallIds
      /\ InWindow(calls) \in SUBSET CallIds /\ c \notin InWindow(calls)
  BY <1>1 DEF RateInv, RateTypeOK, Recent, InWindow
<1>4. /\ Cardinality(dq) \in Nat /\ Cardinality(dq) <= RPM
      /\ Cardinality(InWindow(calls)) \in Nat /\ Cardinality(CallIds) \in Nat
      /\ Cardinality(deque[p]) \in Nat
  <2>1. /\ Cardinality(dq) \in Nat /\ Cardinality(InWindow(calls)) \in Nat
        /\ Cardinality(deque[p]) \in Nat
    BY <1>3, CallsFinite
  <2>2. Cardinality(CallIds) \in Nat
    BY FS_CardinalityType, LimitAssumption
  <2>3. Cardinality(dq) <= Cardinality(deque[p]) /\ Cardinality(deque[p]) <= RPM
    BY <1>3, FewerCalls DEF RateInv, RateTypeOK
  <2> QED BY <2>1, <2>2, <2>3, LimitAssumption
<1>5. \/ /\ Cardinality(dq) >= RPM /\ Refuse
         /\ deque' = [deque EXCEPT ![p] = dq]
      \/ /\ Cardinality(dq) < RPM /\ Admit(c)
         /\ deque' = [deque EXCEPT ![p] = dq \cup {c}]
  BY MemoryCases
<1>6. /\ dq \subseteq deque'[p] /\ deque'[p] \subseteq calls'
      /\ \A q \in Replicas : q # p => deque'[q] = deque[q]
      /\ DOMAIN deque' = Replicas /\ deque' = [q \in Replicas |-> deque'[q]]
  <2>1. deque \in [Replicas -> SUBSET calls]
    BY DEF RateInv, RateTypeOK
  <2>2. PICK new : /\ new = dq \/ new = dq \cup {c}
                   /\ deque' = [deque EXCEPT ![p] = new]
    BY <1>5
  <2>3. /\ deque'[p] = new
        /\ \A q \in Replicas : q # p => deque'[q] = deque[q]
        /\ DOMAIN deque' = Replicas /\ deque' = [q \in Replicas |-> deque'[q]]
    BY <2>1, <2>2
  <2>4. dq \subseteq calls
    BY <1>3 DEF InWindow
  <2> HIDE DEF dq
  <2>5. dq \subseteq new /\ new \subseteq calls'
    BY <1>1, <2>2, <2>4
  <2> QED BY <2>3, <2>5
<1>7. Cardinality(deque'[p]) <= RPM
  <2>1. CASE deque' = [deque EXCEPT ![p] = dq]
    BY <1>4, <2>1 DEF RateInv, RateTypeOK
  <2>2. CASE Cardinality(dq) < RPM /\ deque' = [deque EXCEPT ![p] = dq \cup {c}]
    <3>1. /\ Cardinality(dq \cup {c}) <= Cardinality(dq) + 1
          /\ Cardinality(dq \cup {c}) \in Nat
      BY <1>3, OneMoreCall, CallsFinite
    <3>2. deque'[p] = dq \cup {c}
      BY <2>2 DEF RateInv, RateTypeOK
    <3> HIDE DEF dq
    <3>3. Cardinality(dq \cup {c}) <= RPM
      BY <1>4, <2>2, <3>1, LimitAssumption
    <3> QED BY <3>2, <3>3
  <2> QED BY <1>5, <2>1, <2>2
<1>8. /\ refused' \in 0 .. Cardinality(CallIds)
      /\ refused' # 0 => refused' > RPM
  <2>1. CASE Admit(c)
    BY <1>4, <2>1 DEF Admit
  <2>2. CASE Cardinality(dq) >= RPM /\ Refuse
    <3>1. Cardinality(dq) <= Cardinality(InWindow(calls))
      BY <1>3, FewerCalls
    <3>2. Cardinality(InWindow(calls) \cup {c}) = Cardinality(InWindow(calls)) + 1
      BY <1>3, OneMoreCall
    <3>3. Cardinality(InWindow(calls) \cup {c}) <= Cardinality(CallIds)
      BY <1>3, FewerCalls
    <3>4. refused' = Cardinality(InWindow(calls)) + 1
      BY <2>2 DEF Refuse
    <3> QED BY <1>4, <2>2, <3>1, <3>2, <3>3, <3>4, LimitAssumption
  <2> QED BY <1>5, <2>1, <2>2
<1>9. RateTypeOK'
  <2>1. admitted' \subseteq calls'
    BY <1>1, <1>5 DEF Admit, Refuse, RateInv, RateTypeOK
  <2>2. \A q \in Replicas : deque'[q] \in SUBSET calls'
    BY <1>1, <1>6 DEF RateInv, RateTypeOK
  <2>3. \A q \in Replicas : Cardinality(deque'[q]) <= RPM
    BY <1>6, <1>7 DEF RateInv, RateTypeOK
  <2>4. deque' \in [Replicas -> SUBSET calls']
    BY <1>6, <2>2
  <2> QED BY <1>1, <1>2, <1>8, <2>1, <2>3, <2>4 DEF RateTypeOK
<1>10. PICK Z \in SUBSET CallIds, L \in SUBSET CallIds :
          /\ Z \subseteq zset /\ Cardinality(Z) <= RPM
          /\ Cardinality(L) <= RPM * restarts
          /\ InWindow(admitted) \subseteq Z \cup L \cup Remembered
  BY DEF RateInv, Accounted
<1>11. /\ Recent(Z) \in SUBSET CallIds /\ Recent(Z) \subseteq zset'
       /\ Cardinality(Recent(Z)) <= RPM
  <2>1. Recent(Z) \in SUBSET Z /\ Recent(Z) \subseteq Recent(zset)
    BY <1>10 DEF Recent
  <2>2. Cardinality(Recent(Z)) <= Cardinality(Z)
    BY <2>1, <1>10, FewerCalls
  <2>3. Cardinality(Recent(Z)) \in Nat /\ Cardinality(Z) \in Nat
    BY <2>1, <1>10, CallsFinite
  <2> QED BY <1>2, <1>10, <2>1, <2>2, <2>3, LimitAssumption
<1>12. ASSUME NEW x \in admitted', age'[x] < Window
       PROVE  x \in Recent(Z) \cup L \cup Remembered'
  <2>1. CASE x = c /\ c \notin admitted
    <3>1. c \in deque'[p]
      BY <1>5, <1>12, <2>1 DEF Refuse, RateInv, RateTypeOK
    <3> QED BY <2>1, <3>1 DEF Remembered
  <2>2. CASE x \in admitted
    <3>1. x \in calls /\ age[x] < Window
      BY <1>1, <1>12, <2>2 DEF RateInv, RateTypeOK
    <3>2. x \in Z \cup L \cup Remembered
      BY <1>10, <2>2, <3>1 DEF InWindow
    <3>3. x \in Z => x \in Recent(Z)
      BY <3>1 DEF Recent
    <3>4. ASSUME NEW q \in Replicas, x \in deque[q] PROVE x \in deque'[q]
      BY <1>6, <3>1, <3>4 DEF Recent
    <3> QED BY <3>2, <3>3, <3>4 DEF Remembered
  <2>3. x \in admitted \/ x = c
    BY <1>5, <1>12 DEF Admit, Refuse
  <2> QED BY <2>1, <2>2, <2>3
<1>13. Accounted'
  <2>1. InWindow(admitted)' \subseteq Recent(Z) \cup L \cup Remembered'
    BY <1>12 DEF InWindow
  <2> QED BY <1>1, <1>10, <1>11, <2>1 DEF Accounted
<1>14. RefusedOnlyAboveLimit'
  BY <1>8 DEF RefusedOnlyAboveLimit
<1> QED BY <1>1, <1>9, <1>13, <1>14 DEF RateInv

\* Time passes: all that is counted gets less.
LEMMA TickStep ==
    ASSUME RateInv, Tick
    PROVE  RateInv'
<1>1. /\ calls' = InWindow(calls) /\ zset' = InWindow(zset)
      /\ admitted' = InWindow(admitted)
      /\ deque' = [p \in Replicas |-> InWindow(deque[p])]
      /\ age' = [c \in CallIds |-> IF c \in calls' THEN age[c] + 1 ELSE 0]
      /\ refused' = 0 /\ UNCHANGED <<up, outages, restarts>>
  BY DEF Tick, redisVars
<1>2. /\ calls' \subseteq CallIds /\ zset' \subseteq calls' /\ admitted' \subseteq calls'
      /\ \A p \in Replicas : /\ deque'[p] = InWindow(deque[p])
                             /\ deque'[p] \in SUBSET calls'
                             /\ deque'[p] \in SUBSET deque[p] /\ deque[p] \in SUBSET CallIds
  BY <1>1 DEF RateInv, RateTypeOK, InWindow
<1>3. age' \in [CallIds -> 0 .. Window]
  BY <1>1, LimitAssumption DEF RateInv, RateTypeOK, InWindow
<1>4. deque' \in [Replicas -> SUBSET calls']
  BY <1>1, <1>2
<1>5. ASSUME NEW p \in Replicas PROVE Cardinality(deque'[p]) <= RPM
  <2>1. Cardinality(deque'[p]) <= Cardinality(deque[p]) /\ Cardinality(deque[p]) <= RPM
    BY <1>2, FewerCalls DEF RateInv, RateTypeOK
  <2>2. Cardinality(deque'[p]) \in Nat /\ Cardinality(deque[p]) \in Nat
    BY <1>2, CallsFinite
  <2> QED BY <2>1, <2>2, LimitAssumption
<1>6. refused' \in 0 .. Cardinality(CallIds)
  BY <1>1, FS_CardinalityType, LimitAssumption
<1>7. RateTypeOK' /\ RedisTypeOK' /\ RefusedOnlyAboveLimit'
  BY <1>1, <1>2, <1>3, <1>4, <1>5, <1>6
     DEF RateTypeOK, RedisTypeOK, RateInv, RefusedOnlyAboveLimit
<1>8. PICK Z \in SUBSET CallIds, L \in SUBSET CallIds :
          /\ Z \subseteq zset /\ Cardinality(Z) <= RPM
          /\ Cardinality(L) <= RPM * restarts
          /\ InWindow(admitted) \subseteq Z \cup L \cup Remembered
  BY DEF RateInv, Accounted
<1>9. /\ InWindow(Z) \in SUBSET CallIds /\ InWindow(Z) \subseteq zset'
      /\ Cardinality(InWindow(Z)) <= RPM
  <2>1. InWindow(Z) \in SUBSET Z /\ InWindow(Z) \subseteq zset'
    BY <1>1, <1>8 DEF InWindow
  <2>2. Cardinality(InWindow(Z)) <= Cardinality(Z)
    BY <2>1, <1>8, FewerCalls
  <2>3. Cardinality(InWindow(Z)) \in Nat /\ Cardinality(Z) \in Nat
    BY <2>1, <1>8, CallsFinite
  <2> QED BY <1>8, <2>1, <2>2, <2>3, LimitAssumption
<1>10. InWindow(admitted)' \subseteq InWindow(Z) \cup L \cup Remembered'
  <2> SUFFICES ASSUME NEW x \in admitted' PROVE x \in InWindow(Z) \cup L \cup Remembered'
    BY DEF InWindow
  <2>1. x \in admitted /\ age[x] < Window
    BY <1>1 DEF InWindow
  <2>2. x \in Z \cup L \cup Remembered
    BY <1>8, <2>1 DEF InWindow
  <2>3. x \in Z => x \in InWindow(Z)
    BY <2>1 DEF InWindow
  <2>4. ASSUME NEW q \in Replicas, x \in deque[q] PROVE x \in deque'[q]
    BY <1>2, <2>1, <2>4 DEF InWindow
  <2> QED BY <2>2, <2>3, <2>4 DEF Remembered
<1>11. Accounted'
  BY <1>1, <1>8, <1>9, <1>10 DEF Accounted
<1> QED BY <1>7, <1>11 DEF RateInv

\* A restart: what the replica remembered is put down to the restart.
LEMMA RestartStep ==
    ASSUME RateInv, NEW p \in Replicas, Restart(p)
    PROVE  RateInv'
<1>1. /\ restarts < MaxRestarts /\ restarts' = restarts + 1
      /\ deque' = [deque EXCEPT ![p] = {}]
      /\ UNCHANGED <<up, outages, calls, age, zset, admitted, refused>>
  BY DEF Restart
<1>2. /\ deque'[p] = {} /\ \A q \in Replicas : q # p => deque'[q] = deque[q]
      /\ deque' \in [Replicas -> SUBSET calls]
      /\ deque[p] \in SUBSET CallIds /\ Cardinality(deque[p]) <= RPM
  BY <1>1 DEF RateInv, RateTypeOK
<1>3. Cardinality({}) = 0
  BY FS_EmptySet
<1>4. RateTypeOK'
  BY <1>1, <1>2, <1>3, LimitAssumption DEF RateInv, RateTypeOK
<1>5. RedisTypeOK' /\ RefusedOnlyAboveLimit' /\ restarts \in Nat
  BY <1>1, LimitAssumption DEF RateInv, RedisTypeOK, RefusedOnlyAboveLimit
<1>6. PICK Z \in SUBSET CallIds, L \in SUBSET CallIds :
          /\ Z \subseteq zset /\ Cardinality(Z) <= RPM
          /\ Cardinality(L) <= RPM * restarts
          /\ InWindow(admitted) \subseteq Z \cup L \cup Remembered
  BY DEF RateInv, Accounted
<1>7. L \cup deque[p] \in SUBSET CallIds /\ Cardinality(L \cup deque[p]) <= RPM * restarts'
  <2>1. Cardinality(L \cup deque[p]) <= Cardinality(L) + Cardinality(deque[p])
    BY <1>2, <1>6, TwoSets
  <2>2. /\ Cardinality(L) \in Nat /\ Cardinality(deque[p]) \in Nat
        /\ Cardinality(L \cup deque[p]) \in Nat
    BY <1>2, <1>6, CallsFinite
  <2>3. RPM * (restarts + 1) = RPM * restarts + RPM /\ RPM * restarts \in Nat
    BY <1>5, LimitAssumption
  <2>4. Cardinality(L \cup deque[p]) <= RPM * restarts + RPM
    BY <1>2, <1>6, <2>1, <2>2, <2>3, LimitAssumption
  <2> QED BY <1>1, <1>2, <1>6, <2>3, <2>4
<1>8. InWindow(admitted)' = InWindow(admitted)
  BY <1>1 DEF InWindow
<1>9. Remembered \subseteq Remembered' \cup deque[p]
  BY <1>2 DEF Remembered
<1>10. InWindow(admitted)' \subseteq Z \cup (L \cup deque[p]) \cup Remembered'
  BY <1>6, <1>8, <1>9
<1>11. Accounted'
  BY <1>1, <1>6, <1>7, <1>10 DEF Accounted
<1> QED BY <1>4, <1>5, <1>11 DEF RateInv

\* A step that touches no limiter, its calls or the number of restarts.
LEMMA RateAside ==
    ASSUME RateInv, UNCHANGED <<rateVars, restarts>>, RedisTypeOK'
    PROVE  RateInv'
<1>1. RateTypeOK' /\ RefusedOnlyAboveLimit'
  BY DEF RateInv, RateTypeOK, RefusedOnlyAboveLimit, rateVars
<1>2. InWindow(admitted)' = InWindow(admitted) /\ Remembered' = Remembered
  BY DEF InWindow, Remembered, rateVars
<1>3. Accounted'
  BY <1>2 DEF RateInv, Accounted, rateVars
<1> QED BY <1>1, <1>3 DEF RateInv

\* Redis goes down, which counts as an outage.
LEMMA RedisFailsStep ==
    ASSUME RateInv, RedisFails
    PROVE  RateInv'
<1>1. up' \in BOOLEAN
  BY DEF RedisFails
<1>2. outages' \in 0 .. MaxOutages
  BY LimitAssumption DEF RedisFails, RateInv, RedisTypeOK
<1>3. UNCHANGED <<rateVars, restarts>>
  BY DEF RedisFails
<1>4. RedisTypeOK'
  BY <1>1, <1>2, <1>3 DEF RateInv, RedisTypeOK
<1> QED BY <1>3, <1>4, RateAside

\* Redis comes back with its data, or what it admitted is put down to a restart.
LEMMA RedisRecoversStep ==
    ASSUME RateInv, RedisRecovers
    PROVE  RateInv'
<1>1. up' = TRUE /\ UNCHANGED <<outages, calls, age, deque, admitted, refused>>
  BY DEF RedisRecovers
<1>2. CASE UNCHANGED <<zset, restarts>>
  <2>1. RedisTypeOK' /\ UNCHANGED <<rateVars, restarts>>
    BY <1>1, <1>2 DEF RateInv, RedisTypeOK, rateVars
  <2> QED BY <2>1, RateAside
<1>3. CASE restarts < MaxRestarts /\ restarts' = restarts + 1 /\ zset' \in SUBSET zset
  <2>1. RedisTypeOK' /\ RefusedOnlyAboveLimit' /\ restarts \in Nat
    BY <1>1, <1>3, LimitAssumption DEF RateInv, RedisTypeOK, RefusedOnlyAboveLimit
  <2>2. RateTypeOK'
    BY <1>1, <1>3 DEF RateInv, RateTypeOK
  <2>3. PICK Z \in SUBSET CallIds, L \in SUBSET CallIds :
            /\ Z \subseteq zset /\ Cardinality(Z) <= RPM
            /\ Cardinality(L) <= RPM * restarts
            /\ InWindow(admitted) \subseteq Z \cup L \cup Remembered
    BY DEF RateInv, Accounted
  <2>4. L \cup Z \in SUBSET CallIds /\ Cardinality(L \cup Z) <= RPM * restarts'
    <3>1. Cardinality(L \cup Z) <= Cardinality(L) + Cardinality(Z)
      BY <2>3, TwoSets
    <3>2. Cardinality(L) \in Nat /\ Cardinality(Z) \in Nat /\ Cardinality(L \cup Z) \in Nat
      BY <2>3, CallsFinite
    <3>3. RPM * (restarts + 1) = RPM * restarts + RPM /\ RPM * restarts \in Nat
      BY <2>1, LimitAssumption
    <3>4. Cardinality(L \cup Z) <= RPM * restarts + RPM
      BY <2>3, <3>1, <3>2, <3>3, LimitAssumption
    <3> QED BY <1>3, <2>3, <3>3, <3>4
  <2>5. InWindow(admitted)' = InWindow(admitted) /\ Remembered' = Remembered
    BY <1>1 DEF InWindow, Remembered
  <2>6. {} \in SUBSET CallIds /\ {} \subseteq zset' /\ Cardinality({}) <= RPM
    BY FS_EmptySet, LimitAssumption
  <2>7. InWindow(admitted)' \subseteq {} \cup (L \cup Z) \cup Remembered'
    BY <2>3, <2>5
  <2>8. Accounted'
    BY <2>4, <2>6, <2>7 DEF Accounted
  <2> QED BY <2>1, <2>2, <2>8 DEF RateInv
<1> QED BY <1>2, <1>3 DEF RedisRecovers

LEMMA RateStep ==
    ASSUME RateInv, [LimitsNext]_vars
    PROVE  RateInv'
<1>1. CASE UNCHANGED vars
  BY <1>1, RateAside DEF vars, redisVars, RateInv, RedisTypeOK
<1>2. ASSUME NEW p \in Replicas, NEW c \in CallIds, Call(p, c) PROVE RateInv'
  <2>1. CASE InRedis(c) /\ RedisAdmits /\ Admit(c) /\ UNCHANGED deque
    BY <1>2, <2>1, RedisStep
  <2>2. CASE InMemory(p, c) /\ (zset' = zset \/ InRedis(c))
    BY <1>2, <2>2, MemoryStep
  <2> QED BY <1>2, <2>1, <2>2 DEF Call
<1>3. ASSUME NEW p \in Replicas, Restart(p) PROVE RateInv'
  BY <1>3, RestartStep
<1>4. CASE Tick
  BY <1>4, TickStep
<1>5. CASE RedisFails
  BY <1>5, RedisFailsStep
<1>6. CASE RedisRecovers
  BY <1>6, RedisRecoversStep
<1> QED BY <1>1, <1>2, <1>3, <1>4, <1>5, <1>6 DEF LimitsNext

\* Redis, the memories and the restarts, each with their share.
LEMMA AccountedBound ==
    ASSUME RateInv
    PROVE  AdmissionIsBounded
<1>1. PICK Z \in SUBSET CallIds, L \in SUBSET CallIds :
          /\ Z \subseteq zset /\ Cardinality(Z) <= RPM
          /\ Cardinality(L) <= RPM * restarts
          /\ InWindow(admitted) \subseteq Z \cup L \cup Remembered
  BY DEF RateInv, Accounted
<1>2. deque \in [Replicas -> SUBSET CallIds]
  BY DEF RateInv, RateTypeOK
<1>3. Remembered \in SUBSET CallIds /\ Cardinality(Remembered) <= RPM * Cardinality(Replicas)
  BY <1>2, AllMemories DEF RateInv, RateTypeOK, Remembered
<1>4. /\ Cardinality(Z \cup L) <= Cardinality(Z) + Cardinality(L)
      /\ Cardinality((Z \cup L) \cup Remembered)
           <= Cardinality(Z \cup L) + Cardinality(Remembered)
  BY <1>1, <1>3, TwoSets
<1>5. Cardinality(InWindow(admitted)) <= Cardinality((Z \cup L) \cup Remembered)
  BY <1>1, <1>3, FewerCalls
<1>6. InWindow(admitted) \in SUBSET CallIds
  BY DEF InWindow, RateInv, RateTypeOK
<1>7. /\ Cardinality(Z) \in Nat /\ Cardinality(L) \in Nat /\ Cardinality(Remembered) \in Nat
      /\ Cardinality(Z \cup L) \in Nat /\ Cardinality((Z \cup L) \cup Remembered) \in Nat
      /\ Cardinality(InWindow(admitted)) \in Nat
  BY <1>1, <1>3, <1>6, CallsFinite
<1>8. Cardinality(Replicas) \in Nat /\ restarts \in Nat
  BY FS_CardinalityType, LimitAssumption DEF RateInv, RedisTypeOK
<1>9. /\ RPM * (1 + Cardinality(Replicas) + restarts)
           = RPM + RPM * Cardinality(Replicas) + RPM * restarts
      /\ RPM * Cardinality(Replicas) \in Nat /\ RPM * restarts \in Nat
  BY <1>8, LimitAssumption
<1>10. Cardinality(InWindow(admitted)) <= RPM + RPM * Cardinality(Replicas) + RPM * restarts
  BY <1>1, <1>3, <1>4, <1>5, <1>7, <1>9, LimitAssumption
<1> QED BY <1>9, <1>10 DEF AdmissionIsBounded

-----------------------------------------------------------------------------
(* The theorems.                                                           *)

(***************************************************************************)
(* The sorted set, the deques (with their maxlen) and the histories stay   *)
(* well typed.                                                             *)
(***************************************************************************)
THEOREM LimitsTypeCorrect == LimitsSpec => []LimitsTypeOK
<1>1. RateInv /\ [LimitsNext]_vars => RateInv'
  BY RateStep
<1>2. RateInv => LimitsTypeOK
  BY DEF RateInv, RedisTypeOK, RateTypeOK, LimitsTypeOK
<1> QED BY <1>1, <1>2, RateInit, PTL DEF LimitsSpec

(***************************************************************************)
(* Whatever fails and restarts, a client gets at most RPM calls per window *)
(* through Redis, RPM through each replica's memory and RPM more for each  *)
(* restart of a replica or of Redis (list_tools, dispatch_tool).           *)
(***************************************************************************)
THEOREM AdmissionsAreBounded == LimitsSpec => []AdmissionIsBounded
<1>1. RateInv /\ [LimitsNext]_vars => RateInv'
  BY RateStep
<1>2. RateInv => AdmissionIsBounded
  BY AccountedBound
<1> QED BY <1>1, <1>2, RateInit, PTL DEF LimitsSpec

(***************************************************************************)
(* Neither limiter refuses a call that is among the first RPM of its       *)
(* window (check_rate_limit).                                              *)
(***************************************************************************)
THEOREM RefusalsAreDue == LimitsSpec => []RefusedOnlyAboveLimit
<1>1. RateInv /\ [LimitsNext]_vars => RateInv'
  BY RateStep
<1>2. RateInv => RefusedOnlyAboveLimit
  BY DEF RateInv
<1> QED BY <1>1, <1>2, RateInit, PTL DEF LimitsSpec
=============================================================================
