---------------------------- MODULE IntakeProofs ----------------------------
(***************************************************************************)
(* Proofs about intake, labels and deduplication, for any number of        *)
(* workers, requests and documents, and any number of reloads, operations  *)
(* and faults.                                                             *)
(***************************************************************************)
EXTENDS Intake, SequenceTheorems, FiniteSetTheorems, TLAPS

(***************************************************************************)
(* The inductive invariant.  The label of a calm operation is honest since *)
(* it is OPA's policy as long as the operation waits, and since a worker   *)
(* that has polled has that policy; a poll that a reload has overtaken is  *)
(* not counted.  Duplicates are in flight since what a request in flight   *)
(* may still create was counted when the operation finished.               *)
(***************************************************************************)
\* Requests that will create an operation.
Creators == {r \in Requests : request[r].creates}

\* Every request that will create an operation has its place.
Counted == Len(ops) + Cardinality(Creators) <= MaxOps

\* A task works on a pending operation, and no other task on the same.
TasksApart ==
    \A w \in Workers : task[w].op # 0 =>
        /\ task[w].op \in DOMAIN ops
        /\ ops[task[w].op].status = "pending"
        /\ \A v \in Workers : task[v].op = task[w].op => v = w

\* A clean poll has OPA's policy, and so has who polled since the reload.
PollsFresh ==
    \A w \in Workers :
        /\ poll[w].clean /\ poll[w].policy \in Versions => poll[w].policy = opa
        /\ w \in polled => poll[w].clean /\ cache[w].policy = opa

\* What is labelled in calm, and not yet detected, is labelled as OPA says.
CalmIsCurrent ==
    /\ \A r \in Requests : request[r].creates /\ request[r].calm => request[r].label = opa
    /\ \A i \in DOMAIN ops : ops[i].calm /\ ops[i].status = "pending" => ops[i].label = opa
    /\ \A w \in Workers :
          task[w].op # 0 /\ ops[task[w].op].calm => task[w].policy = opa

\* Of a finished operation: what was created late, and what still may be.
LateIsDue ==
    \A i \in DOMAIN ops :
        /\ ops[i].status \in {"pending", "detected"} => ops[i].late = 0
        /\ Settled(ops[i]) => ops[i].late + PastLookup(ops[i]) <= ops[i].due
        /\ ops[i].late <= ops[i].due

IntakeInv ==
    /\ IntakeTypeOK /\ Counted
    /\ TasksApart
    /\ PollsFresh /\ CalmIsCurrent /\ CalmLabelIsHonest
    /\ LateIsDue

-----------------------------------------------------------------------------
(* Operations and requests.                                                *)

\* The requests in a table q for document d and label v.
Matches(d, v, q) == {r \in Requests : q[r].creates /\ q[r].doc = d /\ q[r].label = v}

LEMMA PastLookupCount ==
    ASSUME NEW o
    PROVE  PastLookup(o) = Cardinality(Matches(o.doc, o.label, request))
<1>1. {r \in Requests : request[r].creates /\ Same(o, request[r])}
        = Matches(o.doc, o.label, request)
  BY DEF Matches, Same
<1> QED BY <1>1 DEF PastLookup

LEMMA MatchesFinite ==
    ASSUME NEW d, NEW v, NEW q
    PROVE  IsFiniteSet(Matches(d, v, q)) /\ Cardinality(Matches(d, v, q)) \in Nat
<1>1. Matches(d, v, q) \in SUBSET Requests
  BY DEF Matches
<1>2. IsFiniteSet(Matches(d, v, q))
  BY <1>1, FS_Subset, IntakeAssumption
<1> QED BY <1>2, FS_CardinalityType

\* One row of the operations table is written.
LEMMA WriteOp ==
    ASSUME NEW s \in Seq(Operation), NEW i \in DOMAIN s, NEW o \in Operation
    PROVE  /\ [s EXCEPT ![i] = o] \in Seq(Operation)
           /\ Len([s EXCEPT ![i] = o]) = Len(s)
           /\ DOMAIN [s EXCEPT ![i] = o] = DOMAIN s
           /\ [s EXCEPT ![i] = o][i] = o
           /\ \A j \in DOMAIN s : j # i => [s EXCEPT ![i] = o][j] = s[j]
<1>1. DOMAIN s = 1 .. Len(s)
  OBVIOUS
<1> QED BY <1>1, ExceptSeq

\* Rows may be rewritten together.
LEMMA WriteOps ==
    ASSUME NEW s \in Seq(Operation), NEW t, t = [i \in DOMAIN s |-> t[i]],
           \A i \in DOMAIN s : t[i] \in Operation
    PROVE  t \in Seq(Operation) /\ Len(t) = Len(s) /\ DOMAIN t = DOMAIN s
<1>1. DOMAIN s = 1 .. Len(s) /\ Len(s) \in Nat
  OBVIOUS
<1>2. t \in [1 .. Len(s) -> Operation]
  BY <1>1
<1> QED BY <1>1, <1>2

LEMMA OpType ==
    ASSUME IntakeTypeOK, NEW i \in DOMAIN ops
    PROVE  ops[i] \in Operation
BY ElementOfSeq, LenProperties DEF IntakeTypeOK

LEMMA IdleRequest == Idle \in Request /\ ~Idle.creates
<1>1. (CHOOSE d \in Docs : TRUE) \in Docs
  BY IntakeAssumption
<1> QED BY <1>1, IntakeAssumption DEF Idle, Request, Versions

-----------------------------------------------------------------------------
(* OPA and the caches.                                                     *)

\* A step that changes polls and caches only.
LEMMA PollFrame ==
    ASSUME IntakeInv, UNCHANGED <<opa, ops, request, task>>,
           poll' \in [Workers -> Poll], cache' \in [Workers -> Cache],
           faults' \in 0 .. MaxFaults, polled' \subseteq Workers, PollsFresh'
    PROVE  IntakeInv'
<1>1. IntakeTypeOK' /\ Counted'
  BY DEF IntakeInv, IntakeTypeOK, Counted, Creators
<1>2. TasksApart' /\ CalmIsCurrent' /\ CalmLabelIsHonest'
  BY DEF IntakeInv, TasksApart, CalmIsCurrent, CalmLabelIsHonest
<1>3. LateIsDue'
  BY DEF IntakeInv, LateIsDue, Settled, PastLookup, Same
<1> QED BY <1>1, <1>2, <1>3 DEF IntakeInv

\* OPA answers one of the requests of a poll, or does not with status 200.
LEMMA AnswerStep ==
    ASSUME IntakeInv, NEW w \in Workers, GetVersion(w) \/ GetPolicy(w)
    PROVE  IntakeInv'
<1> USE IntakeAssumption
<1>1. /\ poll \in [Workers -> Poll] /\ opa \in Versions
      /\ cache \in [Workers -> Cache] /\ polled \subseteq Workers
      /\ faults \in 0 .. MaxFaults
  BY DEF IntakeInv, IntakeTypeOK
<1>2. UNCHANGED <<opa, cache, ops, request, task, polled>>
  BY DEF GetVersion, GetPolicy
<1>3. faults' \in 0 .. MaxFaults
  BY <1>1 DEF GetVersion, GetPolicy, Fails
<1>4. PICK m, p :
         /\ m \in {poll[w].meta, opa, NotOK} /\ p \in {poll[w].policy, opa, NotOK}
         /\ poll' = [poll EXCEPT ![w] = [poll[w] EXCEPT !.meta = m, !.policy = p]]
  <2>1. CASE GetVersion(w)
    <3>1. PICK m \in {opa, NotOK} :
             poll' = [poll EXCEPT ![w] = [poll[w] EXCEPT !.meta = m]]
      BY <2>1 DEF GetVersion
    <3>2. [poll[w] EXCEPT !.meta = m]
            = [poll[w] EXCEPT !.meta = m, !.policy = poll[w].policy]
      BY <1>1 DEF Poll
    <3> QED BY <3>1, <3>2
  <2>2. CASE GetPolicy(w)
    <3>1. PICK p \in {opa, NotOK} :
             poll' = [poll EXCEPT ![w] = [poll[w] EXCEPT !.policy = p]]
      BY <2>2 DEF GetPolicy
    <3>2. [poll[w] EXCEPT !.policy = p]
            = [poll[w] EXCEPT !.meta = poll[w].meta, !.policy = p]
      BY <1>1 DEF Poll
    <3> QED BY <3>1, <3>2
  <2> QED BY <2>1, <2>2
<1>5. PICK a : a = [poll[w] EXCEPT !.meta = m, !.policy = p]
  OBVIOUS
<1>6. a \in Poll /\ a.policy = p /\ a.clean = poll[w].clean
  BY <1>1, <1>4, <1>5 DEF Poll
<1>7. poll' \in [Workers -> Poll]
  BY <1>1, <1>4, <1>5, <1>6
<1>8. poll'[w] = a /\ \A v \in Workers : v # w => poll'[v] = poll[v]
  BY <1>1, <1>4, <1>5
<1>9. NotOK \notin Versions
  BY DEF NotOK, Versions
<1>10. PollsFresh'
  BY <1>2, <1>4, <1>6, <1>8, <1>9 DEF IntakeInv, PollsFresh
<1>11. cache' \in [Workers -> Cache] /\ polled' \subseteq Workers
  BY <1>1, <1>2
<1> QED BY <1>2, <1>3, <1>7, <1>10, <1>11, PollFrame

LEMMA NoPollType == /\ NoPoll \in Poll /\ NoPoll.policy = None /\ NoPoll.clean
                    /\ None \notin Versions
BY IntakeAssumption DEF NoPoll, Poll, None, Versions

LEMMA PollRaisesStep ==
    ASSUME IntakeInv, NEW w \in Workers, PollRaises(w)
    PROVE  IntakeInv'
<1>1. /\ poll \in [Workers -> Poll]
      /\ cache \in [Workers -> Cache] /\ polled \subseteq Workers
      /\ faults \in 0 .. MaxFaults
  BY DEF IntakeInv, IntakeTypeOK
<1>2. /\ UNCHANGED <<opa, cache, ops, request, task, polled>>
      /\ poll' = [poll EXCEPT ![w] = NoPoll]
  BY DEF PollRaises
<1>3. faults' \in 0 .. MaxFaults
  BY <1>1, IntakeAssumption DEF PollRaises, Fails
<1>4. poll' \in [Workers -> Poll]
  BY <1>1, <1>2, NoPollType
<1>5. PollsFresh'
  BY <1>1, <1>2, NoPollType DEF IntakeInv, PollsFresh
<1>6. cache' \in [Workers -> Cache] /\ polled' \subseteq Workers
  BY <1>1, <1>2
<1> QED BY <1>2, <1>3, <1>4, <1>5, <1>6, PollFrame

LEMMA ApplyPollStep ==
    ASSUME IntakeInv, NEW w \in Workers, ApplyPoll(w)
    PROVE  IntakeInv'
<1>1. /\ poll \in [Workers -> Poll] /\ opa \in Versions
      /\ cache \in [Workers -> Cache] /\ polled \subseteq Workers
      /\ faults \in 0 .. MaxFaults
  BY DEF IntakeInv, IntakeTypeOK
<1>2. PICK p : p = poll[w]
  OBVIOUS
<1>3. /\ UNCHANGED <<opa, ops, request, task, faults>>
      /\ poll' = [poll EXCEPT ![w] = NoPoll]
      /\ p.meta # None /\ p.policy # None
      /\ polled' = IF p.clean /\ p.policy # NotOK THEN polled \cup {w} ELSE polled
  BY <1>2 DEF ApplyPoll
<1>4. PICK c : c = [cache[w] EXCEPT
                     !.version = IF p.meta = NotOK THEN @ ELSE p.meta,
                     !.policy = IF p.policy = NotOK THEN @ ELSE p.policy]
  OBVIOUS
<1>5. cache' = [cache EXCEPT ![w] = c]
  BY <1>1, <1>2, <1>4 DEF ApplyPoll
<1>6. c \in Cache /\ c.policy = IF p.policy = NotOK THEN cache[w].policy ELSE p.policy
  BY <1>1, <1>2, <1>3, <1>4 DEF Poll, Cache
<1>7. cache' \in [Workers -> Cache] /\ poll' \in [Workers -> Poll]
  BY <1>1, <1>3, <1>5, <1>6, NoPollType
<1>8. /\ cache'[w] = c /\ \A v \in Workers : v # w => cache'[v] = cache[v]
      /\ poll'[w] = NoPoll /\ \A v \in Workers : v # w => poll'[v] = poll[v]
  BY <1>1, <1>3, <1>5
<1>9. p.clean /\ p.policy # NotOK => p.policy = opa
  BY <1>1, <1>2, <1>3 DEF IntakeInv, PollsFresh, Poll
<1>10. w \in polled => p.clean /\ cache[w].policy = opa
  BY <1>2 DEF IntakeInv, PollsFresh
<1>11. w \in polled' => cache'[w].policy = opa
  BY <1>3, <1>6, <1>8, <1>9, <1>10
<1>12. PollsFresh'
  BY <1>3, <1>8, <1>11, NoPollType DEF IntakeInv, PollsFresh
<1>13. polled' \subseteq Workers /\ faults' \in 0 .. MaxFaults
  BY <1>1, <1>3
<1> QED BY <1>3, <1>7, <1>12, <1>13, PollFrame

\* A worker is restarted.
LEMMA CrashStep ==
    ASSUME IntakeInv, NEW w \in Workers, CrashWorker(w)
    PROVE  IntakeInv'
<1> USE IntakeAssumption
<1>1. /\ poll \in [Workers -> Poll] /\ opa \in Versions
      /\ cache \in [Workers -> Cache] /\ polled \subseteq Workers
      /\ faults \in 0 .. MaxFaults /\ task \in [Workers -> Task]
  BY DEF IntakeInv, IntakeTypeOK
<1>2. /\ UNCHANGED <<opa, ops, request>>
      /\ cache' = [cache EXCEPT ![w] = EmptyCache]
      /\ poll' = [poll EXCEPT ![w] = NoPoll]
      /\ task' = [task EXCEPT ![w] = NoTask]
      /\ polled' = polled \ {w}
      /\ faults' \in 0 .. MaxFaults
  BY <1>1 DEF CrashWorker, Fails
<1>3. EmptyCache \in Cache /\ NoTask \in Task /\ NoTask.op = 0
  BY DEF EmptyCache, Cache, NoTask, Task, None
<1>4. IntakeTypeOK' /\ Counted'
  BY <1>1, <1>2, <1>3, NoPollType DEF IntakeInv, IntakeTypeOK, Counted, Creators
<1>5. /\ task'[w] = NoTask /\ \A v \in Workers : v # w => task'[v] = task[v]
      /\ poll'[w] = NoPoll /\ \A v \in Workers : v # w => poll'[v] = poll[v]
      /\ \A v \in Workers : v # w => cache'[v] = cache[v]
  BY <1>1, <1>2
<1>6. TasksApart' /\ CalmIsCurrent' /\ CalmLabelIsHonest'
  BY <1>2, <1>3, <1>5 DEF IntakeInv, TasksApart, CalmIsCurrent, CalmLabelIsHonest
<1>7. PollsFresh'
  BY <1>2, <1>5, NoPollType DEF IntakeInv, PollsFresh
<1>8. LateIsDue'
  BY <1>2 DEF IntakeInv, LateIsDue, Settled, PastLookup, Same
<1> QED BY <1>4, <1>6, <1>7, <1>8 DEF IntakeInv

\* Rows that keep all but calm, and the same requests for each.
LEMMA LateKept ==
    ASSUME LateIsDue, DOMAIN ops' = DOMAIN ops,
           \A i \in DOMAIN ops :
              /\ ops'[i].doc = ops[i].doc /\ ops'[i].label = ops[i].label
              /\ ops'[i].status = ops[i].status
              /\ ops'[i].late = ops[i].late /\ ops'[i].due = ops[i].due,
           \A d, v : Matches(d, v, request') = Matches(d, v, request)
    PROVE  LateIsDue'
<1>1. ASSUME NEW i \in DOMAIN ops
      PROVE  PastLookup(ops[i])' = PastLookup(ops[i])
  <2>1. PICK o, u : o = ops[i] /\ u = ops'[i]
    OBVIOUS
  <2>2. {r \in Requests : request'[r].creates /\ Same(u, request'[r])}
          = Matches(u.doc, u.label, request')
    BY DEF Matches, Same
  <2>3. PastLookup(ops[i])' = Cardinality(Matches(u.doc, u.label, request'))
    BY <2>1, <2>2 DEF PastLookup
  <2>4. PastLookup(ops[i]) = Cardinality(Matches(o.doc, o.label, request))
    BY <2>1, PastLookupCount
  <2> QED BY <1>1, <2>1, <2>3, <2>4
<1>2. \A i \in DOMAIN ops : Settled(ops[i])' <=> Settled(ops[i])
  BY DEF Settled
<1> QED BY <1>1, <1>2 DEF LateIsDue

\* What a reload does to a row: the label of a waiting one is not current.
LEMMA ReloadRow ==
    ASSUME IntakeTypeOK, Reload, NEW i \in DOMAIN ops
    PROVE  /\ ops'[i] \in Operation
           /\ ops'[i].doc = ops[i].doc /\ ops'[i].label = ops[i].label
           /\ ops'[i].status = ops[i].status /\ ops'[i].policy = ops[i].policy
           /\ ops'[i].late = ops[i].late /\ ops'[i].due = ops[i].due
           /\ ops'[i].calm => ops[i].calm /\ ops[i].status # "pending"
<1>1. PICK c : c = (ops[i].calm /\ ops[i].status # "pending")
  OBVIOUS
<1>2. ops[i] \in Operation
  BY OpType
<1>3. c \in BOOLEAN
  BY <1>1
<1>4. ops'[i] = [ops[i] EXCEPT !.calm = c]
  BY <1>1 DEF Reload
<1> QED BY <1>1, <1>2, <1>3, <1>4 DEF Operation

LEMMA ReloadStep ==
    ASSUME IntakeInv, Reload
    PROVE  IntakeInv'
<1> USE IntakeAssumption
<1>1. IntakeTypeOK
  BY DEF IntakeInv
<1>2. /\ opa' = opa + 1 /\ opa' \in Versions /\ polled' = {}
      /\ UNCHANGED <<cache, task, faults>>
  BY <1>1 DEF Reload, IntakeTypeOK, Versions
<1>3. ops' \in Seq(Operation) /\ Len(ops') = Len(ops) /\ DOMAIN ops' = DOMAIN ops
  <2>1. ops' = [i \in DOMAIN ops |-> ops'[i]]
    BY DEF Reload
  <2> QED BY <1>1, <2>1, ReloadRow, WriteOps DEF IntakeTypeOK
<1>4. ASSUME NEW r \in Requests
      PROVE  /\ request'[r] \in Request /\ ~request'[r].calm
             /\ request'[r].creates = request[r].creates
             /\ request'[r].doc = request[r].doc /\ request'[r].label = request[r].label
  <2>1. request[r] \in Request
    BY <1>1 DEF IntakeTypeOK
  <2>2. request'[r] = [request[r] EXCEPT !.calm = FALSE]
    BY DEF Reload
  <2> QED BY <2>1, <2>2 DEF Request
<1>5. request' \in [Requests -> Request]
  <2>1. request' = [r \in Requests |-> request'[r]]
    BY DEF Reload
  <2> QED BY <1>4, <2>1
<1>6. ASSUME NEW w \in Workers
      PROVE  /\ poll'[w] \in Poll
             /\ poll'[w].clean => poll'[w].policy = None
  <2>1. poll[w] \in Poll
    BY <1>1 DEF IntakeTypeOK
  <2>2. PICK c : c = (poll[w] = NoPoll)
    OBVIOUS
  <2>3. poll'[w] = [poll[w] EXCEPT !.clean = c] /\ c \in BOOLEAN
    BY <2>2 DEF Reload
  <2>4. c => poll[w].policy = None
    BY <2>2, NoPollType
  <2> QED BY <2>1, <2>3, <2>4 DEF Poll
<1>7. poll' \in [Workers -> Poll]
  <2>1. poll' = [w \in Workers |-> poll'[w]]
    BY DEF Reload
  <2> QED BY <1>6, <2>1
<1>8. IntakeTypeOK'
  BY <1>1, <1>2, <1>3, <1>5, <1>7 DEF IntakeTypeOK
<1>9. Counted'
  <2>1. Creators' = Creators
    BY <1>4 DEF Creators
  <2> QED BY <1>3, <2>1 DEF IntakeInv, Counted
<1>10. TasksApart'
  BY <1>1, <1>2, <1>3, ReloadRow DEF IntakeInv, TasksApart
<1>11. PollsFresh'
  BY <1>2, <1>6, NoPollType DEF PollsFresh
<1>12. CalmIsCurrent'
  BY <1>1, <1>2, <1>3, <1>4, ReloadRow DEF IntakeInv, CalmIsCurrent, TasksApart
<1>13. CalmLabelIsHonest'
  BY <1>1, <1>3, ReloadRow DEF IntakeInv, CalmLabelIsHonest
<1>14. LateIsDue'
  <2>1. \A d, v : Matches(d, v, request') = Matches(d, v, request)
    BY <1>4 DEF Matches
  <2> QED BY <1>1, <1>3, <2>1, ReloadRow, LateKept DEF IntakeInv
<1> QED BY <1>8, <1>9, <1>10, <1>11, <1>12, <1>13, <1>14 DEF IntakeInv

-----------------------------------------------------------------------------
(* Requests.                                                               *)

\* A lookup: an earlier operation is found, or none has finished yet.
LEMMA LookupStep ==
    ASSUME IntakeInv, NEW r \in Requests, Lookup(r)
    PROVE  IntakeInv'
<1> USE IntakeAssumption
<1>1. IntakeTypeOK /\ UNCHANGED <<opa, poll, cache, ops, task, faults, polled>>
  BY DEF IntakeInv, Lookup
<1>0. PICK d \in Docs, v \in Labels :
        LET req == [creates |-> TRUE, doc |-> d, label |-> v, calm |-> v = opa]
            hit == \E i \in DOMAIN ops : Same(ops[i], req) /\ Finished(ops[i])
        IN  request' = [request EXCEPT ![r] = IF hit THEN Idle ELSE req]
  BY Zenon DEF Lookup
<1>2. PICK q :
         /\ q \in {Idle, [creates |-> TRUE, doc |-> d, label |-> v, calm |-> v = opa]}
         /\ request' = [request EXCEPT ![r] = q]
         /\ q # Idle => ~ \E i \in DOMAIN ops :
                             /\ ops[i].doc = d /\ ops[i].label = v
                             /\ Finished(ops[i])
  <2>1. PICK req : req = [creates |-> TRUE, doc |-> d, label |-> v, calm |-> v = opa]
    OBVIOUS
  <2>2. req.doc = d /\ req.label = v
    BY <2>1
  <2>3. CASE \E i \in DOMAIN ops : Same(ops[i], req) /\ Finished(ops[i])
    <3>1. request' = [request EXCEPT ![r] = Idle]
      BY <1>0, <2>1, <2>3, Zenon
    <3> QED BY <3>1, Zenon
  <2>4. CASE ~ \E i \in DOMAIN ops : Same(ops[i], req) /\ Finished(ops[i])
    <3>1. request' = [request EXCEPT ![r] = req]
      BY <1>0, <2>1, <2>4, Zenon
    <3>2. ~ \E i \in DOMAIN ops : ops[i].doc = d /\ ops[i].label = v /\ Finished(ops[i])
      BY <2>2, <2>4 DEF Same
    <3>3. req \in {Idle, [creates |-> TRUE, doc |-> d, label |-> v, calm |-> v = opa]}
      BY <2>1, Zenon
    <3> WITNESS req
    <3> QED BY <3>1, <3>2, <3>3, Zenon
  <2> QED BY <2>3, <2>4
<1>3. v \in Versions
  BY <1>1 DEF Labels, Versions, FALLBACK_POLICY_VERSION, IntakeTypeOK
<1>4. /\ q \in Request
      /\ q.creates => q.doc = d /\ q.label = v /\ q # Idle
      /\ q.creates /\ q.calm => q.label = opa
  <2>1. CASE q = Idle
    BY <2>1, IdleRequest
  <2>2. CASE q # Idle
    <3>1. PICK c : c = (v = opa)
      OBVIOUS
    <3>2. q = [creates |-> TRUE, doc |-> d, label |-> v, calm |-> c] /\ c \in BOOLEAN
      BY <1>2, <2>2, <3>1
    <3> QED BY <1>3, <2>2, <3>1, <3>2 DEF Request
  <2> QED BY <2>1, <2>2
<1>5. request' \in [Requests -> Request]
  BY <1>1, <1>2, <1>4 DEF IntakeTypeOK
<1>6. request'[r] = q /\ \A p \in Requests : p # r => request'[p] = request[p]
  BY <1>1, <1>2 DEF IntakeTypeOK
<1>7. IntakeTypeOK'
  BY <1>1, <1>5 DEF IntakeTypeOK
<1>8. Counted'
  <2>1. Creators' \in SUBSET (Creators \cup {r})
    BY <1>6 DEF Creators
  <2>2. IsFiniteSet(Creators)
    <3>1. Creators \in SUBSET Requests
      BY DEF Creators
    <3> QED BY <3>1, FS_Subset
  <2>3. /\ IsFiniteSet(Creators \cup {r}) /\ Cardinality(Creators) \in Nat
        /\ Cardinality(Creators \cup {r}) <= Cardinality(Creators) + 1
    <3>1. /\ IsFiniteSet(Creators \cup {r})
          /\ Cardinality(Creators \cup {r})
                = IF r \in Creators THEN Cardinality(Creators) ELSE Cardinality(Creators) + 1
      BY <2>2, FS_AddElement
    <3>2. Cardinality(Creators) \in Nat
      BY <2>2, FS_CardinalityType
    <3> QED BY <3>1, <3>2
  <2>4. IsFiniteSet(Creators') /\ Cardinality(Creators') <= Cardinality(Creators \cup {r})
    BY <2>1, <2>3, FS_Subset
  <2>5. Len(ops) + Cardinality(Creators) < MaxOps /\ Len(ops) \in Nat
    BY <1>1, LenProperties DEF Lookup, RoomForOne, Creators, IntakeTypeOK
  <2>6. Cardinality(Creators') \in Nat /\ Cardinality(Creators \cup {r}) \in Nat
    BY <2>3, <2>4, FS_CardinalityType
  <2> QED BY <1>1, <2>3, <2>4, <2>5, <2>6 DEF Counted
<1>9. TasksApart' /\ PollsFresh' /\ CalmLabelIsHonest'
  BY <1>1 DEF IntakeInv, TasksApart, PollsFresh, CalmLabelIsHonest
<1>10. CalmIsCurrent'
  BY <1>1, <1>4, <1>6 DEF IntakeInv, CalmIsCurrent
<1>11. ASSUME NEW i \in DOMAIN ops, Settled(ops[i])
       PROVE  PastLookup(ops[i])' <= PastLookup(ops[i]) /\ PastLookup(ops[i])' \in Nat
                 /\ PastLookup(ops[i]) \in Nat
  <2>1. PICK o : o = ops[i]
    OBVIOUS
  <2>2. Matches(o.doc, o.label, request') \in SUBSET Matches(o.doc, o.label, request)
    <3>1. q.creates => ~(o.doc = q.doc /\ o.label = q.label)
      BY <1>2, <1>4, <1>11, <2>1 DEF Settled, Finished
    <3> QED BY <1>6, <3>1 DEF Matches
  <2>3. {p \in Requests : request'[p].creates /\ Same(o, request'[p])}
          = Matches(o.doc, o.label, request')
    BY DEF Matches, Same
  <2>4. PastLookup(ops[i])' = Cardinality(Matches(o.doc, o.label, request'))
    BY <1>1, <2>1, <2>3 DEF PastLookup
  <2>5. PastLookup(ops[i]) = Cardinality(Matches(o.doc, o.label, request))
    BY <2>1, PastLookupCount
  <2> QED BY <2>2, <2>4, <2>5, MatchesFinite, FS_Subset
<1>12. LateIsDue'
  <2>1. \A i \in DOMAIN ops : ops[i].late \in Nat /\ ops[i].due \in Nat
    BY <1>1, OpType DEF Operation
  <2>2. \A i \in DOMAIN ops : Settled(ops[i])' <=> Settled(ops[i])
    BY <1>1 DEF Settled
  <2> QED BY <1>1, <1>11, <2>1, <2>2 DEF IntakeInv, LateIsDue
<1> QED BY <1>7, <1>8, <1>9, <1>10, <1>12 DEF IntakeInv

\* What was created before a new operation, and may have been repeated by it.
LEMMA CreateRows ==
    ASSUME IntakeTypeOK, NEW r \in Requests, Create(r), Len(ops) < MaxOps
    PROVE  /\ ops' \in Seq(Operation) /\ Len(ops') = Len(ops) + 1
           /\ \A i \in DOMAIN ops :
                 /\ ops'[i].doc = ops[i].doc /\ ops'[i].label = ops[i].label
                 /\ ops'[i].status = ops[i].status /\ ops'[i].policy = ops[i].policy
                 /\ ops'[i].calm = ops[i].calm /\ ops'[i].due = ops[i].due
                 /\ ops'[i].late = IF Same(ops[i], request[r]) /\ Settled(ops[i])
                                   THEN ops[i].late + 1 ELSE ops[i].late
           /\ ops'[Len(ops) + 1] =
                 [doc |-> request[r].doc, label |-> request[r].label,
                  calm |-> request[r].calm, due |-> 0, late |-> 0,
                  source |-> "scan", status |-> "pending", policy |-> None]
<1> USE IntakeAssumption
<1> DEFINE t == [i \in DOMAIN ops |->
                   IF Same(ops[i], request[r]) /\ Settled(ops[i])
                   THEN [ops[i] EXCEPT !.late = @ + 1] ELSE ops[i]]
           n == [doc |-> request[r].doc, label |-> request[r].label,
                 calm |-> request[r].calm, due |-> 0, late |-> 0,
                 source |-> "scan", status |-> "pending", policy |-> None]
<1>1. ops' = Append(t, n)
  BY DEF Create
<1>2. n \in Operation
  <2>1. request[r] \in Request
    BY DEF IntakeTypeOK
  <2> QED BY <2>1 DEF Request, Operation
<1>3. ASSUME NEW i \in DOMAIN ops
      PROVE  /\ t[i] \in Operation
             /\ t[i].doc = ops[i].doc /\ t[i].label = ops[i].label
             /\ t[i].status = ops[i].status /\ t[i].policy = ops[i].policy
             /\ t[i].calm = ops[i].calm /\ t[i].due = ops[i].due
             /\ t[i].late = IF Same(ops[i], request[r]) /\ Settled(ops[i])
                            THEN ops[i].late + 1 ELSE ops[i].late
  <2>1. ops[i] \in Operation
    BY OpType
  <2>2. CASE Same(ops[i], request[r]) /\ Settled(ops[i])
    <3>1. t[i] = [ops[i] EXCEPT !.late = ops[i].late + 1]
      BY <2>2
    <3> HIDE DEF t
    <3> QED BY <2>1, <2>2, <3>1 DEF Operation
  <2>3. CASE ~(Same(ops[i], request[r]) /\ Settled(ops[i]))
    <3>1. t[i] = ops[i]
      BY <2>3
    <3> HIDE DEF t
    <3> QED BY <2>1, <2>3, <3>1
  <2> QED BY <2>2, <2>3
<1>4. t = [i \in DOMAIN ops |-> t[i]]
  OBVIOUS
<1> HIDE DEF t, n
<1>5. t \in Seq(Operation) /\ Len(t) = Len(ops) /\ DOMAIN t = DOMAIN ops
  BY <1>3, <1>4, WriteOps DEF IntakeTypeOK
<1>6. DOMAIN ops = 1 .. Len(ops)
  BY LenProperties DEF IntakeTypeOK
<1>7. /\ Append(t, n) \in Seq(Operation) /\ Len(Append(t, n)) = Len(t) + 1
      /\ \A i \in 1 .. Len(t) : Append(t, n)[i] = t[i]
      /\ Append(t, n)[Len(t) + 1] = n
  BY <1>2, <1>5, AppendProperties
<1>8. \A i \in DOMAIN ops : ops'[i] = t[i]
  BY <1>1, <1>5, <1>6, <1>7
<1>9. ops'[Len(ops) + 1] = n /\ ops' \in Seq(Operation) /\ Len(ops') = Len(ops) + 1
  BY <1>1, <1>5, <1>7
<1> QED BY <1>3, <1>8, <1>9 DEF n

LEMMA CreateStep ==
    ASSUME IntakeInv, NEW r \in Requests, Create(r)
    PROVE  IntakeInv'
<1> USE IntakeAssumption
<1>1. IntakeTypeOK /\ request[r].creates
      /\ UNCHANGED <<opa, poll, cache, task, faults, polled>>
  BY DEF IntakeInv, Create
<1>2. /\ r \in Creators /\ IsFiniteSet(Creators)
      /\ Len(ops) \in Nat /\ DOMAIN ops = 1 .. Len(ops)
  <2>1. Creators \in SUBSET Requests
    BY DEF Creators
  <2> QED BY <1>1, <2>1, FS_Subset, LenProperties DEF Creators, IntakeTypeOK
<1>3. request' = [request EXCEPT ![r] = Idle]
  BY DEF Create
<1>4. request'[r] = Idle /\ \A p \in Requests : p # r => request'[p] = request[p]
  BY <1>1, <1>3 DEF IntakeTypeOK
<1>5. /\ Creators' = Creators \ {r}
      /\ Cardinality(Creators') = Cardinality(Creators) - 1
      /\ Cardinality(Creators) \in Nat /\ Cardinality(Creators') \in Nat
  <2>1. Creators' = Creators \ {r}
    BY <1>4, IdleRequest DEF Creators
  <2>2. /\ IsFiniteSet(Creators \ {r})
        /\ Cardinality(Creators \ {r}) = Cardinality(Creators) - 1
    BY <1>2, FS_RemoveElement
  <2>3. Cardinality(Creators) \in Nat /\ Cardinality(Creators \ {r}) \in Nat
    BY <1>2, <2>2, FS_CardinalityType
  <2> QED BY <2>1, <2>2, <2>3
<1>6. Len(ops) < MaxOps
  BY <1>2, <1>5 DEF IntakeInv, Counted
<1>7. /\ ops' \in Seq(Operation) /\ Len(ops') = Len(ops) + 1
      /\ DOMAIN ops' = 1 .. Len(ops) + 1
  <2>1. ops' \in Seq(Operation) /\ Len(ops') = Len(ops) + 1
    BY <1>1, <1>6, CreateRows
  <2>2. DOMAIN ops' = 1 .. Len(ops')
    BY <2>1, LenProperties
  <2> QED BY <2>1, <2>2
<1>8. \A i \in DOMAIN ops :
         /\ ops'[i].doc = ops[i].doc /\ ops'[i].label = ops[i].label
         /\ ops'[i].status = ops[i].status /\ ops'[i].policy = ops[i].policy
         /\ ops'[i].calm = ops[i].calm /\ ops'[i].due = ops[i].due
         /\ ops'[i].late = IF Same(ops[i], request[r]) /\ Settled(ops[i])
                           THEN ops[i].late + 1 ELSE ops[i].late
  BY <1>1, <1>6, CreateRows
<1>9. PICK k : k = Len(ops) + 1
  OBVIOUS
<1>10. /\ ops'[k].doc = request[r].doc /\ ops'[k].label = request[r].label
       /\ ops'[k].calm = request[r].calm /\ ops'[k].status = "pending"
       /\ ops'[k].late = 0 /\ ops'[k].due = 0
  <2>1. ops'[k] = [doc |-> request[r].doc, label |-> request[r].label,
                   calm |-> request[r].calm, due |-> 0, late |-> 0,
                   source |-> "scan", status |-> "pending", policy |-> None]
    BY <1>1, <1>6, <1>9, CreateRows, Zenon
  <2> QED BY <2>1
<1>11. \A i \in DOMAIN ops' : i \in DOMAIN ops \/ i = k
  BY <1>2, <1>7, <1>9
<1>12. \A i \in DOMAIN ops : i \in DOMAIN ops'
  BY <1>2, <1>7
<1>13. IntakeTypeOK' /\ Counted'
  <2>1. request' \in [Requests -> Request]
    BY <1>1, <1>3, IdleRequest DEF IntakeTypeOK
  <2>2. Len(ops') <= MaxOps
    BY <1>2, <1>6, <1>7
  <2>3. Counted'
    BY <1>2, <1>5, <1>7 DEF IntakeInv, Counted
  <2> QED BY <1>1, <1>7, <2>1, <2>2, <2>3 DEF IntakeTypeOK
<1>14. TasksApart' /\ PollsFresh'
  BY <1>1, <1>8, <1>12 DEF IntakeInv, TasksApart, PollsFresh
<1>15. CalmIsCurrent'
  <2>1. \A p \in Requests : request'[p].creates /\ request'[p].calm => request'[p].label = opa
    BY <1>4, IdleRequest DEF IntakeInv, CalmIsCurrent
  <2>2. \A i \in DOMAIN ops' :
           ops'[i].calm /\ ops'[i].status = "pending" => ops'[i].label = opa
    BY <1>1, <1>8, <1>10, <1>11 DEF IntakeInv, CalmIsCurrent
  <2>3. \A w \in Workers :
           task[w].op # 0 /\ ops'[task[w].op].calm => task[w].policy = opa
    BY <1>8 DEF IntakeInv, CalmIsCurrent, TasksApart
  <2> QED BY <1>1, <2>1, <2>2, <2>3 DEF CalmIsCurrent
<1>16. CalmLabelIsHonest'
  BY <1>8, <1>10, <1>11 DEF IntakeInv, CalmLabelIsHonest
<1>17. ASSUME NEW i \in DOMAIN ops, Settled(ops[i])
       PROVE  ops'[i].late + PastLookup(ops[i])' <= ops'[i].due
  <2>1. PICK o, u : o = ops[i] /\ u = ops'[i]
    OBVIOUS
  <2>2. PICK before, after : /\ before = Matches(o.doc, o.label, request)
                             /\ after = Matches(o.doc, o.label, request')
    OBVIOUS
  <2>3. after = before \ {r}
    BY <1>4, <2>2, IdleRequest DEF Matches
  <2>4. r \in before <=> Same(o, request[r])
    BY <1>1, <2>2 DEF Matches, Same
  <2>5. {p \in Requests : request'[p].creates /\ Same(u, request'[p])} = after
    BY <1>8, <2>1, <2>2 DEF Matches, Same
  <2>6. PastLookup(ops[i])' = Cardinality(after)
    BY <2>1, <2>5 DEF PastLookup
  <2>7. PastLookup(ops[i]) = Cardinality(before)
    BY <2>1, <2>2, PastLookupCount
  <2>8. /\ IsFiniteSet(before) /\ Cardinality(before) \in Nat
        /\ Cardinality(after) \in Nat
    BY <2>2, MatchesFinite
  <2>9. Cardinality(after) = IF Same(o, request[r]) THEN Cardinality(before) - 1
                                                  ELSE Cardinality(before)
    BY <2>3, <2>4, <2>8, FS_RemoveElement
  <2>10. o.late \in Nat /\ o.due \in Nat
    BY <1>1, <2>1, OpType DEF Operation
  <2>11. o.late + Cardinality(before) <= o.due
    BY <1>17, <2>1, <2>7 DEF IntakeInv, LateIsDue
  <2>12. u.due = o.due /\ u.late = IF Same(o, request[r]) THEN o.late + 1 ELSE o.late
    BY <1>8, <1>17, <2>1
  <2> QED BY <2>1, <2>6, <2>8, <2>9, <2>10, <2>11, <2>12
<1>18. ASSUME NEW i \in DOMAIN ops'
       PROVE  /\ ops'[i].status \in {"pending", "detected"} => ops'[i].late = 0
              /\ Settled(ops'[i]) => ops'[i].late + PastLookup(ops[i])' <= ops'[i].due
              /\ ops'[i].late <= ops'[i].due
  <2>1. CASE i = k
    BY <1>10, <2>1 DEF Settled
  <2>2. CASE i \in DOMAIN ops /\ Settled(ops[i])
    <3>1. ops'[i].late + PastLookup(ops[i])' <= ops'[i].due
      BY <1>17, <2>2
    <3>2. PICK o, u : o = ops[i] /\ u = ops'[i]
      OBVIOUS
    <3>3. {p \in Requests : request'[p].creates /\ Same(u, request'[p])}
            = Matches(u.doc, u.label, request')
      BY DEF Matches, Same
    <3>4. PastLookup(ops[i])' = Cardinality(Matches(u.doc, u.label, request'))
      BY <3>2, <3>3 DEF PastLookup
    <3>5. PastLookup(ops[i])' \in Nat
      BY <3>4, MatchesFinite
    <3>6. ops[i].late \in Nat /\ ops[i].due \in Nat
      BY <1>1, <2>2, OpType DEF Operation
    <3>7. ops'[i].late \in Nat /\ ops'[i].due \in Nat
      BY <1>8, <2>2, <3>6
    <3> QED BY <1>8, <2>2, <3>1, <3>5, <3>7 DEF Settled
  <2>3. CASE i \in DOMAIN ops /\ ~Settled(ops[i])
    BY <1>8, <2>3 DEF IntakeInv, LateIsDue, Settled
  <2> QED BY <1>11, <2>1, <2>2, <2>3
<1>19. LateIsDue'
  BY <1>18 DEF LateIsDue, Settled
<1> QED BY <1>13, <1>14, <1>15, <1>16, <1>19 DEF IntakeInv

-----------------------------------------------------------------------------
(* The MCP tools.                                                          *)

\* An operation is recorded without a lookup, and is none to be detected.
LEMMA RecordStep ==
    ASSUME IntakeInv, NEW o \in Operation, Record(o),
           ~o.calm, o.late = 0, Settled(o) => o.due = PastLookup(o)
    PROVE  IntakeInv'
<1> USE IntakeAssumption
<1>1. /\ IntakeTypeOK /\ ops' = Append(ops, o)
      /\ UNCHANGED <<opa, poll, cache, request, task, faults, polled>>
  BY DEF IntakeInv, Record
<1>2. /\ ops \in Seq(Operation) /\ Len(ops) \in Nat /\ DOMAIN ops = 1 .. Len(ops)
  BY <1>1, LenProperties DEF IntakeTypeOK
<1>3. /\ ops' \in Seq(Operation) /\ Len(ops') = Len(ops) + 1
      /\ \A i \in 1 .. Len(ops) : ops'[i] = ops[i]
      /\ ops'[Len(ops) + 1] = o
  BY <1>1, <1>2, AppendProperties
<1>4. PICK k : k = Len(ops) + 1
  OBVIOUS
<1>5. /\ DOMAIN ops' = 1 .. k /\ ops'[k] = o
      /\ \A i \in DOMAIN ops : i \in DOMAIN ops' /\ ops'[i] = ops[i]
      /\ \A i \in DOMAIN ops' : i \in DOMAIN ops \/ i = k
  BY <1>2, <1>3, <1>4, LenProperties
<1>6. Len(ops) + Cardinality(Creators) < MaxOps /\ Cardinality(Creators) \in Nat
  <2>1. Creators \in SUBSET Requests
    BY DEF Creators
  <2>2. Cardinality(Creators) \in Nat
    BY <2>1, FS_Subset, FS_CardinalityType
  <2> QED BY <2>2 DEF Record, RoomForOne, Creators
<1>7. Creators' = Creators
  BY <1>1 DEF Creators
<1>8. IntakeTypeOK' /\ Counted'
  BY <1>1, <1>2, <1>3, <1>6, <1>7 DEF IntakeTypeOK, Counted
<1>9. TasksApart' /\ PollsFresh'
  BY <1>1, <1>5 DEF IntakeInv, TasksApart, PollsFresh
<1>10. CalmIsCurrent' /\ CalmLabelIsHonest'
  BY <1>1, <1>5 DEF IntakeInv, TasksApart, CalmIsCurrent, CalmLabelIsHonest
<1>11. ASSUME NEW i \in DOMAIN ops'
       PROVE  /\ ops'[i].status \in {"pending", "detected"} => ops'[i].late = 0
              /\ Settled(ops'[i]) => ops'[i].late + PastLookup(ops[i])' <= ops'[i].due
              /\ ops'[i].late <= ops'[i].due
  <2>1. PICK u : u = ops'[i]
    OBVIOUS
  <2>2. PastLookup(ops[i])' = PastLookup(u) /\ PastLookup(u) \in Nat
    <3>1. {r \in Requests : request'[r].creates /\ Same(u, request'[r])}
            = {r \in Requests : request[r].creates /\ Same(u, request[r])}
      BY <1>1
    <3>2. PastLookup(ops[i])' = PastLookup(u)
      BY <2>1, <3>1 DEF PastLookup
    <3> QED BY <3>2, PastLookupCount, MatchesFinite
  <2>3. CASE i = k
    <3>1. u = o /\ o.due \in Nat
      BY <1>5, <2>1, <2>3 DEF Operation
    <3> QED BY <2>1, <2>2, <3>1
  <2>4. CASE i \in DOMAIN ops
    BY <1>5, <2>1, <2>2, <2>4 DEF IntakeInv, LateIsDue
  <2> QED BY <1>5, <2>3, <2>4
<1>12. LateIsDue'
  BY <1>11 DEF LateIsDue, Settled
<1> QED BY <1>8, <1>9, <1>10, <1>12 DEF IntakeInv

LEMMA ToolStep ==
    ASSUME IntakeInv, tool_scan \/ tool_classify
    PROVE  IntakeInv'
<1> USE IntakeAssumption
<1>1. CASE tool_scan
  <2>1. PICK d \in Docs, v \in Versions \cup {FALLBACK_POLICY_VERSION} :
           Record([doc |-> d, label |-> v, calm |-> FALSE, due |-> 0, late |-> 0,
                   source |-> "tool_scan", status |-> "pending", policy |-> None])
    BY <1>1, Zenon DEF tool_scan
  <2>2. PICK o : o = [doc |-> d, label |-> v, calm |-> FALSE, due |-> 0, late |-> 0,
                      source |-> "tool_scan", status |-> "pending", policy |-> None]
    OBVIOUS
  <2>3. Record(o)
    BY <2>1, <2>2, Zenon
  <2>4. o \in Operation /\ ~o.calm /\ o.late = 0 /\ ~Settled(o)
    BY <2>2 DEF Operation, Settled, Versions, FALLBACK_POLICY_VERSION
  <2> QED BY <2>3, <2>4, RecordStep
<1>2. CASE tool_classify
  <2>1. PICK d \in Docs :
           LET p == [doc |-> d, label |-> FALLBACK_POLICY_VERSION] IN
           Record([doc |-> p.doc, label |-> p.label, calm |-> FALSE,
                   due |-> PastLookup(p), late |-> 0,
                   source |-> "tool_classify", status |-> "completed", policy |-> None])
    BY <1>2, Zenon DEF tool_classify
  <2>2. PICK p : p = [doc |-> d, label |-> FALLBACK_POLICY_VERSION]
    OBVIOUS
  <2>3. PICK n : n = PastLookup(p)
    OBVIOUS
  <2>4. PICK o : o = [doc |-> p.doc, label |-> p.label, calm |-> FALSE,
                      due |-> n, late |-> 0,
                      source |-> "tool_classify", status |-> "completed", policy |-> None]
    OBVIOUS
  <2>5. Record(o)
    BY <2>1, <2>2, <2>3, <2>4, Zenon
  <2>6. n \in Nat
    BY <2>3, PastLookupCount, MatchesFinite
  <2>7. p.doc = d /\ p.label = FALLBACK_POLICY_VERSION /\ FALLBACK_POLICY_VERSION \in Versions
    BY <2>2 DEF Versions, FALLBACK_POLICY_VERSION
  <2>8. o \in Operation /\ ~o.calm /\ o.late = 0 /\ o.due = n
        /\ o.doc = p.doc /\ o.label = p.label
    BY <2>4, <2>6, <2>7 DEF Operation
  <2>9. PastLookup(o) = n
    <3>1. PastLookup(p) = PastLookup(o)
      BY <2>8, PastLookupCount
    <3> QED BY <2>3, <3>1
  <2> QED BY <2>5, <2>8, <2>9, RecordStep
<1> QED BY <1>1, <1>2

-----------------------------------------------------------------------------
(* The pipeline.                                                           *)

\* A step that writes the row of one operation.
LEMMA RowStep ==
    ASSUME IntakeInv, UNCHANGED <<opa, poll, cache, request, faults, polled>>,
           NEW i \in DOMAIN ops, NEW o \in Operation, ops' = [ops EXCEPT ![i] = o],
           task' \in [Workers -> Task],
           o.doc = ops[i].doc, o.label = ops[i].label,
           o.status \in {"pending", "detected"} => o.late = 0,
           Settled(o) => o.late + PastLookup(ops[i]) <= o.due,
           o.late <= o.due,
           o.calm /\ o.status = "pending" => o.label = opa,
           o.calm /\ o.status # "pending" => o.policy = o.label,
           TasksApart',
           \A w \in Workers :
              task'[w].op # 0 /\ ops'[task'[w].op].calm => task'[w].policy = opa
    PROVE  IntakeInv'
<1>1. IntakeTypeOK
  BY DEF IntakeInv
<1>2. /\ ops' \in Seq(Operation) /\ Len(ops') = Len(ops) /\ DOMAIN ops' = DOMAIN ops
      /\ ops'[i] = o /\ \A j \in DOMAIN ops : j # i => ops'[j] = ops[j]
  BY <1>1, WriteOp DEF IntakeTypeOK
<1>3. IntakeTypeOK' /\ Counted'
  BY <1>1, <1>2 DEF IntakeInv, IntakeTypeOK, Counted, Creators
<1>4. PollsFresh'
  BY DEF IntakeInv, PollsFresh
<1>5. CalmIsCurrent' /\ CalmLabelIsHonest'
  BY <1>2 DEF IntakeInv, CalmIsCurrent, CalmLabelIsHonest
<1>6. ASSUME NEW j \in DOMAIN ops
      PROVE  PastLookup(ops[j])' = PastLookup(ops[j])
  <2>1. PICK q, u : q = ops[j] /\ u = ops'[j]
    OBVIOUS
  <2>2. q.doc = u.doc /\ q.label = u.label
    BY <1>2, <2>1
  <2>3. {r \in Requests : request'[r].creates /\ Same(u, request'[r])}
          = {r \in Requests : request[r].creates /\ Same(q, request[r])}
    BY <2>2 DEF Same
  <2> QED BY <2>1, <2>3 DEF PastLookup
<1>7. ASSUME NEW j \in DOMAIN ops
      PROVE  /\ ops'[j].status \in {"pending", "detected"} => ops'[j].late = 0
             /\ Settled(ops'[j]) => ops'[j].late + PastLookup(ops[j])' <= ops'[j].due
             /\ ops'[j].late <= ops'[j].due
  <2>1. CASE j = i
    BY <1>2, <1>6, <2>1
  <2>2. CASE j # i
    BY <1>2, <1>6, <2>2 DEF IntakeInv, LateIsDue
  <2> QED BY <2>1, <2>2
<1>8. LateIsDue'
  BY <1>2, <1>7 DEF LateIsDue, Settled
<1> QED BY <1>3, <1>4, <1>5, <1>8 DEF IntakeInv

LEMMA DetectBeginStep ==
    ASSUME IntakeInv, NEW w \in Workers, DetectBegin(w)
    PROVE  IntakeInv'
<1> USE IntakeAssumption
<1>1. IntakeTypeOK /\ UNCHANGED <<opa, poll, cache, request, faults, polled>>
  BY DEF IntakeInv, DetectBegin
<1>2. PICK i \in DOMAIN ops :
         /\ ops[i].status = "pending"
         /\ \A v \in Workers : task[v].op # i
         /\ task' = [task EXCEPT ![w] = [op |-> i, policy |-> cache[w].policy]]
         /\ ops' = [ops EXCEPT ![i].calm = @ /\ w \in polled]
  BY DEF DetectBegin
<1>3. PICK c : c = (ops[i].calm /\ w \in polled)
  OBVIOUS
<1>4. PICK o : o = [ops[i] EXCEPT !.calm = c]
  OBVIOUS
<1>5. ops[i] \in Operation /\ c \in BOOLEAN
  BY <1>1, <1>3, OpType
<1>6. /\ o \in Operation /\ o.calm = c /\ o.doc = ops[i].doc /\ o.label = ops[i].label
      /\ o.status = "pending" /\ o.late = ops[i].late /\ o.due = ops[i].due
  BY <1>2, <1>4, <1>5 DEF Operation
<1>7. ops' = [ops EXCEPT ![i] = o]
  BY <1>2, <1>3, <1>4, Zenon
<1>8. PICK t : t = [op |-> i, policy |-> cache[w].policy]
  OBVIOUS
<1>9. t \in Task /\ t.op = i /\ t.policy = cache[w].policy
  <2>1. i \in 0 .. MaxOps /\ i # 0
    BY <1>1, LenProperties DEF IntakeTypeOK
  <2>2. cache[w].policy \in Versions \cup {None}
    BY <1>1 DEF IntakeTypeOK, Cache
  <2> QED BY <1>8, <2>1, <2>2 DEF Task
<1>10. task' \in [Workers -> Task]
  BY <1>1, <1>2, <1>8, <1>9 DEF IntakeTypeOK
<1>11. task'[w] = t /\ \A v \in Workers : v # w => task'[v] = task[v]
  BY <1>1, <1>2, <1>8 DEF IntakeTypeOK
<1>12. /\ DOMAIN ops' = DOMAIN ops /\ ops'[i] = o
       /\ \A j \in DOMAIN ops : j # i => ops'[j] = ops[j]
  BY <1>1, <1>6, <1>7, WriteOp DEF IntakeTypeOK
<1>13. TasksApart'
  BY <1>2, <1>6, <1>9, <1>11, <1>12 DEF IntakeInv, TasksApart
<1>14. c => ops[i].calm /\ cache[w].policy = opa
  BY <1>3 DEF IntakeInv, PollsFresh
<1>15. ASSUME NEW v \in Workers, task'[v].op # 0, ops'[task'[v].op].calm
       PROVE  task'[v].policy = opa
  <2>1. CASE v = w
    BY <1>6, <1>9, <1>11, <1>12, <1>14, <1>15, <2>1
  <2>2. CASE v # w
    BY <1>2, <1>11, <1>12, <1>15, <2>2 DEF IntakeInv, TasksApart, CalmIsCurrent
  <2> QED BY <2>1, <2>2
<1>16. o.late = 0 /\ o.late <= o.due /\ ~Settled(o)
  BY <1>2, <1>6 DEF IntakeInv, LateIsDue, Settled
<1>17. o.calm => o.label = opa
  BY <1>2, <1>6, <1>14 DEF IntakeInv, CalmIsCurrent
<1> QED BY <1>1, <1>6, <1>7, <1>10, <1>13, <1>15, <1>16, <1>17, RowStep

LEMMA DetectCommitStep ==
    ASSUME IntakeInv, NEW w \in Workers, DetectCommit(w)
    PROVE  IntakeInv'
<1> USE IntakeAssumption
<1>1. IntakeTypeOK /\ UNCHANGED <<opa, poll, cache, request, faults, polled>>
  BY DEF IntakeInv, DetectCommit
<1>2. PICK k : k = task[w].op
  OBVIOUS
<1>3. /\ k \in DOMAIN ops /\ ops[k].status = "pending" /\ k # 0
      /\ \A v \in Workers : task[v].op = k => v = w
  BY <1>2 DEF IntakeInv, TasksApart, DetectCommit
<1>4. PICK s \in {"escalated", "detected"} :
         ops' = [ops EXCEPT ![k] =
                   [ops[k] EXCEPT !.status = s, !.policy = task[w].policy,
                      !.due = IF s = "escalated" THEN PastLookup(ops[k]) ELSE 0]]
  BY <1>2, <1>3 DEF DetectCommit
<1>5. PICK n : n = IF s = "escalated" THEN PastLookup(ops[k]) ELSE 0
  OBVIOUS
<1>6. PICK o : o = [ops[k] EXCEPT !.status = s, !.policy = task[w].policy, !.due = n]
  OBVIOUS
<1>7. n \in Nat /\ ops[k] \in Operation /\ task[w].policy \in Versions \cup {None}
  <2>1. PastLookup(ops[k]) \in Nat
    BY PastLookupCount, MatchesFinite
  <2> QED BY <1>1, <1>3, <1>5, <2>1, OpType DEF IntakeTypeOK, Task
<1>8. /\ o \in Operation /\ o.doc = ops[k].doc /\ o.label = ops[k].label
      /\ o.status = s /\ o.policy = task[w].policy /\ o.due = n
      /\ o.calm = ops[k].calm /\ o.late = ops[k].late
  BY <1>6, <1>7 DEF Operation
<1>9. ops' = [ops EXCEPT ![k] = o]
  BY <1>4, <1>5, <1>6
<1>10. o.late = 0
  BY <1>3, <1>8 DEF IntakeInv, LateIsDue
<1>11. /\ o.late <= o.due
       /\ Settled(o) => o.late + PastLookup(ops[k]) <= o.due
  BY <1>5, <1>7, <1>8, <1>10 DEF Settled
<1>12. o.calm => o.policy = o.label
  BY <1>2, <1>3, <1>8 DEF IntakeInv, CalmIsCurrent
<1>13. task' = [task EXCEPT ![w] = NoTask] /\ NoTask \in Task /\ NoTask.op = 0
  BY DEF DetectCommit, NoTask, Task, None
<1>14. /\ task' \in [Workers -> Task]
       /\ task'[w].op = 0 /\ \A v \in Workers : v # w => task'[v] = task[v]
  BY <1>1, <1>13 DEF IntakeTypeOK
<1>15. /\ DOMAIN ops' = DOMAIN ops
       /\ \A j \in DOMAIN ops : j # k => ops'[j] = ops[j]
  BY <1>1, <1>3, <1>8, <1>9, WriteOp DEF IntakeTypeOK
<1>16. TasksApart'
  BY <1>3, <1>14, <1>15 DEF IntakeInv, TasksApart
<1>17. \A v \in Workers :
          task'[v].op # 0 /\ ops'[task'[v].op].calm => task'[v].policy = opa
  BY <1>3, <1>14, <1>15 DEF IntakeInv, TasksApart, CalmIsCurrent
<1>18. o.status # "pending"
  BY <1>8
<1> QED BY <1>1, <1>3, <1>8, <1>9, <1>10, <1>11, <1>12, <1>14, <1>16, <1>17, <1>18, RowStep

LEMMA SettleStep ==
    ASSUME IntakeInv, NEW i \in DOMAIN ops, Settle(i)
    PROVE  IntakeInv'
<1> USE IntakeAssumption
<1>1. IntakeTypeOK /\ UNCHANGED <<opa, poll, cache, request, task, faults, polled>>
  BY DEF IntakeInv, Settle
<1>2. ops[i] \in Operation /\ PastLookup(ops[i]) \in Nat
  BY <1>1, OpType, PastLookupCount, MatchesFinite
<1>3. PICK s \in {"completed", "escalated"} :
         ops' = [ops EXCEPT ![i].status = s, ![i].due = PastLookup(ops[i])]
  BY DEF Settle
<1>0. ops[i].status = "detected"
  BY DEF Settle
<1>4. PICK o : o = [ops[i] EXCEPT !.status = s, !.due = PastLookup(ops[i])]
  OBVIOUS
<1>5. /\ o \in Operation /\ o.doc = ops[i].doc /\ o.label = ops[i].label
      /\ o.status = s /\ o.policy = ops[i].policy /\ o.due = PastLookup(ops[i])
      /\ o.calm = ops[i].calm /\ o.late = ops[i].late /\ o.late \in Nat
  BY <1>2, <1>4 DEF Operation
<1>6. ops' = [ops EXCEPT ![i] = o]
  BY <1>3, <1>4
<1>7. o.late + PastLookup(ops[i]) <= o.due
  BY <1>0, <1>2, <1>5 DEF IntakeInv, LateIsDue
<1>8. o.late <= o.due
  BY <1>2, <1>5, <1>7
<1>9. o.calm => o.policy = o.label
  BY <1>0, <1>5 DEF IntakeInv, CalmLabelIsHonest
<1>10. /\ DOMAIN ops' = DOMAIN ops
       /\ \A j \in DOMAIN ops : j # i => ops'[j] = ops[j]
  BY <1>1, <1>5, <1>6, WriteOp DEF IntakeTypeOK
<1>11. \A w \in Workers : task[w].op # 0 => task[w].op # i
  BY <1>0 DEF IntakeInv, TasksApart
<1>12. TasksApart'
  BY <1>1, <1>10, <1>11 DEF IntakeInv, TasksApart
<1>13. \A w \in Workers :
          task'[w].op # 0 /\ ops'[task'[w].op].calm => task'[w].policy = opa
  BY <1>1, <1>10, <1>11 DEF IntakeInv, TasksApart, CalmIsCurrent
<1>14. task' \in [Workers -> Task] /\ o.status \notin {"pending", "detected"}
  BY <1>1, <1>3, <1>5 DEF IntakeTypeOK
<1> QED BY <1>1, <1>5, <1>6, <1>7, <1>8, <1>9, <1>12, <1>13, <1>14, RowStep

-----------------------------------------------------------------------------
(* The invariant and the theorems.                                         *)

LEMMA IntakeInvInit == IntakeInit => IntakeInv
<1> SUFFICES ASSUME IntakeInit PROVE IntakeInv
  OBVIOUS
<1> USE IntakeAssumption
<1>1. EmptyCache \in Cache /\ NoTask \in Task /\ NoTask.op = 0
  BY DEF EmptyCache, Cache, NoTask, Task, None
<1>2. ops = << >> /\ Len(ops) = 0 /\ DOMAIN ops = {} /\ ops \in Seq(Operation)
  BY EmptySeq DEF IntakeInit
<1>3. IntakeTypeOK
  BY <1>1, <1>2, NoPollType, IdleRequest DEF IntakeInit, IntakeTypeOK, Versions
<1>4. Counted
  <2>1. Creators = {}
    BY IdleRequest DEF IntakeInit, Creators
  <2> QED BY <1>2, <2>1, FS_EmptySet DEF Counted
<1>5. TasksApart /\ PollsFresh
  BY <1>1, NoPollType DEF IntakeInit, TasksApart, PollsFresh
<1>6. CalmIsCurrent /\ CalmLabelIsHonest /\ LateIsDue
  BY <1>1, <1>2, IdleRequest
     DEF IntakeInit, CalmIsCurrent, CalmLabelIsHonest, LateIsDue
<1> QED BY <1>3, <1>4, <1>5, <1>6 DEF IntakeInv

LEMMA IntakeInvStep ==
    ASSUME IntakeInv, [IntakeNext]_vars
    PROVE  IntakeInv'
<1>1. CASE UNCHANGED vars
  <2>1. UNCHANGED <<opa, poll, cache, ops, request, task, faults, polled>>
    BY <1>1 DEF vars
  <2>2. /\ poll' \in [Workers -> Poll] /\ cache' \in [Workers -> Cache]
        /\ faults' \in 0 .. MaxFaults /\ polled' \subseteq Workers
    BY <2>1 DEF IntakeInv, IntakeTypeOK
  <2>3. PollsFresh'
    BY <2>1 DEF IntakeInv, PollsFresh
  <2> QED BY <2>1, <2>2, <2>3, PollFrame
<1>2. ASSUME NEW w \in Workers, Polling(w) \/ PollRaises(w) PROVE IntakeInv'
  BY <1>2, AnswerStep, ApplyPollStep, PollRaisesStep DEF Polling
<1>3. ASSUME NEW r \in Requests, Lookup(r) \/ Create(r) PROVE IntakeInv'
  BY <1>3, LookupStep, CreateStep
<1>4. ASSUME NEW w \in Workers, DetectBegin(w) \/ DetectCommit(w) \/ CrashWorker(w)
      PROVE  IntakeInv'
  BY <1>4, DetectBeginStep, DetectCommitStep, CrashStep
<1>5. ASSUME NEW i \in DOMAIN ops, Settle(i) PROVE IntakeInv'
  BY <1>5, SettleStep
<1>6. ASSUME tool_scan \/ tool_classify PROVE IntakeInv'
  BY <1>6, ToolStep
<1> QED BY <1>1, <1>2, <1>3, <1>4, <1>5, <1>6, ReloadStep DEF IntakeNext

(***************************************************************************)
(* Polls, caches, operations and requests stay well typed, and no more     *)
(* operations are created than were announced.                             *)
(***************************************************************************)
THEOREM IntakeTypeCorrect == IntakeSpec => []IntakeTypeOK
<1>1. IntakeInv /\ [IntakeNext]_vars => IntakeInv'
  BY IntakeInvStep
<1>2. IntakeInv => IntakeTypeOK
  BY DEF IntakeInv
<1> QED BY <1>1, <1>2, IntakeInvInit, PTL DEF IntakeSpec

(***************************************************************************)
(* Whichever polls fail and whichever workers restart, an operation that   *)
(* was labelled as OPA says, and detected before the next reload by a      *)
(* worker that has polled, was detected with the policy of its label.      *)
(***************************************************************************)
THEOREM CalmLabelsAreHonest == IntakeSpec => []CalmLabelIsHonest
<1>1. IntakeInv /\ [IntakeNext]_vars => IntakeInv'
  BY IntakeInvStep
<1>2. IntakeInv => CalmLabelIsHonest
  BY DEF IntakeInv
<1> QED BY <1>1, <1>2, IntakeInvInit, PTL DEF IntakeSpec

(***************************************************************************)
(* The endpoint's lookup and its insert are not one transaction, but the   *)
(* duplicates it makes are bounded: each one of a finished operation, one  *)
(* that safecontext.classify recorded included, was for a request already  *)
(* on its way, however many operations the tools add beside them.          *)
(***************************************************************************)
THEOREM DuplicatesWereInFlight == IntakeSpec => []DuplicatesAreInFlight
<1>1. IntakeInv /\ [IntakeNext]_vars => IntakeInv'
  BY IntakeInvStep
<1>2. IntakeInv => DuplicatesAreInFlight
  BY DEF IntakeInv, LateIsDue, DuplicatesAreInFlight
<1> QED BY <1>1, <1>2, IntakeInvInit, PTL DEF IntakeSpec
=============================================================================
