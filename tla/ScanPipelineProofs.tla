------------------------- MODULE ScanPipelineProofs -------------------------
(***************************************************************************)
(* Proofs about the worker pipeline, for any number of operations,         *)
(* processes, relays, retries and failures.                                *)
(*                                                                         *)
(* The first part is about the relays alone: they lose no outbox row, and  *)
(* a duplicate delivery needs a roll-back.                                 *)
(* The second part is about a step: its types, and what it may change as   *)
(* seen from a task, from an operation's row and from a queued message.    *)
(* The third part rests on it: sealed evidence is complete; and, while     *)
(* the policy does not change, completed operations are covered and        *)
(* escalated ones are held.                                                *)
(***************************************************************************)
EXTENDS ScanPipeline, TLAPS

-----------------------------------------------------------------------------
(* The relays by themselves, with RelaySpec: what they promise does not    *)
(* depend on what becomes of the messages.                                 *)

\* What actor.send(operation_id) enqueues is a message.
LEMMA FreshMessage ==
    ASSUME NEW s \in Stages, NEW o \in Ops \cup {NoneId}
    PROVE  /\ Fresh(s, o) \in Message
           /\ Fresh(s, o).stage = s
           /\ Fresh(s, o).op = o
BY DramatiqAssumption DEF Fresh, Message

\* Adding a copy of a message keeps the queue a bag and counts as expected.
LEMMA WithBag ==
    ASSUME NEW q \in [Message -> Nat], NEW m \in Message
    PROVE  /\ With(q, m) \in [Message -> Nat]
           /\ With(q, m)[m] = q[m] + 1
           /\ \A n \in Message : n # m => With(q, m)[n] = q[n]
BY DEF With

\* The relays keep the broker, the outbox and their own state well typed.
THEOREM RelayTypeCorrect == RelaySpec => []RelayTypeOK
<1>1. RelayInit => RelayTypeOK
  BY RelayAssumption
  DEF RelayInit, DramatiqInit, OutboxInit, RelayTypeOK, DramatiqTypeOK,
      OutboxTypeOK, OutboxRow, RowStates, RelayIdle
<1>2. RelayTypeOK /\ [RelayNext]_relaySpecVars => RelayTypeOK'
  <2> SUFFICES ASSUME RelayTypeOK, [RelayNext]_relaySpecVars
               PROVE  RelayTypeOK'
    OBVIOUS
  <2> USE DEF RelayTypeOK, DramatiqTypeOK, OutboxTypeOK, OutboxRow, RowStates
  <2>1. ASSUME NEW o \in Ops, Submit(o) PROVE RelayTypeOK'
    BY <2>1 DEF Submit, AddRow
  <2>2. ASSUME NEW r \in Relays, RelaySelect(r) PROVE RelayTypeOK'
    BY <2>2 DEF RelaySelect
  <2>3. ASSUME NEW r \in Relays, RelaySend(r) PROVE RelayTypeOK'
    <3>1. PICK o \in relay[r].todo :
              /\ queue' = With(queue, Fresh("scan", outbox[o].id))
              /\ relay' = [relay EXCEPT ![r].todo = @ \ {o}]
              /\ UNCHANGED <<outbox, faults, dead>>
      BY <2>3 DEF RelaySend
    <3>2. outbox[o].id \in Ops \cup {NoneId}
      OBVIOUS
    <3>3. queue' \in [Message -> Nat]
      BY <3>1, <3>2, FreshMessage, WithBag DEF Stages
    <3>4. QED
      BY <3>1, <3>3
  <2>4. ASSUME NEW r \in Relays, RelayCommit(r) PROVE RelayTypeOK'
    <3>1. outbox' \in [Ops -> OutboxRow]
      BY <2>4 DEF RelayCommit
    <3>2. UNCHANGED <<faults, queue, dead>> /\ relay' = [relay EXCEPT ![r] = RelayIdle]
      BY <2>4 DEF RelayCommit
    <3> QED BY <3>1, <3>2 DEF RelayIdle
  <2>5. ASSUME NEW r \in Relays, RelayAbort(r) PROVE RelayTypeOK'
    BY <2>5, RelayAssumption DEF RelayAbort, RelayIdle
  <2>6. CASE UNCHANGED relaySpecVars
    BY <2>6 DEF relaySpecVars
  <2>7. QED
    BY <2>1, <2>2, <2>3, <2>4, <2>5, <2>6 DEF RelayNext, RelayStep
<1>3. QED
  BY <1>1, <1>2, PTL DEF RelaySpec

\* What a relay has locked: unprocessed rows, each held by it alone.
LocksExclusive ==
    /\ \A r \in Relays : relay[r].todo \subseteq relay[r].batch
    /\ \A r \in Relays : \A o \in relay[r].batch : outbox[o].state = "new"
    /\ \A r, s \in Relays : r # s => relay[r].batch \cap relay[s].batch = {}

\* A payload names its own operation or none.
IdsAreOwn == \A o \in Ops : outbox[o].id \in {o, NoneId}

\* o was sent by a transaction that committed or may still commit.
Spent(o) == outbox[o].state = "done" \/ Uncommitted(o) # {}

SendsBounded ==
    \A o \in Ops : /\ Sends(o) <= faults + 1
                   /\ ~Spent(o) => Sends(o) <= faults

SpentWasSent == \A o \in Ops : Spent(o) /\ outbox[o].id = o => Sends(o) > 0

(***************************************************************************)
(* The inductive invariant.  Neither property is inductive alone: that a   *)
(* row becomes "done" only after its send rests on what an open            *)
(* transaction has sent (Uncommitted), and that it is sent once rests on   *)
(* the exclusive locks.                                                    *)
(***************************************************************************)
RelayInv ==
    RelayTypeOK /\ LocksExclusive /\ IdsAreOwn /\ SendsBounded /\ SpentWasSent

\* Initially there is no row, no lock and no message.
LEMMA RelayInvInit == RelayInit => RelayInv
<1> SUFFICES ASSUME RelayInit PROVE RelayInv
  OBVIOUS
<1>1. RelayTypeOK
  BY RelayAssumption
  DEF RelayInit, DramatiqInit, OutboxInit, RelayTypeOK, DramatiqTypeOK,
      OutboxTypeOK, OutboxRow, RowStates, RelayIdle
<1>2. LocksExclusive /\ IdsAreOwn
  BY DEF RelayInit, OutboxInit, RelayIdle, LocksExclusive, IdsAreOwn
<1>3. \A o \in Ops : ~Spent(o) /\ Sends(o) = 0
  BY FreshMessage
  DEF RelayInit, DramatiqInit, OutboxInit, RelayIdle, Spent, Uncommitted, Sends,
      Stages
<1>4. QED
  BY <1>1, <1>2, <1>3
  DEF RelayInv, SendsBounded, SpentWasSent, RelayInit, OutboxInit

\* Every step of a request or a relay preserves the invariant.
LEMMA RelayInvStep == RelayInv /\ RelayTypeOK' /\ [RelayNext]_relaySpecVars => RelayInv'
<1> SUFFICES ASSUME RelayInv, RelayTypeOK', [RelayNext]_relaySpecVars
             PROVE  RelayInv'
  OBVIOUS
<1> DEFINE Rest == LocksExclusive /\ IdsAreOwn /\ SendsBounded /\ SpentWasSent
<1> SUFFICES Rest'
  BY DEF RelayInv
<1> USE DEF RelayInv
<1>t. /\ outbox \in [Ops -> OutboxRow]
      /\ relay \in [Relays -> [batch : SUBSET Ops, todo : SUBSET Ops]]
      /\ faults \in Nat
      /\ \A o \in Ops : Sends(o) \in Nat
  BY FreshMessage
  DEF RelayTypeOK, OutboxTypeOK, DramatiqTypeOK, Sends, Stages
<1>1. ASSUME NEW o \in Ops, Submit(o) PROVE Rest'
  <2>1. /\ outbox' = [outbox EXCEPT ![o] = outbox'[o]]
        /\ outbox[o].state = "absent"
        /\ outbox'[o].state = "new"
        /\ outbox'[o].id \in {o, NoneId}
        /\ UNCHANGED <<relay, faults, queue>>
    BY <1>1, <1>t DEF Submit, AddRow
  <2>2. \A r \in Relays : o \notin relay[r].batch
    BY <2>1 DEF LocksExclusive
  <2>3. LocksExclusive' /\ IdsAreOwn'
    BY <2>1, <2>2, <1>t DEF LocksExclusive, IdsAreOwn
  <2>4. \A p \in Ops : /\ Spent(p)' <=> Spent(p)
                       /\ Sends(p)' = Sends(p)
    BY <2>1, <2>2, <1>t DEF Spent, Uncommitted, Sends, LocksExclusive
  <2>5. ~Spent(o)'
    BY <2>1, <2>2, <2>4 DEF Spent, Uncommitted
  <2>6. QED
    BY <2>1, <2>3, <2>4, <2>5, <1>t DEF SendsBounded, SpentWasSent
<1>2. ASSUME NEW r \in Relays, RelaySelect(r) PROVE Rest'
  <2>1. PICK B \in SUBSET Ops :
            /\ \A o \in B : outbox[o].state = "new" /\ ~RowLocked(o)
            /\ relay[r] = RelayIdle
            /\ relay' = [relay EXCEPT ![r] = [batch |-> B, todo |-> B]]
            /\ UNCHANGED <<outbox, faults, queue>>
    BY <1>2 DEF RelaySelect
  <2>2. LocksExclusive' /\ IdsAreOwn'
    BY <2>1, <1>t DEF LocksExclusive, IdsAreOwn, RowLocked
  <2>3. \A p \in Ops : /\ Spent(p)' <=> Spent(p)
                       /\ Sends(p)' = Sends(p)
    BY <2>1, <1>t DEF Spent, Uncommitted, Sends, RelayIdle
  <2>4. QED
    BY <2>1, <2>2, <2>3 DEF SendsBounded, SpentWasSent
<1>3. ASSUME NEW r \in Relays, RelaySend(r) PROVE Rest'
  <2>1. PICK o \in relay[r].todo :
            /\ queue' = With(queue, Fresh("scan", outbox[o].id))
            /\ relay' = [relay EXCEPT ![r].todo = @ \ {o}]
            /\ UNCHANGED <<outbox, faults, dead>>
    BY <1>3 DEF RelaySend
  <2>2. o \in Ops /\ o \in relay[r].batch /\ outbox[o].state = "new"
    BY <1>t DEF LocksExclusive
  <2>3. LocksExclusive' /\ IdsAreOwn'
    BY <2>1, <1>t DEF LocksExclusive, IdsAreOwn
  <2>4. ~Spent(o) /\ Spent(o)'
    BY <2>1, <2>2, <1>t DEF Spent, Uncommitted, LocksExclusive
  <2>5. \A p \in Ops \ {o} : Spent(p)' <=> Spent(p)
    BY <2>1, <1>t DEF Spent, Uncommitted
  <2>6. \A p \in Ops : Sends(p)' = IF p = outbox[o].id THEN Sends(p) + 1
                                                      ELSE Sends(p)
    <3>1. outbox[o].id \in Ops \cup {NoneId}
      BY <2>2, <1>t DEF OutboxRow
    <3>2. \A p \in Ops : Fresh("scan", p) \in Message
      BY FreshMessage DEF Stages
    <3>3. Fresh("scan", outbox[o].id) \in Message
      BY <3>1, FreshMessage DEF Stages
    <3>4. \A p \in Ops : (Fresh("scan", p) = Fresh("scan", outbox[o].id))
                            <=> p = outbox[o].id
      BY DEF Fresh
    <3>5. queue \in [Message -> Nat]
      BY DEF RelayTypeOK, DramatiqTypeOK
    <3>6. QED
      BY <2>1, <3>2, <3>3, <3>4, <3>5, WithBag DEF Sends
  <2>7. outbox[o].id \in {o, NoneId}
    BY <2>2 DEF IdsAreOwn
  <2>8. \A p \in Ops : p # o => Sends(p)' = Sends(p)
    BY <2>6, <2>7, DramatiqAssumption
  <2>9. Sends(o) <= faults /\ Sends(o)' <= faults + 1
    BY <2>2, <2>4, <2>6, <1>t DEF SendsBounded
  <2>10. outbox[o].id = o => Sends(o)' > 0
    BY <2>2, <2>6, <1>t
  <2>11. faults' = faults /\ outbox' = outbox
    BY <2>1
  <2>12. SendsBounded'
    BY <2>4, <2>5, <2>8, <2>9, <2>11 DEF SendsBounded
  <2>13. SpentWasSent'
    BY <2>4, <2>5, <2>8, <2>10, <2>11 DEF SpentWasSent
  <2>14. QED
    BY <2>3, <2>12, <2>13
<1>4. ASSUME NEW r \in Relays, RelayCommit(r) PROVE Rest'
  <2>1. /\ outbox' = [o \in Ops |-> IF o \in relay[r].batch
                                    THEN [outbox[o] EXCEPT !.state = "done"]
                                    ELSE outbox[o]]
        /\ relay' = [relay EXCEPT ![r] = RelayIdle]
        /\ relay[r].todo = {}
        /\ UNCHANGED <<faults, queue>>
    BY <1>4 DEF RelayCommit
  <2>2. \A o \in Ops : outbox'[o].id = outbox[o].id
    BY <2>1, <1>t DEF OutboxRow
  <2>3. \A o \in Ops : outbox'[o].state = IF o \in relay[r].batch THEN "done"
                                          ELSE outbox[o].state
    BY <2>1, <1>t DEF OutboxRow
  <2>4. LocksExclusive' /\ IdsAreOwn'
    BY <2>1, <2>2, <2>3, <1>t DEF LocksExclusive, IdsAreOwn, RelayIdle
  <2>5. \A o \in Ops : Spent(o)' <=> Spent(o)
    BY <2>1, <2>3, <1>t DEF Spent, Uncommitted, LocksExclusive, RelayIdle
  <2>6. \A o \in Ops : Sends(o)' = Sends(o)
    BY <2>1 DEF Sends
  <2>7. QED
    BY <2>1, <2>2, <2>4, <2>5, <2>6 DEF SendsBounded, SpentWasSent
<1>5. ASSUME NEW r \in Relays, RelayAbort(r) PROVE Rest'
  <2>1. /\ relay' = [relay EXCEPT ![r] = RelayIdle]
        /\ faults' = faults + 1
        /\ UNCHANGED <<outbox, queue>>
    BY <1>5 DEF RelayAbort
  <2>2. LocksExclusive' /\ IdsAreOwn'
    BY <2>1, <1>t DEF LocksExclusive, IdsAreOwn, RelayIdle
  <2>3. \A o \in Ops : Spent(o)' => Spent(o)
    BY <2>1, <1>t DEF Spent, Uncommitted, RelayIdle
  <2>4. \A o \in Ops : Sends(o)' = Sends(o)
    BY <2>1 DEF Sends
  <2>5. QED
    BY <2>1, <2>2, <2>3, <2>4, <1>t DEF SendsBounded, SpentWasSent
<1>6. CASE UNCHANGED relaySpecVars
  BY <1>6
  DEF relaySpecVars, LocksExclusive, IdsAreOwn, SendsBounded, SpentWasSent,
      Spent, Uncommitted, Sends
<1>7. QED
  BY <1>1, <1>2, <1>3, <1>4, <1>5, <1>6 DEF RelayNext, RelayStep

\* The invariant holds throughout.
LEMMA RelayInvariant == RelaySpec => []RelayInv
BY RelayTypeCorrect, RelayInvInit, RelayInvStep, PTL DEF RelaySpec

(***************************************************************************)
(* A row is never marked processed without its message having been         *)
(* enqueued, however relays interleave, fail and retry.                    *)
(***************************************************************************)
THEOREM OutboxGuarantee == RelaySpec => []DoneWasSent
<1>1. RelayInv => DoneWasSent
  BY DEF RelayInv, SpentWasSent, Spent, DoneWasSent
<1>2. QED
  BY <1>1, RelayInvariant, PTL

(***************************************************************************)
(* An event is enqueued at most once more than there were roll-backs.      *)
(***************************************************************************)
THEOREM DuplicationBound == RelaySpec => []DuplicatesNeedFaults
<1>1. RelayInv => DuplicatesNeedFaults
  BY DEF RelayInv, SendsBounded, DuplicatesNeedFaults
<1>2. QED
  BY <1>1, RelayInvariant, PTL

-----------------------------------------------------------------------------
(* The broker and the tasks.                                               *)

\* A retry is the same message, for the same actor and operation.
LEMMA NextTryMessage ==
    ASSUME NEW m \in Message, ~Exhausted(m)
    PROVE  /\ NextTry(m) \in Message
           /\ NextTry(m).stage = m.stage
           /\ NextTry(m).op = m.op
BY DramatiqAssumption DEF NextTry, Message, Exhausted

\* Enqueueing a message keeps the queue a bag and adds nothing else to it.
LEMMA WithQueue ==
    ASSUME NEW q \in [Message -> Nat], NEW m \in Message
    PROVE  /\ With(q, m) \in [Message -> Nat]
           /\ With(q, m)[m] > 0
           /\ \A n \in Message : q[n] > 0 => With(q, m)[n] > 0
           /\ \A n \in Message : With(q, m)[n] > 0 => q[n] > 0 \/ n = m
BY DEF With

\* Taking a waiting message keeps the queue a bag.
LEMMA WithoutQueue ==
    ASSUME NEW q \in [Message -> Nat], NEW m \in Message, q[m] > 0
    PROVE  /\ Without(q, m) \in [Message -> Nat]
           /\ \A n \in Message : Without(q, m)[n] > 0 => q[n] > 0
           /\ \A n \in Message : q[n] > 0 => Without(q, m)[n] > 0 \/ n = m
BY DEF Without

\* A raising actor leaves its message in the queue or among the dead letters.
LEMMA RaiseType ==
    ASSUME NEW q \in [Message -> Nat], NEW m \in Message, dead \subseteq Message,
           Raise(q, m)
    PROVE  /\ queue' \in [Message -> Nat]
           /\ dead' \subseteq Message
           /\ dead \subseteq dead'
           /\ \A n \in Message :
                 queue'[n] > 0 => q[n] > 0 \/ (n.stage = m.stage /\ n.op = m.op)
           /\ \A n \in Message : q[n] > 0 => queue'[n] > 0
           /\ \E n \in Message : /\ n.stage = m.stage
                                 /\ n.op = m.op
                                 /\ queue'[n] > 0 \/ n \in dead'
<1>1. CASE Exhausted(m)
  BY <1>1 DEF Raise
<1>2. CASE ~Exhausted(m)
  BY <1>2, NextTryMessage, WithQueue DEF Raise
<1>3. QED
  BY <1>1, <1>2

\* A task record is well typed when its parts are.
LEMMA TaskType ==
    ASSUME NEW p \in Points, NEW m \in Message, NEW ks \in SUBSET Keys,
           NEW s \in Statuses
    PROVE  Task(p, m, ks, s) \in Tasks
BY DEF Task, Tasks

\* The idle task is a task.
LEMMA IdleTaskType == IdleTask \in Tasks
<1>1. Fresh("scan", NoneId) \in Message
  BY FreshMessage DEF Stages
<1>2. QED
  BY <1>1, TaskType DEF IdleTask, Points, Statuses

-----------------------------------------------------------------------------
(* Type correctness.                                                       *)

\* The initial state is well typed.
LEMMA TypeInit == Init => TypeOK
<1> SUFFICES ASSUME Init PROVE TypeOK
  OBVIOUS
<1>1. DramatiqTypeOK /\ OutboxTypeOK
  BY RelayAssumption
  DEF Init, DramatiqInit, OutboxInit, DramatiqTypeOK, OutboxTypeOK, OutboxRow,
      RowStates, RelayIdle
<1>2. NoOp \in OpRow
  BY DEF NoOp, OpRow, Statuses, Sanitized, NotSanitized
<1>3. QED
  BY <1>1, <1>2, IdleTaskType DEF Init, TypeOK

\* The relays' steps preserve the types of everything.
LEMMA TypeRelay ==
    ASSUME TypeOK, NEW r \in Relays, Relay(r) \/ RelayFails(r)
    PROVE  TypeOK'
<1> USE DEF TypeOK, DramatiqTypeOK, OutboxTypeOK
<1>1. UNCHANGED <<op, worker, imported>>
  BY DEF Relay, RelayFails
<1>2. CASE RelaySelect(r)
  BY <1>1, <1>2 DEF RelaySelect
<1>3. CASE RelaySend(r)
  <2>1. PICK o \in relay[r].todo :
            /\ queue' = With(queue, Fresh("scan", outbox[o].id))
            /\ relay' = [relay EXCEPT ![r].todo = @ \ {o}]
            /\ UNCHANGED <<outbox, faults, dead>>
    BY <1>3 DEF RelaySend
  <2>2. outbox[o].id \in Ops \cup {NoneId}
    BY DEF OutboxRow
  <2>3. queue' \in [Message -> Nat]
    BY <2>1, <2>2, FreshMessage, WithQueue DEF Stages
  <2>4. QED
    BY <1>1, <2>1, <2>3
<1>4. CASE RelayCommit(r)
  <2>1. outbox' \in [Ops -> OutboxRow]
    <3>1. \A o \in Ops : [outbox[o] EXCEPT !.state = "done"] \in OutboxRow
      BY DEF OutboxRow, RowStates
    <3>2. QED
      BY <1>4, <3>1 DEF RelayCommit
  <2>2. relay' \in [Relays -> [batch : SUBSET Ops, todo : SUBSET Ops]]
    BY <1>4 DEF RelayCommit, RelayIdle
  <2>3. QED
    BY <1>1, <1>4, <2>1, <2>2 DEF RelayCommit
<1>5. CASE RelayAbort(r)
  BY <1>1, <1>5, RelayAssumption DEF RelayAbort, RelayIdle
<1>6. QED
  BY <1>2, <1>3, <1>4, <1>5 DEF Relay, RelayFails, RelayStep

\* Taking a message for a task, or dropping it, preserves the types.
LEMMA TypeBegin ==
    ASSUME TypeOK, NEW w \in Workers, NEW m \in Message, queue[m] > 0,
           NEW t \in Tasks, Begin(w, m, t)
    PROVE  TypeOK'
BY WithoutQueue DEF TypeOK, DramatiqTypeOK, OutboxTypeOK, Begin

\* A task that raises leaves the broker and the workers well typed.
LEMMA TypeRaises ==
    ASSUME TypeOK, NEW w \in Workers, TaskRaises(w)
    PROVE  /\ DramatiqTypeOK'
           /\ worker' \in [Workers -> Tasks]
<1>1. worker[w].msg \in Message
  BY DEF TypeOK, Tasks
<1>2. QED
  BY <1>1, RaiseType, IdleTaskType
  DEF TaskRaises, TypeOK, DramatiqTypeOK, Goto

\* Sending a fresh message leaves the broker well typed.
LEMMA TypeSend ==
    ASSUME TypeOK, NEW s \in Stages, NEW o \in Ops \cup {NoneId},
           queue' = With(queue, Fresh(s, o)), dead' = dead
    PROVE  DramatiqTypeOK'
BY FreshMessage, WithQueue DEF TypeOK, DramatiqTypeOK

\* Delivering a message preserves the types.
LEMMA TypeDeliver ==
    ASSUME TypeOK, NEW w \in Workers, NEW m \in Message, Deliver(w, m)
    PROVE  TypeOK'
<1>1. m.op \in Ops => op[m.op] \in OpRow
  BY DEF TypeOK
<1>2. CASE BadId(w, m)
  BY <1>2, WithoutQueue, RaiseType
  DEF BadId, TypeOK, DramatiqTypeOK, OutboxTypeOK
<1>3. CASE ScanBegin(w, m)
  <2>1. PICK t \in Tasks : Begin(w, m, t)
    BY <1>3, IdleTaskType, TaskType DEF ScanBegin, Points, Statuses
  <2>2. QED
    BY <1>3, <2>1, TypeBegin DEF ScanBegin, Deliverable
<1>4. CASE SanitizeBegin(w, m)
  <2>1. FindingRows(m.op) \in SUBSET Keys
    BY <1>1, <1>4 DEF FindingRows, OpRow, SanitizeBegin, Deliverable
  <2>2. PICK t \in Tasks : Begin(w, m, t)
    BY <1>4, <2>1, IdleTaskType, TaskType DEF SanitizeBegin, Points, Statuses
  <2>3. QED
    BY <1>4, <2>2, TypeBegin DEF SanitizeBegin, Deliverable
<1>5. CASE AuditBegin(w, m)
  <2>1. op[m.op].status \in Statuses
    BY <1>1, <1>5 DEF OpRow, AuditBegin, Deliverable
  <2>2. PICK t \in Tasks : Begin(w, m, t)
    BY <1>5, <2>1, IdleTaskType, TaskType DEF AuditBegin, Points
  <2>3. QED
    BY <1>5, <2>2, TypeBegin DEF AuditBegin, Deliverable
<1>6. CASE RescanBegin(w, m)
  <2>1. op[m.op].status \in Statuses /\ op[m.op].sanitized.leak \in SUBSET Keys
    BY <1>1, <1>6 DEF OpRow, Sanitized, RescanBegin, Deliverable
  <2>2. PICK t \in Tasks : Begin(w, m, t)
    BY <1>6, <2>1, IdleTaskType, TaskType DEF RescanBegin, Points
  <2>3. QED
    BY <1>6, <2>2, TypeBegin DEF RescanBegin, Deliverable
<1>7. CASE ProcessReview(w, m)
  BY <1>7, <1>1, WithoutQueue
  DEF ProcessReview, Deliverable, TypeOK, DramatiqTypeOK, OutboxTypeOK, OpRow
<1>8. QED
  BY <1>2, <1>3, <1>4, <1>5, <1>6, <1>7 DEF Deliver

\* A row that is sealed is still a row of the table.
LEMMA SealedRow ==
    ASSUME NEW row \in OpRow, NEW s \in Statuses
    PROVE  [row EXCEPT !.artifacts = @ + 1, !.status = s, !.sealed = TRUE] \in OpRow
<1>1. ASSUME NEW n \in Nat
      PROVE  [row EXCEPT !.artifacts = n, !.status = s, !.sealed = TRUE] \in OpRow
  BY DEF OpRow
<1>2. row.artifacts + 1 \in Nat
  BY DEF OpRow
<1>3. QED
  BY <1>1, <1>2

\* A request preserves the types.
LEMMA TypeAccept ==
    ASSUME TypeOK, NEW o \in Ops, NEW id \in Ops \cup {NoneId}, Accept(o, id)
    PROVE  TypeOK'
<1>1. op' \in [Ops -> OpRow]
  <2>1. PICK text \in SUBSET Keys, blank \in BOOLEAN :
            op' = [op EXCEPT ![o].status = "pending", ![o].text = text,
                             ![o].blank = blank]
    BY DEF Accept
  <2>2. op[o] \in OpRow
    BY DEF TypeOK
  <2>3. [op[o] EXCEPT !.status = "pending", !.text = text, !.blank = blank] \in OpRow
    BY <2>2 DEF OpRow, Statuses
  <2>4. op' = [op EXCEPT ![o] = [op[o] EXCEPT !.status = "pending", !.text = text,
                                            !.blank = blank]]
    BY <2>1 DEF TypeOK
  <2>5. QED
    BY <2>3, <2>4 DEF TypeOK
<1>2. outbox' \in [Ops -> OutboxRow]
  BY DEF Accept, AddRow, TypeOK, OutboxTypeOK, OutboxRow, RowStates
<1>3. QED
  BY <1>1, <1>2 DEF Accept, TypeOK, DramatiqTypeOK, OutboxTypeOK

\* The steps of a task preserve the types.
LEMMA TypeWork ==
    ASSUME TypeOK, NEW w \in Workers, Work(w), OpOf(w) \in Ops
    PROVE  TypeOK'
<1> DEFINE o == OpOf(w)
           m == worker[w].msg
<1>1. /\ m \in Message
      /\ op[o] \in OpRow
      /\ worker[w] \in Tasks
      /\ worker[w].keys \in SUBSET Keys
      /\ o \in Ops
  BY DEF TypeOK, Tasks
<1>2. CASE ScanCommit(w)
  <2>1. PICK D \in Detected(o) :
          \/ /\ TaskRaises(w)
             /\ UNCHANGED <<outbox, op>>
          \/ /\ \E answer \in OpaAnswers :
                   LET new == IF RequiresReview(D, answer) THEN "escalated"
                                                           ELSE "pending" IN
                   /\ op' = [op EXCEPT ![o].found = @ \cup D,
                                       ![o].status = new]
                   /\ Goto(w, Task("scanSend", m, {}, new))
             /\ outbox' = [outbox EXCEPT ![o].state = "done"]
             /\ UNCHANGED <<queue, dead>>
    BY <1>2 DEF ScanCommit
  <2>2. UNCHANGED <<relay, faults, imported>>
    BY <1>2 DEF ScanCommit
  <2>3. D \in SUBSET Keys
    BY <1>1 DEF Detected, OpRow
  <2>4. CASE TaskRaises(w) /\ UNCHANGED <<outbox, op>>
    BY <2>2, <2>4, TypeRaises DEF TypeOK, OutboxTypeOK
  <2>5. ASSUME NEW new \in {"escalated", "pending"},
               op' = [op EXCEPT ![o].found = @ \cup D, ![o].status = new],
               Goto(w, Task("scanSend", m, {}, new)),
               outbox' = [outbox EXCEPT ![o].state = "done"],
               UNCHANGED <<queue, dead>>
        PROVE  TypeOK'
    <3>1. op' \in [Ops -> OpRow]
      BY <1>1, <2>3, <2>5 DEF TypeOK, OpRow, Statuses
    <3>2. Task("scanSend", m, {}, new) \in Tasks
      BY <1>1, TaskType DEF Points, Statuses
    <3>3. outbox' \in [Ops -> OutboxRow]
      BY <1>1, <2>5 DEF TypeOK, OutboxTypeOK, OutboxRow, RowStates
    <3>4. QED
      BY <2>2, <2>5, <3>1, <3>2, <3>3
      DEF TypeOK, DramatiqTypeOK, OutboxTypeOK, Goto
  <2>6. QED
    BY <2>1, <2>4, <2>5
<1>3. CASE ScanSend(w)
  BY <1>1, <1>3, TypeSend, IdleTaskType
  DEF ScanSend, TypeOK, OutboxTypeOK, Goto, Stages
<1>4. CASE SanitizeCommit(w)
  <2>1. PICK leak \in SUBSET Keys :
            op' = [op EXCEPT
                   ![o].redacted = [k \in Keys |-> IF k \in worker[w].keys
                                                   THEN @[k] + 1 ELSE @[k]],
                   ![o].sanitized = [set |-> TRUE, keys |-> worker[w].keys,
                                     leak |-> leak]]
    BY <1>4 DEF SanitizeCommit
  <2> DEFINE more == [k \in Keys |-> IF k \in worker[w].keys
                                     THEN op[o].redacted[k] + 1
                                     ELSE op[o].redacted[k]]
             text == [set |-> TRUE, keys |-> worker[w].keys, leak |-> leak]
  <2>2. op' \in [Ops -> OpRow]
    <3>1. more \in [Keys -> Nat] /\ text \in Sanitized
      BY <1>1 DEF OpRow, Sanitized
    <3>2. op' = [op EXCEPT ![o] = [op[o] EXCEPT !.redacted = more,
                                                !.sanitized = text]]
      BY <1>1, <2>1 DEF TypeOK
    <3> HIDE DEF more, text
    <3>3. [op[o] EXCEPT !.redacted = more, !.sanitized = text] \in OpRow
      BY <1>1, <3>1 DEF OpRow
    <3>4. QED
      BY <3>2, <3>3 DEF TypeOK
  <2>3. Task("sendAudit", m, {}, "absent") \in Tasks
    BY <1>1, TaskType DEF Points, Statuses
  <2>4. QED
    BY <1>4, <2>2, <2>3
    DEF SanitizeCommit, TypeOK, DramatiqTypeOK, OutboxTypeOK, Goto
<1>5. CASE SendAudit(w)
  <2>1. Task("sendRescan", m, {}, "absent") \in Tasks
    BY <1>1, TaskType DEF Points, Statuses
  <2>2. DramatiqTypeOK'
    BY <1>1, <1>5, TypeSend DEF SendAudit, Stages
  <2>3. QED
    BY <1>5, <2>1, <2>2 DEF SendAudit, TypeOK, OutboxTypeOK, Goto
<1>6. CASE SendRescan(w)
  BY <1>1, <1>6, TypeSend, IdleTaskType
  DEF SendRescan, TypeOK, OutboxTypeOK, Goto, Stages
<1>7. CASE AuditPut(w)
  <2>1. op' \in [Ops -> OpRow]
    <3>1. [op[o] EXCEPT !.stored = @ + 1] \in OpRow
      BY <1>1 DEF OpRow
    <3>2. op' = [op EXCEPT ![o] = [op[o] EXCEPT !.stored = @ + 1]]
      BY <1>7 DEF AuditPut, TypeOK
    <3>3. QED
      BY <3>1, <3>2 DEF TypeOK
  <2>2. worker' \in [Workers -> Tasks]
    BY <1>1, <1>7 DEF AuditPut, TypeOK, Tasks, Points
  <2>3. QED
    BY <1>7, <2>1, <2>2 DEF AuditPut, TypeOK, DramatiqTypeOK, OutboxTypeOK
<1>8. CASE AuditCommit(w)
  <2>1. op' \in [Ops -> OpRow]
    <3> DEFINE s == IF worker[w].loaded = "completed" THEN op[o].status
                                                      ELSE "completed"
    <3>1. s \in Statuses
      BY <1>1 DEF OpRow, Statuses
    <3>2. [op[o] EXCEPT !.artifacts = @ + 1, !.status = s, !.sealed = TRUE] \in OpRow
      BY <1>1, <3>1, SealedRow
    <3>3. op' = [op EXCEPT ![o] = [op[o] EXCEPT !.artifacts = @ + 1, !.status = s,
                                              !.sealed = TRUE]]
      BY <1>1, <1>8 DEF AuditCommit, TypeOK
    <3>4. QED
      BY <3>2, <3>3 DEF TypeOK
  <2>2. QED
    BY <1>8, <2>1, IdleTaskType
    DEF AuditCommit, TypeOK, DramatiqTypeOK, OutboxTypeOK, Goto
<1>9. CASE RescanClean(w)
  <2>1. op' \in [Ops -> OpRow]
    <3>1. [op[o] EXCEPT !.status = "completed"] \in OpRow
      BY <1>1 DEF OpRow, Statuses
    <3>2. \/ op' = op
          \/ op' = [op EXCEPT ![o] = [op[o] EXCEPT !.status = "completed"]]
      BY <1>9 DEF RescanClean, TypeOK
    <3>3. QED
      BY <3>1, <3>2 DEF TypeOK
  <2>2. QED
    BY <1>9, <2>1, IdleTaskType
    DEF RescanClean, TypeOK, DramatiqTypeOK, OutboxTypeOK, Goto
<1>10. CASE RescanFound(w)
  <2>1. UNCHANGED <<outbox, relay, faults, op, imported>>
    BY <1>10 DEF RescanFound
  <2>2. CASE TaskRaises(w)
    BY <2>1, <2>2, TypeRaises DEF TypeOK, OutboxTypeOK
  <2>3. CASE /\ queue' = With(queue, Fresh("review", o))
             /\ worker' = [worker EXCEPT ![w].pc = "rescanCommit"]
             /\ UNCHANGED dead
    <3>1. DramatiqTypeOK'
      BY <1>1, <2>3, TypeSend DEF Stages
    <3>2. worker' \in [Workers -> Tasks]
      BY <1>1, <2>3 DEF TypeOK, Tasks, Points
    <3>3. QED
      BY <2>1, <3>1, <3>2 DEF TypeOK, OutboxTypeOK
  <2>4. QED
    BY <1>10, <2>2, <2>3 DEF RescanFound
<1>11. CASE RescanCommit(w)
  <2>1. UNCHANGED <<outbox, relay, faults, imported>>
    BY <1>11 DEF RescanCommit
  <2>2. CASE TaskRaises(w) /\ UNCHANGED op
    BY <2>1, <2>2, TypeRaises DEF TypeOK, OutboxTypeOK
  <2>3. ASSUME NEW updates,
               op' = [op EXCEPT ![o].residual = @ \cup worker[w].keys,
                                ![o].status = IF updates THEN "escalated" ELSE @],
               Goto(w, IdleTask), UNCHANGED <<queue, dead>>
        PROVE  TypeOK'
    <3>1. op' \in [Ops -> OpRow]
      BY <1>1, <2>3 DEF TypeOK, OpRow, Statuses
    <3>2. QED
      BY <2>1, <2>3, <3>1, IdleTaskType
      DEF TypeOK, DramatiqTypeOK, OutboxTypeOK, Goto
  <2>4. QED
    BY <1>11, <2>2, <2>3 DEF RescanCommit
<1>12. QED
  BY <1>2, <1>3, <1>4, <1>5, <1>6, <1>7, <1>8, <1>9, <1>10, <1>11 DEF Work

\* Failures and crashes preserve the types.
LEMMA TypeFaults ==
    ASSUME TypeOK, NEW w \in Workers, TaskFails(w) \/ Crash(w)
    PROVE  TypeOK'
<1>1. worker[w].msg \in Message
  BY DEF TypeOK, Tasks
<1>2. faults < MaxFaults /\ faults' = faults + 1 => faults' \in 0 .. MaxFaults
  BY RelayAssumption DEF TypeOK, OutboxTypeOK
<1>3. CASE TaskFails(w)
  BY <1>2, <1>3, TypeRaises DEF TaskFails, TypeOK, OutboxTypeOK
<1>4. CASE Crash(w)
  <2>1. queue' \in [Message -> Nat]
    BY <1>1, <1>4, WithQueue DEF Crash, TypeOK, DramatiqTypeOK
  <2>2. QED
    BY <1>2, <1>4, <2>1, IdleTaskType
    DEF Crash, Goto, TypeOK, DramatiqTypeOK, OutboxTypeOK
<1>5. QED
  BY <1>3, <1>4

-----------------------------------------------------------------------------
(* What a step can do, from the point of view of a task, a row, a message. *)

\* The point a task is at belongs to the actor its message is for.
AtPointOfActor(t) ==
    \/ t.pc \in {"scan", "scanSend"} /\ t.msg.stage = "scan"
    \/ t.pc \in {"sanitize", "sendAudit", "sendRescan"} /\ t.msg.stage = "sanitize"
    \/ t.pc \in {"audit", "auditCommit"} /\ t.msg.stage = "audit"
    \/ t.pc \in {"rescan", "rescanCommit"} /\ t.msg.stage = "rescan"

\* Every task in progress is about an operation and at a point of its actor.
TasksMatch ==
    \A w \in Workers : Busy(w) => OpOf(w) \in Ops /\ AtPointOfActor(worker[w])

\* How w can come to hold task t.
Begins(t) ==
    /\ t.msg \in Message
    /\ t.msg.op \in Ops
    /\ queue[t.msg] > 0
    /\ op[t.msg.op].status # "absent"
    /\ \/ t.pc = "scan" /\ t.msg.stage = "scan"
       \/ t.pc = "sanitize" /\ t.msg.stage = "sanitize"
             /\ t.keys = FindingRows(t.msg.op)
       \/ t.pc = "audit" /\ t.msg.stage = "audit"
       \/ t.pc = "rescan" /\ t.msg.stage = "rescan"
             /\ op[t.msg.op].sanitized.set

\* How w can go on from its task to task t.
GoesOn(w, t) ==
    /\ Busy(w)
    /\ t.msg = worker[w].msg
    /\ \/ At(w, "scan") /\ t.pc = "scanSend" /\ t.loaded = op'[OpOf(w)].status
             /\ \E D \in Detected(OpOf(w)) :
                   op'[OpOf(w)].found = op[OpOf(w)].found \cup D
             /\ op'[OpOf(w)].text = op[OpOf(w)].text
             /\ op'[OpOf(w)].status # "absent"
       \/ At(w, "sanitize") /\ t.pc = "sendAudit" /\ op'[OpOf(w)].sanitized.set
       \/ At(w, "sendAudit") /\ t.pc = "sendRescan"
       \/ At(w, "audit") /\ t.pc = "auditCommit" /\ op'[OpOf(w)].stored > 0
       \/ At(w, "rescan") /\ t.pc = "rescanCommit"

TaskStep(w) ==
    \/ worker'[w] = worker[w]
    \/ worker'[w] = IdleTask
    \/ Begins(worker'[w])
    \/ GoesOn(w, worker'[w])

\* Delivering a message starts a task or none.
LEMMA DeliverTask ==
    ASSUME TypeOK, NEW v \in Workers, NEW m \in Message, Deliver(v, m),
           NEW w \in Workers
    PROVE  TaskStep(w)
<1> USE DEF TypeOK
<1>1. CASE BadId(v, m)
  BY <1>1 DEF BadId, TaskStep
<1>2. ASSUME NEW t, Begin(v, m, t)
      PROVE  worker'[w] = IF w = v THEN t ELSE worker[w]
  BY <1>2 DEF Begin
<1>3. CASE ScanBegin(v, m)
  <2> DEFINE t == Task("scan", m, {}, "pending")
  <2>1. op[m.op].status = "pending" => Begins(t)
    BY <1>3 DEF ScanBegin, Deliverable, Begins, Task
  <2>2. QED
    BY <1>2, <1>3, <2>1 DEF ScanBegin, TaskStep
<1>4. CASE SanitizeBegin(v, m)
  <2> DEFINE t == Task("sanitize", m, FindingRows(m.op), "absent")
  <2>1. op[m.op].status # "absent" => Begins(t)
    BY <1>4 DEF SanitizeBegin, Deliverable, Begins, Task
  <2>2. QED
    BY <1>2, <1>4, <2>1 DEF SanitizeBegin, TaskStep
<1>5. CASE AuditBegin(v, m)
  <2> DEFINE t == Task("audit", m, {}, op[m.op].status)
  <2>1. op[m.op].status # "absent" => Begins(t)
    BY <1>5 DEF AuditBegin, Deliverable, Begins, Task
  <2>2. QED
    BY <1>2, <1>5, <2>1 DEF AuditBegin, TaskStep
<1>6. CASE RescanBegin(v, m)
  <2> DEFINE t == Task("rescan", m, op[m.op].sanitized.leak, op[m.op].status)
  <2>1. op[m.op].sanitized.set /\ op[m.op].status # "absent" => Begins(t)
    BY <1>6 DEF RescanBegin, Deliverable, Begins, Task
  <2>2. QED
    BY <1>2, <1>6, <2>1 DEF RescanBegin, TaskStep
<1>7. CASE ProcessReview(v, m)
  BY <1>7 DEF ProcessReview, TaskStep
<1>8. QED
  BY <1>1, <1>3, <1>4, <1>5, <1>6, <1>7 DEF Deliver

\* A step of a task moves that task on and leaves the others alone.
LEMMA WorkTask ==
    ASSUME TypeOK, TasksMatch, NEW v \in Workers, Work(v), NEW w \in Workers
    PROVE  TaskStep(w)
<1> USE DEF TypeOK
<1> DEFINE o == OpOf(v)
<1>1. /\ Busy(v)
      /\ o \in Ops
      /\ worker[v] \in Tasks
      /\ op[o] \in OpRow
  <2>1. Busy(v)
    BY DEF Work, Busy, At, ScanCommit, ScanSend, SanitizeCommit, SendAudit,
           SendRescan, AuditPut, AuditCommit, RescanClean, RescanFound, RescanCommit
  <2>2. QED
    BY <2>1 DEF TasksMatch
<1>2. ASSUME NEW t, Goto(v, t)
      PROVE  worker'[w] = IF w = v THEN t ELSE worker[w]
  BY <1>2 DEF Goto
<1>3. ASSUME TaskRaises(v) PROVE TaskStep(w)
  BY <1>2, <1>3 DEF TaskRaises, TaskStep
<1>4. ASSUME NEW p, worker' = [worker EXCEPT ![v].pc = p]
      PROVE  /\ worker'[v].pc = p
             /\ worker'[v].msg = worker[v].msg
             /\ w # v => worker'[w] = worker[w]
  BY <1>1, <1>4 DEF Tasks
<1>5. CASE ScanCommit(v)
  <2>1. PICK D \in Detected(o) :
          \/ TaskRaises(v)
          \/ \E new \in {"escalated", "pending"} :
                /\ op' = [op EXCEPT ![o].found = @ \cup D, ![o].status = new]
                /\ Goto(v, Task("scanSend", worker[v].msg, {}, new))
    BY <1>5 DEF ScanCommit
  <2>2. ASSUME NEW new \in {"escalated", "pending"},
               op' = [op EXCEPT ![o].found = @ \cup D, ![o].status = new],
               Goto(v, Task("scanSend", worker[v].msg, {}, new))
        PROVE  GoesOn(v, Task("scanSend", worker[v].msg, {}, new))
    <3>1. /\ op'[o].status = new
          /\ op'[o].found = op[o].found \cup D
          /\ op'[o].text = op[o].text
      BY <1>1, <2>2 DEF OpRow
    <3>2. At(v, "scan")
      BY <1>5 DEF ScanCommit
    <3>3. QED
      BY <1>1, <3>1, <3>2 DEF GoesOn, Task
  <2>3. CASE ~TaskRaises(v)
    <3>1. PICK new \in {"escalated", "pending"} :
              /\ op' = [op EXCEPT ![o].found = @ \cup D, ![o].status = new]
              /\ Goto(v, Task("scanSend", worker[v].msg, {}, new))
      BY <2>1, <2>3
    <3>2. PICK t : t = Task("scanSend", worker[v].msg, {}, new)
      OBVIOUS
    <3>3. GoesOn(v, t) /\ worker'[w] = IF w = v THEN t ELSE worker[w]
      BY <1>2, <2>2, <3>1, <3>2
    <3> QED BY <3>3 DEF TaskStep
  <2>4. QED
    BY <1>3, <2>3
<1>6. CASE SanitizeCommit(v)
  <2>1. op'[o].sanitized.set
    BY <1>1, <1>6 DEF SanitizeCommit, OpRow
  <2>2. GoesOn(v, Task("sendAudit", worker[v].msg, {}, "absent"))
    BY <1>1, <1>6, <2>1 DEF SanitizeCommit, GoesOn, Task
  <2>3. QED
    BY <1>2, <1>6, <2>2 DEF SanitizeCommit, TaskStep
<1>7. CASE SendAudit(v)
  <2>1. GoesOn(v, Task("sendRescan", worker[v].msg, {}, "absent"))
    BY <1>1, <1>7 DEF SendAudit, GoesOn, Task
  <2>2. QED
    BY <1>2, <1>7, <2>1 DEF SendAudit, TaskStep
<1>8. CASE AuditPut(v)
  <2>1. op'[o].stored > 0
    BY <1>1, <1>8 DEF AuditPut, OpRow
  <2>2. QED
    BY <1>1, <1>4, <1>8, <2>1 DEF AuditPut, GoesOn, TaskStep
<1>9. CASE RescanFound(v)
  <2>1. CASE worker' = [worker EXCEPT ![v].pc = "rescanCommit"]
    BY <1>1, <1>4, <1>9, <2>1 DEF RescanFound, GoesOn, TaskStep
  <2>2. QED
    BY <1>3, <1>9, <2>1 DEF RescanFound
<1>10. CASE RescanCommit(v)
  BY <1>2, <1>3, <1>10 DEF RescanCommit, TaskStep
<1>11. CASE \/ ScanSend(v) \/ SendRescan(v) \/ AuditCommit(v) \/ RescanClean(v)
  BY <1>2, <1>11 DEF ScanSend, SendRescan, AuditCommit, RescanClean, TaskStep
<1>12. QED
  BY <1>5, <1>6, <1>7, <1>8, <1>9, <1>10, <1>11 DEF Work

\* Every step of the system is a TaskStep of every process.
LEMMA TaskSteps ==
    ASSUME TypeOK, TasksMatch, Next, NEW w \in Workers
    PROVE  TaskStep(w)
<1>1. CASE \E o \in Ops : scan(o) \/ tool_scan(o)
  BY <1>1 DEF scan, tool_scan, Accept, TaskStep
<1>2. CASE \E r \in Relays : Relay(r) \/ RelayFails(r)
  BY <1>2 DEF Relay, RelayFails, TaskStep
<1>3. CASE \E v \in Workers : WorkerStep(v)
  BY <1>3, DeliverTask, WorkTask DEF WorkerStep
<1>4. CASE \E v \in Workers : TaskFails(v) \/ Crash(v)
  BY <1>4 DEF TaskFails, Crash, TaskRaises, Goto, TaskStep, TypeOK
<1>5. QED
  BY <1>1, <1>2, <1>3, <1>4 DEF Next

-----------------------------------------------------------------------------
\* The types, with what relates a task to its message.
TypeInv == TypeOK /\ TasksMatch

\* A step keeps every task at a point of its actor.
LEMMA TasksMatchStep ==
    ASSUME TypeInv, Next PROVE TasksMatch'
<1> SUFFICES ASSUME NEW w \in Workers, Busy(w)'
             PROVE  OpOf(w)' \in Ops /\ AtPointOfActor(worker'[w])
  BY DEF TasksMatch, AtPointOfActor
<1>1. TaskStep(w)
  BY TaskSteps DEF TypeInv
<1>2. CASE worker'[w] = worker[w]
  BY <1>2 DEF TypeInv, TasksMatch, Busy, OpOf
<1>3. CASE Begins(worker'[w])
  BY <1>3 DEF Begins, AtPointOfActor, OpOf
<1>4. CASE GoesOn(w, worker'[w])
  BY <1>4 DEF GoesOn, At, TypeInv, TasksMatch, AtPointOfActor, OpOf
<1>5. worker'[w] # IdleTask
  BY DEF Busy, IdleTask, Task
<1>6. QED
  BY <1>1, <1>2, <1>3, <1>4, <1>5 DEF TaskStep

\* The types hold throughout, whatever fails and is retried.
LEMMA TypeInvariant == Spec => []TypeInv
<1>1. Init => TypeInv
  BY TypeInit DEF Init, TypeInv, TasksMatch, Busy, IdleTask, Task
<1>2. TypeInv /\ [Next]_vars => TypeInv'
  <2> SUFFICES ASSUME TypeInv, [Next]_vars PROVE TypeInv'
    OBVIOUS
  <2>1. CASE UNCHANGED vars
    BY <2>1
    DEF vars, TypeInv, TypeOK, DramatiqTypeOK, OutboxTypeOK, TasksMatch, Busy,
        OpOf, AtPointOfActor
  <2>2. CASE Next
    <3>1. TypeOK'
      <4>1. CASE \E o \in Ops : scan(o) \/ tool_scan(o)
        BY <4>1, TypeAccept DEF scan, tool_scan, TypeInv
      <4>2. CASE \E r \in Relays : Relay(r) \/ RelayFails(r)
        BY <4>2, TypeRelay DEF TypeInv
      <4>3. CASE \E w \in Workers : Work(w)
        <5>1. \A w \in Workers : Work(w) => Busy(w)
          BY DEF Work, Busy, At, ScanCommit, ScanSend, SanitizeCommit, SendAudit,
                 SendRescan, AuditPut, AuditCommit, RescanClean, RescanFound,
                 RescanCommit
        <5>2. QED
          BY <4>3, <5>1, TypeWork DEF TypeInv, TasksMatch
      <4>4. CASE \E w \in Workers, m \in Message : Deliver(w, m)
        BY <4>4, TypeDeliver DEF TypeInv
      <4>5. CASE \E w \in Workers : TaskFails(w) \/ Crash(w)
        BY <4>5, TypeFaults DEF TypeInv
      <4>6. QED
        BY <2>2, <4>1, <4>2, <4>3, <4>4, <4>5 DEF Next, WorkerStep
    <3>2. QED
      BY <2>2, <3>1, TasksMatchStep DEF TypeInv
  <2>3. QED
    BY <2>1, <2>2
<1>3. QED
  BY <1>1, <1>2, PTL DEF Spec

(***************************************************************************)
(* The type invariant: rows, tasks and messages stay what the tables and   *)
(* the broker can hold.                                                    *)
(***************************************************************************)
THEOREM TypeCorrect == Spec => []TypeOK
BY TypeInvariant, PTL DEF TypeInv

-----------------------------------------------------------------------------
(* What a step can do to the row of an operation.                          *)

\* The columns nothing but the named actor writes are as before.
SameScan(o) ==
    /\ op'[o].text = op[o].text
    /\ op'[o].found = op[o].found

SameText(o) ==
    /\ op'[o].redacted = op[o].redacted
    /\ op'[o].sanitized = op[o].sanitized

SameSeal(o) ==
    /\ op'[o].artifacts = op[o].artifacts
    /\ op'[o].sealed = op[o].sealed

SameStored(o) == op'[o].stored = op[o].stored

SameStatus(o) == op'[o].status = op[o].status

\* A request created the operation.
Accepted(o) ==
    /\ op[o].status = "absent"
    /\ op'[o].status = "pending"
    /\ op'[o].found = op[o].found
    /\ SameText(o) /\ SameSeal(o) /\ SameStored(o)

\* process_scan in w committed findings that were not there before.
Scanned(w, o) ==
    /\ At(w, "scan") /\ OpOf(w) = o
    /\ \E D \in Detected(o) :
          /\ ~Clash(o, D)
          /\ op'[o].found = op[o].found \cup D
          /\ op'[o].status \in {"escalated", "pending"}
          /\ op'[o].status = "escalated" => D # {}
    /\ op'[o].text = op[o].text
    /\ worker'[w].pc = "scanSend"
    /\ worker'[w].msg = worker[w].msg
    /\ worker'[w].loaded = op'[o].status
    /\ SameText(o) /\ SameSeal(o) /\ SameStored(o)

\* process_sanitize in w wrote the redactions and the text.
Sanitizes(w, o) ==
    /\ At(w, "sanitize") /\ OpOf(w) = o
    /\ op'[o].sanitized.set
    /\ op'[o].sanitized.keys = worker[w].keys
    /\ SameStatus(o) /\ SameScan(o) /\ SameSeal(o) /\ SameStored(o)

\* process_audit in w uploaded the original, or sealed the operation.
Stores(o) ==
    /\ op'[o].stored = op[o].stored + 1
    /\ SameStatus(o) /\ SameScan(o) /\ SameText(o) /\ SameSeal(o)

Seals(w, o) ==
    /\ At(w, "auditCommit") /\ OpOf(w) = o
    /\ op'[o].status \in {op[o].status, "completed"}
    /\ op'[o].artifacts = op[o].artifacts + 1
    /\ op'[o].sealed
    /\ SameScan(o) /\ SameText(o) /\ SameStored(o)

\* rescan_operation in w settled the status.
Rescans(w, o) ==
    /\ \/ At(w, "rescan") /\ op'[o].status = "completed"
       \/ At(w, "rescanCommit") /\ op'[o].status \in {op[o].status, "escalated"}
    /\ OpOf(w) = o
    /\ SameScan(o) /\ SameText(o) /\ SameSeal(o) /\ SameStored(o)

Untouched(o) ==
    SameStatus(o) /\ SameScan(o) /\ SameText(o) /\ SameSeal(o) /\ SameStored(o)

RowStep(o) ==
    \/ Untouched(o) \/ Accepted(o) \/ Stores(o)
    \/ \E w \in Workers :
          Scanned(w, o) \/ Sanitizes(w, o) \/ Seals(w, o) \/ Rescans(w, o)

\* A row that does not change is untouched.
LEMMA UntouchedRow ==
    ASSUME NEW o \in Ops, op'[o] = op[o] PROVE RowStep(o)
BY DEF RowStep, Untouched, SameStatus, SameScan, SameText, SameSeal, SameStored

\* The steps of a task change at most the row of its operation.
LEMMA WorkRow ==
    ASSUME TypeInv, NEW w \in Workers, Work(w), NEW o \in Ops
    PROVE  RowStep(o)
<1> USE DEF SameStatus, SameScan, SameText, SameSeal, SameStored
<1>1. /\ Busy(w)
      /\ OpOf(w) \in Ops
      /\ worker \in [Workers -> Tasks]
      /\ op \in [Ops -> OpRow]
  <2>1. Busy(w)
    BY DEF Work, Busy, At, ScanCommit, ScanSend, SanitizeCommit, SendAudit,
           SendRescan, AuditPut, AuditCommit, RescanClean, RescanFound, RescanCommit
  <2>2. QED
    BY <2>1 DEF TypeInv, TypeOK, TasksMatch
<1>2. CASE OpOf(w) # o
  <2>1. op'[o] = op[o]
    BY <1>1, <1>2
    DEF Work, ScanCommit, ScanSend, SanitizeCommit, SendAudit, SendRescan,
        AuditPut, AuditCommit, RescanClean, RescanFound, RescanCommit
  <2>2. QED
    BY <2>1, UntouchedRow
<1>3. CASE OpOf(w) = o
  <2>1. CASE ScanCommit(w)
    <3>1. PICK D \in Detected(o) :
            \/ UNCHANGED op
            \/ /\ ~Clash(o, D)
               /\ \E answer \in OpaAnswers :
                     LET new == IF RequiresReview(D, answer) THEN "escalated"
                                                             ELSE "pending" IN
                     /\ op' = [op EXCEPT ![o].found = @ \cup D,
                                         ![o].status = new]
                     /\ Goto(w, Task("scanSend", worker[w].msg, {}, new))
      BY <1>3, <2>1 DEF ScanCommit
    <3>2. ASSUME ~Clash(o, D), NEW new \in {"escalated", "pending"},
                 new = "escalated" => D # {},
                 op' = [op EXCEPT ![o].found = @ \cup D, ![o].status = new],
                 Goto(w, Task("scanSend", worker[w].msg, {}, new))
          PROVE  Scanned(w, o)
      <4>1. /\ op'[o].found = op[o].found \cup D
            /\ op'[o].status = new
            /\ op'[o].text = op[o].text
            /\ SameText(o) /\ SameSeal(o) /\ SameStored(o)
        BY <1>1, <3>2 DEF OpRow
      <4>2. worker'[w] = Task("scanSend", worker[w].msg, {}, new)
        BY <1>1, <3>2 DEF Goto
      <4>3. At(w, "scan")
        BY <2>1 DEF ScanCommit
      <4> HIDE DEF SameText, SameSeal, SameStored
      <4>4. \E E \in Detected(o) :
              /\ ~Clash(o, E)
              /\ op'[o].found = op[o].found \cup E
              /\ op'[o].status \in {"escalated", "pending"}
              /\ op'[o].status = "escalated" => E # {}
        BY <3>2, <4>1
      <4>5. /\ worker'[w].pc = "scanSend"
            /\ worker'[w].msg = worker[w].msg
            /\ worker'[w].loaded = op'[o].status
        BY <4>1, <4>2 DEF Task
      <4>6. QED
        BY <1>3, <4>1, <4>3, <4>4, <4>5 DEF Scanned
    <3>3. CASE UNCHANGED op
      BY <3>3, UntouchedRow
    <3>4. QED
      BY <3>1, <3>2, <3>3 DEF RowStep, RequiresReview
  <2>2. CASE SanitizeCommit(w)
    <3>1. Sanitizes(w, o)
      BY <1>1, <1>3, <2>2 DEF SanitizeCommit, Sanitizes, OpRow
    <3>2. QED
      BY <3>1 DEF RowStep
  <2>3. CASE AuditPut(w)
    <3>1. Stores(o)
      BY <1>1, <1>3, <2>3 DEF AuditPut, Stores, OpRow
    <3>2. QED
      BY <3>1 DEF RowStep
  <2>4. CASE AuditCommit(w)
    <3>1. Seals(w, o)
      BY <1>1, <1>3, <2>4 DEF AuditCommit, Seals, OpRow
    <3>2. QED
      BY <3>1 DEF RowStep
  <2>5. CASE RescanClean(w)
    <3>1. CASE UNCHANGED op
      BY <3>1, UntouchedRow
    <3>2. CASE op' = [op EXCEPT ![o].status = "completed"]
      <4>1. Rescans(w, o)
        BY <1>1, <1>3, <2>5, <3>2 DEF RescanClean, Rescans, OpRow
      <4>2. QED
        BY <4>1 DEF RowStep
    <3>3. QED
      BY <1>3, <2>5, <3>1, <3>2 DEF RescanClean
  <2>6. CASE RescanCommit(w)
    <3>1. CASE UNCHANGED op
      BY <3>1, UntouchedRow
    <3>2. ASSUME NEW u \in BOOLEAN,
                 op' = [op EXCEPT ![o].residual = @ \cup worker[w].keys,
                                  ![o].status = IF u THEN "escalated" ELSE @]
          PROVE  RowStep(o)
      <4>1. /\ op'[o].status \in {op[o].status, "escalated"}
            /\ SameScan(o) /\ SameText(o) /\ SameSeal(o) /\ SameStored(o)
        BY <1>1, <3>2 DEF OpRow
      <4>2. Rescans(w, o)
        BY <1>3, <2>6, <4>1 DEF RescanCommit, Rescans
      <4>3. QED
        BY <4>2 DEF RowStep
    <3>3. QED
      BY <1>3, <2>6, <3>1, <3>2 DEF RescanCommit
  <2>7. CASE ScanSend(w) \/ SendAudit(w) \/ SendRescan(w) \/ RescanFound(w)
    BY <2>7, UntouchedRow DEF ScanSend, SendAudit, SendRescan, RescanFound
  <2>8. QED
    BY <2>1, <2>2, <2>3, <2>4, <2>5, <2>6, <2>7 DEF Work
<1>4. QED
  BY <1>2, <1>3

\* Every step of the system is a RowStep of every operation.
LEMMA RowSteps ==
    ASSUME TypeInv, Next, NEW o \in Ops PROVE RowStep(o)
<1> USE DEF SameStatus, SameScan, SameText, SameSeal, SameStored
<1>1. CASE \E p \in Ops : scan(p) \/ tool_scan(p)
  <2>1. PICK p \in Ops, text \in SUBSET Keys, blank \in BOOLEAN :
            /\ op[p].status = "absent"
            /\ op' = [op EXCEPT ![p].status = "pending", ![p].text = text,
                                ![p].blank = blank]
    BY <1>1 DEF scan, tool_scan, Accept
  <2>2. CASE p = o
    <3>1. Accepted(o)
      BY <2>1, <2>2 DEF Accepted, TypeInv, TypeOK, OpRow
    <3>2. QED
      BY <3>1 DEF RowStep
  <2>3. CASE p # o
    BY <2>1, <2>3, UntouchedRow DEF TypeInv, TypeOK
  <2>4. QED
    BY <2>2, <2>3
<1>2. CASE \E r \in Relays : Relay(r) \/ RelayFails(r)
  BY <1>2, UntouchedRow DEF Relay, RelayFails
<1>3. CASE \E w \in Workers : Work(w)
  BY <1>3, WorkRow
<1>4. CASE \E w \in Workers, m \in Message : Deliver(w, m)
  <2>1. PICK w \in Workers, m \in Message : Deliver(w, m)
    BY <1>4
  <2>2. CASE ProcessReview(w, m)
    <3>1. Untouched(o)
      BY <2>2 DEF ProcessReview, Deliverable, Untouched, TypeInv, TypeOK, OpRow
    <3>2. QED
      BY <3>1 DEF RowStep
  <2>3. CASE ~ProcessReview(w, m)
    <3>1. UNCHANGED op
      BY <2>1, <2>3
      DEF Deliver, BadId, ScanBegin, SanitizeBegin, AuditBegin, RescanBegin, Begin
    <3>2. QED
      BY <3>1, UntouchedRow
  <2>4. QED
    BY <2>2, <2>3
<1>5. CASE \E w \in Workers : TaskFails(w) \/ Crash(w)
  BY <1>5, UntouchedRow DEF TaskFails, Crash
<1>6. QED
  BY <1>1, <1>2, <1>3, <1>4, <1>5 DEF Next, WorkerStep

-----------------------------------------------------------------------------
(* Where the messages of a queue come from.                                *)

\* The task of w retries, is redelivered as, or sends, a message for actor s.
Source(w, s) ==
    /\ Busy(w)
    /\ \/ s = worker[w].msg.stage
       \/ s = "sanitize" /\ At(w, "scanSend") /\ worker[w].loaded # "escalated"
       \/ s = "audit" /\ At(w, "sendAudit")
       \/ s = "rescan" /\ At(w, "sendRescan")

MessageStep(n) ==
    \/ queue[n] > 0
    \/ n.op \notin Ops
    \/ n.stage \in {"scan", "review"}
    \/ \E w \in Workers : OpOf(w) = n.op /\ Source(w, n.stage)

\* A message that appears is a scan, an announcement, or comes from a task.
LEMMA MessageSteps ==
    ASSUME TypeInv, Next, NEW n \in Message, queue'[n] > 0
    PROVE  MessageStep(n)
<1> USE DEF TypeInv, TypeOK, DramatiqTypeOK
<1>1. CASE queue[n] > 0
  BY <1>1 DEF MessageStep
<1>2. CASE ~(queue[n] > 0)
  <2>1. CASE \E p \in Ops : scan(p) \/ tool_scan(p)
    BY <1>2, <2>1 DEF scan, tool_scan, Accept
  <2>2. CASE \E r \in Relays : Relay(r) \/ RelayFails(r)
    <3>1. PICK r \in Relays : RelaySend(r)
      BY <1>2, <2>2
      DEF Relay, RelayFails, RelayStep, RelaySelect, RelayCommit, RelayAbort
    <3>2. PICK o \in Ops : queue' = With(queue, Fresh("scan", outbox[o].id))
      BY <3>1 DEF RelaySend, OutboxTypeOK
    <3>3. outbox[o].id \in Ops \cup {NoneId}
      BY DEF OutboxTypeOK, OutboxRow
    <3>4. n = Fresh("scan", outbox[o].id)
      BY <1>2, <3>2, <3>3, WithQueue, FreshMessage DEF Stages
    <3>5. QED
      BY <3>3, <3>4, FreshMessage DEF MessageStep, Stages
  <2>3. ASSUME NEW w \in Workers, Work(w) PROVE MessageStep(n)
    <3>1. Busy(w)
      BY <2>3 DEF Work, Busy, At, ScanCommit, ScanSend, SanitizeCommit, SendAudit,
           SendRescan, AuditPut, AuditCommit, RescanClean, RescanFound, RescanCommit
    <3>2. OpOf(w) \in Ops /\ worker[w].msg \in Message
      BY <3>1 DEF TasksMatch, Tasks
    <3>3. ASSUME TaskRaises(w) PROVE MessageStep(n)
      BY <1>2, <3>1, <3>2, <3>3, RaiseType DEF TaskRaises, MessageStep, Source, OpOf
    <3>4. ASSUME NEW s \in Stages, queue' = With(queue, Fresh(s, OpOf(w)))
          PROVE  n.stage = s /\ n.op = OpOf(w)
      BY <1>2, <3>2, <3>4, WithQueue, FreshMessage
    <3>5. CASE ScanCommit(w) \/ RescanFound(w) \/ RescanCommit(w)
      BY <1>2, <3>3, <3>4, <3>5
      DEF ScanCommit, RescanFound, RescanCommit, MessageStep, Stages
    <3>6. CASE ScanSend(w)
      <4>1. CASE worker[w].loaded = "escalated"
        BY <3>4, <3>6, <4>1 DEF ScanSend, MessageStep, Stages
      <4>2. CASE worker[w].loaded # "escalated"
        BY <3>1, <3>4, <3>6, <4>2 DEF ScanSend, MessageStep, Source, Stages
      <4>3. QED
        BY <4>1, <4>2
    <3>7. CASE SendAudit(w)
      BY <3>1, <3>4, <3>7 DEF SendAudit, MessageStep, Source, Stages
    <3>8. CASE SendRescan(w)
      BY <3>1, <3>4, <3>8 DEF SendRescan, MessageStep, Source, Stages
    <3>9. CASE SanitizeCommit(w) \/ AuditPut(w) \/ AuditCommit(w) \/ RescanClean(w)
      BY <1>2, <3>9 DEF SanitizeCommit, AuditPut, AuditCommit, RescanClean
    <3>10. QED
      BY <2>3, <3>5, <3>6, <3>7, <3>8, <3>9 DEF Work
  <2>4. ASSUME NEW w \in Workers, NEW m \in Message, Deliver(w, m)
        PROVE  MessageStep(n)
    <3>1. CASE BadId(w, m)
      <4>1. n.op = NoneId
        BY <1>2, <3>1, WithoutQueue, RaiseType DEF BadId
      <4>2. QED
        BY <4>1, DramatiqAssumption DEF MessageStep
    <3>2. CASE ~BadId(w, m)
      <4>1. queue[m] > 0 /\ queue' = Without(queue, m)
        BY <2>4, <3>2
        DEF Deliver, ScanBegin, SanitizeBegin, AuditBegin, RescanBegin,
            ProcessReview, Begin, Deliverable
      <4>2. QED
        BY <1>2, <4>1, WithoutQueue
    <3>3. QED
      BY <3>1, <3>2
  <2>5. ASSUME NEW w \in Workers, TaskFails(w) \/ Crash(w) PROVE MessageStep(n)
    <3>1. worker[w].msg \in Message
      BY DEF Tasks
    <3>2. CASE TaskFails(w)
      BY <1>2, <3>1, <3>2, RaiseType DEF TaskFails, TaskRaises, MessageStep, Source, OpOf
    <3>3. CASE Crash(w)
      <4>1. Busy(w) /\ n = worker[w].msg
        BY <1>2, <3>1, <3>3, WithQueue DEF Crash
      <4>2. QED
        BY <4>1 DEF MessageStep, Source, OpOf
    <3>4. QED
      BY <2>5, <3>2, <3>3
  <2>6. QED
    BY <2>1, <2>2, <2>3, <2>4, <2>5 DEF Next, WorkerStep
<1>3. QED
  BY <1>1, <1>2

-----------------------------------------------------------------------------
(* Sealed evidence is complete.                                            *)

\* What is past process_sanitize has a sanitized text.
SanitizedFirst ==
    /\ \A m \in Message :
          m.stage \in {"audit", "rescan"} /\ m.op \in Ops /\ queue[m] > 0
              => op[m.op].sanitized.set
    /\ \A w \in Workers :
          worker[w].pc \in {"sendAudit", "sendRescan", "audit", "auditCommit",
                           "rescan", "rescanCommit"}
              => op[OpOf(w)].sanitized.set

\* The seal comes after the upload.
StoredFirst == \A w \in Workers : At(w, "auditCommit") => op[OpOf(w)].stored > 0

(***************************************************************************)
(* The inductive invariant: a sealed row is complete because every task    *)
(* that can seal it found the text written and the original uploaded.      *)
(***************************************************************************)
SealInv == TypeInv /\ SanitizedFirst /\ StoredFirst /\ SealedIsArchived

\* Nothing is in progress and nothing is sealed initially.
LEMMA SealInvInit == Init /\ TypeInv => SealInv
<1> SUFFICES ASSUME Init, TypeInv PROVE SealInv
  OBVIOUS
<1>1. SanitizedFirst
  BY DEF Init, DramatiqInit, SanitizedFirst, IdleTask, Task
<1>2. StoredFirst /\ SealedIsArchived
  BY DEF Init, StoredFirst, SealedIsArchived, At, IdleTask, Task, NoOp
<1>3. QED
  BY <1>1, <1>2 DEF SealInv

\* Text, upload and artifact, once there, stay.
LEMMA RowGrows ==
    ASSUME TypeInv, Next, NEW o \in Ops
    PROVE  /\ op[o].sanitized.set => op'[o].sanitized.set
           /\ op[o].stored > 0 => op'[o].stored > 0
           /\ op[o].artifacts > 0 => op'[o].artifacts > 0
           /\ op[o].status # "absent" => op'[o].status # "absent"
<1>1. RowStep(o)
  BY RowSteps
<1>2. op[o].stored \in Nat /\ op[o].artifacts \in Nat
  BY DEF TypeInv, TypeOK, OpRow
<1>3. QED
  BY <1>1, <1>2
  DEF RowStep, Untouched, Accepted, Stores, Scanned, Sanitizes, Seals, Rescans,
      SameStatus, SameScan, SameText, SameSeal, SameStored

\* Every step preserves the invariant.
LEMMA SealInvStep == SealInv /\ TypeInv' /\ [Next]_vars => SealInv'
<1> SUFFICES ASSUME SealInv, TypeInv', [Next]_vars
             PROVE  SanitizedFirst' /\ StoredFirst' /\ SealedIsArchived'
  BY DEF SealInv
<1>1. CASE UNCHANGED vars
  BY <1>1 DEF vars, SealInv, SanitizedFirst, StoredFirst, SealedIsArchived, At, OpOf
<1>2. CASE Next
  <2>1. TypeInv
    BY DEF SealInv
  <2>2. \A m \in Message :
          m.stage \in {"audit", "rescan"} /\ m.op \in Ops /\ queue'[m] > 0
              => op'[m.op].sanitized.set
    <3> SUFFICES ASSUME NEW m \in Message, m.stage \in {"audit", "rescan"},
                        m.op \in Ops, queue'[m] > 0
                 PROVE  op[m.op].sanitized.set
      BY <1>2, <2>1, RowGrows
    <3>1. MessageStep(m)
      BY <1>2, <2>1, MessageSteps
    <3>2. CASE queue[m] > 0
      BY <3>2 DEF SealInv, SanitizedFirst
    <3>3. ASSUME NEW w \in Workers, OpOf(w) = m.op, Source(w, m.stage)
          PROVE  op[m.op].sanitized.set
      BY <2>1, <3>3
      DEF Source, At, SealInv, SanitizedFirst, TypeInv, TasksMatch, AtPointOfActor
    <3>4. QED
      BY <3>1, <3>2, <3>3 DEF MessageStep
  <2>3. \A w \in Workers :
          worker'[w].pc \in {"sendAudit", "sendRescan", "audit", "auditCommit",
                            "rescan", "rescanCommit"}
              => op'[worker'[w].msg.op].sanitized.set
    <3> SUFFICES ASSUME NEW w \in Workers,
                        worker'[w].pc \in {"sendAudit", "sendRescan", "audit",
                                          "auditCommit", "rescan", "rescanCommit"}
                 PROVE  op'[worker'[w].msg.op].sanitized.set
      OBVIOUS
    <3>1. TaskStep(w)
      BY <1>2, <2>1, TaskSteps DEF TypeInv
    <3>2. worker'[w] # IdleTask
      BY DEF IdleTask, Task
    <3>3. CASE worker'[w] = worker[w]
      <4>1. Busy(w) /\ OpOf(w) \in Ops /\ op[OpOf(w)].sanitized.set
        BY <2>1, <3>3 DEF Busy, TypeInv, TasksMatch, SealInv, SanitizedFirst
      <4>2. QED
        BY <1>2, <2>1, <3>3, <4>1, RowGrows DEF OpOf
    <3>4. CASE Begins(worker'[w])
      <4>1. op[worker'[w].msg.op].sanitized.set
        BY <3>4 DEF Begins, SealInv, SanitizedFirst
      <4>2. QED
        BY <1>2, <2>1, <3>4, <4>1, RowGrows DEF Begins
    <3>5. CASE GoesOn(w, worker'[w])
      <4>1. OpOf(w) \in Ops
        BY <2>1, <3>5 DEF GoesOn, TypeInv, TasksMatch
      <4>2. op[OpOf(w)].sanitized.set \/ op'[OpOf(w)].sanitized.set
        BY <3>5 DEF GoesOn, At, SealInv, SanitizedFirst
      <4>3. QED
        BY <1>2, <2>1, <3>5, <4>1, <4>2, RowGrows DEF GoesOn, OpOf
    <3>6. QED
      BY <3>1, <3>2, <3>3, <3>4, <3>5 DEF TaskStep
  <2>4. StoredFirst'
    <3> SUFFICES ASSUME NEW w \in Workers, worker'[w].pc = "auditCommit"
                 PROVE  op'[worker'[w].msg.op].stored > 0
      BY DEF StoredFirst, At, OpOf
    <3>1. TaskStep(w)
      BY <1>2, <2>1, TaskSteps DEF TypeInv
    <3>2. worker'[w] # IdleTask /\ ~Begins(worker'[w])
      BY DEF IdleTask, Task, Begins
    <3>3. CASE worker'[w] = worker[w]
      <4>1. Busy(w) /\ OpOf(w) \in Ops /\ op[OpOf(w)].stored > 0
        BY <2>1, <3>3 DEF Busy, At, TypeInv, TasksMatch, SealInv, StoredFirst
      <4>2. QED
        BY <1>2, <2>1, <3>3, <4>1, RowGrows DEF OpOf
    <3>4. CASE GoesOn(w, worker'[w])
      BY <3>4 DEF GoesOn, At, OpOf
    <3>5. QED
      BY <3>1, <3>2, <3>3, <3>4 DEF TaskStep
  <2>5. SealedIsArchived'
    <3> SUFFICES ASSUME NEW o \in Ops, op'[o].sealed
                 PROVE  /\ op'[o].stored > 0
                        /\ op'[o].artifacts > 0
                        /\ op'[o].sanitized.set
      BY DEF SealedIsArchived
    <3>1. CASE op[o].sealed
      BY <1>2, <2>1, <3>1, RowGrows DEF SealInv, SealedIsArchived
    <3>2. CASE ~op[o].sealed
      <4>1. RowStep(o)
        BY <1>2, <2>1, RowSteps
      <4>2. PICK w \in Workers : Seals(w, o)
        BY <3>2, <4>1
        DEF RowStep, Untouched, Accepted, Stores, Scanned, Sanitizes, Rescans, SameSeal
      <4>3. op[o].stored > 0 /\ op[o].sanitized.set
        BY <4>2 DEF Seals, At, SealInv, StoredFirst, SanitizedFirst
      <4>4. op[o].artifacts \in Nat /\ op'[o].artifacts = op[o].artifacts + 1
        BY <2>1, <4>2 DEF Seals, TypeInv, TypeOK, OpRow
      <4>5. QED
        BY <1>2, <2>1, <4>3, <4>4, RowGrows
    <3>3. QED
      BY <3>1, <3>2
  <2>6. QED
    BY <2>2, <2>3, <2>4, <2>5 DEF SanitizedFirst, OpOf
<1>3. QED
  BY <1>1, <1>2

\* The invariant holds throughout.
LEMMA SealInvariant == Spec => []SealInv
BY TypeInvariant, SealInvInit, SealInvStep, PTL DEF Spec

(***************************************************************************)
(* An operation is never sealed before its original is stored, its         *)
(* artifact recorded and its text sanitized, whatever is retried.          *)
(***************************************************************************)
THEOREM SealsAreComplete == Spec => []SealedIsArchived
BY SealInvariant, PTL DEF SealInv

-----------------------------------------------------------------------------
(* While the policy does not change, completed operations are covered and  *)
(* what process_scan escalated waits.                                      *)

\* process_scan has recorded what it detects and did not hold the operation.
Ready(o) ==
    /\ op[o].status # "absent"
    /\ op[o].found = op[o].text
    /\ ~Held(o)

\* Task t works on an operation that process_scan passed on.
PastScan(t) ==
    /\ t.pc \notin {"idle", "scan"}
    /\ ~(t.pc = "scanSend" /\ t.loaded = "escalated")

\* Everything past process_scan is about a ready operation.
ReadyFirst ==
    /\ \A m \in Message :
          m.stage \in {"sanitize", "audit", "rescan"} /\ m.op \in Ops /\ queue[m] > 0
              => Ready(m.op)
    /\ \A w \in Workers : PastScan(worker[w]) => Ready(OpOf(w))

\* process_sanitize works on all of the findings.
ReadsAll ==
    \A w \in Workers : At(w, "sanitize") => op[OpOf(w)].text \subseteq worker[w].keys

\* The findings of a scan are all written, or none is.
RowCovered(o) ==
    /\ op[o].found \in {{}, op[o].text}
    /\ op[o].status = "absent" => op[o].found = {} /\ ~op[o].sanitized.set
    /\ op[o].sanitized.set => /\ op[o].found = op[o].text
                              /\ op[o].text \subseteq op[o].sanitized.keys
    /\ op[o].status = "completed" => op[o].sanitized.set
    /\ Held(o) => op[o].text # {} /\ op[o].found = op[o].text

(***************************************************************************)
(* The inductive invariant.  A redelivered scan cannot disturb a held or a *)
(* sanitized operation because its findings clash with those already       *)
(* written (RowCovered), and no task past the scan exists for a held       *)
(* operation (ReadyFirst).                                                 *)
(***************************************************************************)
CoverInv == SealInv /\ ReadyFirst /\ ReadsAll /\ \A o \in Ops : RowCovered(o)

\* Nothing was accepted initially.
LEMMA CoverInvInit == Init /\ SealInv => CoverInv
<1> SUFFICES ASSUME Init, SealInv PROVE CoverInv
  OBVIOUS
<1>1. ReadyFirst /\ ReadsAll
  BY DEF Init, DramatiqInit, ReadyFirst, PastScan, ReadsAll, Busy, At, IdleTask, Task
<1>2. \A o \in Ops : RowCovered(o)
  BY DEF Init, RowCovered, Held, NoOp, NotSanitized
<1>3. QED
  BY <1>1, <1>2 DEF CoverInv

\* How a step changes a row, while the policy does not change.
LEMMA CoverRow ==
    ASSUME ~PolicyMayChange, CoverInv, Next, NEW o \in Ops
    PROVE  /\ RowCovered(o)'
           /\ Ready(o) => Ready(o)' /\ op'[o].text = op[o].text
           /\ Held(o) => Held(o)'
<1> USE DEF SameStatus, SameScan, SameText, SameSeal, SameStored
<1>1. TypeInv /\ RowCovered(o)
  BY DEF CoverInv, SealInv
<1>2. RowStep(o)
  BY <1>1, RowSteps
<1>3. CASE Untouched(o) \/ Stores(o)
  BY <1>1, <1>3 DEF Untouched, Stores, RowCovered, Ready, Held
<1>4. CASE Accepted(o)
  BY <1>1, <1>4 DEF Accepted, RowCovered, Ready, Held
<1>5. ASSUME NEW w \in Workers, Scanned(w, o)
      PROVE  /\ RowCovered(o)'
             /\ Ready(o) => Ready(o)' /\ op'[o].text = op[o].text
             /\ Held(o) => Held(o)'
  <2>1. /\ op'[o].text = op[o].text
        /\ op'[o].found = op[o].found \cup op[o].text
        /\ op[o].text \cap op[o].found = {}
        /\ op'[o].status \in {"escalated", "pending"}
        /\ op'[o].status = "escalated" => op[o].text # {}
        /\ op'[o].sanitized = op[o].sanitized
    BY <1>5 DEF Scanned, Detected, Clash, FindingRows
  <2>2. ~Held(o)
    BY <1>1, <2>1 DEF RowCovered
  <2>3. op'[o].found = op[o].text
    BY <1>1, <2>1 DEF RowCovered
  <2>4. Ready(o) => Ready(o)'
    BY <2>1, <2>3 DEF Ready, Held
  <2>5. RowCovered(o)'
    BY <1>1, <2>1, <2>3 DEF RowCovered, Held
  <2>6. QED
    BY <2>1, <2>2, <2>4, <2>5
<1>6. ASSUME NEW w \in Workers, Sanitizes(w, o) \/ Seals(w, o) \/ Rescans(w, o)
      PROVE  /\ RowCovered(o)'
             /\ Ready(o) => Ready(o)' /\ op'[o].text = op[o].text
             /\ Held(o) => Held(o)'
  <2>1. Ready(o)
    BY <1>6 DEF Sanitizes, Seals, Rescans, At, Busy, CoverInv, ReadyFirst, PastScan
  <2>2. CASE Sanitizes(w, o)
    <3>1. op[o].text \subseteq worker[w].keys
      BY <2>2 DEF Sanitizes, CoverInv, ReadsAll
    <3>2. QED
      BY <1>1, <2>1, <2>2, <3>1 DEF Sanitizes, RowCovered, Ready, Held
  <2>3. CASE Seals(w, o) \/ Rescans(w, o)
    <3>1. op[o].sanitized.set
      BY <2>3 DEF Seals, Rescans, At, CoverInv, SealInv, SanitizedFirst
    <3>2. QED
      BY <1>1, <2>1, <2>3, <3>1 DEF Seals, Rescans, RowCovered, Ready, Held
  <2>4. QED
    BY <1>6, <2>2, <2>3
<1>7. QED
  BY <1>2, <1>3, <1>4, <1>5, <1>6 DEF RowStep

\* Every step preserves the invariant.
LEMMA CoverInvStep ==
    ASSUME ~PolicyMayChange
    PROVE  CoverInv /\ SealInv' /\ [Next]_vars => CoverInv'
<1> SUFFICES ASSUME CoverInv, SealInv', [Next]_vars
             PROVE  ReadyFirst' /\ ReadsAll' /\ \A o \in Ops : RowCovered(o)'
  BY DEF CoverInv
<1>1. CASE UNCHANGED vars
  BY <1>1
  DEF vars, CoverInv, ReadyFirst, PastScan, ReadsAll, RowCovered, Ready, Held, At, Busy, OpOf
<1>2. CASE Next
  <2>1. TypeInv
    BY DEF CoverInv, SealInv
  <2>2. \A o \in Ops : /\ RowCovered(o)'
                       /\ Ready(o) => Ready(o)' /\ op'[o].text = op[o].text
    BY <1>2, CoverRow
  <2>3. \A m \in Message :
          m.stage \in {"sanitize", "audit", "rescan"} /\ m.op \in Ops /\ queue'[m] > 0
              => Ready(m.op)'
    <3> SUFFICES ASSUME NEW m \in Message, m.op \in Ops, queue'[m] > 0,
                        m.stage \in {"sanitize", "audit", "rescan"}
                 PROVE  Ready(m.op)
      BY <2>2
    <3>1. MessageStep(m)
      BY <1>2, <2>1, MessageSteps
    <3>2. CASE queue[m] > 0
      BY <3>2 DEF CoverInv, ReadyFirst, PastScan
    <3>3. ASSUME NEW w \in Workers, OpOf(w) = m.op, Source(w, m.stage)
          PROVE  Ready(m.op)
      BY <2>1, <3>3
      DEF Source, At, Busy, CoverInv, ReadyFirst, PastScan, TypeInv, TasksMatch, AtPointOfActor
    <3>4. QED
      BY <3>1, <3>2, <3>3 DEF MessageStep
  <2>4. ASSUME NEW w \in Workers, PastScan(worker'[w])
        PROVE  Ready(OpOf(w))'
    <3>1. TaskStep(w)
      BY <1>2, <2>1, TaskSteps DEF TypeInv
    <3>2. worker'[w] # IdleTask
      BY <2>4 DEF PastScan, IdleTask, Task
    <3>3. CASE worker'[w] = worker[w]
      <4>1. Ready(OpOf(w)) /\ OpOf(w) \in Ops
        BY <2>1, <2>4, <3>3
        DEF CoverInv, ReadyFirst, PastScan, At, Busy, TypeInv, TasksMatch
      <4>2. QED
        BY <2>2, <3>3, <4>1 DEF OpOf, Ready, Held
    <3>4. CASE Begins(worker'[w])
      <4>1. Ready(worker'[w].msg.op) /\ worker'[w].msg.op \in Ops
        BY <2>4, <3>4 DEF Begins, CoverInv, ReadyFirst, PastScan
      <4>2. QED
        BY <2>2, <4>1 DEF OpOf, Ready, Held
    <3>5. CASE GoesOn(w, worker'[w])
      <4>1. OpOf(w) \in Ops /\ worker'[w].msg.op = OpOf(w)
        BY <2>1, <3>5 DEF GoesOn, TypeInv, TasksMatch, OpOf
      <4>2. CASE At(w, "scan")
        <5>1. /\ worker'[w].loaded = op'[OpOf(w)].status
              /\ op'[OpOf(w)].found = op[OpOf(w)].found \cup op[OpOf(w)].text
              /\ op'[OpOf(w)].text = op[OpOf(w)].text
              /\ op'[OpOf(w)].status # "absent"
              /\ worker'[w].pc = "scanSend"
          BY <3>5, <4>2 DEF GoesOn, At, Detected
        <5>2. op'[OpOf(w)].found = op'[OpOf(w)].text
          BY <4>1, <5>1 DEF CoverInv, RowCovered
        <5>3. QED
          BY <2>4, <4>1, <5>1, <5>2 DEF OpOf, PastScan, Ready, Held
      <4>3. CASE ~At(w, "scan")
        <5>1. Ready(OpOf(w))
          BY <3>5, <4>3 DEF GoesOn, At, CoverInv, ReadyFirst, PastScan
        <5>2. QED
          BY <2>2, <4>1, <5>1 DEF OpOf, Ready, Held
      <4>4. QED
        BY <4>2, <4>3
    <3>6. QED
      BY <3>1, <3>2, <3>3, <3>4, <3>5 DEF TaskStep
  <2>5. ASSUME NEW w \in Workers, worker'[w].pc = "sanitize"
        PROVE  op'[worker'[w].msg.op].text \subseteq worker'[w].keys
    <3>1. TaskStep(w)
      BY <1>2, <2>1, TaskSteps DEF TypeInv
    <3>2. worker'[w] # IdleTask /\ ~GoesOn(w, worker'[w])
      BY <2>5 DEF IdleTask, Task, GoesOn
    <3>3. CASE worker'[w] = worker[w]
      <4>1. /\ Ready(OpOf(w)) /\ OpOf(w) \in Ops
            /\ op[OpOf(w)].text \subseteq worker[w].keys
        BY <2>1, <2>5, <3>3
        DEF CoverInv, ReadyFirst, PastScan, ReadsAll, At, Busy, TypeInv, TasksMatch
      <4>2. QED
        BY <2>2, <3>3, <4>1 DEF OpOf
    <3>4. CASE Begins(worker'[w])
      <4>1. /\ Ready(worker'[w].msg.op) /\ worker'[w].msg.op \in Ops
            /\ worker'[w].keys = FindingRows(worker'[w].msg.op)
        BY <2>5, <3>4 DEF Begins, CoverInv, ReadyFirst, PastScan
      <4>2. QED
        BY <2>2, <4>1 DEF Ready, FindingRows
    <3>5. QED
      BY <3>1, <3>2, <3>3, <3>4 DEF TaskStep
  <2>6. ReadyFirst'
    BY <2>3, <2>4 DEF ReadyFirst, PastScan
  <2>7. ReadsAll'
    BY <2>5 DEF ReadsAll, At, OpOf
  <2>8. QED
    BY <2>2, <2>6, <2>7
<1>3. QED
  BY <1>1, <1>2

\* The invariant holds throughout.
LEMMA CoverInvariant ==
    ASSUME ~PolicyMayChange PROVE Spec => []CoverInv
BY SealInvariant, CoverInvInit, CoverInvStep, PTL DEF Spec

(***************************************************************************)
(* While the policy does not change, the pipeline completes an operation   *)
(* only with a sanitized text that redacts all that is detected in it.     *)
(***************************************************************************)
THEOREM CompletionIsCovered ==
    ASSUME ~PolicyMayChange PROVE Spec => []CompletedIsCovered
<1>1. CoverInv => CompletedIsCovered
  BY DEF CoverInv, RowCovered, CompletedIsCovered
<1>2. QED
  BY <1>1, CoverInvariant, PTL

(***************************************************************************)
(* While the policy does not change, no automatic step releases what       *)
(* process_scan escalated, whatever is redelivered and in which order.     *)
(***************************************************************************)
THEOREM EscalationHolds ==
    ASSUME ~PolicyMayChange PROVE Spec => HeldStaysHeld
<1>1. CoverInv /\ [Next]_vars => [\A o \in Ops : Held(o) => Held(o)']_vars
  BY CoverRow
<1>2. QED
  BY <1>1, CoverInvariant, PTL DEF Spec, HeldStaysHeld
=============================================================================
