------------------------ MODULE ScanPipelineTracking ------------------------
(***************************************************************************)
(* No accepted document is forgotten before it is sanitized; originals are *)
(* uploaded again only to pay for a failure; until the first failure leaks *)
(* of a sanitized text are recorded; and, while the policy does not        *)
(* change, the pipeline implements the life cycle.                         *)
(***************************************************************************)
EXTENDS ScanPipelineProofs, FiniteSetTheorems

\* The task of w keeps its message, and will retry it or send the next one.
Keeps(w, m) ==
    /\ Busy(w)
    /\ worker[w].msg = m
    /\ ~(At(w, "scanSend") /\ worker[w].loaded = "escalated")

\* Message m is waiting, dead-lettered or kept.
Alive(m) == queue[m] > 0 \/ m \in dead \/ \E w \in Workers : Keeps(w, m)

\* A message other than an announcement is alive for o.
Driven(o) == \E m \in Message : m.op = o /\ m.stage # "review" /\ Alive(m)

\* The row of o awaits a relay that has not sent it.
Unsent(o) == outbox[o].state = "new" /\ Uncommitted(o) = {}

\* o is accepted, reachable and not sanitized.
Due(o) == op[o].status = "pending" /\ Addressed(o) /\ ~op[o].sanitized.set

\* Relays lock rows that exist; a row exists with its operation; redactions
\* are written with the text; tasks are about operations that exist.
RowsKnown ==
    /\ \A r \in Relays : relay[r].todo \subseteq relay[r].batch
    /\ \A r \in Relays : \A o \in relay[r].batch : outbox[o].state # "absent"
    /\ \A o \in Ops : op[o].status = "absent" <=> outbox[o].state = "absent"
    /\ \A o \in Ops : Redacted(o) # {} => op[o].sanitized.set
    /\ \A w \in Workers : Busy(w) => op[OpOf(w)].status # "absent"

(***************************************************************************)
(* The inductive invariant.  UnsanitizedIsTracked alone does not survive a *)
(* relay's commit, which needs the sent message, nor the end of a review   *)
(* task, which drives nothing.                                             *)
(***************************************************************************)
TrackInv ==
    SealInv /\ RowsKnown /\ \A o \in Ops : Due(o) => Unsent(o) \/ Driven(o)

\* Initially there are no operations.
LEMMA TrackInvInit == Init /\ SealInv => TrackInv
<1> SUFFICES ASSUME Init, SealInv PROVE TrackInv
  OBVIOUS
<1>1. \A o \in Ops : op[o].status = "absent" /\ outbox[o].state = "absent"
  BY DEF Init, OutboxInit, NoOp
<1>2. \A o \in Ops : Redacted(o) = {}
  <2> SUFFICES ASSUME NEW o \in Ops, NEW k \in Redacted(o) PROVE FALSE
    OBVIOUS
  <2>1. op[o].redacted = [x \in Keys |-> 0]
    BY DEF Init, NoOp
  <2>2. QED
    BY <2>1 DEF Redacted
<1>3. RowsKnown
  BY <1>1, <1>2
  DEF Init, OutboxInit, RelayIdle, RowsKnown, Busy, IdleTask, Task
<1>4. QED
  BY <1>1, <1>3 DEF TrackInv, Due

\* A step of a relay loses neither rows nor messages.
LEMMA TrackRelay ==
    ASSUME TrackInv, NEW r \in Relays, Relay(r) \/ RelayFails(r), NEW o \in Ops,
           Due(o)
    PROVE  Unsent(o)' \/ Driven(o)'
<1>1. /\ UNCHANGED <<op, worker, imported>>
      /\ relay \in [Relays -> [batch : SUBSET Ops, todo : SUBSET Ops]]
      /\ outbox \in [Ops -> OutboxRow]
      /\ queue \in [Message -> Nat]
      /\ Unsent(o) \/ Driven(o)
  BY DEF Relay, RelayFails, TrackInv, SealInv, TypeInv, TypeOK, OutboxTypeOK,
         DramatiqTypeOK
<1>2. ASSUME UNCHANGED <<queue, dead>> PROVE Driven(o) => Driven(o)'
  BY <1>1, <1>2 DEF Driven, Alive, Keeps, Busy, At
<1>3. CASE RelaySelect(r)
  <2>1. /\ UNCHANGED <<outbox, queue, dead>>
        /\ \E B : relay' = [relay EXCEPT ![r] = [batch |-> B, todo |-> B]]
    BY <1>3 DEF RelaySelect
  <2>2. Unsent(o) => Unsent(o)'
    BY <1>1, <2>1 DEF Unsent, Uncommitted
  <2>3. QED
    BY <1>1, <1>2, <2>1, <2>2
<1>4. CASE RelaySend(r)
  <2>1. PICK p \in relay[r].todo :
            /\ queue' = With(queue, Fresh("scan", outbox[p].id))
            /\ relay' = [relay EXCEPT ![r].todo = @ \ {p}]
            /\ UNCHANGED <<outbox, faults, dead>>
    BY <1>4 DEF RelaySend
  <2>2. outbox[p].id \in Ops \cup {NoneId}
    BY <1>1 DEF OutboxRow
  <2>3. /\ Fresh("scan", outbox[p].id) \in Message
        /\ Fresh("scan", outbox[p].id).stage = "scan"
        /\ Fresh("scan", outbox[p].id).op = outbox[p].id
    BY <2>2, FreshMessage DEF Stages
  <2>4. CASE Driven(o)
    BY <1>1, <2>1, <2>3, <2>4, WithQueue DEF Driven, Alive, Keeps, Busy, At
  <2>5. CASE p = o
    BY <1>1, <2>1, <2>3, <2>5, WithQueue DEF Due, Addressed, Driven, Alive
  <2>6. CASE p # o /\ Unsent(o)
    <3>1. Unsent(o)'
      BY <1>1, <2>1, <2>6 DEF Unsent, Uncommitted
    <3>2. QED
      BY <3>1
  <2>7. QED
    BY <1>1, <2>4, <2>5, <2>6
<1>5. CASE RelayCommit(r)
  <2>1. /\ relay[r].todo = {}
        /\ outbox' = [x \in Ops |-> IF x \in relay[r].batch
                                    THEN [outbox[x] EXCEPT !.state = "done"]
                                    ELSE outbox[x]]
        /\ relay' = [relay EXCEPT ![r] = RelayIdle]
        /\ UNCHANGED <<faults, queue, dead>>
    BY <1>5 DEF RelayCommit
  <2>2. CASE Unsent(o)
    <3>1. o \notin relay[r].batch
      BY <2>1, <2>2 DEF Unsent, Uncommitted
    <3>2. Unsent(o)'
      BY <1>1, <2>1, <2>2, <3>1 DEF Unsent, Uncommitted, RelayIdle
    <3>3. QED
      BY <3>2
  <2>3. QED
    BY <1>1, <1>2, <2>1, <2>2
<1>6. CASE RelayAbort(r)
  <2>1. /\ UNCHANGED <<outbox, queue, dead>>
        /\ relay' = [relay EXCEPT ![r] = RelayIdle]
    BY <1>6 DEF RelayAbort
  <2>2. Unsent(o) => Unsent(o)'
    BY <1>1, <2>1 DEF Unsent, Uncommitted, RelayIdle
  <2>3. QED
    BY <1>1, <1>2, <2>1, <2>2
<1>7. QED
  BY <1>3, <1>4, <1>5, <1>6 DEF Relay, RelayFails, RelayStep

\* A delivery takes a message over; it drops none that drives a due operation.
LEMMA TrackDeliver ==
    ASSUME TrackInv, NEW w \in Workers, NEW m \in Message, Deliver(w, m),
           NEW o \in Ops, Due(o)
    PROVE  Unsent(o)' \/ Driven(o)'
<1>1. /\ worker \in [Workers -> Tasks]
      /\ queue \in [Message -> Nat]
      /\ dead \subseteq Message
      /\ Unsent(o) \/ Driven(o)
  BY DEF TrackInv, SealInv, TypeInv, TypeOK, DramatiqTypeOK
<1>2. /\ ~Busy(w)
      /\ queue[m] > 0
      /\ UNCHANGED <<outbox, relay>>
      /\ \A v \in Workers : v # w => worker'[v] = worker[v]
      /\ dead \subseteq dead'
  BY <1>1, WithoutQueue, RaiseType
  DEF Deliver, BadId, ScanBegin, SanitizeBegin, AuditBegin, RescanBegin,
      ProcessReview, Begin, Deliverable
<1>3. \A n \in Message : queue[n] > 0 /\ n # m => queue'[n] > 0
  <2>1. CASE BadId(w, m)
    BY <1>1, <1>2, <2>1, WithoutQueue, RaiseType DEF BadId
  <2>2. CASE ~BadId(w, m)
    <3>1. queue' = Without(queue, m)
      BY <2>2
      DEF Deliver, ScanBegin, SanitizeBegin, AuditBegin, RescanBegin,
          ProcessReview, Begin
    <3>2. QED
      BY <1>1, <1>2, <3>1, WithoutQueue
  <2>3. QED
    BY <2>1, <2>2
<1>4. Unsent(o) => Unsent(o)'
  BY <1>2 DEF Unsent, Uncommitted
<1>5. ASSUME NEW n \in Message, n.op = o, n.stage # "review", Alive(n), n # m
      PROVE  Driven(o)'
  <2>1. \A v \in Workers : Keeps(v, n) => Keeps(v, n)'
    BY <1>2 DEF Keeps, Busy, At
  <2>2. QED
    BY <1>2, <1>3, <1>5, <2>1 DEF Driven, Alive
<1>6. ASSUME m.op = o, m.stage # "review" PROVE Driven(o)'
  <2>1. ASSUME NEW t, Begin(w, m, t), t.msg = m, t.pc \in {"scan", "sanitize"}
        PROVE  Driven(o)'
    <3>1. worker'[w] = t
      BY <1>1, <2>1 DEF Begin
    <3>2. Keeps(w, m)'
      BY <2>1, <3>1 DEF Keeps, Busy, At
    <3>3. QED
      BY <1>6, <3>2 DEF Driven, Alive
  <2>2. outbox[o].state # "absent" /\ outbox[o].id = o /\ op[o].status = "pending"
    BY DEF TrackInv, RowsKnown, Due, Addressed
  <2>3. Redacted(o) = {} /\ ~op[o].sanitized.set
    BY DEF TrackInv, RowsKnown, Due
  <2>4. CASE ScanBegin(w, m)
    BY <1>6, <2>1, <2>2, <2>4 DEF ScanBegin, Task
  <2>5. CASE SanitizeBegin(w, m)
    BY <1>6, <2>1, <2>2, <2>3, <2>5 DEF SanitizeBegin, Task
  <2>6. m.stage \notin {"audit", "rescan"}
    BY <1>2, <1>6, <2>3 DEF TrackInv, SealInv, SanitizedFirst
  <2>7. ~BadId(w, m)
    BY <1>6, DramatiqAssumption DEF BadId
  <2>8. QED
    BY <1>6, <2>4, <2>5, <2>6, <2>7
    DEF Deliver, AuditBegin, RescanBegin, ProcessReview, Deliverable
<1>7. QED
  BY <1>1, <1>4, <1>5, <1>6 DEF Driven

\* A task that acts on a due operation passes its message on.
LEMMA TrackWork ==
    ASSUME TrackInv, NEW w \in Workers, Work(w), NEW o \in Ops, Due(o), Due(o)'
    PROVE  Unsent(o)' \/ Driven(o)'
<1>1. /\ worker \in [Workers -> Tasks]
      /\ queue \in [Message -> Nat]
      /\ dead \subseteq Message
      /\ Unsent(o) \/ Driven(o)
      /\ TypeInv
  BY DEF TrackInv, SealInv, TypeInv, TypeOK, DramatiqTypeOK
<1>2. Busy(w)
  BY DEF Work, Busy, At, ScanCommit, ScanSend, SanitizeCommit, SendAudit,
         SendRescan, AuditPut, AuditCommit, RescanClean, RescanFound, RescanCommit
<1>3. worker[w].msg \in Message /\ OpOf(w) \in Ops
  BY <1>1, <1>2 DEF Tasks, TypeInv, TasksMatch
<1>4. /\ \A n \in Message : queue[n] > 0 => queue'[n] > 0
      /\ dead \subseteq dead'
  <2>1. CASE TaskRaises(w)
    BY <1>1, <1>3, <2>1, RaiseType DEF TaskRaises
  <2>2. CASE ~TaskRaises(w)
    <3>1. /\ UNCHANGED dead
          /\ \/ UNCHANGED queue
             \/ \E s \in Stages : queue' = With(queue, Fresh(s, OpOf(w)))
      BY <2>2
      DEF Work, ScanCommit, ScanSend, SanitizeCommit, SendAudit, SendRescan,
          AuditPut, AuditCommit, RescanClean, RescanFound, RescanCommit, Stages
    <3>2. QED
      BY <1>1, <1>3, <3>1, WithQueue, FreshMessage
  <2>3. QED
    BY <2>1, <2>2
<1>5. UNCHANGED relay /\ \A v \in Workers : v # w => worker'[v] = worker[v]
  BY <1>1
  DEF Work, ScanCommit, ScanSend, SanitizeCommit, SendAudit, SendRescan, AuditPut,
      AuditCommit, RescanClean, RescanFound, RescanCommit, Goto, TaskRaises
<1>6. ASSUME NEW n \in Message, n.op = o, n.stage # "review", Alive(n), ~Keeps(w, n)
      PROVE  Driven(o)'
  <2>1. \A v \in Workers : Keeps(v, n) => Keeps(v, n)'
    BY <1>5, <1>6 DEF Keeps, Busy, At
  <2>2. QED
    BY <1>4, <1>6, <2>1 DEF Driven, Alive
<1>7. CASE OpOf(w) # o
  <2>1. outbox'[o] = outbox[o]
    BY <1>1, <1>3, <1>7
    DEF Work, ScanCommit, ScanSend, SanitizeCommit, SendAudit, SendRescan, AuditPut,
        AuditCommit, RescanClean, RescanFound, RescanCommit, TypeInv, TypeOK,
        OutboxTypeOK
  <2>2. Unsent(o) => Unsent(o)'
    BY <1>5, <2>1 DEF Unsent, Uncommitted
  <2>3. \A n \in Message : n.op = o => ~Keeps(w, n)
    BY <1>7 DEF Keeps, OpOf
  <2>4. QED
    BY <1>1, <1>6, <2>2, <2>3 DEF Driven
<1>8. CASE OpOf(w) = o
  <2>1. ~op[o].sanitized.set /\ ~op'[o].sanitized.set /\ op'[o].status = "pending"
    BY DEF Due
  <2>2. worker[w].pc \notin {"sendAudit", "sendRescan", "audit", "auditCommit",
                             "rescan", "rescanCommit"}
    BY <1>8, <2>1 DEF TrackInv, SealInv, SanitizedFirst
  <2>3. ~SanitizeCommit(w)
    <3>1. SanitizeCommit(w) => op'[o].sanitized.set
      BY <1>1, <1>8 DEF SanitizeCommit, TypeInv, TypeOK, OpRow
    <3>2. QED
      BY <2>1, <3>1
  <2>4. CASE ScanCommit(w)
    <3>1. worker[w].msg.stage = "scan"
      BY <1>1, <1>2, <2>4 DEF ScanCommit, At, TypeInv, TasksMatch, AtPointOfActor
    <3>2. CASE TaskRaises(w)
      <4>1. PICK n \in Message : /\ n.stage = "scan"
                                 /\ n.op = o
                                 /\ queue'[n] > 0 \/ n \in dead'
        BY <1>1, <1>3, <1>8, <3>1, <3>2, RaiseType DEF TaskRaises, OpOf
      <4>2. QED
        BY <4>1 DEF Driven, Alive
    <3>3. CASE ~TaskRaises(w)
      <4>1. PICK new \in {"escalated", "pending"}, D \in Detected(o) :
                /\ op' = [op EXCEPT ![o].found = @ \cup D, ![o].status = new]
                /\ Goto(w, Task("scanSend", worker[w].msg, {}, new))
        BY <1>8, <2>4, <3>3 DEF ScanCommit
      <4>2. new = "pending"
        BY <2>1, <4>1 DEF TrackInv, SealInv, TypeInv, TypeOK, OpRow
      <4>3. PICK m \in Message : m = worker[w].msg
        BY <1>3
      <4>4. Keeps(w, m)'
        BY <1>1, <4>1, <4>2, <4>3 DEF Goto, Task, Keeps, Busy, At
      <4>5. QED
        BY <1>8, <3>1, <4>3, <4>4 DEF Driven, Alive, OpOf
    <3>4. QED
      BY <3>2, <3>3
  <2>5. CASE ScanSend(w)
    <3>1. UNCHANGED outbox
      BY <2>5 DEF ScanSend
    <3>2. CASE Unsent(o)
      BY <1>5, <3>1, <3>2 DEF Unsent, Uncommitted
    <3>3. CASE worker[w].loaded # "escalated"
      <4>1. queue' = With(queue, Fresh("sanitize", o))
        BY <1>8, <2>5, <3>3 DEF ScanSend
      <4>2. QED
        BY <1>1, <4>1, WithQueue, FreshMessage DEF Driven, Alive, Stages
    <3>4. CASE worker[w].loaded = "escalated" /\ Driven(o)
      <4>1. \A n \in Message : ~Keeps(w, n)
        BY <2>5, <3>4 DEF ScanSend, Keeps
      <4>2. QED
        BY <1>6, <3>4, <4>1 DEF Driven
    <3>5. QED
      BY <1>1, <3>2, <3>3, <3>4
  <2>6. QED
    BY <2>2, <2>3, <2>4, <2>5
    DEF Work, At, SendAudit, SendRescan, AuditPut, AuditCommit, RescanClean,
        RescanFound, RescanCommit
<1>9. QED
  BY <1>7, <1>8

\* A failure or a crash leaves the message to be retried or dead-lettered.
LEMMA TrackFaults ==
    ASSUME TrackInv, NEW w \in Workers, TaskFails(w) \/ Crash(w), NEW o \in Ops,
           Due(o)
    PROVE  Unsent(o)' \/ Driven(o)'
<1>1. /\ worker \in [Workers -> Tasks]
      /\ queue \in [Message -> Nat]
      /\ dead \subseteq Message
      /\ Unsent(o) \/ Driven(o)
  BY DEF TrackInv, SealInv, TypeInv, TypeOK, DramatiqTypeOK
<1>2. worker[w].msg \in Message
  BY <1>1 DEF Tasks
<1>3. /\ UNCHANGED <<outbox, relay>>
      /\ \A v \in Workers : v # w => worker'[v] = worker[v]
  BY <1>1 DEF TaskFails, Crash, TaskRaises, Goto
<1>4. /\ \A n \in Message : queue[n] > 0 => queue'[n] > 0
      /\ dead \subseteq dead'
      /\ Busy(w) => \E n \in Message :
                       /\ n.op = OpOf(w)
                       /\ n.stage = worker[w].msg.stage
                       /\ queue'[n] > 0 \/ n \in dead'
  <2>1. CASE TaskFails(w)
    BY <1>1, <1>2, <2>1, RaiseType DEF TaskFails, TaskRaises, OpOf
  <2>2. CASE Crash(w)
    <3>1. dead' = dead /\ queue' = IF Busy(w) THEN With(queue, worker[w].msg) ELSE queue
      BY <2>2 DEF Crash
    <3>2. CASE ~Busy(w)
      BY <3>1, <3>2
    <3>3. CASE Busy(w)
      <4>1. queue' = With(queue, worker[w].msg)
        BY <3>1, <3>3
      <4>2. /\ queue'[worker[w].msg] > 0
            /\ \A n \in Message : queue[n] > 0 => queue'[n] > 0
        BY <1>1, <1>2, <4>1, WithQueue
      <4> QED BY <1>2, <3>1, <4>2 DEF OpOf
    <3> QED BY <3>2, <3>3
  <2>3. QED
    BY <2>1, <2>2
<1>5. Unsent(o) => Unsent(o)'
  BY <1>3 DEF Unsent, Uncommitted
<1>6. ASSUME NEW n \in Message, n.op = o, n.stage # "review", Alive(n)
      PROVE  Driven(o)'
  <2>1. CASE Keeps(w, n)
    BY <1>4, <1>6, <2>1 DEF Keeps, OpOf, Driven, Alive
  <2>2. CASE ~Keeps(w, n)
    <3>1. \A v \in Workers : Keeps(v, n) => Keeps(v, n)'
      BY <1>3, <2>2 DEF Keeps, Busy, At
    <3>2. QED
      BY <1>4, <1>6, <3>1 DEF Driven, Alive
  <2>3. QED
    BY <2>1, <2>2
<1>7. QED
  BY <1>1, <1>5, <1>6 DEF Driven

\* What a step can do to the outbox row of o, and to whether o exists.
OutboxStep(o) ==
    \/ /\ outbox'[o] = outbox[o]
       /\ op'[o].status = "absent" <=> op[o].status = "absent"
    \/ /\ op[o].status = "absent" /\ op'[o].status = "pending"
       /\ outbox'[o].state = "new"
       /\ UNCHANGED relay
    \/ /\ op[o].status # "absent" /\ op'[o].status # "absent"
       /\ outbox'[o].state = "done"
       /\ outbox'[o].id = outbox[o].id

\* Rows are inserted by requests and only ever marked done.
LEMMA OutboxSteps ==
    ASSUME TypeInv, RowsKnown, Next, NEW o \in Ops PROVE OutboxStep(o)
<1>1. /\ outbox \in [Ops -> OutboxRow]
      /\ op \in [Ops -> OpRow]
      /\ relay \in [Relays -> [batch : SUBSET Ops, todo : SUBSET Ops]]
      /\ op[o].status # "absent" => op'[o].status # "absent"
  BY RowGrows DEF TypeInv, TypeOK, OutboxTypeOK
<1>2. ASSUME NEW p \in Ops, scan(p) \/ tool_scan(p) PROVE OutboxStep(o)
  <2>1. PICK id, text, blank :
          /\ op[p].status = "absent"
          /\ op' = [op EXCEPT ![p].status = "pending", ![p].text = text,
                              ![p].blank = blank]
          /\ AddRow(p, id)
          /\ UNCHANGED relay
    BY <1>2 DEF scan, tool_scan, Accept
  <2>2. CASE p = o
    BY <1>1, <2>1, <2>2 DEF AddRow, OutboxStep, OpRow
  <2>3. CASE p # o
    BY <1>1, <2>1, <2>3 DEF AddRow, OutboxStep
  <2>4. QED
    BY <2>2, <2>3
<1>3. ASSUME NEW r \in Relays, Relay(r) \/ RelayFails(r) PROVE OutboxStep(o)
  <2>1. UNCHANGED op
    BY <1>3 DEF Relay, RelayFails
  <2>2. CASE RelayCommit(r) /\ o \in relay[r].batch
    <3>1. op[o].status # "absent"
      BY <2>2 DEF RowsKnown
    <3>2. outbox'[o] = [outbox[o] EXCEPT !.state = "done"]
      BY <2>2 DEF RelayCommit
    <3>3. QED
      BY <1>1, <2>1, <3>1, <3>2 DEF OutboxStep, OutboxRow
  <2>3. CASE ~(RelayCommit(r) /\ o \in relay[r].batch)
    <3>1. outbox'[o] = outbox[o]
      BY <1>3, <2>3
      DEF Relay, RelayFails, RelayStep, RelaySelect, RelaySend, RelayCommit, RelayAbort
    <3>2. QED
      BY <2>1, <3>1 DEF OutboxStep
  <2>4. QED
    BY <2>2, <2>3
<1>4. ASSUME NEW w \in Workers, Work(w) PROVE OutboxStep(o)
  <2>1. Busy(w)
    BY <1>4 DEF Work, Busy, At, ScanCommit, ScanSend, SanitizeCommit, SendAudit,
         SendRescan, AuditPut, AuditCommit, RescanClean, RescanFound, RescanCommit
  <2>2. CASE OpOf(w) = o
    <3>1. op[o].status # "absent" /\ op'[o].status # "absent"
      BY <1>1, <2>1, <2>2 DEF RowsKnown
    <3>2. outbox'[o] = outbox[o] \/ outbox' = [outbox EXCEPT ![o].state = "done"]
      BY <1>4, <2>2
      DEF Work, ScanCommit, ScanSend, SanitizeCommit, SendAudit, SendRescan,
          AuditPut, AuditCommit, RescanClean, RescanFound, RescanCommit
    <3>3. QED
      BY <1>1, <3>1, <3>2 DEF OutboxStep, OutboxRow
  <2>3. CASE OpOf(w) # o
    <3>1. outbox'[o] = outbox[o] /\ op'[o] = op[o]
      BY <1>1, <1>4, <2>3
      DEF Work, ScanCommit, ScanSend, SanitizeCommit, SendAudit, SendRescan,
          AuditPut, AuditCommit, RescanClean, RescanFound, RescanCommit
    <3>2. QED
      BY <3>1 DEF OutboxStep
  <2>4. QED
    BY <2>2, <2>3
<1>5. ASSUME NEW w \in Workers, NEW m \in Message, Deliver(w, m) PROVE OutboxStep(o)
  <2>1. UNCHANGED outbox
    BY <1>5
    DEF Deliver, BadId, ScanBegin, SanitizeBegin, AuditBegin, RescanBegin,
        ProcessReview, Begin
  <2>2. op'[o].status = op[o].status
    <3>1. \/ op' = op
          \/ \E b : op' = [op EXCEPT ![m.op].announced = b]
      BY <1>5
      DEF Deliver, BadId, ScanBegin, SanitizeBegin, AuditBegin, RescanBegin,
          ProcessReview, Begin
    <3>2. CASE \E b : op' = [op EXCEPT ![m.op].announced = b]
      BY <1>1, <3>2 DEF OpRow
    <3> QED BY <3>1, <3>2
  <2>3. QED
    BY <2>1, <2>2 DEF OutboxStep
<1>6. ASSUME NEW w \in Workers, TaskFails(w) \/ Crash(w) PROVE OutboxStep(o)
  BY <1>6 DEF TaskFails, Crash, OutboxStep
<1>7. QED
  BY <1>2, <1>3, <1>4, <1>5, <1>6 DEF Next, WorkerStep

\* A request's row is new and no relay has it; a scan that passes is kept.
LEMMA TrackNew ==
    ASSUME TrackInv, Next, NEW o \in Ops, ~Due(o), Due(o)'
    PROVE  Unsent(o)' \/ Driven(o)'
<1>1. TypeInv /\ RowsKnown
  BY DEF TrackInv, SealInv
<1>2. /\ RowStep(o)
      /\ OutboxStep(o)
      /\ op[o].sanitized.set => op'[o].sanitized.set
  BY <1>1, RowSteps, RowGrows, OutboxSteps
<1>3. CASE op[o].status = "absent"
  <2>1. outbox'[o].state = "new" /\ UNCHANGED relay
    BY <1>2, <1>3 DEF OutboxStep, Due
  <2>2. Uncommitted(o)' = {}
    BY <1>1, <1>3, <2>1 DEF RowsKnown, Uncommitted
  <2>3. QED
    BY <2>1, <2>2 DEF Unsent
<1>4. CASE op[o].status # "absent"
  <2>1. op[o].status # "pending" /\ op'[o].status = "pending"
    BY <1>2, <1>4 DEF OutboxStep, Due, Addressed
  <2>2. PICK w \in Workers : Scanned(w, o)
    BY <1>2, <1>4, <2>1
    DEF RowStep, Untouched, Accepted, Stores, Sanitizes, Seals, Rescans, SameStatus
  <2>3. PICK m \in Message : m = worker[w].msg
    BY <1>1 DEF TypeInv, TypeOK, Tasks
  <2>4. m.op = o /\ m.stage = "scan"
    BY <1>1, <2>2, <2>3
    DEF Scanned, At, OpOf, Busy, TypeInv, TasksMatch, AtPointOfActor
  <2>5. Keeps(w, m)'
    BY <2>1, <2>2, <2>3 DEF Scanned, Keeps, Busy, At
  <2>6. QED
    BY <2>4, <2>5 DEF Driven, Alive
<1>5. QED
  BY <1>3, <1>4

\* Every step preserves the invariant.
LEMMA TrackInvStep == TrackInv /\ SealInv' /\ [Next]_vars => TrackInv'
<1> SUFFICES ASSUME TrackInv, SealInv', [Next]_vars
             PROVE  RowsKnown' /\ \A o \in Ops : Due(o)' => Unsent(o)' \/ Driven(o)'
  BY DEF TrackInv
<1>1. CASE UNCHANGED vars
  BY <1>1
  DEF vars, TrackInv, RowsKnown, Redacted, Due, Addressed, Unsent, Uncommitted,
      Driven, Alive, Keeps, Busy, At, OpOf
<1>2. CASE Next
  <2>1. TypeInv /\ RowsKnown
    BY DEF TrackInv, SealInv
  <2>2. ASSUME NEW o \in Ops, Due(o)' PROVE Unsent(o)' \/ Driven(o)'
    <3>1. CASE ~Due(o)
      BY <1>2, <2>2, <3>1, TrackNew
    <3>2. CASE Due(o)
      <4>1. ASSUME NEW p \in Ops, scan(p) \/ tool_scan(p)
            PROVE  Unsent(o)' \/ Driven(o)'
        <5>1. UNCHANGED <<queue, dead, relay, worker>>
          BY <4>1 DEF scan, tool_scan, Accept
        <5>2. outbox'[o] = outbox[o]
          BY <2>1, <3>2, <4>1
          DEF scan, tool_scan, Accept, AddRow, Due, TypeInv, TypeOK, OutboxTypeOK
        <5>3. Unsent(o) => Unsent(o)'
          BY <5>1, <5>2 DEF Unsent, Uncommitted
        <5>4. Driven(o) => Driven(o)'
          BY <5>1 DEF Driven, Alive, Keeps, Busy, At
        <5>5. QED
          BY <3>2, <5>3, <5>4 DEF TrackInv
      <4>2. QED
        BY <1>2, <2>2, <3>2, <4>1, TrackRelay, TrackDeliver, TrackWork, TrackFaults
        DEF Next, WorkerStep
    <3>3. QED
      BY <3>1, <3>2
  <2>3. \A o \in Ops : op'[o].status = "absent" <=> outbox'[o].state = "absent"
    BY <1>2, <2>1, OutboxSteps DEF OutboxStep, RowsKnown
  <2>4. \A o \in Ops : outbox[o].state # "absent" => outbox'[o].state # "absent"
    BY <1>2, <2>1, OutboxSteps DEF OutboxStep, RowsKnown
  <2>5. \A r \in Relays :
          /\ relay'[r].todo \subseteq relay'[r].batch
          /\ \A o \in relay'[r].batch : o \in Ops /\ outbox[o].state # "absent"
    <3>1. /\ relay \in [Relays -> [batch : SUBSET Ops, todo : SUBSET Ops]]
          /\ \A r \in Relays :
                /\ relay[r].todo \subseteq relay[r].batch
                /\ \A o \in relay[r].batch : o \in Ops /\ outbox[o].state # "absent"
      BY <2>1 DEF TypeInv, TypeOK, OutboxTypeOK, RowsKnown
    <3>2. CASE UNCHANGED relay
      BY <3>1, <3>2
    <3>3. ASSUME NEW r \in Relays, RelaySelect(r)
          PROVE  \E B \in SUBSET Ops :
                   /\ relay' = [relay EXCEPT ![r] = [batch |-> B, todo |-> B]]
                   /\ \A o \in B : outbox[o].state # "absent"
      BY <3>3 DEF RelaySelect
    <3>4. ASSUME NEW r \in Relays, RelaySelect(r) \/ RelaySend(r) \/ RelayCommit(r)
                                    \/ RelayAbort(r)
          PROVE  \A s \in Relays :
                   /\ relay'[s].todo \subseteq relay'[s].batch
                   /\ \A o \in relay'[s].batch : o \in Ops /\ outbox[o].state # "absent"
      <4>1. CASE RelaySelect(r)
        BY <3>1, <3>3, <4>1
      <4>2. CASE RelaySend(r)
        BY <3>1, <4>2 DEF RelaySend
      <4>3. CASE RelayCommit(r) \/ RelayAbort(r)
        BY <3>1, <4>3 DEF RelayCommit, RelayAbort, RelayIdle
      <4>4. QED
        BY <3>4, <4>1, <4>2, <4>3
    <3>5. (\E r \in Relays : Relay(r) \/ RelayFails(r)) \/ UNCHANGED relay
      <4>1. ASSUME NEW o \in Ops, scan(o) \/ tool_scan(o) PROVE UNCHANGED relay
        BY <4>1 DEF scan, tool_scan, Accept
      <4>2. ASSUME NEW w \in Workers, Work(w) PROVE UNCHANGED relay
        BY <4>2
        DEF Work, ScanCommit, ScanSend, SanitizeCommit, SendAudit, SendRescan,
            AuditPut, AuditCommit, RescanClean, RescanFound, RescanCommit
      <4>3. ASSUME NEW w \in Workers, NEW m \in Message, Deliver(w, m)
            PROVE  UNCHANGED relay
        BY <4>3
        DEF Deliver, BadId, ScanBegin, SanitizeBegin, AuditBegin, RescanBegin,
            ProcessReview, Begin
      <4>4. ASSUME NEW w \in Workers, TaskFails(w) \/ Crash(w) PROVE UNCHANGED relay
        BY <4>4 DEF TaskFails, Crash
      <4>5. QED
        BY <1>2, <4>1, <4>2, <4>3, <4>4 DEF Next, WorkerStep
    <3>6. QED
      BY <3>2, <3>4, <3>5 DEF Relay, RelayFails, RelayStep
  <2>6. \A o \in Ops : Redacted(o)' # {} => op'[o].sanitized.set
    <3> SUFFICES ASSUME NEW o \in Ops, Redacted(o)' # {}
                 PROVE  op'[o].sanitized.set
      OBVIOUS
    <3>1. RowStep(o) /\ (op[o].sanitized.set => op'[o].sanitized.set)
      BY <1>2, <2>1, RowSteps, RowGrows
    <3>2. op'[o].sanitized.set \/ op'[o].redacted = op[o].redacted
      BY <3>1
      DEF RowStep, Untouched, Accepted, Stores, Scanned, Sanitizes, Seals, Rescans,
          SameText
    <3>3. op'[o].redacted = op[o].redacted => Redacted(o)' = Redacted(o)
      BY DEF Redacted
    <3>4. QED
      BY <2>1, <3>1, <3>2, <3>3 DEF RowsKnown
  <2>7. \A w \in Workers : Busy(w)' => op'[worker'[w].msg.op].status # "absent"
    <3> SUFFICES ASSUME NEW w \in Workers, Busy(w)'
                 PROVE  op'[worker'[w].msg.op].status # "absent"
      OBVIOUS
    <3>1. TaskStep(w) /\ worker'[w] # IdleTask
      BY <1>2, <2>1, TaskSteps DEF TypeInv, Busy, IdleTask, Task
    <3>2. /\ worker'[w].msg.op \in Ops
          /\ op[worker'[w].msg.op].status # "absent"
      BY <2>1, <3>1
      DEF TaskStep, Begins, GoesOn, RowsKnown, TypeInv, TasksMatch, Busy, OpOf
    <3>3. QED
      BY <1>2, <2>1, <3>2, RowGrows
  <2>8. RowsKnown'
    BY <2>3, <2>4, <2>5, <2>6, <2>7 DEF RowsKnown, OpOf
  <2>9. QED
    BY <2>2, <2>8
<1>3. QED
  BY <1>1, <1>2

\* The invariant holds throughout.
LEMMA TrackInvariant == Spec => []TrackInv
BY SealInvariant, TrackInvInit, TrackInvStep, PTL DEF Spec

(***************************************************************************)
(* An accepted document is never forgotten before it is sanitized: its     *)
(* outbox row is unprocessed, or a message for it is waiting, being worked *)
(* on or has been dead-lettered, however relays and workers fail.          *)
(***************************************************************************)
THEOREM NothingIsForgotten == Spec => []UnsanitizedIsTracked
<1>1. TrackInv => UnsanitizedIsTracked
  BY DEF TrackInv, Due, Unsent, Driven, Alive, Keeps, UnsanitizedIsTracked, InHand
<1>2. QED
  BY <1>1, TrackInvariant, PTL

-----------------------------------------------------------------------------
(* Uploads are counted.                                                    *)

\* Messages that may still lead to an upload of o.
EarlyFor(o) == {m \in Message : m.op = o /\ m.stage \in {"scan", "sanitize", "audit"}}

\* The copies of them that wait in the queues.
Waiting(o) == UNION {{m} \X (1 .. queue[m]) : m \in EarlyFor(o)}

\* Task t works on o and its upload, or the message for it, is to come.
AtWork(t, o) ==
    /\ t.msg.op = o
    /\ t.pc \in {"scan", "scanSend", "sanitize", "sendAudit", "audit"}

Running(o) == {w \in Workers : AtWork(worker[w], o)}

\* Task t has uploaded o and is about to insert the artifact.
Uploaded(t, o) == t.msg.op = o /\ t.pc = "auditCommit"

Committing(o) == {w \in Workers : Uploaded(worker[w], o)}

One(b) == IF b THEN 1 ELSE 0

\* The uploads of o there were, and those still to come if nothing fails.
Budget(o) ==
    One(Unsent(o)) + Cardinality(Waiting(o)) + Cardinality(Running(o)) + op[o].stored

Countable(o) ==
    IsFiniteSet(Waiting(o)) /\ IsFiniteSet(Running(o)) /\ IsFiniteSet(Committing(o))

\* A row is in one relay's batch at most, is new there, and names itself or none.
RelayedOnce ==
    /\ \A r, s \in Relays : r # s => relay[r].batch \cap relay[s].batch = {}
    /\ \A r \in Relays : \A o \in relay[r].batch : outbox[o].state = "new"
    /\ \A o \in Ops : outbox[o].id \in {o, NoneId}

(***************************************************************************)
(* The inductive invariant.  UploadsNeedFaults alone does not survive the  *)
(* next upload: it needs that rows, messages and tasks which can still     *)
(* lead to one are no more than the failures allow.                        *)
(***************************************************************************)
UploadInv ==
    /\ RelayedOnce
    /\ \A o \in Ops :
          /\ Countable(o)
          /\ Budget(o) <= IF outbox[o].state = "absent" THEN 0 ELSE faults + 1
          /\ op[o].artifacts + Cardinality(Committing(o)) <= op[o].stored

\* Two sets that differ in one element at most.
LEMMA OneElement ==
    ASSUME NEW A, NEW B, NEW x, IsFiniteSet(A), A \ {x} = B \ {x}
    PROVE  /\ IsFiniteSet(B)
           /\ Cardinality(A) \in Nat /\ Cardinality(B) \in Nat
           /\ Cardinality(B) + One(x \in A) = Cardinality(A) + One(x \in B)
<1>0. Cardinality(A) \in Nat
  BY FS_CardinalityType
<1>1. CASE x \in A /\ x \in B
  <2>1. A = B
    BY <1>1
  <2> QED BY <1>0, <1>1, <2>1 DEF One
<1>2. CASE x \in A /\ x \notin B
  <2>1. B = A \ {x}
    BY <1>2
  <2>2. IsFiniteSet(B) /\ Cardinality(B) = Cardinality(A) - 1
    BY <1>2, <2>1, FS_RemoveElement
  <2>3. Cardinality(B) \in Nat
    BY <2>2, FS_CardinalityType
  <2> QED BY <1>0, <1>2, <2>2, <2>3 DEF One
<1>3. CASE x \notin A /\ x \in B
  <2>1. B = A \cup {x}
    BY <1>3
  <2>2. IsFiniteSet(B) /\ Cardinality(B) = Cardinality(A) + 1
    BY <1>3, <2>1, FS_AddElement
  <2> QED BY <1>0, <1>3, <2>2 DEF One
<1>4. CASE x \notin A /\ x \notin B
  <2>1. A = B
    BY <1>4
  <2> QED BY <1>0, <1>4, <2>1 DEF One
<1> QED BY <1>1, <1>2, <1>3, <1>4

\* What is in Waiting(o).
LEMMA WaitingHas ==
    ASSUME NEW o, NEW x
    PROVE  x \in Waiting(o) <=>
              \E m \in EarlyFor(o) : \E i \in 1 .. queue[m] : x = <<m, i>>
BY DEF Waiting

\* Messages of other operations and stages do not count.
LEMMA WaitingSame ==
    ASSUME NEW o, \A m \in EarlyFor(o) : queue'[m] = queue[m]
    PROVE  Waiting(o)' = Waiting(o)
<1>1. EarlyFor(o)' = EarlyFor(o)
  BY DEF EarlyFor
<1> QED BY <1>1 DEF Waiting

\* One copy of a message more.
LEMMA WaitingMore ==
    ASSUME NEW o, NEW m \in Message, queue \in [Message -> Nat],
           queue' = With(queue, m), IsFiniteSet(Waiting(o))
    PROVE  /\ IsFiniteSet(Waiting(o)')
           /\ Cardinality(Waiting(o)) \in Nat /\ Cardinality(Waiting(o)') \in Nat
           /\ Cardinality(Waiting(o)') = Cardinality(Waiting(o)) + One(m \in EarlyFor(o))
<1>1. /\ queue'[m] = queue[m] + 1 /\ queue[m] \in Nat
      /\ \A n \in Message : n # m => queue'[n] = queue[n]
  BY DEF With
<1>2. PICK k \in Nat : k = queue[m]
  BY <1>1
<1> DEFINE x == <<m, k + 1>>
<1>3. \A n, i : <<n, i>> = x <=> n = m /\ i = k + 1
  OBVIOUS
<1>4. \A y : y \in Waiting(o)' <=>
              \E n \in EarlyFor(o) : \E i \in 1 .. queue'[n] : y = <<n, i>>
  BY DEF Waiting, EarlyFor
<1>5. Waiting(o) \ {x} = Waiting(o)' \ {x}
  <2>1. \A n \in EarlyFor(o) : n \in Message
    BY DEF EarlyFor
  <2>2. ASSUME NEW n \in EarlyFor(o), NEW i, <<n, i>> # x
        PROVE  i \in 1 .. queue[n] <=> i \in 1 .. queue'[n]
    BY <1>1, <1>2, <1>3, <2>1, <2>2
  <2> HIDE DEF x
  <2> QED BY <1>4, <2>2, WaitingHas
<1>6. x \notin Waiting(o)
  <2> SUFFICES ASSUME NEW n \in EarlyFor(o), NEW i \in 1 .. queue[n], x = <<n, i>>
               PROVE  FALSE
    BY WaitingHas
  <2> QED BY <1>2, <1>3
<1>7. x \in Waiting(o)' <=> m \in EarlyFor(o)
  <2>1. k + 1 \in 1 .. queue'[m]
    BY <1>1, <1>2
  <2> QED BY <1>3, <1>4, <2>1
<1> HIDE DEF x
<1>8. /\ IsFiniteSet(Waiting(o)')
      /\ Cardinality(Waiting(o)) \in Nat /\ Cardinality(Waiting(o)') \in Nat
      /\ Cardinality(Waiting(o)') + One(x \in Waiting(o))
           = Cardinality(Waiting(o)) + One(x \in Waiting(o)')
  BY <1>5, OneElement
<1> QED BY <1>6, <1>7, <1>8 DEF One

\* One copy of a message less.
LEMMA WaitingLess ==
    ASSUME NEW o, NEW m \in Message, queue \in [Message -> Nat], queue[m] > 0,
           queue' = Without(queue, m), IsFiniteSet(Waiting(o))
    PROVE  /\ IsFiniteSet(Waiting(o)')
           /\ Cardinality(Waiting(o)) \in Nat /\ Cardinality(Waiting(o)') \in Nat
           /\ Cardinality(Waiting(o)') + One(m \in EarlyFor(o)) = Cardinality(Waiting(o))
<1>1. /\ queue'[m] = queue[m] - 1 /\ queue[m] \in Nat
      /\ \A n \in Message : n # m => queue'[n] = queue[n]
  BY DEF Without
<1>2. PICK k \in Nat : k = queue[m] /\ k > 0
  BY <1>1
<1> DEFINE x == <<m, k>>
<1>3. \A n, i : <<n, i>> = x <=> n = m /\ i = k
  OBVIOUS
<1>4. \A y : y \in Waiting(o)' <=>
              \E n \in EarlyFor(o) : \E i \in 1 .. queue'[n] : y = <<n, i>>
  BY DEF Waiting, EarlyFor
<1>5. Waiting(o) \ {x} = Waiting(o)' \ {x}
  <2>1. \A n \in EarlyFor(o) : n \in Message
    BY DEF EarlyFor
  <2>2. ASSUME NEW n \in EarlyFor(o), NEW i, <<n, i>> # x
        PROVE  i \in 1 .. queue[n] <=> i \in 1 .. queue'[n]
    BY <1>1, <1>2, <1>3, <2>1, <2>2
  <2> HIDE DEF x
  <2> QED BY <1>4, <2>2, WaitingHas
<1>6. x \notin Waiting(o)'
  <2> SUFFICES ASSUME NEW n \in EarlyFor(o), NEW i \in 1 .. queue'[n], x = <<n, i>>
               PROVE  FALSE
    BY <1>4
  <2> QED BY <1>1, <1>2, <1>3
<1>7. x \in Waiting(o) <=> m \in EarlyFor(o)
  <2>1. k \in 1 .. queue[m]
    BY <1>1, <1>2
  <2> QED BY <1>3, <2>1, WaitingHas
<1> HIDE DEF x
<1>8. /\ IsFiniteSet(Waiting(o)')
      /\ Cardinality(Waiting(o)) \in Nat /\ Cardinality(Waiting(o)') \in Nat
      /\ Cardinality(Waiting(o)') + One(x \in Waiting(o))
           = Cardinality(Waiting(o)) + One(x \in Waiting(o)')
  BY <1>5, OneElement
<1> QED BY <1>6, <1>7, <1>8 DEF One

\* A message that is put back, or dead-lettered.
LEMMA WaitingRaise ==
    ASSUME NEW o, NEW m \in Message, queue \in [Message -> Nat],
           Raise(queue, m), IsFiniteSet(Waiting(o))
    PROVE  /\ IsFiniteSet(Waiting(o)')
           /\ Cardinality(Waiting(o)) \in Nat /\ Cardinality(Waiting(o)') \in Nat
           /\ Cardinality(Waiting(o)') <= Cardinality(Waiting(o)) + One(m \in EarlyFor(o))
<1>1. CASE Exhausted(m)
  <2>1. Waiting(o)' = Waiting(o)
    BY <1>1, WaitingSame DEF Raise
  <2> QED BY <2>1, FS_CardinalityType DEF One
<1>2. CASE ~Exhausted(m)
  <2>1. PICK n : n = NextTry(m)
    OBVIOUS
  <2>2. n \in Message /\ (n \in EarlyFor(o) <=> m \in EarlyFor(o))
    BY <1>2, <2>1, NextTryMessage DEF EarlyFor
  <2>3. queue' = With(queue, n)
    BY <1>2, <2>1 DEF Raise
  <2>4. /\ IsFiniteSet(Waiting(o)')
        /\ Cardinality(Waiting(o)) \in Nat /\ Cardinality(Waiting(o)') \in Nat
        /\ Cardinality(Waiting(o)') = Cardinality(Waiting(o)) + One(n \in EarlyFor(o))
    BY <2>2, <2>3, WaitingMore
  <2> QED BY <2>2, <2>4 DEF One
<1> QED BY <1>1, <1>2

\* A worker whose task changes to t.
LEMMA RunningStep ==
    ASSUME NEW o, NEW w \in Workers, NEW t, worker \in [Workers -> Tasks],
           worker' = [worker EXCEPT ![w] = t], Countable(o)
    PROVE  /\ IsFiniteSet(Running(o)') /\ IsFiniteSet(Committing(o)')
           /\ Cardinality(Running(o)) \in Nat /\ Cardinality(Running(o)') \in Nat
           /\ Cardinality(Committing(o)) \in Nat /\ Cardinality(Committing(o)') \in Nat
           /\ Cardinality(Running(o)') + One(AtWork(worker[w], o))
                = Cardinality(Running(o)) + One(AtWork(t, o))
           /\ Cardinality(Committing(o)') + One(Uploaded(worker[w], o))
                = Cardinality(Committing(o)) + One(Uploaded(t, o))
<1>1. worker'[w] = t /\ \A v \in Workers : v # w => worker'[v] = worker[v]
  OBVIOUS
<1>2. /\ Running(o) \ {w} = Running(o)' \ {w}
      /\ w \in Running(o) <=> AtWork(worker[w], o)
      /\ w \in Running(o)' <=> AtWork(t, o)
  BY <1>1 DEF Running, AtWork
<1>3. /\ Committing(o) \ {w} = Committing(o)' \ {w}
      /\ w \in Committing(o) <=> Uploaded(worker[w], o)
      /\ w \in Committing(o)' <=> Uploaded(t, o)
  BY <1>1 DEF Committing, Uploaded
<1>4. /\ IsFiniteSet(Running(o)')
      /\ Cardinality(Running(o)) \in Nat /\ Cardinality(Running(o)') \in Nat
      /\ Cardinality(Running(o)') + One(w \in Running(o))
           = Cardinality(Running(o)) + One(w \in Running(o)')
  BY <1>2, OneElement DEF Countable
<1>5. /\ IsFiniteSet(Committing(o)')
      /\ Cardinality(Committing(o)) \in Nat /\ Cardinality(Committing(o)') \in Nat
      /\ Cardinality(Committing(o)') + One(w \in Committing(o))
           = Cardinality(Committing(o)) + One(w \in Committing(o)')
  BY <1>3, OneElement DEF Countable
<1> QED BY <1>2, <1>3, <1>4, <1>5 DEF One

(***************************************************************************)
(* What a step does to the account of o: it keeps the budget or pays one   *)
(* failure for one more upload, and it files no artifact without upload.   *)
(***************************************************************************)
Accounted(o) ==
    /\ Countable(o)'
    /\ \/ Budget(o)' <= Budget(o)
       \/ /\ faults' = faults + 1 /\ outbox[o].state # "absent"
          /\ Budget(o)' <= Budget(o) + 1
    /\ op'[o].artifacts + Cardinality(Committing(o)') + op[o].stored
          <= op[o].artifacts + Cardinality(Committing(o)) + op'[o].stored

\* The counts are numbers.
LEMMA CountsAreNumbers ==
    ASSUME TypeInv, NEW o \in Ops, Countable(o)
    PROVE  /\ Cardinality(Waiting(o)) \in Nat /\ Cardinality(Running(o)) \in Nat
           /\ Cardinality(Committing(o)) \in Nat
           /\ op[o].stored \in Nat /\ op[o].artifacts \in Nat
           /\ One(Unsent(o)) \in {0, 1}
<1>1. op[o].stored \in Nat /\ op[o].artifacts \in Nat
  BY DEF TypeInv, TypeOK, OpRow
<1> QED BY <1>1, FS_CardinalityType DEF Countable, One

\* A step that has nothing to do with o.
LEMMA NotConcerned ==
    ASSUME TypeInv, NEW o \in Ops, Countable(o),
           \A m \in EarlyFor(o) : queue'[m] = queue[m],
           Running(o)' = Running(o), Committing(o)' = Committing(o),
           Unsent(o)' => Unsent(o),
           op'[o].stored = op[o].stored, op'[o].artifacts = op[o].artifacts
    PROVE  Accounted(o)
<1>1. Waiting(o)' = Waiting(o)
  BY WaitingSame
<1>2. /\ Cardinality(Waiting(o)) \in Nat /\ Cardinality(Running(o)) \in Nat
      /\ Cardinality(Committing(o)) \in Nat
      /\ op[o].stored \in Nat /\ op[o].artifacts \in Nat
  BY CountsAreNumbers
<1>3. One(Unsent(o)') <= One(Unsent(o)) /\ One(Unsent(o)') \in Nat /\ One(Unsent(o)) \in Nat
  BY DEF One
<1>4. Countable(o)'
  BY <1>1 DEF Countable
<1>5. Budget(o)' <= Budget(o)
  BY <1>1, <1>2, <1>3 DEF Budget
<1> QED BY <1>2, <1>4, <1>5 DEF Accounted

\* A worker takes a message: what waited is now worked on, or dropped.
LEMMA AccountDeliver ==
    ASSUME TypeInv, NEW w \in Workers, NEW m \in Message, Deliver(w, m),
           NEW o \in Ops, Countable(o)
    PROVE  Accounted(o)
<1>1. /\ worker \in [Workers -> Tasks] /\ queue \in [Message -> Nat]
      /\ op \in [Ops -> OpRow]
  BY DEF TypeInv, TypeOK, DramatiqTypeOK
<1>2. UNCHANGED <<outbox, relay>> /\ Unsent(o)' = Unsent(o)
  BY DEF Deliver, BadId, ScanBegin, SanitizeBegin, AuditBegin, RescanBegin,
         ProcessReview, Begin, Unsent, Uncommitted
<1>3. CASE BadId(w, m)
  <2>1. m \notin EarlyFor(o) /\ m.op = NoneId
    BY <1>3, DramatiqAssumption DEF BadId, EarlyFor
  <2>2. \A n \in EarlyFor(o) : n # m /\ n # NextTry(m) /\ n \in Message
    <3>1. ~Exhausted(m) => NextTry(m).op = NoneId
      BY <2>1, NextTryMessage
    <3>2. Exhausted(m) => NextTry(m).op = NoneId
      BY <2>1 DEF NextTry, Message
    <3> QED BY <2>1, <3>1, <3>2, DramatiqAssumption DEF EarlyFor
  <2>3. \A n \in EarlyFor(o) : queue'[n] = queue[n]
    BY <1>1, <1>3, <2>2 DEF BadId, Raise, With, Without
  <2>4. Running(o)' = Running(o) /\ Committing(o)' = Committing(o) /\ UNCHANGED op
    BY <1>3 DEF BadId, Running, Committing
  <2> QED BY <1>2, <2>3, <2>4, NotConcerned
<1>4. CASE ProcessReview(w, m)
  <2>1. m.stage = "review" /\ queue' = Without(queue, m) /\ UNCHANGED worker
    BY <1>4 DEF ProcessReview, Deliverable
  <2>2. \A n \in EarlyFor(o) : queue'[n] = queue[n]
    BY <1>1, <2>1 DEF EarlyFor, Without
  <2>3. Running(o)' = Running(o) /\ Committing(o)' = Committing(o)
    BY <2>1 DEF Running, Committing
  <2>4. op'[o].stored = op[o].stored /\ op'[o].artifacts = op[o].artifacts
    BY <1>1, <1>4 DEF ProcessReview, OpRow
  <2> QED BY <1>2, <2>2, <2>3, <2>4, NotConcerned
<1>5. ASSUME NEW t, Begin(w, m, t), Deliverable(w, m, m.stage),
             AtWork(t, o) => m \in EarlyFor(o), ~Uploaded(t, o)
      PROVE  Accounted(o)
  <2>1. /\ worker' = [worker EXCEPT ![w] = t] /\ queue' = Without(queue, m)
        /\ queue[m] > 0 /\ UNCHANGED op
        /\ ~AtWork(worker[w], o) /\ ~Uploaded(worker[w], o)
    BY <1>5 DEF Begin, Deliverable, Busy, AtWork, Uploaded
  <2>2. /\ IsFiniteSet(Waiting(o)')
        /\ Cardinality(Waiting(o)) \in Nat /\ Cardinality(Waiting(o)') \in Nat
        /\ Cardinality(Waiting(o)') + One(m \in EarlyFor(o)) = Cardinality(Waiting(o))
    BY <1>1, <2>1, WaitingLess DEF Countable
  <2>3. /\ IsFiniteSet(Running(o)') /\ IsFiniteSet(Committing(o)')
        /\ Cardinality(Running(o)) \in Nat /\ Cardinality(Running(o)') \in Nat
        /\ Cardinality(Committing(o)) \in Nat /\ Cardinality(Committing(o)') \in Nat
        /\ Cardinality(Running(o)') + One(AtWork(worker[w], o))
             = Cardinality(Running(o)) + One(AtWork(t, o))
        /\ Cardinality(Committing(o)') + One(Uploaded(worker[w], o))
             = Cardinality(Committing(o)) + One(Uploaded(t, o))
    BY <1>1, <2>1, RunningStep
  <2>4. op[o].stored \in Nat /\ op[o].artifacts \in Nat /\ One(Unsent(o)) \in {0, 1}
    BY CountsAreNumbers
  <2>5. Cardinality(Running(o)') = Cardinality(Running(o)) + One(AtWork(t, o))
        /\ Cardinality(Committing(o)') = Cardinality(Committing(o))
        /\ One(AtWork(t, o)) <= One(m \in EarlyFor(o))
        /\ One(AtWork(t, o)) \in Nat /\ One(m \in EarlyFor(o)) \in Nat
    BY <1>5, <2>1, <2>3 DEF One
  <2>6. Budget(o)' <= Budget(o)
    BY <1>2, <2>1, <2>2, <2>3, <2>4, <2>5 DEF Budget
  <2> QED BY <2>1, <2>2, <2>3, <2>4, <2>5, <2>6 DEF Accounted, Countable
<1>6. ASSUME NEW p \in {"scan", "sanitize", "audit", "rescan"}, NEW ks, NEW st,
             m.stage = p
      PROVE  /\ AtWork(Task(p, m, ks, st), o) => m \in EarlyFor(o)
             /\ ~Uploaded(Task(p, m, ks, st), o)
  BY <1>6 DEF AtWork, Uploaded, EarlyFor, Task
<1>7. ~AtWork(IdleTask, o) /\ ~Uploaded(IdleTask, o)
  BY DEF AtWork, Uploaded, IdleTask, Task
<1>8. CASE ScanBegin(w, m)
  BY <1>5, <1>6, <1>7, <1>8 DEF ScanBegin, Deliverable
<1>9. CASE SanitizeBegin(w, m)
  BY <1>5, <1>6, <1>7, <1>9 DEF SanitizeBegin, Deliverable
<1>10. CASE AuditBegin(w, m)
  BY <1>5, <1>6, <1>7, <1>10 DEF AuditBegin, Deliverable
<1>11. CASE RescanBegin(w, m)
  BY <1>5, <1>6, <1>7, <1>11 DEF RescanBegin, Deliverable
<1> QED BY <1>3, <1>4, <1>8, <1>9, <1>10, <1>11 DEF Deliver

\* A worker goes on with t: q messages, s uploads and a artifacts more, f failures.
LEMMA AccountTask ==
    ASSUME TypeInv, NEW o \in Ops, Countable(o), NEW w \in Workers, NEW t,
           worker' = [worker EXCEPT ![w] = t],
           NEW q \in {0, 1}, NEW s \in {0, 1}, NEW a \in {0, 1}, NEW f \in {0, 1},
           IsFiniteSet(Waiting(o)'), Cardinality(Waiting(o)') \in Nat,
           Cardinality(Waiting(o)') <= Cardinality(Waiting(o)) + q,
           op'[o].stored = op[o].stored + s,
           op'[o].artifacts = op[o].artifacts + a,
           Unsent(o)' => Unsent(o),
           f = 1 => faults' = faults + 1 /\ outbox[o].state # "absent",
           One(AtWork(t, o)) + q + s <= One(AtWork(worker[w], o)) + f,
           One(Uploaded(t, o)) + a <= One(Uploaded(worker[w], o)) + s
    PROVE  Accounted(o)
<1>1. worker \in [Workers -> Tasks]
  BY DEF TypeInv, TypeOK
<1>2. /\ IsFiniteSet(Running(o)') /\ IsFiniteSet(Committing(o)')
      /\ Cardinality(Running(o)) \in Nat /\ Cardinality(Running(o)') \in Nat
      /\ Cardinality(Committing(o)) \in Nat /\ Cardinality(Committing(o)') \in Nat
      /\ Cardinality(Running(o)') + One(AtWork(worker[w], o))
           = Cardinality(Running(o)) + One(AtWork(t, o))
      /\ Cardinality(Committing(o)') + One(Uploaded(worker[w], o))
           = Cardinality(Committing(o)) + One(Uploaded(t, o))
  BY <1>1, RunningStep
<1>3. /\ Cardinality(Waiting(o)) \in Nat
      /\ op[o].stored \in Nat /\ op[o].artifacts \in Nat
  BY CountsAreNumbers
<1>4. /\ One(Unsent(o)') <= One(Unsent(o))
      /\ One(Unsent(o)') \in Nat /\ One(Unsent(o)) \in Nat
      /\ One(AtWork(t, o)) \in Nat /\ One(AtWork(worker[w], o)) \in Nat
      /\ One(Uploaded(t, o)) \in Nat /\ One(Uploaded(worker[w], o)) \in Nat
  BY DEF One
<1>5. Cardinality(Running(o)') + q + s <= Cardinality(Running(o)) + f
  BY <1>2, <1>4
<1>6. Budget(o)' <= Budget(o) + f
  BY <1>2, <1>3, <1>4, <1>5 DEF Budget
<1>7. op'[o].artifacts + Cardinality(Committing(o)') + op[o].stored
         <= op[o].artifacts + Cardinality(Committing(o)) + op'[o].stored
  BY <1>2, <1>3, <1>4
<1>8. Countable(o)'
  BY <1>2 DEF Countable
<1>9. Budget(o) \in Nat
  BY <1>2, <1>3, <1>4 DEF Budget
<1>10. CASE f = 0
  BY <1>6, <1>7, <1>8, <1>9, <1>10 DEF Accounted
<1>11. CASE f = 1
  BY <1>6, <1>7, <1>8, <1>9, <1>11 DEF Accounted
<1> QED BY <1>10, <1>11

\* The same where no message is sent or lost.
LEMMA AccountQuiet ==
    ASSUME TypeInv, NEW o \in Ops, Countable(o), NEW w \in Workers, NEW t,
           worker' = [worker EXCEPT ![w] = t], UNCHANGED queue,
           NEW s \in {0, 1}, NEW a \in {0, 1},
           op'[o].stored = op[o].stored + s,
           op'[o].artifacts = op[o].artifacts + a,
           Unsent(o)' => Unsent(o),
           One(AtWork(t, o)) + s <= One(AtWork(worker[w], o)),
           One(Uploaded(t, o)) + a <= One(Uploaded(worker[w], o)) + s
    PROVE  Accounted(o)
<1>1. Waiting(o)' = Waiting(o)
  BY WaitingSame
<1>2. Cardinality(Waiting(o)) \in Nat /\ IsFiniteSet(Waiting(o))
  BY CountsAreNumbers DEF Countable
<1>3. PICK q \in {0, 1} : q = 0
  OBVIOUS
<1>4. One(AtWork(t, o)) \in Nat /\ One(AtWork(worker[w], o)) \in Nat
  BY DEF One
<1>5. /\ One(AtWork(t, o)) + q + s <= One(AtWork(worker[w], o)) + q
      /\ Cardinality(Waiting(o)') <= Cardinality(Waiting(o)) + q
  BY <1>1, <1>2, <1>3, <1>4
<1>6. q = 1 => faults' = faults + 1 /\ outbox[o].state # "absent"
  BY <1>3
<1> QED BY <1>1, <1>2, <1>5, <1>6, AccountTask

\* The same where one message is sent, and no upload is made or filed.
LEMMA AccountSend ==
    ASSUME TypeInv, NEW o \in Ops, Countable(o), NEW w \in Workers, NEW t,
           worker' = [worker EXCEPT ![w] = t],
           NEW m \in Message, queue' = With(queue, m),
           op'[o].stored = op[o].stored, op'[o].artifacts = op[o].artifacts,
           Unsent(o)' => Unsent(o),
           m \in EarlyFor(o) => AtWork(worker[w], o) /\ ~AtWork(t, o),
           AtWork(t, o) => AtWork(worker[w], o), ~Uploaded(t, o)
    PROVE  Accounted(o)
<1>1. queue \in [Message -> Nat]
  BY DEF TypeInv, TypeOK, DramatiqTypeOK
<1>2. /\ IsFiniteSet(Waiting(o)')
      /\ Cardinality(Waiting(o)) \in Nat /\ Cardinality(Waiting(o)') \in Nat
      /\ Cardinality(Waiting(o)') = Cardinality(Waiting(o)) + One(m \in EarlyFor(o))
  BY <1>1, WaitingMore DEF Countable
<1>3. PICK q \in {0, 1} : q = One(m \in EarlyFor(o))
  BY DEF One
<1>4. PICK z \in {0, 1} : z = 0
  OBVIOUS
<1>5. op[o].stored \in Nat /\ op[o].artifacts \in Nat
  BY CountsAreNumbers
<1>6. /\ One(AtWork(t, o)) + q + z <= One(AtWork(worker[w], o)) + z
      /\ One(Uploaded(t, o)) + z <= One(Uploaded(worker[w], o)) + z
      /\ op'[o].stored = op[o].stored + z /\ op'[o].artifacts = op[o].artifacts + z
  BY <1>3, <1>4, <1>5 DEF One
<1>7. Cardinality(Waiting(o)') <= Cardinality(Waiting(o)) + q
  BY <1>2, <1>3
<1>8. z = 1 => faults' = faults + 1 /\ outbox[o].state # "absent"
  BY <1>4
<1> QED BY <1>2, <1>6, <1>7, <1>8, AccountTask

\* A task that raises: its message may come back, and pays for itself or a failure.
LEMMA AccountRaise ==
    ASSUME TypeInv, NEW o \in Ops, Countable(o), NEW w \in Workers,
           worker' = [worker EXCEPT ![w] = IdleTask],
           Raise(queue, worker[w].msg) \/ queue' = With(queue, worker[w].msg),
           op'[o].stored = op[o].stored, op'[o].artifacts = op[o].artifacts,
           Unsent(o)' => Unsent(o),
           \/ worker[w].msg \in EarlyFor(o) => AtWork(worker[w], o)
           \/ faults' = faults + 1 /\ outbox[o].state # "absent"
    PROVE  Accounted(o)
<1>1. queue \in [Message -> Nat] /\ worker[w].msg \in Message
  BY DEF TypeInv, TypeOK, DramatiqTypeOK, Tasks
<1>2. PICK m \in Message : m = worker[w].msg
  BY <1>1
<1>3. /\ IsFiniteSet(Waiting(o)')
      /\ Cardinality(Waiting(o)) \in Nat /\ Cardinality(Waiting(o)') \in Nat
      /\ Cardinality(Waiting(o)') <= Cardinality(Waiting(o)) + One(m \in EarlyFor(o))
  <2>1. CASE Raise(queue, m)
    BY <1>1, <2>1, WaitingRaise DEF Countable
  <2>2. CASE queue' = With(queue, m)
    <3>1. /\ IsFiniteSet(Waiting(o)')
          /\ Cardinality(Waiting(o)) \in Nat /\ Cardinality(Waiting(o)') \in Nat
          /\ Cardinality(Waiting(o)') = Cardinality(Waiting(o)) + One(m \in EarlyFor(o))
      BY <1>1, <2>2, WaitingMore DEF Countable
    <3> QED BY <3>1 DEF One
  <2> QED BY <1>2, <2>1, <2>2
<1>4. PICK q \in {0, 1} : q = One(m \in EarlyFor(o))
  BY DEF One
<1>5. PICK z \in {0, 1} : z = 0
  OBVIOUS
<1>6. PICK f \in {0, 1} :
          f = One(~(worker[w].msg \in EarlyFor(o) => AtWork(worker[w], o)))
  BY DEF One
<1>7. f = 1 => faults' = faults + 1 /\ outbox[o].state # "absent"
  BY <1>6 DEF One
<1>8. op[o].stored \in Nat /\ op[o].artifacts \in Nat
  BY CountsAreNumbers
<1>9. ~AtWork(IdleTask, o) /\ ~Uploaded(IdleTask, o)
  BY DEF AtWork, Uploaded, IdleTask, Task
<1>10. /\ One(AtWork(IdleTask, o)) + q + z <= One(AtWork(worker[w], o)) + f
       /\ One(Uploaded(IdleTask, o)) + z <= One(Uploaded(worker[w], o)) + z
       /\ op'[o].stored = op[o].stored + z /\ op'[o].artifacts = op[o].artifacts + z
  BY <1>2, <1>4, <1>5, <1>6, <1>8, <1>9 DEF One
<1>11. Cardinality(Waiting(o)') <= Cardinality(Waiting(o)) + q
  BY <1>3, <1>4
<1> QED BY <1>3, <1>5, <1>7, <1>10, <1>11, AccountTask

\* process_scan's transaction clashes and raises, or commits and goes on.
LEMMA ScanCommitCases ==
    ASSUME NEW w \in Workers, ScanCommit(w)
    PROVE  \/ TaskRaises(w) /\ UNCHANGED <<outbox, op>>
           \/ /\ UNCHANGED <<queue, dead>>
              /\ outbox' = [outbox EXCEPT ![OpOf(w)].state = "done"]
              /\ \E D, new :
                    /\ op' = [op EXCEPT ![OpOf(w)].found = @ \cup D, ![OpOf(w)].status = new]
                    /\ worker' = [worker EXCEPT ![w] = Task("scanSend", worker[w].msg, {}, new)]
<1>1. PICK D \in Detected(OpOf(w)) :
          \/ TaskRaises(w) /\ UNCHANGED <<outbox, op>>
          \/ /\ \E answer \in OpaAnswers :
                   LET new == IF RequiresReview(D, answer) THEN "escalated"
                                                           ELSE "pending" IN
                   /\ op' = [op EXCEPT ![OpOf(w)].found = @ \cup D,
                                       ![OpOf(w)].status = new]
                   /\ Goto(w, Task("scanSend", worker[w].msg, {}, new))
             /\ outbox' = [outbox EXCEPT ![OpOf(w)].state = "done"]
             /\ UNCHANGED <<queue, dead>>
  BY DEF ScanCommit
<1>2. CASE TaskRaises(w) /\ UNCHANGED <<outbox, op>>
  BY <1>2
<1>3. CASE /\ \E answer \in OpaAnswers :
                   LET new == IF RequiresReview(D, answer) THEN "escalated"
                                                           ELSE "pending" IN
                   /\ op' = [op EXCEPT ![OpOf(w)].found = @ \cup D,
                                       ![OpOf(w)].status = new]
                   /\ Goto(w, Task("scanSend", worker[w].msg, {}, new))
           /\ outbox' = [outbox EXCEPT ![OpOf(w)].state = "done"]
           /\ UNCHANGED <<queue, dead>>
  <2>1. PICK new :
            /\ op' = [op EXCEPT ![OpOf(w)].found = @ \cup D,
                                ![OpOf(w)].status = new]
            /\ Goto(w, Task("scanSend", worker[w].msg, {}, new))
    BY <1>3, Zenon
  <2> QED BY <1>3, <2>1 DEF Goto
<1> QED BY <1>1, <1>2, <1>3

\* A task's own step passes on what it has, or uploads, or files the upload.
LEMMA AccountWork ==
    ASSUME TypeInv, NEW w \in Workers, Work(w), NEW o \in Ops, Countable(o)
    PROVE  Accounted(o)
<1> DEFINE m == worker[w].msg
           c == worker[w].pc
<1>1. /\ Busy(w) /\ m.op \in Ops /\ m \in Message
      /\ op \in [Ops -> OpRow] /\ outbox \in [Ops -> OutboxRow]
      /\ AtPointOfActor(worker[w])
      /\ worker \in [Workers -> Tasks]
  <2>1. Busy(w)
    BY DEF Work, ScanCommit, ScanSend, SanitizeCommit, SendAudit, SendRescan,
           AuditPut, AuditCommit, RescanClean, RescanFound, RescanCommit, At, Busy
  <2> QED BY <2>1 DEF TypeInv, TypeOK, OutboxTypeOK, TasksMatch, OpOf, Tasks
<1>2. /\ AtWork(worker[w], o) <=>
            m.op = o /\ c \in {"scan", "scanSend", "sanitize", "sendAudit", "audit"}
      /\ Uploaded(worker[w], o) <=> m.op = o /\ c = "auditCommit"
      /\ ~AtWork(IdleTask, o) /\ ~Uploaded(IdleTask, o)
  BY DEF AtWork, Uploaded, IdleTask, Task
<1>3. ASSUME NEW s \in Stages
      PROVE  /\ Fresh(s, m.op) \in Message
             /\ Fresh(s, m.op) \in EarlyFor(o) <=>
                   m.op = o /\ s \in {"scan", "sanitize", "audit"}
  BY <1>1, FreshMessage DEF EarlyFor
<1>4. ASSUME NEW q, NEW ks, NEW st
      PROVE  /\ AtWork(Task(q, m, ks, st), o) <=>
                   m.op = o /\ q \in {"scan", "scanSend", "sanitize", "sendAudit", "audit"}
             /\ Uploaded(Task(q, m, ks, st), o) <=> m.op = o /\ q = "auditCommit"
  BY DEF AtWork, Uploaded, Task
<1>5. UNCHANGED outbox /\ UNCHANGED relay => (Unsent(o)' => Unsent(o))
  BY DEF Unsent, Uncommitted
<1>6. op[o].stored \in Nat /\ op[o].artifacts \in Nat
  BY CountsAreNumbers
<1>7. PICK z \in {0, 1} : z = 0
  OBVIOUS
<1>8. ASSUME op'[o].stored = op[o].stored, op'[o].artifacts = op[o].artifacts,
             UNCHANGED queue, Unsent(o)' => Unsent(o),
             NEW t, worker' = [worker EXCEPT ![w] = t],
             AtWork(t, o) => AtWork(worker[w], o), ~Uploaded(t, o)
      PROVE  Accounted(o)
  <2>1. /\ op'[o].stored = op[o].stored + z /\ op'[o].artifacts = op[o].artifacts + z
        /\ One(AtWork(t, o)) + z <= One(AtWork(worker[w], o))
        /\ One(Uploaded(t, o)) + z <= One(Uploaded(worker[w], o)) + z
    BY <1>6, <1>7, <1>8 DEF One
  <2> QED BY <1>8, <2>1, AccountQuiet
<1>9. CASE ScanCommit(w)
  <2>1. c = "scan" /\ UNCHANGED <<relay, faults, imported>>
    BY <1>9 DEF ScanCommit, At
  <2>2. \/ TaskRaises(w) /\ UNCHANGED <<outbox, op>>
        \/ /\ UNCHANGED queue
           /\ outbox' = [outbox EXCEPT ![m.op].state = "done"]
           /\ \E D, new :
                 /\ op' = [op EXCEPT ![m.op].found = @ \cup D, ![m.op].status = new]
                 /\ worker' = [worker EXCEPT ![w] = Task("scanSend", m, {}, new)]
    BY <1>9, ScanCommitCases DEF OpOf
  <2>3. CASE TaskRaises(w) /\ UNCHANGED <<outbox, op>>
    <3>1. Unsent(o)' => Unsent(o)
      BY <1>5, <2>1, <2>3
    <3>2. m \in EarlyFor(o) => AtWork(worker[w], o)
      BY <1>2, <2>1 DEF EarlyFor
    <3>3. worker' = [worker EXCEPT ![w] = IdleTask] /\ Raise(queue, m)
      BY <2>3 DEF TaskRaises, Goto
    <3> QED BY <2>3, <3>1, <3>2, <3>3, AccountRaise
  <2>4. CASE UNCHANGED queue /\ outbox' = [outbox EXCEPT ![m.op].state = "done"]
             /\ \E D, new :
                 /\ op' = [op EXCEPT ![m.op].found = @ \cup D, ![m.op].status = new]
                 /\ worker' = [worker EXCEPT ![w] = Task("scanSend", m, {}, new)]
    <3>1. PICK D, new :
                 /\ op' = [op EXCEPT ![m.op].found = @ \cup D, ![m.op].status = new]
                 /\ worker' = [worker EXCEPT ![w] = Task("scanSend", m, {}, new)]
      BY <2>4
    <3>2. op'[o].stored = op[o].stored /\ op'[o].artifacts = op[o].artifacts
      BY <1>1, <3>1 DEF OpRow
    <3>3. outbox'[o].state = "new" => outbox'[o].state = outbox[o].state
      BY <1>1, <2>4 DEF OutboxRow
    <3>4. Unsent(o)' => Unsent(o)
      BY <2>1, <3>3 DEF Unsent, Uncommitted
    <3> HIDE DEF m, c
    <3> QED BY <1>2, <1>4, <1>8, <2>1, <2>4, <3>1, <3>2, <3>4
  <2> QED BY <2>2, <2>3, <2>4
<1>10. CASE ScanSend(w)
  <2>1. PICK s \in Stages : queue' = With(queue, Fresh(s, m.op))
    BY <1>10 DEF ScanSend, OpOf, Stages
  <2>2. /\ c = "scanSend" /\ worker' = [worker EXCEPT ![w] = IdleTask]
        /\ UNCHANGED <<outbox, relay, op>>
    BY <1>10 DEF ScanSend, Goto, At
  <2>3. PICK n \in Message : n = Fresh(s, m.op)
    BY <1>3
  <2>4. n \in EarlyFor(o) => AtWork(worker[w], o)
    BY <1>2, <1>3, <2>2, <2>3
  <2> QED BY <1>2, <1>5, <2>1, <2>2, <2>3, <2>4, AccountSend
<1>11. CASE SanitizeCommit(w)
  <2>1. PICK red, san :
            op' = [op EXCEPT ![m.op].redacted = red, ![m.op].sanitized = san]
    BY <1>11 DEF SanitizeCommit, OpOf
  <2>2. /\ c = "sanitize" /\ UNCHANGED <<queue, outbox, relay>>
        /\ worker' = [worker EXCEPT ![w] = Task("sendAudit", m, {}, "absent")]
    BY <1>11 DEF SanitizeCommit, Goto, At
  <2>3. op'[o].stored = op[o].stored /\ op'[o].artifacts = op[o].artifacts
    BY <1>1, <2>1 DEF OpRow
  <2> HIDE DEF m, c
  <2> QED BY <1>2, <1>4, <1>5, <1>8, <2>2, <2>3
<1>12. CASE SendAudit(w)
  <2>1. /\ c = "sendAudit" /\ UNCHANGED <<outbox, relay, op>>
        /\ worker' = [worker EXCEPT ![w] = Task("sendRescan", m, {}, "absent")]
        /\ queue' = With(queue, Fresh("audit", m.op))
    BY <1>12 DEF SendAudit, Goto, At, OpOf
  <2>2. PICK n \in Message : n = Fresh("audit", m.op)
    BY <1>3 DEF Stages
  <2>3. n \in EarlyFor(o) => AtWork(worker[w], o)
    BY <1>2, <1>3, <2>1, <2>2 DEF Stages
  <2>4. PICK t : t = Task("sendRescan", m, {}, "absent")
    OBVIOUS
  <2>5. ~AtWork(t, o) /\ ~Uploaded(t, o)
    BY <1>4, <2>4
  <2> QED BY <1>5, <2>1, <2>2, <2>3, <2>4, <2>5, AccountSend
<1>13. CASE SendRescan(w)
  <2>1. /\ c = "sendRescan" /\ UNCHANGED <<outbox, relay, op>>
        /\ worker' = [worker EXCEPT ![w] = IdleTask]
        /\ queue' = With(queue, Fresh("rescan", m.op))
    BY <1>13 DEF SendRescan, Goto, At, OpOf
  <2>2. PICK n \in Message : n = Fresh("rescan", m.op)
    BY <1>3 DEF Stages
  <2>3. n \notin EarlyFor(o)
    BY <1>3, <2>2 DEF Stages
  <2> QED BY <1>2, <1>5, <2>1, <2>2, <2>3, AccountSend
<1>14. CASE AuditPut(w)
  <2>1. /\ c = "audit" /\ UNCHANGED <<queue, outbox, relay>>
        /\ op' = [op EXCEPT ![m.op].stored = @ + 1]
        /\ worker' = [worker EXCEPT ![w].pc = "auditCommit"]
    BY <1>14 DEF AuditPut, At, OpOf
  <2>2. PICK t : t = [worker[w] EXCEPT !.pc = "auditCommit"]
    OBVIOUS
  <2>3. worker' = [worker EXCEPT ![w] = t] /\ t.msg = m /\ t.pc = "auditCommit"
    BY <1>1, <2>1, <2>2 DEF Tasks
  <2>4. PICK s \in {0, 1} : s = One(m.op = o)
    BY DEF One
  <2>5. op'[o].stored = op[o].stored + s /\ op'[o].artifacts = op[o].artifacts + z
    <3>1. op[m.op].stored + 1 \in Nat
      BY <1>1 DEF OpRow
    <3>2. op'[o].stored = IF m.op = o THEN op[o].stored + 1 ELSE op[o].stored
      BY <1>1, <2>1 DEF OpRow
    <3>3. op'[o].artifacts = op[o].artifacts
      BY <1>1, <2>1 DEF OpRow
    <3> QED BY <1>6, <1>7, <2>4, <3>2, <3>3 DEF One
  <2>6. /\ ~AtWork(t, o) /\ (Uploaded(t, o) <=> m.op = o)
        /\ (AtWork(worker[w], o) <=> m.op = o)
    BY <1>2, <2>1, <2>3 DEF AtWork, Uploaded
  <2>7. /\ One(AtWork(t, o)) + s <= One(AtWork(worker[w], o))
        /\ One(Uploaded(t, o)) + z <= One(Uploaded(worker[w], o)) + s
    BY <1>7, <2>4, <2>6 DEF One
  <2> QED BY <1>5, <2>1, <2>3, <2>5, <2>7, AccountQuiet
<1>15. CASE AuditCommit(w)
  <2>1. PICK st :
            op' = [op EXCEPT ![m.op].artifacts = @ + 1, ![m.op].status = st,
                             ![m.op].sealed = TRUE]
    BY <1>15 DEF AuditCommit, OpOf
  <2>2. /\ c = "auditCommit" /\ UNCHANGED <<queue, outbox, relay>>
        /\ worker' = [worker EXCEPT ![w] = IdleTask]
    BY <1>15 DEF AuditCommit, Goto, At
  <2>3. PICK a \in {0, 1} : a = One(m.op = o)
    BY DEF One
  <2>4. op'[o].stored = op[o].stored + z /\ op'[o].artifacts = op[o].artifacts + a
    <3>1. op'[o].artifacts = IF m.op = o THEN op[o].artifacts + 1 ELSE op[o].artifacts
      BY <1>1, <2>1 DEF OpRow
    <3>2. op'[o].stored = op[o].stored
      BY <1>1, <2>1 DEF OpRow
    <3> QED BY <1>6, <1>7, <2>3, <3>1, <3>2 DEF One
  <2>5. /\ One(AtWork(IdleTask, o)) + z <= One(AtWork(worker[w], o))
        /\ One(Uploaded(IdleTask, o)) + a <= One(Uploaded(worker[w], o)) + z
    BY <1>2, <1>7, <2>2, <2>3 DEF One
  <2> QED BY <1>5, <2>2, <2>4, <2>5, AccountQuiet
<1>16. CASE RescanClean(w)
  <2>1. \/ UNCHANGED op
        \/ \E st : op' = [op EXCEPT ![m.op].status = st]
    BY <1>16 DEF RescanClean, OpOf
  <2>2. UNCHANGED <<queue, outbox, relay>> /\ worker' = [worker EXCEPT ![w] = IdleTask]
    BY <1>16 DEF RescanClean, Goto
  <2>3. ASSUME NEW st, op' = [op EXCEPT ![m.op].status = st]
        PROVE  op'[o].stored = op[o].stored /\ op'[o].artifacts = op[o].artifacts
    BY <1>1, <2>3 DEF OpRow
  <2>4. op'[o].stored = op[o].stored /\ op'[o].artifacts = op[o].artifacts
    BY <2>1, <2>3, Zenon
  <2> QED BY <1>2, <1>5, <1>8, <2>2, <2>4
<1>17. ASSUME c \in {"rescan", "rescanCommit"}, TaskRaises(w),
              UNCHANGED <<outbox, relay, op>>
       PROVE  Accounted(o)
  <2>1. m \notin EarlyFor(o)
    BY <1>1, <1>17 DEF AtPointOfActor, EarlyFor
  <2>2. worker' = [worker EXCEPT ![w] = IdleTask] /\ Raise(queue, m)
    BY <1>17 DEF TaskRaises, Goto
  <2> QED BY <1>5, <1>17, <2>1, <2>2, AccountRaise
<1>18. CASE RescanFound(w)
  <2>1. c = "rescan" /\ UNCHANGED <<outbox, relay, op>>
    BY <1>18 DEF RescanFound, At
  <2>2. \/ TaskRaises(w)
        \/ /\ queue' = With(queue, Fresh("review", m.op))
           /\ worker' = [worker EXCEPT ![w].pc = "rescanCommit"]
    BY <1>18 DEF RescanFound, OpOf
  <2>3. ASSUME queue' = With(queue, Fresh("review", m.op)),
               worker' = [worker EXCEPT ![w].pc = "rescanCommit"]
        PROVE  Accounted(o)
    <3>1. PICK t : t = [worker[w] EXCEPT !.pc = "rescanCommit"]
      OBVIOUS
    <3>2. worker' = [worker EXCEPT ![w] = t] /\ t.msg = m /\ t.pc = "rescanCommit"
      BY <1>1, <2>3, <3>1 DEF Tasks
    <3>3. PICK n \in Message : n = Fresh("review", m.op)
      BY <1>3 DEF Stages
    <3>4. n \notin EarlyFor(o)
      BY <1>3, <3>3 DEF Stages
    <3>5. ~AtWork(t, o) /\ ~Uploaded(t, o)
      BY <3>2 DEF AtWork, Uploaded
    <3> QED BY <1>5, <2>1, <2>3, <3>2, <3>3, <3>4, <3>5, AccountSend
  <2> QED BY <1>17, <2>1, <2>2, <2>3
<1>19. CASE RescanCommit(w)
  <2>1. c = "rescanCommit" /\ UNCHANGED <<outbox, relay>>
    BY <1>19 DEF RescanCommit, At
  <2>2. \/ TaskRaises(w) /\ UNCHANGED op
        \/ /\ \E D, st : op' = [op EXCEPT ![m.op].residual = @ \cup D,
                                          ![m.op].status = st]
           /\ UNCHANGED queue /\ worker' = [worker EXCEPT ![w] = IdleTask]
    BY <1>19 DEF RescanCommit, OpOf, Goto
  <2>3. ASSUME NEW D, NEW st, op' = [op EXCEPT ![m.op].residual = @ \cup D,
                                               ![m.op].status = st]
        PROVE  op'[o].stored = op[o].stored /\ op'[o].artifacts = op[o].artifacts
    BY <1>1, <2>3 DEF OpRow
  <2> HIDE DEF m, c
  <2> QED BY <1>2, <1>5, <1>8, <1>17, <2>1, <2>2, <2>3
<1> QED BY <1>9, <1>10, <1>11, <1>12, <1>13, <1>14, <1>15, <1>16, <1>18, <1>19 DEF Work

\* A relay step that adds q messages and f failures.
LEMMA AccountQueue ==
    ASSUME TypeInv, NEW o \in Ops, Countable(o), UNCHANGED <<op, worker>>,
           NEW q \in {0, 1}, NEW f \in {0, 1},
           IsFiniteSet(Waiting(o)'), Cardinality(Waiting(o)') \in Nat,
           Cardinality(Waiting(o)') <= Cardinality(Waiting(o)) + q,
           One(Unsent(o)') + q <= One(Unsent(o)) + f,
           f = 1 => faults' = faults + 1 /\ outbox[o].state # "absent"
    PROVE  Accounted(o)
<1>1. Running(o)' = Running(o) /\ Committing(o)' = Committing(o)
  BY DEF Running, Committing
<1>2. /\ Cardinality(Waiting(o)) \in Nat /\ Cardinality(Running(o)) \in Nat
      /\ Cardinality(Committing(o)) \in Nat
      /\ op[o].stored \in Nat /\ op[o].artifacts \in Nat
  BY CountsAreNumbers
<1>3. One(Unsent(o)') \in Nat /\ One(Unsent(o)) \in Nat
  BY DEF One
<1>4. Countable(o)'
  BY <1>1 DEF Countable
<1>5. Budget(o)' <= Budget(o) + f /\ Budget(o) \in Nat
  BY <1>1, <1>2, <1>3 DEF Budget
<1>6. CASE f = 0
  BY <1>1, <1>2, <1>4, <1>5, <1>6 DEF Accounted
<1>7. CASE f = 1
  BY <1>1, <1>2, <1>4, <1>5, <1>7 DEF Accounted
<1> QED BY <1>6, <1>7

\* A relay sends a row once, unless it is rolled back.
LEMMA AccountRelay ==
    ASSUME TypeInv, RowsKnown, RelayedOnce, NEW r \in Relays,
           Relay(r) \/ RelayFails(r), NEW o \in Ops, Countable(o)
    PROVE  Accounted(o)
<1>1. /\ UNCHANGED <<op, worker>>
      /\ relay \in [Relays -> [batch : SUBSET Ops, todo : SUBSET Ops]]
      /\ outbox \in [Ops -> OutboxRow]
      /\ queue \in [Message -> Nat]
  BY DEF Relay, RelayFails, TypeInv, TypeOK, OutboxTypeOK, DramatiqTypeOK
<1>2. ASSUME UNCHANGED queue, Unsent(o)' => Unsent(o)
      PROVE  Accounted(o)
  <2>1. Running(o)' = Running(o) /\ Committing(o)' = Committing(o)
    BY <1>1 DEF Running, Committing
  <2> QED BY <1>1, <1>2, <2>1, NotConcerned
<1>3. CASE RelaySelect(r)
  <2>1. /\ UNCHANGED <<outbox, queue>> /\ relay[r] = RelayIdle
        /\ \E B : relay' = [relay EXCEPT ![r] = [batch |-> B, todo |-> B]]
    BY <1>3 DEF RelaySelect
  <2>2. \A s \in Relays : o \in relay'[s].batch \ relay'[s].todo <=>
                            o \in relay[s].batch \ relay[s].todo
    BY <1>1, <2>1 DEF RelayIdle
  <2>3. Unsent(o)' => Unsent(o)
    BY <2>1, <2>2 DEF Unsent, Uncommitted
  <2> QED BY <1>2, <2>1, <2>3
<1>4. CASE RelaySend(r)
  <2>1. PICK p \in relay[r].todo :
            /\ queue' = With(queue, Fresh("scan", outbox[p].id))
            /\ relay' = [relay EXCEPT ![r].todo = @ \ {p}]
            /\ UNCHANGED <<outbox, faults, dead>>
    BY <1>4 DEF RelaySend
  <2>2. /\ p \in Ops /\ p \in relay[r].batch /\ outbox[p].state = "new"
        /\ outbox[p].id \in {p, NoneId}
    BY <1>1, <2>1 DEF RowsKnown, RelayedOnce
  <2>3. PICK n \in Message : n = Fresh("scan", outbox[p].id) /\ n.op = outbox[p].id
    BY <2>2, FreshMessage DEF Stages
  <2>4. n \in EarlyFor(o) => p = o
    BY <2>2, <2>3, DramatiqAssumption DEF EarlyFor
  <2>5. /\ IsFiniteSet(Waiting(o)')
        /\ Cardinality(Waiting(o)) \in Nat /\ Cardinality(Waiting(o)') \in Nat
        /\ Cardinality(Waiting(o)') = Cardinality(Waiting(o)) + One(n \in EarlyFor(o))
    BY <1>1, <2>1, <2>3, WaitingMore DEF Countable
  <2>6. /\ relay'[r].todo = relay[r].todo \ {p} /\ relay'[r].batch = relay[r].batch
        /\ \A s \in Relays : s # r => relay'[s] = relay[s]
    BY <1>1, <2>1
  <2>7. Unsent(o)' => Unsent(o)
    BY <2>1, <2>6 DEF Unsent, Uncommitted
  <2>8. p = o => Unsent(o) /\ ~Unsent(o)'
    <3> SUFFICES ASSUME p = o PROVE Unsent(o) /\ ~Unsent(o)'
      OBVIOUS
    <3>1. \A s \in Relays : s # r => o \notin relay[s].batch
      BY <2>2 DEF RelayedOnce
    <3>2. Uncommitted(o) = {}
      BY <2>1, <3>1 DEF Uncommitted
    <3>3. r \in Uncommitted(o)'
      BY <2>2, <2>6 DEF Uncommitted
    <3> QED BY <2>2, <3>2, <3>3 DEF Unsent
  <2>9. PICK q \in {0, 1} : q = One(n \in EarlyFor(o))
    BY DEF One
  <2>10. PICK f \in {0, 1} : f = 0
    OBVIOUS
  <2>11. One(Unsent(o)') + q <= One(Unsent(o)) + f
    BY <2>4, <2>7, <2>8, <2>9, <2>10 DEF One
  <2>12. f = 1 => faults' = faults + 1 /\ outbox[o].state # "absent"
    BY <2>10
  <2>13. Cardinality(Waiting(o)') <= Cardinality(Waiting(o)) + q
    BY <2>5, <2>9
  <2> QED BY <1>1, <2>5, <2>11, <2>12, <2>13, AccountQueue
<1>5. CASE RelayCommit(r)
  <2>1. /\ relay[r].todo = {} /\ UNCHANGED queue
        /\ outbox' = [x \in Ops |-> IF x \in relay[r].batch
                                    THEN [outbox[x] EXCEPT !.state = "done"]
                                    ELSE outbox[x]]
        /\ relay' = [relay EXCEPT ![r] = RelayIdle]
    BY <1>5 DEF RelayCommit
  <2>2. Unsent(o)' => Unsent(o)
    <3> SUFFICES ASSUME Unsent(o)' PROVE Unsent(o)
      OBVIOUS
    <3>1. o \notin relay[r].batch /\ outbox[o].state = "new"
      BY <1>1, <2>1 DEF Unsent, OutboxRow
    <3>2. \A s \in Relays : s # r => relay'[s] = relay[s]
      BY <1>1, <2>1
    <3>3. Uncommitted(o) = {}
      BY <3>1, <3>2 DEF Unsent, Uncommitted
    <3> QED BY <3>1, <3>3 DEF Unsent
  <2> QED BY <1>2, <2>1, <2>2
<1>6. CASE RelayAbort(r)
  <2>1. /\ UNCHANGED <<outbox, queue>> /\ faults' = faults + 1
        /\ relay' = [relay EXCEPT ![r] = RelayIdle]
    BY <1>6 DEF RelayAbort
  <2>2. CASE o \in relay[r].batch
    <3>1. outbox[o].state # "absent"
      BY <2>2 DEF RowsKnown
    <3>2. Waiting(o)' = Waiting(o)
      BY <2>1, WaitingSame
    <3>3. Cardinality(Waiting(o)) \in Nat /\ IsFiniteSet(Waiting(o))
      BY CountsAreNumbers DEF Countable
    <3>4. PICK q \in {0, 1} : q = 0
      OBVIOUS
    <3>5. PICK f \in {0, 1} : f = 1
      OBVIOUS
    <3>6. One(Unsent(o)') + q <= One(Unsent(o)) + f
      BY <3>4, <3>5 DEF One
    <3>7. Cardinality(Waiting(o)') <= Cardinality(Waiting(o)) + q
      BY <3>2, <3>3, <3>4
    <3> QED BY <1>1, <2>1, <3>1, <3>2, <3>3, <3>6, <3>7, AccountQueue
  <2>3. CASE o \notin relay[r].batch
    <3>1. \A s \in Relays : o \in relay'[s].batch \ relay'[s].todo <=>
                              o \in relay[s].batch \ relay[s].todo
      BY <1>1, <2>1, <2>3 DEF RelayIdle
    <3>2. Unsent(o)' => Unsent(o)
      BY <2>1, <3>1 DEF Unsent, Uncommitted
    <3> QED BY <1>2, <2>1, <3>2
  <2> QED BY <2>2, <2>3
<1> QED BY <1>3, <1>4, <1>5, <1>6 DEF Relay, RelayFails, RelayStep

\* A failure puts back one message at most.
LEMMA AccountFaults ==
    ASSUME TypeInv, RowsKnown, NEW w \in Workers, TaskFails(w) \/ Crash(w),
           NEW o \in Ops, Countable(o)
    PROVE  Accounted(o)
<1>1. /\ worker \in [Workers -> Tasks] /\ UNCHANGED <<outbox, relay, op>>
      /\ faults' = faults + 1
      /\ worker' = [worker EXCEPT ![w] = IdleTask]
  BY DEF TaskFails, Crash, TaskRaises, Goto, TypeInv, TypeOK
<1>2. Unsent(o)' => Unsent(o)
  BY <1>1 DEF Unsent, Uncommitted
<1>3. CASE Busy(w)
  <2>1. Raise(queue, worker[w].msg) \/ queue' = With(queue, worker[w].msg)
    BY <1>3 DEF TaskFails, Crash, TaskRaises
  <2>2. worker[w].msg \in EarlyFor(o) => outbox[o].state # "absent"
    BY <1>3 DEF EarlyFor, RowsKnown, OpOf
  <2> QED BY <1>1, <1>2, <2>1, <2>2, AccountRaise
<1>4. CASE ~Busy(w)
  <2>1. UNCHANGED queue
    BY <1>4 DEF TaskFails, Crash
  <2>2. /\ ~AtWork(IdleTask, o) /\ ~Uploaded(IdleTask, o)
        /\ ~AtWork(worker[w], o) /\ ~Uploaded(worker[w], o)
    BY <1>4 DEF AtWork, Uploaded, IdleTask, Task, Busy
  <2>3. PICK z \in {0, 1} : z = 0
    OBVIOUS
  <2>4. op[o].stored \in Nat /\ op[o].artifacts \in Nat
    BY CountsAreNumbers
  <2>5. /\ One(AtWork(IdleTask, o)) + z <= One(AtWork(worker[w], o))
        /\ One(Uploaded(IdleTask, o)) + z <= One(Uploaded(worker[w], o)) + z
        /\ op'[o].stored = op[o].stored + z /\ op'[o].artifacts = op[o].artifacts + z
    BY <1>1, <2>2, <2>3, <2>4 DEF One
  <2> QED BY <1>1, <1>2, <2>1, <2>5, AccountQuiet
<1> QED BY <1>3, <1>4

\* A request opens the account of its operation with one upload.
LEMMA AccountAccept ==
    ASSUME TypeInv, NEW p \in Ops, scan(p) \/ tool_scan(p), NEW o \in Ops, Countable(o)
    PROVE  /\ o # p => Accounted(o)
           /\ Countable(o)'
           /\ Budget(o)' \in Nat /\ Budget(o)' <= Budget(o) + 1
           /\ Cardinality(Committing(o)') = Cardinality(Committing(o))
           /\ op'[o].artifacts = op[o].artifacts /\ op'[o].stored = op[o].stored
<1>1. /\ op \in [Ops -> OpRow] /\ outbox \in [Ops -> OutboxRow]
      /\ UNCHANGED <<queue, relay, worker>>
      /\ \E id : AddRow(p, id)
      /\ \E text, blank :
            op' = [op EXCEPT ![p].status = "pending", ![p].text = text,
                             ![p].blank = blank]
  BY DEF scan, tool_scan, Accept, TypeInv, TypeOK, OutboxTypeOK
<1>2. op'[o].artifacts = op[o].artifacts /\ op'[o].stored = op[o].stored
  <2>1. PICK text, blank :
            op' = [op EXCEPT ![p].status = "pending", ![p].text = text,
                             ![p].blank = blank]
    BY <1>1
  <2> QED BY <1>1, <2>1 DEF OpRow
<1>3. Waiting(o)' = Waiting(o)
  BY <1>1, WaitingSame
<1>4. Running(o)' = Running(o) /\ Committing(o)' = Committing(o)
  BY <1>1 DEF Running, Committing
<1>5. o # p => (Unsent(o)' => Unsent(o))
  BY <1>1 DEF AddRow, Unsent, Uncommitted
<1>6. o # p => Accounted(o)
  BY <1>1, <1>2, <1>4, <1>5, NotConcerned
<1>7. /\ Cardinality(Waiting(o)) \in Nat /\ Cardinality(Running(o)) \in Nat
      /\ op[o].stored \in Nat
  BY CountsAreNumbers
<1>8. One(Unsent(o)') <= One(Unsent(o)) + 1 /\ One(Unsent(o)') \in Nat /\ One(Unsent(o)) \in Nat
  BY DEF One
<1>9. Budget(o)' \in Nat /\ Budget(o)' <= Budget(o) + 1
  BY <1>2, <1>3, <1>4, <1>7, <1>8 DEF Budget
<1> QED BY <1>2, <1>3, <1>4, <1>6, <1>9 DEF Countable

\* No step lets two relays have a row, or locks one that is done.
LEMMA RelayedOnceStep ==
    ASSUME TypeInv, RowsKnown, RelayedOnce, Next PROVE RelayedOnce'
<1>1. /\ relay \in [Relays -> [batch : SUBSET Ops, todo : SUBSET Ops]]
      /\ outbox \in [Ops -> OutboxRow]
      /\ \A r, s \in Relays : r # s => relay[r].batch \cap relay[s].batch = {}
      /\ \A r \in Relays : \A o \in relay[r].batch : outbox[o].state = "new"
      /\ \A o \in Ops : outbox[o].id \in {o, NoneId}
  BY DEF TypeInv, TypeOK, OutboxTypeOK, RelayedOnce
<1>2. CASE UNCHANGED <<outbox, relay>>
  BY <1>1, <1>2 DEF RelayedOnce
<1>3. ASSUME NEW p \in Ops, scan(p) \/ tool_scan(p) PROVE RelayedOnce'
  <2>1. UNCHANGED relay /\ \E id \in {p, NoneId} : AddRow(p, id)
    BY <1>3 DEF scan, tool_scan, Accept
  <2>2. /\ outbox'[p].state = "new" /\ outbox'[p].id \in {p, NoneId}
        /\ \A o \in Ops : o # p => outbox'[o] = outbox[o]
    BY <1>1, <2>1 DEF AddRow
  <2>3. \A r \in Relays : \A o \in relay[r].batch : o \in Ops
    BY <1>1
  <2> QED BY <1>1, <2>1, <2>2, <2>3 DEF RelayedOnce
<1>4. ASSUME NEW w \in Workers, Work(w) PROVE RelayedOnce'
  <2>1. CASE UNCHANGED <<outbox, relay>>
    BY <1>2, <2>1
  <2>2. CASE /\ outbox' = [outbox EXCEPT ![OpOf(w)].state = "done"]
             /\ ~RowLocked(OpOf(w)) /\ UNCHANGED relay
    <3>1. \A r \in Relays : \A o \in relay[r].batch : o \in Ops /\ o # OpOf(w)
      BY <1>1, <2>2 DEF RowLocked
    <3>2. \A o \in Ops : /\ outbox'[o].id = outbox[o].id
                         /\ o # OpOf(w) => outbox'[o].state = outbox[o].state
      BY <1>1, <2>2 DEF OutboxRow
    <3> QED BY <1>1, <2>2, <3>1, <3>2 DEF RelayedOnce
  <2>3. CASE ScanCommit(w)
    BY <2>1, <2>2, <2>3 DEF ScanCommit
  <2> QED BY <1>4, <2>1, <2>3
      DEF Work, ScanSend, SanitizeCommit, SendAudit, SendRescan,
          AuditPut, AuditCommit, RescanClean, RescanFound, RescanCommit
<1>5. ASSUME NEW w \in Workers, NEW m \in Message, Deliver(w, m) PROVE RelayedOnce'
  BY <1>2, <1>5 DEF Deliver, BadId, ScanBegin, SanitizeBegin, AuditBegin, RescanBegin,
                    ProcessReview, Begin
<1>6. ASSUME NEW w \in Workers, TaskFails(w) \/ Crash(w) PROVE RelayedOnce'
  BY <1>2, <1>6 DEF TaskFails, Crash
<1>7. ASSUME NEW r \in Relays, Relay(r) \/ RelayFails(r) PROVE RelayedOnce'
  <2>1. CASE RelaySelect(r)
    <3>1. PICK B \in SUBSET {o \in Ops : outbox[o].state = "new" /\ ~RowLocked(o)} :
              relay' = [relay EXCEPT ![r] = [batch |-> B, todo |-> B]]
      BY <2>1 DEF RelaySelect
    <3>2. /\ relay'[r].batch = B
          /\ \A s \in Relays : s # r => relay'[s].batch = relay[s].batch
          /\ UNCHANGED outbox
      BY <1>1, <2>1, <3>1 DEF RelaySelect
    <3>3. \A s \in Relays : B \cap relay[s].batch = {}
      BY DEF RowLocked
    <3>4. \A o \in B : outbox[o].state = "new"
      OBVIOUS
    <3> QED BY <1>1, <3>2, <3>3, <3>4 DEF RelayedOnce
  <2>2. CASE RelaySend(r)
    <3>1. UNCHANGED outbox /\ \A s \in Relays : relay'[s].batch = relay[s].batch
      BY <1>1, <2>2 DEF RelaySend
    <3> QED BY <1>1, <3>1 DEF RelayedOnce
  <2>3. CASE RelayCommit(r) \/ RelayAbort(r)
    <3>1. /\ relay'[r].batch = {}
          /\ \A s \in Relays : s # r => relay'[s].batch = relay[s].batch
      BY <1>1, <2>3 DEF RelayCommit, RelayAbort, RelayIdle
    <3>2. \A o \in Ops : /\ outbox'[o].id = outbox[o].id
                         /\ o \notin relay[r].batch => outbox'[o].state = outbox[o].state
      BY <1>1, <2>3 DEF RelayCommit, RelayAbort, OutboxRow
    <3>3. \A s \in Relays : \A o \in relay[s].batch : o \in Ops
      BY <1>1
    <3> QED BY <1>1, <3>1, <3>2, <3>3 DEF RelayedOnce
  <2> QED BY <1>7, <2>1, <2>2, <2>3 DEF Relay, RelayFails, RelayStep
<1> QED BY <1>3, <1>4, <1>5, <1>6, <1>7 DEF Next, WorkerStep

\* Initially nothing waits and nothing is uploaded.
LEMMA UploadInvInit == Init => UploadInv
<1> SUFFICES ASSUME Init PROVE UploadInv
  OBVIOUS
<1>1. RelayedOnce
  BY DEF Init, OutboxInit, RelayIdle, RelayedOnce
<1>2. ASSUME NEW o \in Ops
      PROVE  /\ Countable(o)
             /\ Budget(o) <= IF outbox[o].state = "absent" THEN 0 ELSE faults + 1
             /\ op[o].artifacts + Cardinality(Committing(o)) <= op[o].stored
  <2>1. outbox[o].state = "absent" /\ op[o].stored = 0 /\ op[o].artifacts = 0
    BY DEF Init, OutboxInit, NoOp
  <2>2. ~Unsent(o)
    BY <2>1 DEF Unsent
  <2>3. Waiting(o) = {}
    <3> SUFFICES ASSUME NEW m \in EarlyFor(o), NEW i \in 1 .. queue[m] PROVE FALSE
      BY WaitingHas
    <3>1. queue[m] = 0
      BY DEF Init, DramatiqInit, EarlyFor
    <3> QED BY <3>1
  <2>4. Running(o) = {} /\ Committing(o) = {}
    BY DEF Init, IdleTask, Task, Running, Committing, AtWork, Uploaded
  <2>5. IsFiniteSet({}) /\ Cardinality({}) = 0
    BY FS_EmptySet
  <2>6. Budget(o) = 0
    BY <2>1, <2>2, <2>3, <2>4, <2>5 DEF Budget, One
  <2> QED BY <2>1, <2>3, <2>4, <2>5, <2>6 DEF Countable
<1> QED BY <1>1, <1>2 DEF UploadInv

\* Every step keeps the accounts in balance.
LEMMA UploadInvStep == TrackInv /\ TrackInv' /\ UploadInv /\ [Next]_vars => UploadInv'
<1> SUFFICES ASSUME TrackInv, TrackInv', UploadInv, [Next]_vars PROVE UploadInv'
  OBVIOUS
<1>1. CASE UNCHANGED vars
  <2>1. RelayedOnce'
    BY <1>1 DEF vars, UploadInv, RelayedOnce
  <2>2. ASSUME NEW o \in Ops
        PROVE  /\ Waiting(o)' = Waiting(o) /\ Running(o)' = Running(o)
               /\ Committing(o)' = Committing(o) /\ Unsent(o)' = Unsent(o)
               /\ UNCHANGED <<outbox, faults, op>>
    <3>1. UNCHANGED <<queue, worker, outbox, relay, faults, op>>
      BY <1>1 DEF vars
    <3> QED BY <3>1, WaitingSame DEF Running, Committing, Unsent, Uncommitted
  <2>3. ASSUME NEW o \in Ops
        PROVE  /\ Countable(o)'
               /\ Budget(o)' <= IF outbox'[o].state = "absent" THEN 0 ELSE faults' + 1
               /\ op'[o].artifacts + Cardinality(Committing(o)') <= op'[o].stored
    BY <2>2 DEF UploadInv, Countable, Budget
  <2> QED BY <2>1, <2>3 DEF UploadInv
<1>2. CASE Next
  <2>1. TypeInv /\ RowsKnown /\ RelayedOnce /\ faults \in Nat
    BY RelayAssumption DEF TrackInv, SealInv, UploadInv, TypeInv, TypeOK, OutboxTypeOK
  <2>2. RelayedOnce'
    BY <1>2, <2>1, RelayedOnceStep
  <2>3. ASSUME NEW o \in Ops
        PROVE  /\ Countable(o)'
               /\ Budget(o)' <= IF outbox'[o].state = "absent" THEN 0 ELSE faults' + 1
               /\ op'[o].artifacts + Cardinality(Committing(o)') <= op'[o].stored
    <3>1. /\ Countable(o)
          /\ Budget(o) <= IF outbox[o].state = "absent" THEN 0 ELSE faults + 1
          /\ op[o].artifacts + Cardinality(Committing(o)) <= op[o].stored
      BY DEF UploadInv
    <3>2. /\ Budget(o) \in Nat /\ Cardinality(Committing(o)) \in Nat
          /\ op[o].stored \in Nat /\ op[o].artifacts \in Nat
      BY <2>1, <3>1, CountsAreNumbers DEF Budget
    <3>3. OutboxStep(o)
      BY <1>2, <2>1, OutboxSteps
    <3>4. faults' \in {faults, faults + 1}
      <4>1. ASSUME NEW p \in Ops, scan(p) \/ tool_scan(p) PROVE UNCHANGED faults
        BY <4>1 DEF scan, tool_scan, Accept
      <4>2. ASSUME NEW w \in Workers, Work(w) PROVE UNCHANGED faults
        BY <4>2 DEF Work, ScanCommit, ScanSend, SanitizeCommit, SendAudit, SendRescan,
                    AuditPut, AuditCommit, RescanClean, RescanFound, RescanCommit
      <4>3. ASSUME NEW w \in Workers, NEW m \in Message, Deliver(w, m)
            PROVE  UNCHANGED faults
        BY <4>3 DEF Deliver, BadId, ScanBegin, SanitizeBegin, AuditBegin, RescanBegin,
                    ProcessReview, Begin
      <4>4. ASSUME NEW w \in Workers, TaskFails(w) \/ Crash(w)
            PROVE  faults' = faults + 1
        BY <4>4 DEF TaskFails, Crash
      <4>5. ASSUME NEW r \in Relays, Relay(r) \/ RelayFails(r)
            PROVE  faults' \in {faults, faults + 1}
        BY <4>5 DEF Relay, RelayFails, RelayStep, RelaySelect, RelaySend, RelayCommit,
                    RelayAbort
      <4> QED BY <1>2, <4>1, <4>2, <4>3, <4>4, <4>5 DEF Next, WorkerStep
    <3>5. CASE Accounted(o)
      <4>1. Countable(o)'
        BY <3>5 DEF Accounted
      <4>2. /\ Cardinality(Committing(o)') \in Nat /\ Cardinality(Waiting(o)') \in Nat
            /\ Cardinality(Running(o)') \in Nat
        BY <4>1, FS_CardinalityType DEF Countable
      <4>3. op'[o].stored \in Nat /\ op'[o].artifacts \in Nat
        <5>1. TypeOK'
          BY DEF TrackInv, SealInv, TypeInv
        <5> QED BY <5>1 DEF TypeOK, OpRow
      <4>4. Budget(o)' \in Nat
        BY <4>2, <4>3 DEF Budget, One
      <4>5. outbox[o].state # "absent" => outbox'[o].state # "absent"
        BY <2>1, <3>3 DEF OutboxStep, RowsKnown
      <4>6. Budget(o)' <= IF outbox'[o].state = "absent" THEN 0 ELSE faults' + 1
        <5>1. CASE Budget(o)' <= Budget(o)
          <6>1. CASE outbox'[o].state = "absent"
            BY <3>1, <3>2, <4>4, <4>5, <5>1, <6>1
          <6>2. CASE outbox'[o].state # "absent"
            <7>1. Budget(o) <= faults + 1
              BY <2>1, <3>1, <3>2
            <7> QED BY <2>1, <3>2, <3>4, <4>4, <5>1, <6>2, <7>1
          <6> QED BY <6>1, <6>2
        <5>2. CASE /\ faults' = faults + 1 /\ outbox[o].state # "absent"
                   /\ Budget(o)' <= Budget(o) + 1
          <6>1. Budget(o) <= faults + 1
            BY <3>1, <5>2
          <6> QED BY <2>1, <3>2, <4>4, <4>5, <5>2, <6>1
        <5> QED BY <3>5, <5>1, <5>2 DEF Accounted
      <4>7. op'[o].artifacts + Cardinality(Committing(o)') <= op'[o].stored
        BY <3>1, <3>2, <3>5, <4>2, <4>3 DEF Accounted
      <4> QED BY <4>1, <4>6, <4>7
    <3>6. ASSUME NEW p \in Ops, scan(p) \/ tool_scan(p), ~Accounted(o)
          PROVE  /\ Countable(o)'
                 /\ Budget(o)' <= IF outbox'[o].state = "absent" THEN 0 ELSE faults' + 1
                 /\ op'[o].artifacts + Cardinality(Committing(o)') <= op'[o].stored
      <4>1. /\ p = o /\ Countable(o)'
            /\ Budget(o)' \in Nat /\ Budget(o)' <= Budget(o) + 1
            /\ Cardinality(Committing(o)') = Cardinality(Committing(o))
            /\ op'[o].artifacts = op[o].artifacts /\ op'[o].stored = op[o].stored
        BY <2>1, <3>1, <3>6, AccountAccept
      <4>2. outbox[o].state = "absent" /\ outbox'[o].state = "new"
        <5>1. op[o].status = "absent" /\ \E id : AddRow(o, id)
          BY <3>6, <4>1 DEF scan, tool_scan, Accept
        <5> QED BY <2>1, <5>1 DEF RowsKnown, AddRow, TypeInv, TypeOK, OutboxTypeOK
      <4>3. Budget(o) = 0
        BY <3>1, <3>2, <4>2
      <4>4. Budget(o)' <= 1
        BY <4>1, <4>3
      <4>5. Budget(o)' <= faults' + 1
        BY <2>1, <3>4, <4>1, <4>4
      <4> QED BY <3>1, <4>1, <4>2, <4>5
    <3>7. ASSUME NEW r \in Relays, Relay(r) \/ RelayFails(r) PROVE Accounted(o)
      BY <2>1, <3>1, <3>7, AccountRelay
    <3>8. ASSUME NEW w \in Workers, WorkerStep(w) PROVE Accounted(o)
      BY <2>1, <3>1, <3>8, AccountDeliver, AccountWork DEF WorkerStep
    <3>9. ASSUME NEW w \in Workers, TaskFails(w) \/ Crash(w) PROVE Accounted(o)
      BY <2>1, <3>1, <3>9, AccountFaults
    <3>10. Accounted(o) \/ \E p \in Ops : scan(p) \/ tool_scan(p)
      BY <1>2, <3>7, <3>8, <3>9 DEF Next
    <3> QED BY <3>5, <3>6, <3>10
  <2> QED BY <2>2, <2>3 DEF UploadInv
<1> QED BY <1>1, <1>2

\* The accounts balance throughout.
LEMMA UploadInvariant == Spec => []UploadInv
BY UploadInvInit, UploadInvStep, TrackInvariant, PTL DEF Spec

(***************************************************************************)
(* For any number of operations, workers and relays: every upload of the   *)
(* original after the first is paid for by a failure, and there are no     *)
(* more artifact rows than uploads.                                        *)
(***************************************************************************)
THEOREM UploadsArePaidFor == Spec => []UploadsNeedFaults
<1>1. TrackInv /\ UploadInv => UploadsNeedFaults
  <2> SUFFICES ASSUME TrackInv, UploadInv, NEW o \in Ops
               PROVE  op[o].stored <= faults + 1 /\ op[o].artifacts <= op[o].stored
    BY DEF UploadsNeedFaults
  <2>1. TypeInv /\ faults \in Nat
    BY RelayAssumption DEF TrackInv, SealInv, TypeInv, TypeOK, OutboxTypeOK
  <2>2. /\ Countable(o)
        /\ Budget(o) <= IF outbox[o].state = "absent" THEN 0 ELSE faults + 1
        /\ op[o].artifacts + Cardinality(Committing(o)) <= op[o].stored
    BY DEF UploadInv
  <2>3. /\ Cardinality(Waiting(o)) \in Nat /\ Cardinality(Running(o)) \in Nat
        /\ Cardinality(Committing(o)) \in Nat
        /\ op[o].stored \in Nat /\ op[o].artifacts \in Nat
        /\ One(Unsent(o)) \in Nat
    BY <2>1, <2>2, CountsAreNumbers DEF One
  <2>4. op[o].stored <= Budget(o) /\ Budget(o) \in Nat
    BY <2>3 DEF Budget
  <2>5. Budget(o) <= faults + 1
    BY <2>1, <2>2, <2>4
  <2> QED BY <2>1, <2>2, <2>3, <2>4, <2>5
<1> QED BY <1>1, UploadInvariant, TrackInvariant, PTL

-----------------------------------------------------------------------------
(* Until something fails, residual findings are recorded.                  *)

\* o is past process_sanitize on its way to the upload, or uploaded.
Late(o) ==
    \/ \E m \in Message : m.op = o /\ m.stage = "audit" /\ queue[m] > 0
    \/ \E w \in Workers : OpOf(w) = o /\ worker[w].pc \in {"sendAudit", "audit"}
    \/ op[o].stored > 0

\* A re-scan of o is to come, is running, was given up, or has recorded all.
Rescanning(o) ==
    \/ \E w \in Workers :
          /\ OpOf(w) = o
          /\ worker[w].pc \in {"sendAudit", "sendRescan", "rescan", "rescanCommit"}
    \/ \E m \in Message :
          m.op = o /\ m.stage = "rescan" /\ (queue[m] > 0 \/ m \in dead)
    \/ op[o].sanitized.leak \subseteq op[o].residual

\* What a re-scan in progress reports is what the text now leaks.
RescansRead ==
    \A w \in Workers :
        worker[w].pc \in {"rescan", "rescanCommit"}
            => worker[w].keys = op[OpOf(w)].sanitized.leak

\* The residual findings of one re-scan are recorded together.
Filed(o) ==
    op[o].residual # {} =>
        op[o].sanitized.set /\ op[o].sanitized.leak \subseteq op[o].residual

\* A sanitized operation is audited and re-scanned.
Followed(o) ==
    op[o].sanitized.set =>
        /\ op[o].status # "absent"
        /\ op[o].blank => op[o].sanitized.leak = {}
        /\ Late(o)
        /\ Rescanning(o)

Leaks == RescansRead /\ \A o \in Ops : Filed(o) /\ Followed(o)

(***************************************************************************)
(* The inductive invariant.  A text that is written again after its        *)
(* re-scan would leak unseen; Late(o) and the account of uploads exclude   *)
(* a second process_sanitize, as long as there has been no failure.        *)
(***************************************************************************)
LeakInv == faults = 0 => Leaks

\* Whoever sanitizes o is the only one who may still upload it.
LEMMA LateIsAlone ==
    ASSUME TypeInv, UploadInv, faults = 0, NEW w \in Workers, At(w, "sanitize"),
           NEW o \in Ops, OpOf(w) = o
    PROVE  ~Late(o)
<1>1. Countable(o) /\ Budget(o) <= IF outbox[o].state = "absent" THEN 0 ELSE faults + 1
  BY DEF UploadInv
<1>2. /\ Cardinality(Waiting(o)) \in Nat /\ Cardinality(Running(o)) \in Nat
      /\ op[o].stored \in Nat
  BY <1>1, CountsAreNumbers
<1>3. One(Unsent(o)) \in Nat
  BY DEF One
<1>4. Cardinality(Waiting(o)) + Cardinality(Running(o)) + op[o].stored <= 1
  BY <1>1, <1>2, <1>3 DEF Budget
<1>5. w \in Running(o) /\ IsFiniteSet(Running(o)) /\ IsFiniteSet(Waiting(o))
  BY <1>1 DEF Running, AtWork, At, OpOf, Countable
<1>6. IsFiniteSet({w}) /\ Cardinality({w}) = 1
  BY FS_Singleton
<1>7. Cardinality(Running(o)) >= 1
  BY <1>5, <1>6, FS_Subset
<1>8. op[o].stored = 0 /\ Cardinality(Waiting(o)) = 0 /\ Cardinality(Running(o)) = 1
  BY <1>2, <1>4, <1>7
<1>9. Waiting(o) = {}
  BY <1>5, <1>8, FS_EmptySet
<1>10. ASSUME NEW m \in Message, m.op = o, m.stage = "audit", queue[m] > 0
       PROVE  FALSE
  <2>1. m \in EarlyFor(o) /\ queue[m] \in Nat
    BY <1>10 DEF EarlyFor, TypeInv, TypeOK, DramatiqTypeOK
  <2>2. 1 \in 1 .. queue[m]
    BY <1>10, <2>1
  <2>3. <<m, 1>> \in Waiting(o)
    BY <2>1, <2>2, WaitingHas
  <2> QED BY <1>9, <2>3
<1>11. ASSUME NEW v \in Workers, OpOf(v) = o, worker[v].pc \in {"sendAudit", "audit"}
       PROVE  FALSE
  <2>1. v \in Running(o) /\ v # w
    BY <1>11 DEF Running, AtWork, At, OpOf
  <2>2. /\ IsFiniteSet(Running(o) \ {w})
        /\ Cardinality(Running(o) \ {w}) = Cardinality(Running(o)) - 1
    BY <1>5, FS_RemoveElement
  <2>3. Running(o) \ {w} = {}
    BY <1>8, <2>2, FS_EmptySet
  <2> QED BY <2>1, <2>3
<1> QED BY <1>8, <1>10, <1>11 DEF Late

\* How the task of w leaves what concerns audit and re-scan.
Leaves(w) ==
    \/ At(w, "scan") /\ worker'[w].pc \in {"idle", "scanSend"}
    \/ At(w, "scanSend") /\ worker'[w].pc = "idle"
    \/ At(w, "auditCommit") /\ worker'[w].pc = "idle"
    \/ At(w, "sanitize") /\ worker'[w].pc = "sendAudit" /\ worker'[w].msg = worker[w].msg
    \/ /\ At(w, "sendAudit") /\ worker'[w].pc = "sendRescan"
       /\ worker'[w].msg = worker[w].msg
       /\ queue'[Fresh("audit", OpOf(w))] > 0
    \/ /\ At(w, "audit") /\ worker'[w].pc = "auditCommit"
       /\ op'[OpOf(w)].stored > 0
    \/ /\ At(w, "sendRescan") /\ worker'[w].pc = "idle"
       /\ queue'[Fresh("rescan", OpOf(w))] > 0
    \/ /\ At(w, "rescan") /\ worker'[w].pc = "rescanCommit"
       /\ worker'[w].msg = worker[w].msg /\ worker'[w].keys = worker[w].keys
    \/ At(w, "rescan") /\ worker'[w].pc = "idle" /\ worker[w].keys = {}
    \/ /\ worker[w].pc \in {"rescan", "rescanCommit"} /\ worker'[w].pc = "idle"
       /\ \E n \in Message : /\ n.op = OpOf(w) /\ n.stage = "rescan"
                             /\ queue'[n] > 0 \/ n \in dead'
    \/ /\ At(w, "rescanCommit") /\ worker'[w].pc = "idle"
       /\ op'[OpOf(w)].residual = op[OpOf(w)].residual \cup worker[w].keys

\* What the task of w does to the text and the residual findings of o.
LeakRow(w, o) ==
    /\ op'[o].blank = op[o].blank
    /\ \/ UNCHANGED <<op[o].sanitized, op[o].residual>>
       \/ /\ At(w, "sanitize") /\ OpOf(w) = o
          /\ UNCHANGED op[o].residual
          /\ op[o].blank => op'[o].sanitized.leak = {}
       \/ /\ At(w, "rescanCommit") /\ OpOf(w) = o
          /\ UNCHANGED op[o].sanitized
          /\ op'[o].residual = op[o].residual \cup worker[w].keys

\* Every step of a task is one of these.
LEMMA WorkLeaves ==
    ASSUME TypeInv, NEW w \in Workers, Work(w)
    PROVE  /\ \A v \in Workers : v # w => worker'[v] = worker[v]
           /\ \A n \in Message : queue[n] > 0 => queue'[n] > 0
           /\ dead \subseteq dead'
           /\ Leaves(w)
<1>1. /\ Busy(w) /\ OpOf(w) \in Ops /\ worker[w].msg \in Message
      /\ op \in [Ops -> OpRow] /\ worker \in [Workers -> Tasks]
      /\ queue \in [Message -> Nat] /\ dead \subseteq Message
      /\ AtPointOfActor(worker[w])
  <2>1. Busy(w)
    BY DEF Work, ScanCommit, ScanSend, SanitizeCommit, SendAudit, SendRescan,
           AuditPut, AuditCommit, RescanClean, RescanFound, RescanCommit, At, Busy
  <2> QED BY <2>1 DEF TypeInv, TypeOK, DramatiqTypeOK, TasksMatch, Tasks
<1>2. ASSUME NEW t, worker' = [worker EXCEPT ![w] = t]
      PROVE  worker'[w] = t /\ \A v \in Workers : v # w => worker'[v] = worker[v]
  BY <1>1, <1>2
<1>3. IdleTask.pc = "idle"
  BY DEF IdleTask, Task
<1>4. ASSUME NEW s \in Stages, queue' = With(queue, Fresh(s, OpOf(w))), dead' = dead
      PROVE  /\ \A n \in Message : queue[n] > 0 => queue'[n] > 0
             /\ dead \subseteq dead'
             /\ queue'[Fresh(s, OpOf(w))] > 0
  BY <1>1, <1>4, FreshMessage, WithQueue
<1>5. ASSUME TaskRaises(w)
      PROVE  /\ \A v \in Workers : v # w => worker'[v] = worker[v]
             /\ \A n \in Message : queue[n] > 0 => queue'[n] > 0
             /\ dead \subseteq dead'
             /\ worker'[w].pc = "idle"
             /\ \E n \in Message : /\ n.op = OpOf(w) /\ n.stage = worker[w].msg.stage
                                   /\ queue'[n] > 0 \/ n \in dead'
  BY <1>1, <1>2, <1>3, <1>5, RaiseType DEF TaskRaises, Goto, OpOf
<1>6. CASE ScanCommit(w)
  <2>1. At(w, "scan")
    BY <1>6 DEF ScanCommit
  <2>2. CASE TaskRaises(w)
    BY <1>5, <2>1, <2>2 DEF Leaves
  <2>3. CASE ~TaskRaises(w)
    <3>1. /\ UNCHANGED <<queue, dead>>
          /\ outbox' = [outbox EXCEPT ![OpOf(w)].state = "done"]
          /\ \E D, new :
                /\ op' = [op EXCEPT ![OpOf(w)].found = @ \cup D, ![OpOf(w)].status = new]
                /\ worker' = [worker EXCEPT ![w] = Task("scanSend", worker[w].msg, {}, new)]
      BY <1>6, <2>3, ScanCommitCases
    <3>2. PICK new : worker' = [worker EXCEPT ![w] = Task("scanSend", worker[w].msg, {}, new)]
      BY <3>1, Zenon
    <3>3. worker'[w].pc = "scanSend" /\ \A v \in Workers : v # w => worker'[v] = worker[v]
      BY <1>2, <3>2 DEF Task
    <3> QED BY <2>1, <3>1, <3>3 DEF Leaves
  <2> QED BY <2>2, <2>3
<1>7. CASE ScanSend(w)
  <2>1. /\ At(w, "scanSend") /\ worker' = [worker EXCEPT ![w] = IdleTask]
        /\ dead' = dead
        /\ \E s \in Stages : queue' = With(queue, Fresh(s, OpOf(w)))
    BY <1>7 DEF ScanSend, Goto, Stages
  <2> QED BY <1>2, <1>3, <1>4, <2>1 DEF Leaves
<1>8. CASE SanitizeCommit(w)
  <2>1. /\ At(w, "sanitize") /\ UNCHANGED <<queue, dead>>
        /\ worker' = [worker EXCEPT ![w] = Task("sendAudit", worker[w].msg, {}, "absent")]
    BY <1>8 DEF SanitizeCommit, Goto
  <2> QED BY <1>2, <2>1 DEF Leaves, Task
<1>9. CASE SendAudit(w)
  <2>1. /\ At(w, "sendAudit") /\ UNCHANGED dead
        /\ queue' = With(queue, Fresh("audit", OpOf(w)))
        /\ worker' = [worker EXCEPT ![w] = Task("sendRescan", worker[w].msg, {}, "absent")]
    BY <1>9 DEF SendAudit, Goto
  <2>2. /\ \A v \in Workers : v # w => worker'[v] = worker[v]
        /\ worker'[w] = Task("sendRescan", worker[w].msg, {}, "absent")
    BY <1>2, <2>1
  <2>3. worker'[w].pc = "sendRescan" /\ worker'[w].msg = worker[w].msg
    BY <2>2 DEF Task
  <2>4. /\ \A n \in Message : queue[n] > 0 => queue'[n] > 0
        /\ dead \subseteq dead'
        /\ queue'[Fresh("audit", OpOf(w))] > 0
    BY <1>4, <2>1 DEF Stages
  <2>5. Leaves(w)
    BY <2>1, <2>3, <2>4 DEF Leaves
  <2> QED BY <2>2, <2>4, <2>5
<1>10. CASE SendRescan(w)
  <2>1. /\ At(w, "sendRescan") /\ UNCHANGED dead
        /\ queue' = With(queue, Fresh("rescan", OpOf(w)))
        /\ worker' = [worker EXCEPT ![w] = IdleTask]
    BY <1>10 DEF SendRescan, Goto
  <2> QED BY <1>2, <1>3, <1>4, <2>1 DEF Leaves, Stages
<1>11. CASE AuditPut(w)
  <2>1. /\ At(w, "audit") /\ UNCHANGED <<queue, dead>>
        /\ op' = [op EXCEPT ![OpOf(w)].stored = @ + 1]
        /\ worker' = [worker EXCEPT ![w].pc = "auditCommit"]
    BY <1>11 DEF AuditPut
  <2>2. op'[OpOf(w)].stored > 0
    BY <1>1, <2>1 DEF OpRow
  <2>3. /\ worker'[w].pc = "auditCommit"
        /\ \A v \in Workers : v # w => worker'[v] = worker[v]
    BY <1>1, <2>1 DEF Tasks
  <2> QED BY <2>1, <2>2, <2>3 DEF Leaves
<1>12. CASE AuditCommit(w)
  <2>1. /\ At(w, "auditCommit") /\ UNCHANGED <<queue, dead>>
        /\ worker' = [worker EXCEPT ![w] = IdleTask]
    BY <1>12 DEF AuditCommit, Goto
  <2> QED BY <1>2, <1>3, <2>1 DEF Leaves
<1>13. CASE RescanClean(w)
  <2>1. /\ At(w, "rescan") /\ worker[w].keys = {} /\ UNCHANGED <<queue, dead>>
        /\ worker' = [worker EXCEPT ![w] = IdleTask]
    BY <1>13 DEF RescanClean, Goto
  <2> QED BY <1>2, <1>3, <2>1 DEF Leaves
<1>14. ASSUME worker[w].pc \in {"rescan", "rescanCommit"}, TaskRaises(w)
       PROVE  Leaves(w)
  <2>1. worker[w].msg.stage = "rescan"
    BY <1>1, <1>14 DEF AtPointOfActor
  <2> QED BY <1>5, <1>14, <2>1 DEF Leaves
<1>15. CASE RescanFound(w)
  <2>1. CASE TaskRaises(w)
    <3>1. At(w, "rescan")
      BY <1>15 DEF RescanFound
    <3> QED BY <1>5, <1>14, <2>1, <3>1 DEF At
  <2>2. CASE ~TaskRaises(w)
    <3>1. /\ At(w, "rescan") /\ UNCHANGED dead
          /\ queue' = With(queue, Fresh("review", OpOf(w)))
          /\ worker' = [worker EXCEPT ![w].pc = "rescanCommit"]
      BY <1>15, <2>2 DEF RescanFound
    <3>2. /\ worker'[w].pc = "rescanCommit" /\ worker'[w].msg = worker[w].msg
          /\ worker'[w].keys = worker[w].keys
          /\ \A v \in Workers : v # w => worker'[v] = worker[v]
      BY <1>1, <3>1 DEF Tasks
    <3>3. \A n \in Message : queue[n] > 0 => queue'[n] > 0
      BY <1>4, <3>1 DEF Stages
    <3> QED BY <3>1, <3>2, <3>3 DEF Leaves
  <2> QED BY <2>1, <2>2
<1>16. CASE RescanCommit(w)
  <2>1. At(w, "rescanCommit")
    BY <1>16 DEF RescanCommit
  <2>2. CASE TaskRaises(w)
    BY <1>5, <1>14, <2>1, <2>2 DEF At
  <2>3. CASE ~TaskRaises(w)
    <3>1. /\ UNCHANGED <<queue, dead>> /\ worker' = [worker EXCEPT ![w] = IdleTask]
          /\ \E st : op' = [op EXCEPT ![OpOf(w)].residual = @ \cup worker[w].keys,
                                      ![OpOf(w)].status = st]
      BY <1>16, <2>3 DEF RescanCommit, Goto
    <3>2. op'[OpOf(w)].residual = op[OpOf(w)].residual \cup worker[w].keys
      BY <1>1, <3>1 DEF OpRow
    <3> QED BY <1>2, <1>3, <2>1, <3>1, <3>2 DEF Leaves
  <2> QED BY <2>2, <2>3
<1> QED BY <1>6, <1>7, <1>8, <1>9, <1>10, <1>11, <1>12, <1>13, <1>15, <1>16 DEF Work

\* Only process_sanitize writes the text, only rescan_operation the residual.
LEMMA WorkLeaks ==
    ASSUME TypeInv, NEW w \in Workers, Work(w), NEW o \in Ops PROVE LeakRow(w, o)
<1>1. op \in [Ops -> OpRow]
  BY DEF TypeInv, TypeOK
<1>2. CASE op'[o] = op[o]
  BY <1>2 DEF LeakRow
<1>3. CASE OpOf(w) # o
  BY <1>1, <1>2, <1>3
  DEF Work, ScanCommit, ScanSend, SanitizeCommit, SendAudit, SendRescan,
      AuditPut, AuditCommit, RescanClean, RescanFound, RescanCommit
<1>4. ASSUME OpOf(w) = o PROVE LeakRow(w, o)
  <2>1. CASE ScanSend(w) \/ SendAudit(w) \/ SendRescan(w) \/ RescanFound(w)
    BY <1>2, <2>1 DEF ScanSend, SendAudit, SendRescan, RescanFound
  <2>2. CASE ScanCommit(w)
    <3>1. UNCHANGED op \/ \E f, st : op' = [op EXCEPT ![o].found = f, ![o].status = st]
      BY <1>4, <2>2 DEF ScanCommit
    <3>2. ASSUME NEW f, NEW st, op' = [op EXCEPT ![o].found = f, ![o].status = st]
          PROVE  /\ op'[o].sanitized = op[o].sanitized
                 /\ op'[o].residual = op[o].residual
                 /\ op'[o].blank = op[o].blank
      BY <1>1, <3>2 DEF OpRow
    <3> QED BY <1>1, <3>1, <3>2 DEF LeakRow
  <2>3. CASE SanitizeCommit(w)
    <3>1. PICK red, ks, leak :
              /\ op[o].blank => leak = {}
              /\ op' = [op EXCEPT ![o].redacted = red,
                                  ![o].sanitized = [set |-> TRUE, keys |-> ks, leak |-> leak]]
      BY <1>4, <2>3 DEF SanitizeCommit
    <3>2. At(w, "sanitize")
      BY <2>3 DEF SanitizeCommit
    <3> QED BY <1>1, <1>4, <3>1, <3>2 DEF LeakRow, OpRow
  <2>4. CASE AuditPut(w)
    BY <1>1, <1>4, <2>4 DEF AuditPut, LeakRow, OpRow
  <2>5. CASE AuditCommit(w)
    <3>1. \E n, st : op' = [op EXCEPT ![o].artifacts = n, ![o].status = st,
                                      ![o].sealed = TRUE]
      BY <1>4, <2>5 DEF AuditCommit
    <3> QED BY <1>1, <3>1 DEF LeakRow, OpRow
  <2>6. CASE RescanClean(w)
    <3>1. UNCHANGED op \/ \E st : op' = [op EXCEPT ![o].status = st]
      BY <1>4, <2>6 DEF RescanClean
    <3>2. ASSUME NEW st, op' = [op EXCEPT ![o].status = st] PROVE LeakRow(w, o)
      BY <1>1, <3>2 DEF LeakRow, OpRow
    <3> QED BY <1>2, <3>1, <3>2
  <2>7. CASE RescanCommit(w)
    <3>1. At(w, "rescanCommit")
      BY <2>7 DEF RescanCommit
    <3>2. \/ UNCHANGED op
          \/ \E st : op' = [op EXCEPT ![o].residual = @ \cup worker[w].keys,
                                      ![o].status = st]
      BY <1>4, <2>7 DEF RescanCommit
    <3>3. ASSUME NEW st, op' = [op EXCEPT ![o].residual = @ \cup worker[w].keys,
                                          ![o].status = st]
          PROVE  LeakRow(w, o)
      BY <1>1, <1>4, <3>1, <3>3 DEF LeakRow, OpRow
    <3> QED BY <1>2, <3>2, <3>3
  <2> QED BY <2>1, <2>2, <2>3, <2>4, <2>5, <2>6, <2>7 DEF Work
<1> QED BY <1>3, <1>4

\* A task's step keeps the audit and the re-scan of sanitized operations going.
LEMMA LeakWork ==
    ASSUME TrackInv, UploadInv, faults = 0, Leaks, NEW w \in Workers, Work(w)
    PROVE  Leaks'
<1>1. TypeInv /\ RowsKnown /\ SanitizedFirst
  BY DEF TrackInv, SealInv
<1>2. /\ \A v \in Workers : v # w => worker'[v] = worker[v]
      /\ \A n \in Message : queue[n] > 0 => queue'[n] > 0
      /\ dead \subseteq dead'
      /\ Leaves(w)
  BY <1>1, WorkLeaves
<1>3. \A o \in Ops : LeakRow(w, o)
  BY <1>1, WorkLeaks
<1>4. /\ Busy(w) /\ OpOf(w) \in Ops
      /\ \A v \in Workers : Busy(v) => OpOf(v) \in Ops
      /\ \A o \in Ops : op[o].stored > 0 => op'[o].stored > 0
      /\ \A o \in Ops : op[o].status # "absent" => op'[o].status # "absent"
  <2>1. Busy(w)
    BY <1>2 DEF Leaves, At, Busy
  <2>2. Next
    BY DEF Next, WorkerStep
  <2> QED BY <1>1, <2>1, <2>2, RowGrows DEF TypeInv, TasksMatch
<1>5. ASSUME NEW o \in Ops, op[o].sanitized.set PROVE op'[o].sanitized = op[o].sanitized
  <2>1. ~(At(w, "sanitize") /\ OpOf(w) = o)
    BY <1>1, <1>5, LateIsAlone DEF Leaks, Followed
  <2> QED BY <1>3, <2>1 DEF LeakRow
<1>6. ASSUME NEW v \in Workers, worker[v].pc \in {"rescan", "rescanCommit"}
      PROVE  /\ op[OpOf(v)].sanitized.set /\ OpOf(v) \in Ops
             /\ worker[v].keys = op[OpOf(v)].sanitized.leak
  BY <1>1, <1>4, <1>6 DEF SanitizedFirst, Leaks, RescansRead, Busy
<1>7. RescansRead'
  <2> SUFFICES ASSUME NEW v \in Workers, worker'[v].pc \in {"rescan", "rescanCommit"}
               PROVE  worker'[v].keys = op'[worker'[v].msg.op].sanitized.leak
    BY DEF RescansRead, OpOf
  <2>1. /\ worker[v].pc \in {"rescan", "rescanCommit"}
        /\ worker'[v].keys = worker[v].keys /\ worker'[v].msg = worker[v].msg
    BY <1>2 DEF Leaves, At
  <2> QED BY <1>5, <1>6, <2>1 DEF OpOf
<1>8. ASSUME NEW o \in Ops PROVE Filed(o)'
  <2>1. CASE op'[o].residual = op[o].residual
    BY <1>5, <2>1 DEF Filed, Leaks
  <2>2. CASE /\ At(w, "rescanCommit") /\ OpOf(w) = o
             /\ op'[o].residual = op[o].residual \cup worker[w].keys
    BY <1>5, <1>6, <2>2 DEF Filed, At
  <2> QED BY <1>3, <2>1, <2>2 DEF LeakRow
<1>9. ASSUME NEW o \in Ops, op'[o].sanitized.set
      PROVE  /\ op'[o].status # "absent"
             /\ op'[o].blank => op'[o].sanitized.leak = {}
             /\ Late(o)'
             /\ Rescanning(o)'
  <2>1. CASE op[o].sanitized.set
    <3>1. /\ op[o].status # "absent" /\ Late(o) /\ Rescanning(o)
          /\ op[o].blank => op[o].sanitized.leak = {}
      BY <2>1 DEF Leaks, Followed
    <3>2. /\ op'[o].sanitized = op[o].sanitized /\ op'[o].blank = op[o].blank
          /\ op[o].residual \subseteq op'[o].residual
      BY <1>3, <1>5, <2>1 DEF LeakRow
    <3>3. \A s \in Stages : Fresh(s, o) \in Message /\ Fresh(s, o).op = o
                              /\ Fresh(s, o).stage = s
      BY FreshMessage
    <3>4. Late(o)'
      <4>1. ASSUME NEW m \in Message, m.op = o, m.stage = "audit", queue[m] > 0
            PROVE  Late(o)'
        BY <1>2, <4>1 DEF Late
      <4>2. ASSUME NEW v \in Workers, OpOf(v) = o, worker[v].pc \in {"sendAudit", "audit"}
            PROVE  Late(o)'
        <5>1. CASE v # w
          BY <1>2, <4>2, <5>1 DEF Late, OpOf
        <5>2. CASE v = w
          <6>1. op'[o].stored > 0 \/ queue'[Fresh("audit", o)] > 0
            BY <1>2, <4>2, <5>2 DEF Leaves, At
          <6> QED BY <3>3, <6>1 DEF Late, Stages
        <5> QED BY <5>1, <5>2
      <4>3. CASE op[o].stored > 0
        BY <1>4, <4>3 DEF Late
      <4> QED BY <3>1, <4>1, <4>2, <4>3 DEF Late
    <3>5. Rescanning(o)'
      <4>1. ASSUME NEW m \in Message, m.op = o, m.stage = "rescan", queue[m] > 0 \/ m \in dead
            PROVE  Rescanning(o)'
        BY <1>2, <4>1 DEF Rescanning
      <4>2. ASSUME NEW v \in Workers, OpOf(v) = o,
                   worker[v].pc \in {"sendAudit", "sendRescan", "rescan", "rescanCommit"}
            PROVE  Rescanning(o)'
        <5>1. CASE v # w
          BY <1>2, <4>2, <5>1 DEF Rescanning, OpOf
        <5>2. CASE v = w
          <6>1. CASE /\ worker'[w].pc \in {"sendRescan", "rescanCommit"}
                     /\ worker'[w].msg = worker[w].msg
            BY <4>2, <5>2, <6>1 DEF Rescanning, OpOf
          <6>2. CASE queue'[Fresh("rescan", o)] > 0
            BY <3>3, <6>2 DEF Rescanning, Stages
          <6>3. CASE \E n \in Message : /\ n.op = o /\ n.stage = "rescan"
                                        /\ queue'[n] > 0 \/ n \in dead'
            BY <6>3 DEF Rescanning
          <6>4. CASE At(w, "rescan") /\ worker[w].keys = {}
            <7>1. op[o].sanitized.leak = {}
              BY <1>6, <4>2, <5>2, <6>4 DEF At
            <7> QED BY <3>2, <7>1 DEF Rescanning
          <6>5. CASE /\ At(w, "rescanCommit")
                     /\ op'[o].residual = op[o].residual \cup worker[w].keys
            <7>1. op[o].sanitized.leak = worker[w].keys
              BY <1>6, <4>2, <5>2, <6>5 DEF At
            <7> QED BY <3>2, <6>5, <7>1 DEF Rescanning
          <6> QED BY <1>2, <4>2, <5>2, <6>1, <6>2, <6>3, <6>4, <6>5 DEF Leaves, At
        <5> QED BY <5>1, <5>2
      <4>3. CASE op[o].sanitized.leak \subseteq op[o].residual
        BY <3>2, <4>3 DEF Rescanning
      <4> QED BY <3>1, <4>1, <4>2, <4>3 DEF Rescanning
    <3> QED BY <1>4, <3>1, <3>2, <3>4, <3>5
  <2>2. CASE ~op[o].sanitized.set
    <3>1. /\ At(w, "sanitize") /\ OpOf(w) = o
          /\ op'[o].blank => op'[o].sanitized.leak = {}
      BY <1>3, <1>9, <2>2 DEF LeakRow
    <3>2. op'[o].status # "absent"
      BY <1>1, <1>4, <3>1 DEF RowsKnown
    <3>3. worker'[w].pc = "sendAudit" /\ worker'[w].msg.op = o
      BY <1>2, <3>1 DEF Leaves, At, OpOf
    <3> QED BY <3>1, <3>2, <3>3 DEF Late, Rescanning, OpOf
  <2> QED BY <2>1, <2>2
<1> QED BY <1>7, <1>8, <1>9 DEF Leaks, Followed

\* A delivery hands an audit or a re-scan on, or drops what is done.
LEMMA LeakDeliver ==
    ASSUME TrackInv, UploadInv, Leaks, NEW w \in Workers, NEW m \in Message, Deliver(w, m)
    PROVE  Leaks'
<1>1. /\ TypeInv /\ RowsKnown /\ worker \in [Workers -> Tasks]
      /\ queue \in [Message -> Nat] /\ op \in [Ops -> OpRow] /\ dead \subseteq Message
  BY DEF TrackInv, SealInv, TypeInv, TypeOK, DramatiqTypeOK
<1>2. /\ ~Busy(w)
      /\ \A v \in Workers : v # w => worker'[v] = worker[v]
      /\ \A n \in Message : queue[n] > 0 => queue'[n] > 0 \/ n = m
      /\ dead \subseteq dead'
      /\ \A o \in Ops : /\ op'[o].sanitized = op[o].sanitized
                        /\ op'[o].residual = op[o].residual
                        /\ op'[o].blank = op[o].blank
                        /\ op'[o].stored = op[o].stored
                        /\ op'[o].status = op[o].status
  <2>1. CASE BadId(w, m)
    <3>1. Without(queue, m) \in [Message -> Nat]
      BY <1>1, <2>1, WithoutQueue DEF BadId
    <3>2. \A n \in Message : queue[n] > 0 => Without(queue, m)[n] > 0 \/ n = m
      BY <1>1, <2>1, WithoutQueue DEF BadId
    <3>3. /\ dead \subseteq dead'
          /\ \A n \in Message : Without(queue, m)[n] > 0 => queue'[n] > 0
      BY <1>1, <2>1, <3>1, RaiseType DEF BadId
    <3> QED BY <2>1, <3>2, <3>3 DEF BadId
  <2>2. CASE ProcessReview(w, m)
    <3>1. \A o \in Ops : /\ op'[o].sanitized = op[o].sanitized
                         /\ op'[o].residual = op[o].residual
                         /\ op'[o].blank = op[o].blank
                         /\ op'[o].stored = op[o].stored
                         /\ op'[o].status = op[o].status
      BY <1>1, <2>2 DEF ProcessReview, OpRow
    <3> QED BY <1>1, <2>2, <3>1, WithoutQueue DEF ProcessReview, Deliverable
  <2>3. CASE /\ Deliverable(w, m, m.stage)
             /\ \E t : Begin(w, m, t)
    BY <1>1, <2>3, WithoutQueue DEF Deliverable, Begin
  <2> QED BY <2>1, <2>2, <2>3
      DEF Deliver, ScanBegin, SanitizeBegin, AuditBegin, RescanBegin, Deliverable
<1>3. /\ RescanBegin(w, m) => m.stage = "rescan" /\ m.op \in Ops /\ queue[m] > 0
      /\ AuditBegin(w, m) => m.stage = "audit" /\ m.op \in Ops /\ queue[m] > 0
      /\ \A n \in Message : queue[n] > 0 /\ n.op \in Ops /\ n.stage = "rescan"
                              => queue'[n] > 0 \/ (RescanBegin(w, m) /\ n = m)
      /\ \A n \in Message : queue[n] > 0 /\ n.op \in Ops /\ n.stage = "audit"
                              => queue'[n] > 0 \/ (AuditBegin(w, m) /\ n = m)
  <2>1. /\ BadId(w, m) => m.op \notin Ops
        /\ ScanBegin(w, m) => m.stage = "scan"
        /\ SanitizeBegin(w, m) => m.stage = "sanitize"
        /\ AuditBegin(w, m) => m.stage = "audit" /\ m.op \in Ops /\ queue[m] > 0
        /\ RescanBegin(w, m) => m.stage = "rescan" /\ m.op \in Ops /\ queue[m] > 0
        /\ ProcessReview(w, m) => m.stage = "review"
    BY DramatiqAssumption
    DEF BadId, ScanBegin, SanitizeBegin, AuditBegin, RescanBegin, ProcessReview,
        Deliverable
  <2>2. m.stage = "rescan" /\ m.op \in Ops => RescanBegin(w, m)
    BY <2>1 DEF Deliver
  <2>3. m.stage = "audit" /\ m.op \in Ops => AuditBegin(w, m)
    BY <2>1 DEF Deliver
  <2>4. ASSUME NEW n \in Message, queue[n] > 0, n.op \in Ops, n.stage = "rescan"
        PROVE  queue'[n] > 0 \/ (RescanBegin(w, m) /\ n = m)
    BY <1>2, <2>2, <2>4
  <2>5. ASSUME NEW n \in Message, queue[n] > 0, n.op \in Ops, n.stage = "audit"
        PROVE  queue'[n] > 0 \/ (AuditBegin(w, m) /\ n = m)
    BY <1>2, <2>3, <2>5
  <2> QED BY <2>1, <2>4, <2>5
<1>4. worker'[w].pc = "rescan" =>
          RescanBegin(w, m) /\ worker'[w] = Task("rescan", m, op[m.op].sanitized.leak,
                                                op[m.op].status)
  <2>1. ASSUME NEW t, worker' = [worker EXCEPT ![w] = t] PROVE worker'[w] = t
    BY <1>1, <2>1
  <2>2. worker[w].pc # "rescan"
    BY <1>2 DEF Busy
  <2>3. CASE BadId(w, m) \/ ProcessReview(w, m)
    BY <2>2, <2>3 DEF BadId, ProcessReview
  <2>4. CASE ScanBegin(w, m)
    BY <2>1, <2>4 DEF ScanBegin, Begin, Task, IdleTask
  <2>5. CASE SanitizeBegin(w, m)
    BY <2>1, <2>5 DEF SanitizeBegin, Begin, Task, IdleTask
  <2>6. CASE AuditBegin(w, m)
    BY <2>1, <2>6 DEF AuditBegin, Begin, Task, IdleTask
  <2>7. CASE RescanBegin(w, m)
    BY <2>1, <2>7 DEF RescanBegin, Begin, Task, IdleTask
  <2> QED BY <2>3, <2>4, <2>5, <2>6, <2>7 DEF Deliver
<1>5. worker'[w].pc # "rescanCommit"
  BY <1>1, <1>2
  DEF Deliver, BadId, ScanBegin, SanitizeBegin, AuditBegin, RescanBegin,
      ProcessReview, Begin, Task, IdleTask, Busy
<1>6. RescansRead'
  <2> SUFFICES ASSUME NEW v \in Workers, worker'[v].pc \in {"rescan", "rescanCommit"}
               PROVE  worker'[v].keys = op'[worker'[v].msg.op].sanitized.leak
    BY DEF RescansRead, OpOf
  <2>1. CASE v # w
    <3>1. Busy(v) /\ OpOf(v) \in Ops /\ worker[v].keys = op[OpOf(v)].sanitized.leak
      BY <1>1, <1>2, <2>1 DEF Leaks, RescansRead, Busy, TypeInv, TasksMatch
    <3> QED BY <1>2, <2>1, <3>1 DEF OpOf
  <2>2. CASE v = w
    <3>1. /\ m.op \in Ops /\ worker'[w].keys = op[m.op].sanitized.leak
          /\ worker'[w].msg = m
      BY <1>3, <1>4, <1>5, <2>2 DEF Task
    <3> QED BY <1>2, <2>2, <3>1
  <2> QED BY <2>1, <2>2
<1>7. \A o \in Ops : Filed(o)'
  BY <1>2 DEF Leaks, Filed
<1>8. ASSUME NEW o \in Ops, op[o].sanitized.set
      PROVE  Late(o)' /\ Rescanning(o)'
  <2>1. /\ op[o].status # "absent" /\ Late(o) /\ Rescanning(o) /\ Filed(o)
        /\ op[o].blank => op[o].sanitized.leak = {}
    BY <1>8 DEF Leaks, Followed
  <2>2. ASSUME NEW t, Begin(w, m, t) PROVE worker'[w] = t
    BY <1>1, <2>2 DEF Begin
  <2>3. ASSUME AuditBegin(w, m), m.op = o PROVE Late(o)'
    <3>1. CASE op[o].artifacts = 0
      <4>1. worker'[w] = Task("audit", m, {}, op[o].status)
        BY <2>1, <2>2, <2>3, <3>1 DEF AuditBegin
      <4> QED BY <2>3, <4>1 DEF Late, OpOf, Task
    <3>2. CASE op[o].artifacts # 0
      <4>1. /\ Countable(o)
            /\ op[o].artifacts + Cardinality(Committing(o)) <= op[o].stored
        BY DEF UploadInv
      <4>2. op[o].stored > 0
        BY <1>1, <3>2, <4>1, CountsAreNumbers
      <4> QED BY <1>2, <4>2 DEF Late
    <3> QED BY <3>1, <3>2
  <2>4. ASSUME RescanBegin(w, m), m.op = o PROVE Rescanning(o)'
    <3>1. CASE ~op[o].blank /\ op[o].residual = {}
      <4>1. worker'[w] = Task("rescan", m, op[o].sanitized.leak, op[o].status)
        BY <1>8, <2>1, <2>2, <2>4, <3>1 DEF RescanBegin
      <4> QED BY <2>4, <4>1 DEF Rescanning, OpOf, Task
    <3>2. CASE op[o].blank \/ op[o].residual # {}
      <4>1. op[o].sanitized.leak \subseteq op[o].residual
        BY <2>1, <3>2 DEF Filed
      <4> QED BY <1>2, <4>1 DEF Rescanning
    <3> QED BY <3>1, <3>2
  <2>5. \A v \in Workers : Busy(v) => worker'[v] = worker[v]
    BY <1>2
  <2>6. Late(o)'
    <3>1. ASSUME NEW n \in Message, n.op = o, n.stage = "audit", queue[n] > 0
          PROVE  Late(o)'
      BY <1>3, <2>3, <3>1 DEF Late
    <3>2. ASSUME NEW v \in Workers, OpOf(v) = o, worker[v].pc \in {"sendAudit", "audit"}
          PROVE  Late(o)'
      BY <2>5, <3>2 DEF Late, OpOf, Busy
    <3>3. CASE op[o].stored > 0
      BY <1>2, <3>3 DEF Late
    <3> QED BY <2>1, <3>1, <3>2, <3>3 DEF Late
  <2>7. Rescanning(o)'
    <3>1. ASSUME NEW n \in Message, n.op = o, n.stage = "rescan", queue[n] > 0
          PROVE  Rescanning(o)'
      BY <1>3, <2>4, <3>1 DEF Rescanning
    <3>2. ASSUME NEW n \in Message, n.op = o, n.stage = "rescan", n \in dead
          PROVE  Rescanning(o)'
      BY <1>2, <3>2 DEF Rescanning
    <3>3. ASSUME NEW v \in Workers, OpOf(v) = o,
                 worker[v].pc \in {"sendAudit", "sendRescan", "rescan", "rescanCommit"}
          PROVE  Rescanning(o)'
      BY <2>5, <3>3 DEF Rescanning, OpOf, Busy
    <3>4. CASE op[o].sanitized.leak \subseteq op[o].residual
      BY <1>2, <3>4 DEF Rescanning
    <3> QED BY <2>1, <3>1, <3>2, <3>3, <3>4 DEF Rescanning
  <2> QED BY <2>6, <2>7
<1>9. \A o \in Ops : Followed(o)'
  BY <1>2, <1>8 DEF Leaks, Followed
<1> QED BY <1>6, <1>7, <1>9 DEF Leaks

\* Requests and relays touch no text, no task and no message of these stages.
LEMMA LeakElsewhere ==
    ASSUME TrackInv, Leaks,
           \/ \E o \in Ops : scan(o) \/ tool_scan(o)
           \/ \E r \in Relays : Relay(r) \/ RelayFails(r)
    PROVE  Leaks'
<1>1. /\ TypeInv /\ queue \in [Message -> Nat] /\ op \in [Ops -> OpRow]
      /\ outbox \in [Ops -> OutboxRow]
      /\ relay \in [Relays -> [batch : SUBSET Ops, todo : SUBSET Ops]]
  BY DEF TrackInv, SealInv, TypeInv, TypeOK, DramatiqTypeOK, OutboxTypeOK
<1>2. UNCHANGED <<worker, dead>>
  BY DEF scan, tool_scan, Accept, Relay, RelayFails, RelayStep, RelaySelect, RelaySend,
         RelayCommit, RelayAbort
<1>3. \A n \in Message : queue[n] > 0 => queue'[n] > 0
  <2>1. CASE UNCHANGED queue
    BY <2>1
  <2>2. ASSUME NEW r \in Relays, RelaySend(r) PROVE \A n \in Message : queue[n] > 0 => queue'[n] > 0
    <3>1. PICK p \in relay[r].todo : queue' = With(queue, Fresh("scan", outbox[p].id))
      BY <2>2 DEF RelaySend
    <3>2. outbox[p].id \in Ops \cup {NoneId}
      BY <1>1 DEF OutboxRow
    <3>3. Fresh("scan", outbox[p].id) \in Message
      BY <3>2, FreshMessage DEF Stages
    <3> QED BY <1>1, <3>1, <3>3, WithQueue
  <2> QED BY <2>1, <2>2
      DEF scan, tool_scan, Accept, Relay, RelayFails, RelayStep, RelaySelect,
          RelayCommit, RelayAbort
<1>4. ASSUME NEW o \in Ops
      PROVE  /\ op'[o].sanitized = op[o].sanitized /\ op'[o].residual = op[o].residual
             /\ op'[o].stored = op[o].stored
             /\ op[o].status # "absent" =>
                   op'[o].status # "absent" /\ op'[o].blank = op[o].blank
  <2>1. CASE UNCHANGED op
    BY <2>1
  <2>2. ASSUME NEW p \in Ops, scan(p) \/ tool_scan(p)
        PROVE  \E text, blank :
                  /\ op[p].status = "absent"
                  /\ op' = [op EXCEPT ![p].status = "pending", ![p].text = text,
                                      ![p].blank = blank]
    BY <2>2 DEF scan, tool_scan, Accept
  <2>3. ASSUME NEW p \in Ops, NEW text, NEW blank, op[p].status = "absent",
               op' = [op EXCEPT ![p].status = "pending", ![p].text = text,
                                ![p].blank = blank]
        PROVE  /\ op'[o].sanitized = op[o].sanitized /\ op'[o].residual = op[o].residual
               /\ op'[o].stored = op[o].stored
               /\ op[o].status # "absent" =>
                     op'[o].status # "absent" /\ op'[o].blank = op[o].blank
    BY <1>1, <2>3 DEF OpRow
  <2> QED BY <2>1, <2>2, <2>3 DEF Relay, RelayFails
<1>5. RescansRead'
  <2> SUFFICES ASSUME NEW v \in Workers, worker[v].pc \in {"rescan", "rescanCommit"}
               PROVE  worker[v].keys = op'[worker[v].msg.op].sanitized.leak
    BY <1>2 DEF RescansRead, OpOf
  <2>1. OpOf(v) \in Ops /\ worker[v].keys = op[OpOf(v)].sanitized.leak
    BY <1>1 DEF Leaks, RescansRead, TypeInv, TasksMatch, Busy
  <2> QED BY <1>4, <2>1 DEF OpOf
<1>6. ASSUME NEW o \in Ops PROVE Filed(o)' /\ Followed(o)'
  <2>1. Filed(o) /\ Followed(o)
    BY DEF Leaks
  <2>2. Filed(o)'
    BY <1>4, <2>1 DEF Filed
  <2>3. Late(o) => Late(o)'
    BY <1>2, <1>3, <1>4 DEF Late, OpOf
  <2>4. Rescanning(o) => Rescanning(o)'
    BY <1>2, <1>3, <1>4 DEF Rescanning, OpOf
  <2>5. Followed(o)'
    BY <1>4, <2>1, <2>3, <2>4 DEF Followed
  <2> QED BY <2>2, <2>5
<1> QED BY <1>5, <1>6 DEF Leaks

\* Every step preserves the invariant; after a failure it claims nothing.
LEMMA LeakInvStep == TrackInv /\ UploadInv /\ LeakInv /\ [Next]_vars => LeakInv'
<1> SUFFICES ASSUME TrackInv, UploadInv, LeakInv, [Next]_vars, faults' = 0
             PROVE  Leaks'
  BY DEF LeakInv
<1>1. faults \in Nat
  BY RelayAssumption DEF TrackInv, SealInv, TypeInv, TypeOK, OutboxTypeOK
<1>2. CASE UNCHANGED vars
  <2>1. Leaks
    BY <1>2 DEF LeakInv, vars
  <2> QED BY <1>2, <2>1
      DEF vars, Leaks, RescansRead, Filed, Followed, Late, Rescanning, OpOf
<1>3. CASE \/ \E o \in Ops : scan(o) \/ tool_scan(o)
           \/ \E r \in Relays : Relay(r) \/ RelayFails(r)
  <2>1. faults' = faults \/ faults' = faults + 1
    BY <1>3 DEF scan, tool_scan, Accept, Relay, RelayFails, RelayStep, RelaySelect,
                RelaySend, RelayCommit, RelayAbort
  <2>2. Leaks
    BY <1>1, <2>1 DEF LeakInv
  <2> QED BY <1>3, <2>2, LeakElsewhere
<1>4. ASSUME NEW w \in Workers, Work(w) PROVE Leaks'
  <2>1. faults' = faults
    BY <1>4 DEF Work, ScanCommit, ScanSend, SanitizeCommit, SendAudit, SendRescan,
                AuditPut, AuditCommit, RescanClean, RescanFound, RescanCommit
  <2> QED BY <1>4, <2>1, LeakWork DEF LeakInv
<1>5. ASSUME NEW w \in Workers, NEW m \in Message, Deliver(w, m) PROVE Leaks'
  <2>1. faults' = faults
    BY <1>5 DEF Deliver, BadId, ScanBegin, SanitizeBegin, AuditBegin, RescanBegin,
                ProcessReview, Begin
  <2> QED BY <1>5, <2>1, LeakDeliver DEF LeakInv
<1>6. ASSUME NEW w \in Workers, TaskFails(w) \/ Crash(w) PROVE FALSE
  BY <1>1, <1>6 DEF TaskFails, Crash
<1> QED BY <1>2, <1>3, <1>4, <1>5, <1>6 DEF Next, WorkerStep

(***************************************************************************)
(* For any number of operations, workers and relays, and whatever OPA      *)
(* answers: until the first failure, once the pipeline has finished with   *)
(* an operation, the residual findings of its sanitized text are in the    *)
(* database or its re-scan was dead-lettered.  After a crash between the   *)
(* commit of process_sanitize and its sends the code keeps no such promise.*)
(***************************************************************************)
THEOREM LeaksAreRecorded == Spec => [](faults = 0 => LeakIsRecorded)
<1>1. Init => LeakInv
  <2> SUFFICES ASSUME Init PROVE Leaks
    BY DEF LeakInv
  <2>1. \A o \in Ops : ~op[o].sanitized.set /\ op[o].residual = {}
    BY DEF Init, NoOp, NotSanitized
  <2>2. RescansRead
    BY DEF Init, RescansRead, IdleTask, Task
  <2> QED BY <2>1, <2>2 DEF Leaks, Filed, Followed
<1>2. LeakInv => (faults = 0 => LeakIsRecorded)
  <2> SUFFICES ASSUME Leaks, NEW o \in Ops, op[o].sanitized.set, Quiet(o)
               PROVE  \/ op[o].sanitized.leak \subseteq op[o].residual
                      \/ \E m \in dead : m.stage = "rescan" /\ m.op = o
    BY DEF LeakInv, LeakIsRecorded
  <2>1. Rescanning(o)
    BY DEF Leaks, Followed
  <2>2. \A w \in Workers :
          ~(OpOf(w) = o
            /\ worker[w].pc \in {"sendAudit", "sendRescan", "rescan", "rescanCommit"})
    BY DEF Quiet, Busy
  <2>3. \A m \in Message : m.op = o => ~(queue[m] > 0)
    BY DEF Quiet
  <2> QED BY <2>1, <2>2, <2>3 DEF Rescanning
<1> QED BY <1>1, <1>2, TrackInvariant, UploadInvariant, LeakInvStep, PTL DEF Spec

-----------------------------------------------------------------------------
(* The pipeline implements the life cycle.                                 *)

\* A step changes the row of at most one operation.
LEMMA OneRow ==
    ASSUME TypeInv, Next
    PROVE  \/ UNCHANGED op
           \/ \E o \in Ops : \A p \in Ops \ {o} : op'[p] = op[p]
<1>1. CASE \E p \in Ops : scan(p) \/ tool_scan(p)
  BY <1>1 DEF scan, tool_scan, Accept, TypeInv, TypeOK
<1>2. CASE \E r \in Relays : Relay(r) \/ RelayFails(r)
  BY <1>2 DEF Relay, RelayFails
<1>3. ASSUME NEW w \in Workers, Work(w)
      PROVE  \E o \in Ops : \A p \in Ops \ {o} : op'[p] = op[p]
  <2>1. Busy(w)
    BY <1>3 DEF Work, Busy, At, ScanCommit, ScanSend, SanitizeCommit, SendAudit,
           SendRescan, AuditPut, AuditCommit, RescanClean, RescanFound, RescanCommit
  <2>2. OpOf(w) \in Ops /\ op \in [Ops -> OpRow]
    BY <2>1 DEF TypeInv, TypeOK, TasksMatch
  <2>3. \A p \in Ops \ {OpOf(w)} : op'[p] = op[p]
    BY <1>3, <2>2
    DEF Work, ScanCommit, ScanSend, SanitizeCommit, SendAudit, SendRescan,
        AuditPut, AuditCommit, RescanClean, RescanFound, RescanCommit
  <2>4. QED
    BY <2>2, <2>3
<1>4. ASSUME NEW w \in Workers, NEW m \in Message, Deliver(w, m)
      PROVE  \/ UNCHANGED op
             \/ \E o \in Ops : \A p \in Ops \ {o} : op'[p] = op[p]
  BY <1>4
  DEF Deliver, BadId, ScanBegin, SanitizeBegin, AuditBegin, RescanBegin, Begin,
      ProcessReview, Deliverable, TypeInv, TypeOK
<1>5. CASE \E w \in Workers : TaskFails(w) \/ Crash(w)
  BY <1>5 DEF TaskFails, Crash
<1>6. QED
  BY <1>1, <1>2, <1>3, <1>4, <1>5 DEF Next, WorkerStep

\* What a step does to the phase and the seal of the operation it is about.
LEMMA PhaseStep ==
    ASSUME ~PolicyMayChange, CoverInv, RowsKnown, Next, NEW o \in Ops
    PROVE  LET f == PhaseOf(op[o])
               g == PhaseOf(op'[o])
           IN  \/ f = g /\ op'[o].sealed = op[o].sealed
               \/ /\ op'[o].sealed = op[o].sealed
                  /\ \/ f = "absent" /\ g = "accepted"
                     \/ f = "accepted" /\ g \in {"held", "sanitized"}
                     \/ f \in Lifecycle!Clean /\ g \in Lifecycle!Clean
               \/ f \in Lifecycle!Clean /\ g \in {f, "completed"} /\ op'[o].sealed
<1> USE DEF SameStatus, SameScan, SameText, SameSeal, SameStored, PhaseOf, Lifecycle!Clean
<1>1. /\ TypeInv /\ RowCovered(o) /\ RowCovered(o)' /\ (Held(o) => Held(o)')
      /\ op[o].status \in Statuses
  BY CoverRow DEF CoverInv, SealInv, TypeInv, TypeOK, OpRow
<1>2. RowStep(o)
  BY <1>1, RowSteps
<1>3. CASE Untouched(o) \/ Stores(o)
  BY <1>1, <1>3 DEF Untouched, Stores
<1>4. CASE Accepted(o)
  BY <1>1, <1>4 DEF Accepted, RowCovered
<1>5. ASSUME NEW w \in Workers, Scanned(w, o)
      PROVE  \/ PhaseOf(op[o]) = "accepted" /\ PhaseOf(op'[o]) \in {"accepted", "held"}
             \/ PhaseOf(op[o]) \in Lifecycle!Clean /\ PhaseOf(op'[o]) \in Lifecycle!Clean
  <2>1. op[o].status # "absent"
    BY <1>5 DEF Scanned, RowsKnown, Busy, At
  <2>2. ~Held(o) /\ (op[o].sanitized.set => op'[o].sanitized.set)
    BY <1>1, <1>5 DEF Scanned, Detected, Clash, FindingRows, RowCovered
  <2>3. op[o].sanitized.set \/ op[o].status = "pending"
    BY <1>1, <2>1, <2>2 DEF RowCovered, Held, Statuses
  <2>4. QED
    BY <1>1, <1>5, <2>1, <2>3 DEF Scanned, Statuses
<1>6. ASSUME NEW w \in Workers, Sanitizes(w, o)
      PROVE  \/ PhaseOf(op[o]) = "accepted" /\ PhaseOf(op'[o]) = "sanitized"
             \/ PhaseOf(op[o]) = PhaseOf(op'[o])
  BY <1>1, <1>6 DEF Sanitizes, RowCovered, Held, Statuses
<1>7. ASSUME NEW w \in Workers, Seals(w, o) \/ Rescans(w, o)
      PROVE  /\ PhaseOf(op[o]) \in Lifecycle!Clean
             /\ PhaseOf(op'[o]) \in Lifecycle!Clean
             /\ Seals(w, o) => PhaseOf(op'[o]) \in {PhaseOf(op[o]), "completed"}
  <2>1. op[o].sanitized.set /\ op'[o].sanitized.set
    BY <1>7 DEF Seals, Rescans, At, CoverInv, SealInv, SanitizedFirst
  <2>2. QED
    BY <1>1, <1>7, <2>1 DEF Seals, Rescans, RowCovered, Statuses
<1>8. QED
  BY <1>2, <1>3, <1>4, <1>5, <1>6, <1>7 DEF RowStep, Scanned, Sanitizes, Seals, Rescans

(***************************************************************************)
(* While the policy does not change, the agents, queues, relays, retries   *)
(* and crashes implement the life cycle OperationLifecycle states.         *)
(***************************************************************************)
THEOREM PipelineImplementsLifecycle ==
    ASSUME ~PolicyMayChange PROVE Spec => ImplementsLifecycle
<1>1. Init => Lifecycle!LifecycleInit
  BY DEF Init, NoOp, PhaseOf, Lifecycle!LifecycleInit
<1>2. CoverInv /\ RowsKnown /\ [Next]_vars => [Lifecycle!LifecycleNext]_(Lifecycle!lifecycle)
  <2> SUFFICES ASSUME CoverInv, RowsKnown, [Next]_vars
               PROVE  [Lifecycle!LifecycleNext]_(Lifecycle!lifecycle)
    OBVIOUS
  <2> DEFINE ph == [o \in Ops |-> PhaseOf(op[o])]
             se == {o \in Ops : op[o].sealed}
  <2>1. CASE UNCHANGED op
    BY <2>1 DEF Lifecycle!lifecycle
  <2>2. CASE Next
    <3>1. TypeInv
      BY DEF CoverInv, SealInv
    <3>2. CASE UNCHANGED op
      BY <3>2 DEF Lifecycle!lifecycle
    <3>3. ASSUME NEW o \in Ops, \A p \in Ops \ {o} : op'[p] = op[p]
          PROVE  [Lifecycle!LifecycleNext]_(Lifecycle!lifecycle)
      <4>1. \A from, s : ph[o] \in from /\ PhaseOf(op'[o]) = s
                            => Lifecycle!Move(o, from, s)
        BY <3>3 DEF Lifecycle!Move
      <4>2. op'[o].sealed = op[o].sealed => UNCHANGED se
        BY <3>3
      <4>3. op'[o].sealed => se' = se \cup {o}
        BY <3>3
      <4>4. CASE ph[o] = PhaseOf(op'[o]) /\ op'[o].sealed = op[o].sealed
        <5>1. UNCHANGED ph
          BY <3>3, <4>4
        <5>2. QED
          BY <4>2, <4>4, <5>1 DEF Lifecycle!lifecycle
      <4>5. CASE ph[o] = "absent" /\ PhaseOf(op'[o]) = "accepted" /\ UNCHANGED se
        BY <4>1, <4>5 DEF Lifecycle!LifecycleNext, Lifecycle!AcceptOp
      <4>6. CASE /\ ph[o] = "accepted" /\ PhaseOf(op'[o]) \in {"held", "sanitized"}
                 /\ UNCHANGED se
        BY <4>1, <4>6
        DEF Lifecycle!LifecycleNext, Lifecycle!HoldOp, Lifecycle!SanitizeOp
      <4>7. CASE /\ ph[o] \in Lifecycle!Clean /\ PhaseOf(op'[o]) \in Lifecycle!Clean
                 /\ UNCHANGED se
        BY <4>1, <4>7 DEF Lifecycle!LifecycleNext, Lifecycle!DecideOp
      <4>8. CASE /\ ph[o] \in Lifecycle!Clean
                 /\ PhaseOf(op'[o]) \in {ph[o], "completed"} /\ op'[o].sealed
        BY <4>1, <4>3, <4>8 DEF Lifecycle!LifecycleNext, Lifecycle!SealOp
      <4>9. QED
        BY <2>2, <4>2, <4>4, <4>5, <4>6, <4>7, <4>8, PhaseStep
    <3>4. QED
      BY <2>2, <3>1, <3>2, <3>3, OneRow
  <2>3. QED
    BY <2>1, <2>2 DEF vars
<1>3. TrackInv => RowsKnown
  BY DEF TrackInv
<1>4. QED
  BY <1>1, <1>2, <1>3, CoverInvariant, TrackInvariant, PTL
  DEF Spec, ImplementsLifecycle, Lifecycle!LifecycleSpec
=============================================================================
