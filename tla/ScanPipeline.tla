---------------------------- MODULE ScanPipeline ----------------------------
(***************************************************************************)
(* The asynchronous pipeline of apps/workers: an operation accepted by the *)
(* API is detected (process_scan), redacted (process_sanitize), archived   *)
(* and sealed (process_audit) and re-scanned (rescan_operation), or it is  *)
(* escalated and announced (process_review).                               *)
(*                                                                         *)
(* Each actor reads, computes for seconds and then commits, so a task is   *)
(* modelled as the reads that guard it, its commit, and each message it    *)
(* sends; any other task can run between two of these.  PostgreSQL runs at *)
(* READ COMMITTED and the agents take no lock, hence the guard of a task   *)
(* may be stale when the task commits.                                     *)
(***************************************************************************)
EXTENDS OutboxRelay

CONSTANTS
    Workers,          \* worker processes
    Keys,             \* (rule_id, span_start, span_end) of possible findings
    Critical,         \* the findings of severity critical
    Sources,          \* the entry points in use: "rest", "mcp"
    OpaAnswers,       \* what evaluating operation_requires_review may yield
    PolicyMayChange   \* OPA hot reload may change what process_scan detects

ASSUME PipelineAssumption ==
    /\ Critical \subseteq Keys
    /\ Sources \subseteq {"rest", "mcp"}
    /\ OpaAnswers \subseteq {"review", "pass", "unavailable"}
    /\ PolicyMayChange \in BOOLEAN

VARIABLES
    op,               \* [Ops -> OpRow]: PostgreSQL (and MinIO) per operation
    worker,           \* [Workers -> Task]: what each process is executing
    imported          \* processes that have imported rescan_agent

vars == <<queue, dead, outbox, relay, faults, op, worker, imported>>

Statuses == {"absent", "pending", "escalated", "completed"}

\* sanitized_text: the findings it redacts and the ones a re-scan reports.
Sanitized == [set : BOOLEAN, keys : SUBSET Keys, leak : SUBSET Keys]

NotSanitized == [set |-> FALSE, keys |-> {}, leak |-> {}]

(***************************************************************************)
(* text: what the detectors report on the document; blank: the document is *)
(* the empty string; found / residual: Finding rows of the scan / of the   *)
(* re-scan; redacted: Redaction rows per finding; stored: puts of the      *)
(* original in MinIO; artifacts: its Artifact rows; sealed: chain hash and *)
(* signature written (over status "completed"); announced: the reviewer    *)
(* agent logged the escalation.                                            *)
(***************************************************************************)
OpRow ==
    [status : Statuses, text : SUBSET Keys, blank : BOOLEAN,
     found : SUBSET Keys, residual : SUBSET Keys,
     redacted : [Keys -> Nat], sanitized : Sanitized,
     stored : Nat, artifacts : Nat, sealed : BOOLEAN, announced : BOOLEAN]

NoOp ==
    [status |-> "absent", text |-> {}, blank |-> FALSE,
     found |-> {}, residual |-> {},
     redacted |-> [k \in Keys |-> 0], sanitized |-> NotSanitized,
     stored |-> 0, artifacts |-> 0, sealed |-> FALSE, announced |-> FALSE]

Points == {"idle", "scan", "scanSend", "sanitize", "sendAudit", "sendRescan",
           "audit", "auditCommit", "rescan", "rescanCommit"}

\* keys, loaded: the values a task read, or computed, and will use later.
Tasks == [pc : Points, msg : Message, keys : SUBSET Keys, loaded : Statuses]

Task(p, m, ks, s) == [pc |-> p, msg |-> m, keys |-> ks, loaded |-> s]

IdleTask == Task("idle", Fresh("scan", NoneId), {}, "absent")

TypeOK ==
    /\ DramatiqTypeOK
    /\ OutboxTypeOK
    /\ op \in [Ops -> OpRow]
    /\ worker \in [Workers -> Tasks]
    /\ imported \subseteq Workers

Init ==
    /\ DramatiqInit
    /\ OutboxInit
    /\ op = [o \in Ops |-> NoOp]
    /\ worker = [w \in Workers |-> IdleTask]
    /\ imported = {}

-----------------------------------------------------------------------------
(* The API: both entry points commit the operation and its outbox row.     *)

Accept(o, id) ==
    /\ op[o].status = "absent"
    /\ \E text \in SUBSET Keys, blank \in BOOLEAN :
          /\ blank => text = {}
          /\ op' = [op EXCEPT ![o].status = "pending", ![o].text = text,
                              ![o].blank = blank]
    /\ AddRow(o, id)
    /\ UNCHANGED <<queue, dead, relay, faults, worker, imported>>

\* POST /v1/scan, for a document the deduplication lookup did not find.
scan(o) == "rest" \in Sources /\ Accept(o, o)

(***************************************************************************)
(* The MCP tool safecontext.scan.  str(operation.id) is taken before the   *)
(* flush that assigns the column default, so the payload names "None".     *)
(***************************************************************************)
tool_scan(o) == "mcp" \in Sources /\ Accept(o, NoneId)

-----------------------------------------------------------------------------
(* Running a task.                                                         *)

Busy(w) == worker[w].pc # "idle"

\* w takes m from its queue and will acknowledge it when the task ends.
Begin(w, m, task) ==
    /\ worker' = [worker EXCEPT ![w] = task]
    /\ queue' = Without(queue, m)
    /\ UNCHANGED <<dead, outbox, relay, faults, op, imported>>

Deliverable(w, m, s) ==
    /\ ~Busy(w)
    /\ m.stage = s
    /\ m.op \in Ops
    /\ queue[m] > 0

\* The task of w goes on with task t.
Goto(w, t) == worker' = [worker EXCEPT ![w] = t]

At(w, p) == worker[w].pc = p

OpOf(w) == worker[w].msg.op

\* The task of w raised: its transaction is rolled back.
TaskRaises(w) ==
    /\ Raise(queue, worker[w].msg)
    /\ Goto(w, IdleTask)

FindingRows(o) == op[o].found \cup op[o].residual

\* Mutant of Clash: the unique constraint is missing.
NoUniqueConstraint(o, D) == FALSE

\* uq_finding_operation_rule_span refuses to insert the findings D for o.
Clash(o, D) == D \cap FindingRows(o) # {}

(***************************************************************************)
(* rescan_operation has executed its UPDATE of o and has not committed:    *)
(* the row of the operation is locked and so are the keys it inserted.     *)
(***************************************************************************)
Reviewable == {"escalated"}   \* with rejected and approved, which a human sets

HoldsRow(w, o) ==
    At(w, "rescanCommit") /\ OpOf(w) = o /\ worker[w].loaded \notin Reviewable

OpRowFree(o) == \A w \in Workers : ~HoldsRow(w, o)

-----------------------------------------------------------------------------
(* detector_agent.process_scan                                             *)

\* uuid.UUID("None") raises before anything is read.
BadId(w, m) ==
    /\ ~Busy(w)
    /\ m.op = NoneId
    /\ queue[m] > 0
    /\ Raise(Without(queue, m), m)
    /\ UNCHANGED <<outbox, relay, faults, op, worker, imported>>

ScanBegin(w, m) ==
    /\ Deliverable(w, m, "scan")
    /\ IF /\ op[m.op].status = "pending"
          /\ \E p \in Ops : outbox[p].state # "absent" /\ outbox[p].id = m.op
       THEN Begin(w, m, Task("scan", m, {}, "pending"))
       ELSE Begin(w, m, IdleTask)

\* What regex and Presidio report under the policy in force.
Detected(o) ==
    IF PolicyMayChange THEN SUBSET op[o].text ELSE {op[o].text}

(***************************************************************************)
(* Whether findings D are escalated: OPA's answer or, when OPA cannot be   *)
(* reached, whether one of them is critical.  Without findings OPA is not  *)
(* asked.                                                                  *)
(***************************************************************************)
RequiresReview(D, answer) ==
    /\ D # {}
    /\ \/ answer = "review"
       \/ answer = "unavailable" /\ D \cap Critical # {}

ScanCommit(w) ==
    LET o == OpOf(w) IN
    /\ At(w, "scan")
    /\ OpRowFree(o)
    /\ ~RowLocked(o)
    /\ \E D \in Detected(o) :
          \/ /\ Clash(o, D)
             /\ TaskRaises(w)
             /\ UNCHANGED <<outbox, op>>
          \/ /\ ~Clash(o, D)
             /\ \E answer \in OpaAnswers :
                   LET new == IF RequiresReview(D, answer) THEN "escalated"
                                                           ELSE "pending" IN
                   /\ op' = [op EXCEPT ![o].found = @ \cup D,
                                       ![o].status = new]
                   /\ Goto(w, Task("scanSend", worker[w].msg, {}, new))
             /\ outbox' = [outbox EXCEPT ![o].state = "done"]
             /\ UNCHANGED <<queue, dead>>
    /\ UNCHANGED <<relay, faults, imported>>

\* Mutant of ScanSend: only escalations are passed on.
ScanSendEscalatedOnly(w) ==
    /\ At(w, "scanSend")
    /\ queue' = IF worker[w].loaded = "escalated"
                THEN With(queue, Fresh("review", OpOf(w))) ELSE queue
    /\ Goto(w, IdleTask)
    /\ UNCHANGED <<dead, outbox, relay, faults, op, imported>>

\* After the commit: the next stage is enqueued and the message acknowledged.
ScanSend(w) ==
    LET next == IF worker[w].loaded = "escalated" THEN "review" ELSE "sanitize"
    IN  /\ At(w, "scanSend")
        /\ queue' = With(queue, Fresh(next, OpOf(w)))
        /\ Goto(w, IdleTask)
        /\ UNCHANGED <<dead, outbox, relay, faults, op, imported>>

-----------------------------------------------------------------------------
(* sanitizer_agent.process_sanitize                                        *)

Redacted(o) == {k \in Keys : op[o].redacted[k] > 0}

\* Mutant of SanitizeBegin: only critical findings are redacted.
SanitizeCriticalOnly(w, m) ==
    /\ Deliverable(w, m, "sanitize")
    /\ IF Redacted(m.op) = {} /\ op[m.op].status # "absent"
       THEN Begin(w, m, Task("sanitize", m, FindingRows(m.op) \cap Critical, "absent"))
       ELSE Begin(w, m, IdleTask)

SanitizeBegin(w, m) ==
    /\ Deliverable(w, m, "sanitize")
    /\ IF Redacted(m.op) = {} /\ op[m.op].status # "absent"
       THEN Begin(w, m, Task("sanitize", m, FindingRows(m.op), "absent"))
       ELSE Begin(w, m, IdleTask)

\* Mutant of SanitizeCommit: it completes the operation, too.
SanitizeCommitCompletes(w) ==
    LET o == OpOf(w)
        F == worker[w].keys
    IN  /\ At(w, "sanitize")
        /\ OpRowFree(o)
        /\ \E leak \in SUBSET Keys :
              /\ op[o].blank => leak = {}
              /\ op' = [op EXCEPT
                   ![o].redacted = [k \in Keys |-> IF k \in F THEN @[k] + 1
                                                              ELSE @[k]],
                   ![o].status = "completed",
                   ![o].sanitized = [set |-> TRUE, keys |-> F, leak |-> leak]]
        /\ Goto(w, Task("sendAudit", worker[w].msg, {}, "absent"))
        /\ UNCHANGED <<queue, dead, outbox, relay, faults, imported>>

\* A Redaction row per finding read at the start; the text is rewritten.
SanitizeCommit(w) ==
    LET o == OpOf(w)
        F == worker[w].keys
    IN  /\ At(w, "sanitize")
        /\ OpRowFree(o)
        /\ \E leak \in SUBSET Keys :
              /\ op[o].blank => leak = {}
              /\ op' = [op EXCEPT
                   ![o].redacted = [k \in Keys |-> IF k \in F THEN @[k] + 1
                                                              ELSE @[k]],
                   ![o].sanitized = [set |-> TRUE, keys |-> F, leak |-> leak]]
        /\ Goto(w, Task("sendAudit", worker[w].msg, {}, "absent"))
        /\ UNCHANGED <<queue, dead, outbox, relay, faults, imported>>

\* Importing rescan_agent declares its queue: w consumes it from now on.
SendAudit(w) ==
    /\ At(w, "sendAudit")
    /\ queue' = With(queue, Fresh("audit", OpOf(w)))
    /\ imported' = imported \cup {w}
    /\ Goto(w, Task("sendRescan", worker[w].msg, {}, "absent"))
    /\ UNCHANGED <<dead, outbox, relay, faults, op>>

SendRescan(w) ==
    /\ At(w, "sendRescan")
    /\ queue' = With(queue, Fresh("rescan", OpOf(w)))
    /\ Goto(w, IdleTask)
    /\ UNCHANGED <<dead, outbox, relay, faults, op, imported>>

-----------------------------------------------------------------------------
(* auditor_agent.process_audit                                             *)

\* Mutant of AuditBegin: a redelivery takes the upload for done.
AuditBeginWithoutPut(w, m) ==
    /\ Deliverable(w, m, "audit")
    /\ IF op[m.op].artifacts = 0 /\ op[m.op].status # "absent"
       THEN Begin(w, m, Task(IF m.tries > 0 THEN "auditCommit" ELSE "audit",
                             m, {}, op[m.op].status))
       ELSE Begin(w, m, IdleTask)

AuditBegin(w, m) ==
    /\ Deliverable(w, m, "audit")
    /\ IF op[m.op].artifacts = 0 /\ op[m.op].status # "absent"
       THEN Begin(w, m, Task("audit", m, {}, op[m.op].status))
       ELSE Begin(w, m, IdleTask)

AuditPut(w) ==
    /\ At(w, "audit")
    /\ op' = [op EXCEPT ![OpOf(w)].stored = @ + 1]
    /\ worker' = [worker EXCEPT ![w].pc = "auditCommit"]
    /\ UNCHANGED <<queue, dead, outbox, relay, faults, imported>>

(***************************************************************************)
(* The ORM writes the status column only if "completed" differs from what  *)
(* the task loaded; the status now in the row is not looked at.  The seal  *)
(* is computed over "completed" in the same transaction.                   *)
(***************************************************************************)
AuditCommit(w) ==
    LET o == OpOf(w) IN
    /\ At(w, "auditCommit")
    /\ OpRowFree(o)
    /\ op' = [op EXCEPT
         ![o].artifacts = @ + 1,
         ![o].status = IF worker[w].loaded = "completed" THEN @ ELSE "completed",
         ![o].sealed = TRUE]
    /\ Goto(w, IdleTask)
    /\ UNCHANGED <<queue, dead, outbox, relay, faults, imported>>

-----------------------------------------------------------------------------
(* rescan_agent.rescan_operation                                           *)

\* Mutant of RescanBegin: any finding counts as a re-scan already done.
RescanBeginOnce(w, m) ==
    /\ Deliverable(w, m, "rescan")
    /\ w \in imported
    /\ IF /\ op[m.op].status # "absent"
          /\ op[m.op].sanitized.set /\ ~op[m.op].blank
          /\ FindingRows(m.op) = {}
       THEN Begin(w, m, Task("rescan", m, op[m.op].sanitized.leak,
                             op[m.op].status))
       ELSE Begin(w, m, IdleTask)

\* An empty sanitized_text is falsy, like one that was never written.
RescanBegin(w, m) ==
    /\ Deliverable(w, m, "rescan")
    /\ w \in imported
    /\ IF /\ op[m.op].status # "absent"
          /\ op[m.op].sanitized.set /\ ~op[m.op].blank
          /\ op[m.op].residual = {}
       THEN Begin(w, m, Task("rescan", m, op[m.op].sanitized.leak,
                             op[m.op].status))
       ELSE Begin(w, m, IdleTask)

\* Mutant of RescanClean: a status the database's CHECK does not know.
RescanCleanVerified(w) ==
    /\ At(w, "rescan")
    /\ worker[w].keys = {}
    /\ OpRowFree(OpOf(w))
    /\ op' = [op EXCEPT ![OpOf(w)].status = "verified"]
    /\ Goto(w, IdleTask)
    /\ UNCHANGED <<queue, dead, outbox, relay, faults, imported>>

\* Nothing left in the sanitized text: only "pending" is advanced.
RescanClean(w) ==
    LET o == OpOf(w) IN
    /\ At(w, "rescan")
    /\ worker[w].keys = {}
    /\ IF worker[w].loaded = "pending"
       THEN OpRowFree(o) /\ op' = [op EXCEPT ![o].status = "completed"]
       ELSE UNCHANGED op
    /\ Goto(w, IdleTask)
    /\ UNCHANGED <<queue, dead, outbox, relay, faults, imported>>

(***************************************************************************)
(* Residual findings.  If the status read may be overwritten, the UPDATE   *)
(* flushes the INSERTs, which the unique constraint may refuse, and locks  *)
(* the row; the reviewer is then enqueued before the session commits.      *)
(***************************************************************************)
RescanFound(w) ==
    LET o == OpOf(w)
        updates == worker[w].loaded \notin Reviewable
    IN  /\ At(w, "rescan")
        /\ worker[w].keys # {}
        /\ updates => OpRowFree(o)
        /\ \/ /\ updates /\ Clash(o, worker[w].keys)
              /\ TaskRaises(w)
           \/ /\ updates => ~Clash(o, worker[w].keys)
              /\ queue' = With(queue, Fresh("review", o))
              /\ worker' = [worker EXCEPT ![w].pc = "rescanCommit"]
              /\ UNCHANGED dead
        /\ UNCHANGED <<outbox, relay, faults, op, imported>>

RescanCommit(w) ==
    LET o == OpOf(w)
        D == worker[w].keys
        updates == worker[w].loaded \notin Reviewable
    IN  /\ At(w, "rescanCommit")
        /\ \A v \in Workers \ {w} : HoldsRow(v, o) => worker[v].keys \cap D = {}
        /\ \/ /\ ~updates /\ Clash(o, D)
              /\ TaskRaises(w)
              /\ UNCHANGED op
           \/ /\ updates \/ ~Clash(o, D)
              /\ op' = [op EXCEPT ![o].residual = @ \cup D,
                                  ![o].status = IF updates THEN "escalated" ELSE @]
              /\ Goto(w, IdleTask)
              /\ UNCHANGED <<queue, dead>>
        /\ UNCHANGED <<outbox, relay, faults, imported>>

-----------------------------------------------------------------------------
(* reviewer_agent.process_review only announces what is still escalated.   *)

\* Mutant of ProcessReview: announces the operations that are not escalated.
ProcessReviewPending(w, m) ==
    /\ Deliverable(w, m, "review")
    /\ queue' = Without(queue, m)
    /\ op' = [op EXCEPT ![m.op].announced = @ \/ op[m.op].status = "pending"]
    /\ UNCHANGED <<dead, outbox, relay, faults, worker, imported>>

ProcessReview(w, m) ==
    /\ Deliverable(w, m, "review")
    /\ queue' = Without(queue, m)
    /\ op' = [op EXCEPT ![m.op].announced = @ \/ op[m.op].status = "escalated"]
    /\ UNCHANGED <<dead, outbox, relay, faults, worker, imported>>

-----------------------------------------------------------------------------
(* Failures.                                                               *)

\* A task raises: database, storage or broker error.  Nothing uncommitted stays.
TaskFails(w) ==
    /\ Busy(w)
    /\ faults < MaxFaults
    /\ faults' = faults + 1
    /\ TaskRaises(w)
    /\ UNCHANGED <<outbox, relay, op, imported>>

\* A process dies and restarts; Redis redelivers the message it had not
\* acknowledged, and the new process has only the imports of workers/main.py.
Crash(w) ==
    /\ faults < MaxFaults
    /\ faults' = faults + 1
    /\ queue' = IF Busy(w) THEN With(queue, worker[w].msg) ELSE queue
    /\ Goto(w, IdleTask)
    /\ imported' = imported \ {w}
    /\ UNCHANGED <<dead, outbox, relay, op>>

-----------------------------------------------------------------------------
Deliver(w, m) ==
    \/ BadId(w, m) \/ ScanBegin(w, m) \/ SanitizeBegin(w, m)
    \/ AuditBegin(w, m) \/ RescanBegin(w, m) \/ ProcessReview(w, m)

Work(w) ==
    \/ ScanCommit(w) \/ ScanSend(w)
    \/ SanitizeCommit(w) \/ SendAudit(w) \/ SendRescan(w)
    \/ AuditPut(w) \/ AuditCommit(w)
    \/ RescanClean(w) \/ RescanFound(w) \/ RescanCommit(w)

WorkerStep(w) == Work(w) \/ \E m \in Message : Deliver(w, m)

\* The relays change nothing that belongs to the workers.
Relay(r) == RelayStep(r) /\ UNCHANGED <<op, worker, imported>>

RelayFails(r) == RelayAbort(r) /\ UNCHANGED <<op, worker, imported>>

Next ==
    \/ \E o \in Ops : scan(o) \/ tool_scan(o)
    \/ \E r \in Relays : Relay(r) \/ RelayFails(r)
    \/ \E w \in Workers : WorkerStep(w)
    \/ \E w \in Workers : TaskFails(w) \/ Crash(w)

Spec == Init /\ [][Next]_vars

(***************************************************************************)
(* Relay loops and worker threads run for ever; nothing makes a client     *)
(* submit, and nothing makes a failure happen.                             *)
(***************************************************************************)
Fairness ==
    /\ \A r \in Relays : WF_vars(Relay(r))
    /\ \A w \in Workers : WF_vars(WorkerStep(w))

FairSpec == Spec /\ Fairness

-----------------------------------------------------------------------------
(* Properties.                                                             *)

\* A message for o is waiting, is being worked on, or was dead-lettered.
InHand(o) ==
    \E m \in Message :
        /\ m.op = o
        /\ \/ queue[m] > 0
           \/ m \in dead
           \/ \E w \in Workers : Busy(w) /\ worker[w].msg = m

\* The payload of o's outbox row names o, as POST /v1/scan writes it.
Addressed(o) == outbox[o].id = o

(***************************************************************************)
(* An accepted document that has not been sanitized is never forgotten:    *)
(* while its operation is pending, its outbox row is unprocessed, or a     *)
(* message for it is queued, worked on or has been dead-lettered, across   *)
(* relay roll-backs, crashes and retries (outbox_relay.py: enqueue first,  *)
(* mark after; main.py: Retries, then the dead-letter queue, which keeps a *)
(* message for seven days).                                                *)
(***************************************************************************)
UnsanitizedIsTracked ==
    \A o \in Ops :
        op[o].status = "pending" /\ Addressed(o) /\ ~op[o].sanitized.set
            => outbox[o].state = "new" \/ InHand(o)

(***************************************************************************)
(* No operation is completed by the pipeline before a sanitized text       *)
(* exists that redacts everything the detectors report on its document.    *)
(***************************************************************************)
CompletedIsCovered ==
    \A o \in Ops :
        op[o].status = "completed" =>
            /\ op[o].sanitized.set
            /\ op[o].text \subseteq op[o].sanitized.keys

\* Escalated by process_scan: no sanitized text was ever made.
Held(o) == op[o].status = "escalated" /\ ~op[o].sanitized.set

(***************************************************************************)
(* What process_scan escalates waits for a human: no redelivered or        *)
(* overlapping task changes its status or sanitizes it.                    *)
(***************************************************************************)
HeldStaysHeld == [][\A o \in Ops : Held(o) => Held(o)']_vars

(***************************************************************************)
(* What the pipeline seals is complete: the original is in MinIO, its      *)
(* artifact row exists, and the text the seal is about was sanitized       *)
(* (process_audit writes all of it before or with the seal).  An operation *)
(* that safecontext.classify records is sealed without, and is no part of  *)
(* the pipeline.                                                           *)
(***************************************************************************)
SealedIsArchived ==
    \A o \in Ops :
        op[o].sealed => /\ op[o].stored > 0
                        /\ op[o].artifacts > 0
                        /\ op[o].sanitized.set

(***************************************************************************)
(* Uploads and artifact rows are repeated only to pay for a failure: the   *)
(* relay's locks, the acknowledgements and the guards of the stages let no *)
(* second audit of an operation through on their own.                      *)
(***************************************************************************)
UploadsNeedFaults ==
    \A o \in Ops :
        /\ op[o].stored <= faults + 1
        /\ op[o].artifacts <= op[o].stored

\* No message for o is waiting or being worked on.
Quiet(o) ==
    /\ \A m \in Message : m.op = o => queue[m] = 0
    /\ \A w \in Workers : Busy(w) => OpOf(w) # o

(***************************************************************************)
(* Personal data left in a sanitized text is not overlooked: once the      *)
(* pipeline has finished with an operation, every residual finding is in   *)
(* the database or its re-scan is in the dead-letter queue.                *)
(***************************************************************************)
LeakIsRecorded ==
    \A o \in Ops :
        op[o].sanitized.set /\ Quiet(o) =>
            \/ op[o].sanitized.leak \subseteq op[o].residual
            \/ \E m \in dead : m.stage = "rescan" /\ m.op = o

\* Every accepted scan is eventually completed or escalated.
Settles ==
    \A o \in Ops :
        op[o].status = "pending" ~> op[o].status \in {"completed", "escalated"}

\* Every escalation by process_scan is eventually announced to reviewers.
HeldIsAnnounced == \A o \in Ops : Held(o) ~> op[o].announced

-----------------------------------------------------------------------------
(* The pipeline implements the life cycle that OperationLifecycle states.  *)

\* The phase of an operation: its status, and whether its text is sanitized.
PhaseOf(row) ==
    CASE row.status = "absent"    -> "absent"
      [] row.status = "pending"   -> IF row.sanitized.set THEN "sanitized" ELSE "accepted"
      [] row.status = "escalated" -> IF row.sanitized.set THEN "flagged" ELSE "held"
      [] row.status = "completed" -> "completed"

Lifecycle ==
    INSTANCE OperationLifecycle
    WITH phase  <- [o \in Ops |-> PhaseOf(op[o])],
         sealed <- {o \in Ops : op[o].sealed}

(***************************************************************************)
(* Through every interleaving, redelivery and crash, the agents take each  *)
(* operation only along the life cycle: nothing is completed, flagged or   *)
(* sealed before it is sanitized, sanitizing and sealing are for good, and *)
(* a held operation is left to a human.                                    *)
(***************************************************************************)
ImplementsLifecycle == Lifecycle!LifecycleSpec

-----------------------------------------------------------------------------
(* What a document of the repository states and the code does not keep; it *)
(* is refuted by a run of its own.                                         *)

(***************************************************************************)
(* "Estado escalated no avanza sin accion humana" (DOC-3_SPEC): automation *)
(* never moves an escalated operation.  process_audit does.                *)
(***************************************************************************)
EscalationIsFinal ==
    [][\A o \in Ops :
        op[o].status = "escalated" => op'[o].status = "escalated"]_vars
=============================================================================
