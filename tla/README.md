# A verification model of SafeContext

SafeContext finds personal data in documents, redacts it and keeps evidence of
what it did. A FastAPI service accepts documents and commits them with an outbox
row; worker processes detect, sanitize, archive, seal and re-scan; humans decide
what the policy escalates. This directory holds TLA+ models of the parts where
that can go wrong between two steps, the TLC runs that check small instances,
and TLAPS proofs of their safety properties for every instance.
`PROJECT.json` maps every definition to the lines it translates and lists the
runs, the mutants that show each property can fail, the findings and the hazards.

## Inventory

| Component | State | Operations | Hard behaviour | What makes it correct |
|---|---|---|---|---|
| Broker (`workers/main.py`) | Redis queues, dead letters | send, deliver, retry, dead-letter | redelivery after a crash, exhausted retries | external; its contract is assumed |
| Outbox and relay (`core/outbox_relay.py`) | outbox rows, row locks | `relay_once`, `run_relay_loop` | several relays on one table, sends that a roll-back cannot undo | marked only if sent; sent twice only after a roll-back; always sent in the end |
| Detector agent | Finding rows, status | `process_scan` | status read long before it is written, OPA outage, duplicate delivery | what it escalates stays escalated; nothing is forgotten |
| Sanitizer agent | Redaction rows, sanitized text | `process_sanitize` | commit before the two sends | everything found is redacted |
| Auditor agent | MinIO object, Artifact row, seal | `process_audit` | upload outside the transaction, no check of the status | a seal implies a complete archive |
| Rescan agent | residual Finding rows, status | `rescan_operation` | enqueues before it commits, row lock, lazy import | a leak is recorded |
| Reviewer agent | a log | `process_review` | reads a status that may not be committed | escalations are announced |
| Scan endpoint, MCP tools | operation and outbox rows | `POST /v1/scan`, `safecontext.*` | two requests for one document, payload built before the id exists, tools that record without a look-up | `POST /v1/scan` repeats a finished operation only for requests in flight (`tool_scan` and `tool_classify` look nothing up); a REST scan accepted is processed |
| OPA client (`workers/core/opa_client.py`) | cached policy and version per process | poll, read | reloads during a poll, outages, restarts | a reload reaches every worker; a label is honest in quiet times |
| Human review (`api/v1/review.py`) | Redaction rows, status | approve, reject | check before lock, a transaction opened twice | an approval ends in a redaction; as written none does |
| Evidence chain (`db/evidence.py`, `core/chain.py`) | chain hashes, signatures, keys | seal, verify, anchor | two seals on one predecessor, purge, re-seal | an untouched chain verifies, a changed record does not |
| Audit API (`api/v1/audit.py`, `core/vault_transit.py`) | none of its own | export, verdict | keys rotated and operations sealed while an answer is made | an answer can be checked, and raises no false alarm |
| Retention (`core/retention_gdpr.py`) | rows, certificates | purge, erase | stops half-way, orphans | purged means gone, and certified |
| Rate limit (`core/auth_oidc.py`) | a sorted set in Redis, the memory of each replica | check | outages and lost answers, restarts of replicas and of Redis | the excess over the limit is bounded; nobody is refused below it |
| Quotas (`core/quotas.py`) | counters in Redis and in memory | check, increment | none: no code calls them | - |
| JWKS cache (`core/auth_oidc.py`) | key set, its age, a lock | fetch, verify | double-checked lock, slow answers, withdrawn keys | one fetch at a time, withdrawn keys die out, every request ends |
| Recall evaluator (`workers/ml/recall_evaluator.py`) | a gauge | evaluate | a threshold at one half | the recall is not inflated |
| Tenants, waivers | rows | administer, expire | expiry while in use | only active ones count |
| SIEM, compliance, UI, deployment, health | none of their own | format, read | none a model would show | - |

### How the parts interact

A request commits the operation (status `pending`) and an outbox row in one
transaction. The relay threads turn rows into `process_scan` messages.
`process_scan` writes findings and either escalates (message to
`process_review`) or passes on to `process_sanitize`, which sends
`process_audit` and `rescan_operation`. These two run in either order and both
write the status. Everything is shared through PostgreSQL at READ COMMITTED;
agents take no locks, so only constraints, and guards read at the start of a
task, keep two tasks for one operation apart.

## Modules

| Module | Models | Composes |
|---|---|---|
| `Dramatiq` | the broker as `workers/main.py` configures it (external) | - |
| `OutboxRelay` | outbox rows, relay transactions | `Dramatiq` |
| `ScanPipeline` | both intakes and the five agents | `OutboxRelay` |
| `EvidenceChain` | seals, the hash chain, key rotation and archive, anchors, offline verification | - |
| `Retention` | GDPR purges with certificates and the plain retention job | `EvidenceChain` |
| `OperationLifecycle` | the abstract life of an operation; `ScanPipeline` implements it | - |
| `AuditExport` | exports and verdicts of the audit API, step by step | `EvidenceChain` |
| `Intake` | policy labels, deduplication and the tools that bypass it, the polling caches of the workers | - |
| `JwksCache` | the cached signing keys of Keycloak behind their lock | - |
| `Limits` | the rate limit of the MCP endpoints, in Redis and in memory | - |
| `HumanReview` | approvals, rejections and delegated approvals of one escalated operation | - |
| `Redaction` | merging of findings and replacement of spans, against a reference | - |
| `Recall` | when a detection counts as a hit, on the spans of `Redaction` | `Redaction` |
| `MC*` | instances for TLC | |
| `ScanPipelineProofs` | theorems about the relays alone; typing, what a step can do to a row, a task and a message; the first theorems about the pipeline | `ScanPipeline` |
| `ScanPipelineTracking` | theorems about the pipeline that count or follow messages, and its refinement | `ScanPipelineProofs` |
| `EvidenceChainProofs` | theorems about the chain, its keys and anchors, the audit API and purges | `AuditExport`, `Retention` |
| `RedactionProofs` | theorems about the redacted text, its reference and recall | `Recall` |
| `JwksCacheProofs` | theorems about the cached signing keys | `JwksCache` |
| `LimitsProofs` | theorems about the rate limit | `Limits` |
| `IntakeProofs` | theorems about labels and deduplication | `Intake` |
| `HumanReviewProofs` | what decisions come to | `HumanReview` |

### State and actions against the code

*Broker.* `queue` is a bag of messages `[stage, op, tries]`; a delivered message
leaves the bag and is acknowledged when its task ends. An actor that raises has
its message put back with one try more, or dead-lettered at `MaxRetries`
(`Raise`). Back-off delays are left out: any delay is an interleaving. `dead`
keeps every message dead-lettered so far; in Redis it expires after the seven days
of `dead_message_ttl`, and nothing in the code reads it before.

*Relay.* `RelaySelect` is the `FOR UPDATE SKIP LOCKED` query with its
`ORDER BY created_at LIMIT`; `RelaySend` one `actor.send`; `RelayCommit` the
commit that marks the batch; `RelayAbort` any failure, which rolls the batch back
and leaves the messages where they are.

*Pipeline.* A task is a program counter with the values it read. Each agent is
split where another process can interfere: the guard reads (`ScanBegin`,
`SanitizeBegin`, `AuditBegin`, `RescanBegin`), the transaction that commits
(`ScanCommit`, `SanitizeCommit`, `AuditCommit`, `RescanClean`, `RescanCommit`),
and each effect outside the transaction (`ScanSend`, `SendAudit`, `SendRescan`,
`AuditPut`, and the send of `RescanFound`, which comes before its commit).
Findings are members of `Keys`, standing for `(rule_id, span_start, span_end)`,
the triple of the unique constraint (`Clash`). What a re-scan of the sanitized
text would report is chosen freely when the text is made (`leak`).
`rescan_agent` is not among the imports of `workers/main.py`; a process consumes
its queue only after `process_sanitize` imported it (`imported`).
OPA is external: `OpaAnswers` is the set of answers its evaluation can give. The
deployed rego defines `operation_requires_review` as a function of the findings
(`apps/policies/base/safecontext.rego:101`), which the data API does not
evaluate, so its answer there is always "pass"; the runs allow all three.

*Chain.* Operations are numbered in the order of `created_at`, the order in which
`get_latest_chain_hash` and `verify_chain` sort. A hash is the sequence of what
was hashed, so equal hashes mean equal histories (SHA-256 is taken to have no
collisions). A transaction that seals is `SealLoad` (its caller reads the
operation), `SealFlush` (its UPDATE locks the row; the newest hash is read) and
`SealCommit`, in which Vault may or may not sign and may or may not hand out the
public key to archive. The auditor seals whatever has no artifact, reviews only
what is escalated, and `tool_classify` the row it has inserted in the same
transaction (`kind`; here `Create` and a seal of the new row, with more in between
than the program allows). The runs have the two kinds that get that far, `audit`
and `classify`, the theorems any. `SetStatus` is a status change without a seal:
`process_scan` and `rescan_operation` make it. `orderly` is a history variable:
it becomes false when a seal overlaps another, comes out of order or is repeated,
when the status of a sealed row changes, and when a sealed row is deleted.
`resigned` becomes false when an operation is sealed again without a new
signature, which leaves the old one in the row.

*Retention.* `run_gdpr_purge` reads the clock for its cut-off (`PurgeBegin`),
`find_expired_operations` reads it again for the list (`PurgeList`), the DELETE
uses the first (`PurgeDelete`), and the certificate is stored after the commit or
not at all (`PurgeCertify`, `PurgeFails`). `horizon` is the clock: `1 .. horizon`
are past their retention. A deleted row stays in the model as `purged` and counts
for nothing.

*Review.* A request is `Load` (without a lock), `Begin` (the `db.begin()` that
follows), `Lock` (the row lock and the counts) and `Commit`. Redactions are a set
of rows, several of which may be for one finding, because the table has no
constraint against it; `total_redactions` counts rows, as the code does.
`in_transaction` is the state of the request's session: every statement it
executes begins a transaction, and `db.begin()` raises within one. So every
request ends at `Begin`; what comes after it is modelled as written, and
`NoDecisionIsRecorded` says that it is not reached.

*Redaction.* A document is the sequence of its positions, so that each character
tells where it came from; the marker is made of zeros. A finding has a rule and a
span, so two may share a span. `Merge` stores what `_merge_findings` makes of the
two detectors' reports; then `_apply_redactions` or `tool_sanitize` loads it.
`Splice` is one turn of the agent's loop, from the last span to the first (spans
that start together in any order); `Group` one turn of the tool's loop that joins
overlapping spans, `Replace` one of the loop that replaces the groups. The tool's
refusals (no such operation, escalated, no document) change nothing and are left
out. `Reference` says position by position, as a recursive function, what should
remain: a covered position that no span joins to the one before it gives a marker,
the others that are covered give nothing.

*Life cycle.* `OperationLifecycle` has one phase per operation and no queues,
tasks or faults. `PhaseOf` maps a row of the pipeline to its phase: the status,
with "pending" and "escalated" each split by whether the sanitized text exists.
"held" (escalated, not sanitized) has no way out; "flagged" (escalated by the
re-scan) has one, because `process_audit` overwrites it.

*Audit API.* An export is followed from the load of the operation
(`ExportLoad`) over the signature, made when sealed or by Vault now
(`ExportSign`), to the look-up of the public key (`ExportServe`); a verdict from
the walk over the chain (`VerdictWalk`) over the latest anchor (`VerdictAnchor`) to
the comparison with the live head and the check of its signature (`VerdictHead`).
Seals, rotations and anchors happen in between. `durable`, `sound`,
`walked` and `checked` are history. Requests only read, so one is followed.

*Intake.* `Lookup` is the choice of the label (the client's, OPA's or the
fallback) and the deduplication query, `Create` the transaction. `tool_scan` and
`tool_classify` insert operations for the same documents and labels without a
query, the latter as completed, so that the query finds it (`source` tells them
apart). The message of `tool_scan` names no operation, so no worker takes its rows
up. `GetVersion`,
`GetPolicy` and `ApplyPoll` are the two concurrent requests of `_refresh` and what
it makes of them; `PollRaises` a poll that is given up. `DetectBegin` reads the
cached policy. The rest of the pipeline is `DetectCommit` and `Settle`; what audits
and re-scans then change between `completed` and `escalated` is the same to the
query. Purges are left out, so nothing is claimed of operations purged since. `calm`,
`polled`, `due` and `late` are history.

*JWKS cache.* `waiters` is the FIFO of `asyncio.Lock`, its holder first. Only
awaits are steps: `Acquire` (the second check), `Answer` (Keycloak reads its
keys), `Store` (the answer arrives and is dated), `FetchFails`. `FetchMax` bounds a
whole fetch, which is an assumption on Keycloak and the network: the timeout of
httpx bounds each of its reads and writes. Ages count ticks
and are capped where they no longer matter, so behaviours go on for ever.

*Limits.* A call stands for its time stamp, which Redis and the memories of the
replicas keep in sets; `age` is how long ago it was made. `InRedis` is the pipeline
that evicts, counts and adds; `InMemory` the deque of a replica. `Call` has the four cases of the `try`/`except` around them:
admitted, refused by Redis (the 429 is an exception, too, and is handed to the
fallback), answer lost, Redis down. `RedisRecovers` ends an outage, with the
sorted set as it was or, after a restart from the last snapshot, with any part of
it (`infra/k8s/deployments/redis.yaml` saves once a minute).

*Recall.* `_iou` is kept as a fraction. A label counts as found if some detection
reaches one half.

## Runs

| Run | Bounds | Shows |
|---|---|---|
| `outbox` | 3 rows, 2 relays, batches of 2, 2 roll-backs | `DoneWasSent`, `DuplicatesNeedFaults`, and with fair relays `Relayed` |
| `pipeline_faults` | 1 operation, 2 workers, 2 relays, 2 findings (one critical), 2 failures or crashes, 1 retry | `UnsanitizedIsTracked`, `CompletedIsCovered`, `SealedIsArchived`, `UploadsNeedFaults`, `HeldStaysHeld`, and the refinement `ImplementsLifecycle` |
| `pipeline_live` | the same without failures, policy reloads allowed, fair relays and workers | `Settles`, `HeldIsAnnounced`, `LeakIsRecorded` |
| `evidence` | 2 operations, 2 transactions at once, 2 key versions, audits and `classify` records, signatures and archiving that may fail, one export or verdict | `OrderlyChainVerifies`, `AnchorIsPrefix`, `OfflineVerifies`, `ServedExportVerifies`, `VerdictIsHonest` |
| `retention` | 2 operations, 1 seal and 2 purges at once | `CertificateNamesDeleted`, `DeletedOnce`, `DeletionIsNoticed` |
| `redaction` | all sets of up to 3 findings of 2 rules in 4 characters, a marker of 2 | `DisjointIsExact`, `LongFindingsAreCovered`, `ToolIsExact`, `RecallIsNotInflated` |
| `keys` | 3 requests, a TTL of 2 ticks, a fetch of up to 1, 1 rotation | `NoHerd`, `WithdrawnKeysDieOut`, and with a fair event loop `EveryRequestEnds` |
| `limits` | 2 replicas, 5 calls at a time of which 1 is allowed per window of 2 ticks, 2 outages or lost answers, 1 restart of a replica or of Redis | `AdmissionIsBounded`, `RefusedOnlyAboveLimit` |
| `intake` | 1 worker, 2 requests and the two tools that create operations, 1 document, 2 operations, 1 reload, 2 faults | `CalmLabelIsHonest`, `DuplicatesAreInFlight`, and with fair polling `ReloadReachesWorkers` |
| `claim_*` | the smallest instance that shows it | one statement of a comment or document each, which the code does not keep |

Why the bounds are enough. Operations share only the relays' batches and the
workers' time, so one operation with two workers shows every conflict of two
tasks, and the relay's own run has three rows, two batches. Two failures allow a
duplicate delivery and a failure during it; one retry reaches the dead-letter
queue. Two findings tell "some" from "all" and critical from not. Two operations
and two open transactions fork a chain and reorder it; two key versions tell the
signing key from the latest. The `evidence` run has the constraint `Explored`:
a chain that was disturbed stays so, and all that is still claimed of it is what
an export under way says, so its states are expanded only with an export and
without a seal under way; nothing is expanded from an answer, and with a request
under way at most one transaction seals (what two do to the chain is covered
without a request), and an export, which reads no anchor, does not go on beside an
anchor request. `Retention` leaves out rotations and
anchors, which purges neither read nor write. A marker of two characters is
longer than some findings, as long as some and shorter than others. The proofs
need none of these bounds. Three requests at the JWKS lock are a holder, a waiter
that finds the set refreshed and one that must fetch again; a limit of one call
is exceeded by the second, two replicas overlap, and five calls are one more than
Redis, two replicas and a restart are allowed to admit together. One worker
suffices in `intake` because workers share nothing but OPA and the table, and
two requests because a duplicate needs one that is past its look-up; two
operations are one and its duplicate.

Deadlock is not checked in runs where the system may come to rest: all
documents processed, all rows purged, all findings redacted.

Fairness. `run_relay_loop` polls for ever and catches what a cycle raises, and
Dramatiq's worker threads keep consuming: weak fairness of each relay and of each
worker process. `start_polling` polls for ever and catches what a poll raises: weak
fairness of each worker's poll, while reloads and faults end. The event loop runs
every coroutine that can run, the lock is first come first served, and a fetch
ends, at the latest when httpx gives up a read that brings nothing: weak fairness
of each request's steps, one of which is that the fetch fails. A request to review
is served to its end by the event loop: weak fairness of `Serve`. No fairness is assumed of requests and of failures.

Mutants. Each property of a passing run has a mutated definition (a dropped
lock, a missing constraint, a forgotten send) with which TLC finds it violated.

### What the `claim_*` runs show

* `claim_escalation`: an audit that runs after the re-scan takes an escalated
  operation to `completed`.
* `claim_chain`: if the younger of two operations is audited first, the chain
  that the auditor writes does not verify, although nobody touched it.
* `claim_review`: `approve_finding` promises to "create a Redaction, advance
  operation if fully reviewed" (`review.py:173`). Its SELECT begins a transaction
  and its `db.begin()` then raises, in the SQLAlchemy that `pyproject.toml` asks
  for; `audit.py:613` says so of this pattern. Under fair service an approval is
  never recorded. `reject_finding` and `tool_approve` are written alike. (With a
  `Begin` that goes through, the same instance keeps the property.)

Seen while modelling, without a run of their own:

* A crash between the commit of the redactions and the sends of
  `process_sanitize` leaves the operation `pending` for ever: the redelivery finds
  the redactions and returns (`sanitizer_agent.py:83`).
* A finding nested in another and shorter than the marker pushes the outer
  finding's last characters out of its slice; they stay in the text
  (`sanitizer_agent.py:69`). `_merge_findings` compares the two detectors' findings
  with each other, not those of one detector among themselves, although it promises
  a "list with no overlapping entries" (`detector_agent.py:56`). The theorem
  `NothingLongIsLeft` says when overlaps do no harm, and `ToolRedactionIsExact`
  that the tool, which merges first, does not have the problem.
* Should an approval get past its `db.begin()`, it seals the operation and
  enqueues nothing (`review.py:227`): the pipeline would still not sanitize or
  archive what `process_scan` escalated.
* `tool_classify` records an operation as `completed` with the label "1.0.0"
  (`router.py:397`), and the deduplication query asks for status, digest and label
  only: a later `POST /v1/scan` of the document under that label is answered from
  it, with no findings, although its comment speaks of a combination "already
  successfully processed" (`scan.py:125`) and nothing was scanned.
* `tool_classify` seals at once. Any scan that was accepted before it and is audited
  after it is then sealed out of order, as in `claim_chain`.
* `core/quotas.py:3` says that its functions enforce limits; nothing calls them, so
  the scans of a day are not limited.
* A message is in Redis alone once its outbox row is marked. ADR-002 asks that a
  `FLUSHALL` of Redis lose no data (`apps/docs/adr/ADR-002-redis-efimero.md:14`); the documents of such
  messages would stay `pending`. The broker's contract is assumed here, a Redis
  that loses queues is not modelled.
* `run_relay_loop` connects to the broker before its `try`: a relay that finds
  Redis down when it starts ends.
* The payload of an MCP scan names the operation "None", so it is never processed.
* `rescan_agent` is consumed only by a process that has sanitized something since
  its start.
* A re-scan changes the status of a sealed operation and does not seal it again,
  so that `verify_chain` reports it.
* A certificate may name operations that its purge did not delete (they expired
  between the two readings of the clock, or another purge was faster).
* An export whose key was not archived embeds the latest key of Vault, which
  after a rotation is not the one that signed; so does a read-time signature, if
  the key is rotated between the signature and the look-up (`audit.py:241`).
* The status that `approve_finding` checks again under its lock is the one it had
  loaded before, because the SELECT does not refresh an object of the session.
* Deduplication goes by the label of an operation, not by the policy its worker
  detected with (`scan.py:125`): outside quiet times a request may be answered
  with results of another policy than it asks for.
* The refusal of the Redis rate limiter is caught by the `except Exception` around
  it and handed to the limiter in memory (`router.py:86`), so each replica admits
  the limit once more.
* The DLQ monitor reads a Redis list that Dramatiq does not use.

## Proofs

All theorems hold for any sets of operations, relays, workers and findings (finite
where the code counts them), any batch size and any number of retries and
failures. What is assumed of the constants is written beside their declaration
and evaluated by the runs: bounds are natural numbers, sets that are counted are
finite, and sets without which there is nothing to do (documents, say) are not
empty.

* `ScanPipelineProofs`, the relays. `DoneWasSent` is not inductive: that a row is sent when
  the commit marks it needs that rows in a batch and no longer to do were sent;
  `DuplicatesNeedFaults` needs that at most one transaction holds a row and that
  a `new` row was sent at most once per roll-back. `RelayInv` adds these facts.
* `ScanPipelineProofs`, the pipeline. `TypeInv` joins the types with the fact that a task
  points into the actor of its message. `TaskSteps`, `RowSteps` and
  `MessageSteps` reduce any step to what it can do to one task, one row and one
  kind of message, so that the later proofs do not look at every action again.
  `SealInv`: audits exist only for sanitized operations,
  and a task about to seal has uploaded. `CoverInv`: whatever is past the scan
  has all its findings written, so the sanitizer read all of them; it needs the
  assumption `~PolicyMayChange`, and so do `CompletionIsCovered` and
  `EscalationHolds`. Under a reload the second delivery of a scan may detect
  another set.
* `ScanPipelineTracking`. `TrackInv`: an unsanitized pending operation has an
  outbox row not yet sent by an open relay transaction, or a live message other
  than a review. It uses no assumption on the policy.

  `UploadInv` is a budget for each operation: the outbox row not yet sent, the
  waiting messages of the stages up to the audit, the tasks that still lead to an
  upload and the uploads made are together at most one more than the failures so
  far. A step only moves a unit along (the relay turns the row into a message, a
  delivery the message into a task, a task its message into the next stage's); a
  roll-back, a retry and a crash give one back, and each is a failure. The
  acknowledgement and the relay's lock are what keeps the sum from growing.

  `LeakInv`, up to the first failure: as soon as the text is sanitized a re-scan is
  still to be sent, waiting or running, or the residual findings are in the table.
  That a re-scan has read the text that is there needs that no second
  `process_sanitize` replaces it, which `UploadInv` gives. The theorem carries the
  condition `faults = 0` because the code promises no more: a crash between the
  commit of `process_sanitize` and its sends drops the re-scan for good.

  The refinement
  (`PipelineImplementsLifecycle`) goes row by row: what a step does to one row is
  a step of `OperationLifecycle` or leaves its phase alone. It needs `SealInv`
  (only sanitized operations are sealed) and `CoverInv` (a redelivered scan of an
  escalated operation does not get past its guard or the unique constraint), and
  so the assumption `~PolicyMayChange`.

* `EvidenceChainProofs`. `OrderlyChainVerifies` is not inductive: `verify_chain`
  looks at the first `Limit` rows, a seal continues the newest one. `ChainInv`
  says that while the chain is orderly every sealed row links to the newest
  sealed one before it, and that a row not yet created has no hash.
  `SignedInv`: a signature is over the status in the row and by the recorded
  version, unless the chain was disturbed or a seal repeated unsigned.
  `GrowthInv`: while the chain is orderly the head has one element for each sealed
  operation, in order, and the anchors, stored or under way, are prefixes of it;
  a new seal only appends. `AuditInv` says what an export or a verdict
  has read so far still means after the seals, rotations and anchors that came
  since: an archived key stays archived, Vault's latest version only grows, the
  anchored head stays a prefix of the present one. `ServedExportVerifies` and
  `VerdictIsHonest` follow from it in their last steps.
* `EvidenceChainProofs`, retention. `RetentionInv`: the cut-off of a purge is never beyond the
  horizon, so what it deletes was expired when it listed, and, rows never coming
  back, was listed; a seal that holds a row finds it there, so it revives none;
  what any purge or certificate counts as deleted is `purged` in
  the table, so that no later DELETE can count it again. Two certificates that
  are equal, because neither deleted anything, are one. `DeletionIsNoticed` is an
  action property: what a DELETE takes is a prefix of the operations, so the first
  sealed row that is left and looked at has none before it, while its hash
  continues that of a row which is gone. That there is a first one is the
  well-foundedness of `<` on the naturals.
* `JwksCacheProofs`. `HerdInv`: who fetches is the head of the lock's queue, and
  the set has been stale since the second check under the lock. `DeathInv` bounds
  for how long a key can have been withdrawn that is in the cache (its age and one
  fetch), in an answer on its way (the time of its fetch) or just used.
* `LimitsProofs`. `AdmissionIsBounded` needs to know to whom each admitted call is
  due. `Accounted` puts it down to Redis (what Redis admitted is still in the sorted
  set, and was fewer than RPM before), to a replica that remembers it, or to a
  restart, each with at most RPM calls. That all memories together hold at most RPM
  times the number of replicas is an injection into pairs of a replica and a
  place, which takes no induction. A restart of Redis may take admitted calls out
  of the sorted set; these are then the restart's.
* `IntakeProofs`. `IntakeInv`: the label of a calm operation that waits is OPA's
  policy, and a worker that polled since the last reload has that policy, as has
  a poll under way that no reload overtook; each operation has one
  task at most. For the duplicates it counts: those that the endpoint created since
  an operation finished and those that its requests in flight will still create are
  no more than the requests that were in flight then. A tool adds a row and none of
  these (`RecordStep`); a row that `tool_classify` adds starts with the requests in
  flight at that moment as its due.
* `HumanReviewProofs`. `Undecided` is not inductive: that nothing is written needs
  that no request is past `db.begin()`, and that none gets past it needs that each
  request which has loaded its finding has its session in a transaction
  (`NoneBegins`). It refutes what `review.py` promises, for any number of findings
  and reviewers, and is the general form of what `claim_review` shows.

* `RedactionProofs`. Induction over the text is done by hand: a set of positions
  that is not empty has a least one, and the least counterexample is refuted.
  `TailsExist` shows in this way that the recursive function of the reference
  exists; without that its equations (`TailsUnroll`) could not be used.
  `ReferenceIsFaithful` says of the reference alone that it leaves exactly the
  characters no finding covers, in order, so that a comparison with it means
  something. `RedactionInv` then follows the loops. For the tool: the groups made
  so far are in order, do not overlap and cover what the findings treated so far
  cover (`Grouping`), and while they are replaced the text is the document up to
  the end of the last group left and the reference behind it (`DoneAfter`).
  `OneReplacement` is the step of both loops: a slice assignment moves that
  boundary to the start of the group. For the agent with disjoint findings the
  boundary is any point between the spans left and those done; with overlapping ones that are
  at least as long as the marker, a character left in the text stands at or before
  its own position and in no span treated so far (`Survivors`), so that no slice
  ends too early. `RecallIsHonest` needs no induction: two labels that do not
  overlap share out the length of one detection, and the threshold leaves them
  just that.

The type invariants that the runs check are theorems, too; with these, every
invariant and every action property of a passing run, and the refinement, is a
theorem.

Only model-checked: the five liveness properties (`Relayed`, `Settles`,
`HeldIsAnnounced`, `EveryRequestEnds`, `ReloadReachesWorkers`). They need
reasoning about fairness and `ENABLED`, which the prover does not do.

## Plan

1. Done: broker, outbox relay and worker pipeline with its abstract life cycle;
   the chain with keys, anchors, exports and verdicts; retention; human review;
   redaction and recall; intake and policy reloads; the rate limit; the JWKS
   cache.
2. Done: proofs of every safety property of these modules.
3. Not done: the review as a step of `OperationLifecycle`. As the code is, no
   review gets as far as to take one.

## Not modelled, and why

Detection itself (regular expressions, Presidio, models) is language processing;
the pipeline takes its result as given. The rules in Rego are evaluated by OPA;
their answers are a constant. The SIEM emitter, compliance reports, listings,
health checks, the web interface and the deployment files keep no state of their
own; the DLQ monitor reads a length. `classifier_agent` only logs, and nothing
enqueues it; `tool_policy_get` answers without writing, and of `tool_classify` the
keyword rules are left out, not what it writes. Tenant
administration and waivers write single rows in single statements, and no part of
the pipeline reads waivers. No code calls `core/quotas.py` (the daily scan quota, the size
limit, the rate limit per tenant), so the program has no behaviour of it to model.
Time-stamp tokens,
the HMAC of an export and the child rows of a purge are left out of the modules
that model the rest of their operations.
