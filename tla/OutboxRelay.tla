---------------------------- MODULE OutboxRelay -----------------------------
(***************************************************************************)
(* The transactional outbox (apps/api/db/models/outbox.py) and the relay   *)
(* that drains it into the broker (apps/workers/core/outbox_relay.py).     *)
(*                                                                         *)
(* An API request commits an operation and its outbox row in one           *)
(* transaction.  Every worker process runs a relay thread, so there are    *)
(* several; each locks a batch of unprocessed rows with FOR UPDATE SKIP    *)
(* LOCKED, sends one message per row, marks the rows and commits.  A send  *)
(* or a commit that fails rolls the whole batch back, although the sends   *)
(* already made cannot be undone.                                          *)
(***************************************************************************)
EXTENDS Dramatiq, FiniteSets

CONSTANTS
    Relays,      \* relay threads, one per worker process
    BatchSize,   \* settings.outbox_batch_size
    MaxFaults    \* bound on the failures and crashes of a behaviour

ASSUME RelayAssumption ==
    /\ BatchSize \in Nat \ {0}
    /\ MaxFaults \in Nat

VARIABLES
    outbox,      \* [Ops -> row]: the row written with each operation
    relay,       \* [Relays -> [batch, todo]]: rows locked, rows not yet sent
    faults       \* failures and crashes so far

RowStates == {"absent", "new", "done"}

\* id: payload["operation_id"]; after: the operations created earlier, which
\* is all that ORDER BY created_at needs.
OutboxRow ==
    [state : RowStates, id : Ops \cup {NoneId}, after : SUBSET Ops]

RelayIdle == [batch |-> {}, todo |-> {}]

OutboxTypeOK ==
    /\ outbox \in [Ops -> OutboxRow]
    /\ relay \in [Relays -> [batch : SUBSET Ops, todo : SUBSET Ops]]
    /\ faults \in 0 .. MaxFaults

OutboxInit ==
    /\ outbox = [o \in Ops |-> [state |-> "absent", id |-> NoneId, after |-> {}]]
    /\ relay = [r \in Relays |-> RelayIdle]
    /\ faults = 0

\* Mutant of RowLocked: FOR UPDATE without SKIP LOCKED's exclusion.
RowNeverLocked(o) == FALSE

\* The row of o is locked by an open relay transaction.
RowLocked(o) == \E r \in Relays : o \in relay[r].batch

\* The INSERT of a row whose payload names id, at the commit of a request.
AddRow(o, id) ==
    outbox' = [outbox EXCEPT ![o] =
        [state |-> "new", id |-> id,
         after |-> {p \in Ops : outbox[p].state # "absent"}]]

\* Mutant of RelaySelect: waits until a whole batch is there.
RelaySelectFullBatch(r) ==
    LET eligible == {o \in Ops : outbox[o].state = "new" /\ ~RowLocked(o)}
    IN  /\ relay[r] = RelayIdle
        /\ \E B \in SUBSET eligible :
              /\ Cardinality(B) = BatchSize
              /\ relay' = [relay EXCEPT ![r] = [batch |-> B, todo |-> B]]
        /\ UNCHANGED <<outbox, faults, queue, dead>>

(***************************************************************************)
(* relay_once, first half: lock the oldest unprocessed rows that no other  *)
(* relay has locked, at most BatchSize of them.                            *)
(***************************************************************************)
RelaySelect(r) ==
    LET eligible == {o \in Ops : outbox[o].state = "new" /\ ~RowLocked(o)}
    IN  /\ relay[r] = RelayIdle
        /\ \E B \in SUBSET eligible :
              /\ B # {}
              /\ \/ B = eligible /\ Cardinality(B) <= BatchSize
                 \/ Cardinality(B) = BatchSize
              /\ \A x \in B, y \in eligible \ B : y \notin outbox[x].after
              /\ relay' = [relay EXCEPT ![r] = [batch |-> B, todo |-> B]]
        /\ UNCHANGED <<outbox, faults, queue, dead>>

\* actor.send(operation_id) for the next row of the batch, oldest first.
RelaySend(r) ==
    \E o \in relay[r].todo :
        /\ \A p \in relay[r].todo : p \notin outbox[o].after
        /\ queue' = With(queue, Fresh("scan", outbox[o].id))
        /\ relay' = [relay EXCEPT ![r].todo = @ \ {o}]
        /\ UNCHANGED <<outbox, faults, dead>>

\* Mutant of RelayCommit: UPDATE outbox ... WHERE processed = false.
RelayCommitAll(r) ==
    /\ relay[r].batch # {}
    /\ relay[r].todo = {}
    /\ outbox' = [o \in Ops |-> IF outbox[o].state = "new"
                                THEN [outbox[o] EXCEPT !.state = "done"]
                                ELSE outbox[o]]
    /\ relay' = [relay EXCEPT ![r] = RelayIdle]
    /\ UNCHANGED <<faults, queue, dead>>

\* Every row of the batch was sent and marked: the session commits.
RelayCommit(r) ==
    /\ relay[r].batch # {}
    /\ relay[r].todo = {}
    /\ outbox' = [o \in Ops |-> IF o \in relay[r].batch
                                THEN [outbox[o] EXCEPT !.state = "done"]
                                ELSE outbox[o]]
    /\ relay' = [relay EXCEPT ![r] = RelayIdle]
    /\ UNCHANGED <<faults, queue, dead>>

(***************************************************************************)
(* A send raised, the commit failed or the process died: the transaction   *)
(* is rolled back and every row of the batch is unprocessed again.  The    *)
(* loop logs the error and polls again.                                    *)
(***************************************************************************)
RelayAbort(r) ==
    /\ relay[r].batch # {}
    /\ faults < MaxFaults
    /\ faults' = faults + 1
    /\ relay' = [relay EXCEPT ![r] = RelayIdle]
    /\ UNCHANGED <<outbox, queue, dead>>

RelayStep(r) == RelaySelect(r) \/ RelaySend(r) \/ RelayCommit(r)

-----------------------------------------------------------------------------
(* The relays alone, fed by requests; nobody consumes, so queue counts     *)
(* every message ever sent.                                                *)

\* A request commits its row; the MCP tool's payload does not name it.
Submit(o) ==
    /\ outbox[o].state = "absent"
    /\ \E id \in {o, NoneId} : AddRow(o, id)
    /\ UNCHANGED <<relay, faults, queue, dead>>

RelayInit == DramatiqInit /\ OutboxInit

RelayNext ==
    \/ \E o \in Ops : Submit(o)
    \/ \E r \in Relays : RelayStep(r) \/ RelayAbort(r)

relaySpecVars == <<queue, dead, outbox, relay, faults>>

RelaySpec == RelayInit /\ [][RelayNext]_relaySpecVars

\* run_relay_loop polls for ever, whatever a cycle ran into.
RelayFairSpec ==
    RelaySpec /\ \A r \in Relays : WF_relaySpecVars(RelayStep(r))

RelayTypeOK == DramatiqTypeOK /\ OutboxTypeOK

\* How often the scan of operation o was enqueued.
Sends(o) == queue[Fresh("scan", o)]

\* Open relay transactions that have sent o and not yet committed.
Uncommitted(o) == {r \in Relays : o \in relay[r].batch \ relay[r].todo}

(***************************************************************************)
(* The outbox guarantee: a row is marked processed only if its message     *)
(* was enqueued (outbox_relay.py, "Mark processed AFTER successful         *)
(* enqueue -- never before").                                              *)
(***************************************************************************)
DoneWasSent ==
    \A o \in Ops : outbox[o].state = "done" /\ outbox[o].id = o => Sends(o) > 0

(***************************************************************************)
(* Relays that poll the same table never deliver twice of their own        *)
(* accord: every delivery after the first is paid for by a roll-back       *)
(* (FOR UPDATE SKIP LOCKED holds the rows until the commit).               *)
(***************************************************************************)
DuplicatesNeedFaults ==
    \A o \in Ops : Sends(o) <= faults + 1

\* Every row is eventually relayed, however many relays compete for it.
Relayed == \A o \in Ops : outbox[o].state = "new" ~> outbox[o].state = "done"
=============================================================================
