---------------------------- MODULE HumanReview -----------------------------
(***************************************************************************)
(* Human review of one escalated operation: apps/api/api/v1/review.py and  *)
(* the delegated approval of apps/api/mcp/router.py (tool_approve).        *)
(*                                                                         *)
(* Each request loads the finding and its operation without a lock, opens  *)
(* a transaction, takes the lock of the operation's row (approve with FOR  *)
(* UPDATE, the others with their UPDATE), and commits.  The transaction is *)
(* to be opened by db.begin(), on the session that executed the SELECT.    *)
(***************************************************************************)
EXTENDS Naturals, FiniteSets

CONSTANTS
    Findings,        \* the findings of the operation
    Redacted,        \* those the sanitizer had redacted before the escalation
    Reviewers,       \* people and agents; each has one request at a time
    Owners,          \* those of them who submitted the document
    MaxRedactions    \* bound on the redactions of one finding

VARIABLES
    status,          \* the status of the operation
    redactions,      \* the committed rows of the redactions table
    sealed,          \* the status over which the operation was sealed, if any
    req              \* [Reviewers -> Request]

reviewVars == <<status, redactions, sealed, req>>

\* <<f, i>>: the i-th redaction of finding f.
RedactionRow == Findings \X (1 .. MaxRedactions)

Decisions == {"approve", "reject", "delegated_approve"}

(***************************************************************************)
(* in_transaction: the request's session has begun a transaction, as every *)
(* statement it executes makes it do; closes: the decision ends the review.*)
(***************************************************************************)
Request == [pc : {"idle", "loaded", "begun", "locked"}, kind : Decisions,
            finding : Findings, in_transaction : BOOLEAN, closes : BOOLEAN]

ReviewInit ==
    /\ status = "escalated"
    /\ redactions = Redacted \X {1}
    /\ sealed = "none"
    /\ req = [r \in Reviewers |->
                 [pc |-> "idle", kind |-> "approve", in_transaction |-> FALSE,
                  finding |-> CHOOSE f \in Findings : TRUE, closes |-> FALSE]]

\* The request is answered and get_db closes its session.
End(r) == req' = [req EXCEPT ![r].pc = "idle", ![r].in_transaction = FALSE]

(***************************************************************************)
(* _load_escalated_finding and its like in tool_approve: 409 unless the    *)
(* operation is escalated.  Only approve_finding calls check_self_approval.*)
(***************************************************************************)
Load(r, f, kind) ==
    /\ req[r].pc = "idle"
    /\ status = "escalated"
    /\ kind = "approve" => r \notin Owners
    /\ req' = [req EXCEPT ![r] = [pc |-> "loaded", kind |-> kind, finding |-> f,
                                  in_transaction |-> TRUE, closes |-> FALSE]]
    /\ UNCHANGED <<status, redactions, sealed>>

(***************************************************************************)
(* db.begin() raises on a session that is in a transaction, and the        *)
(* request ends with an error.                                             *)
(***************************************************************************)
Begin(r) ==
    /\ req[r].pc = "loaded"
    /\ IF req[r].in_transaction
       THEN End(r)
       ELSE req' = [req EXCEPT ![r].pc = "begun", ![r].in_transaction = TRUE]
    /\ UNCHANGED <<status, redactions, sealed>>

\* No other transaction holds the lock of the operation's row.
RowIsFree == \A r \in Reviewers : req[r].pc # "locked"

total_redactions == Cardinality(redactions)

\* approve_finding counts its own row; the other decisions do not count.
Closes(kind) ==
    kind = "approve" => total_redactions + 1 >= Cardinality(Findings)

(***************************************************************************)
(* The row is locked and the counts are read.  The status that             *)
(* approve_finding checks again is the one of the object it loaded before: *)
(* a SELECT ... FOR UPDATE does not refresh an object of the session, so   *)
(* the check finds "escalated" whatever was committed meanwhile.           *)
(***************************************************************************)
Lock(r) ==
    /\ req[r].pc = "begun"
    /\ RowIsFree
    /\ req' = [req EXCEPT ![r].pc = "locked", ![r].closes = Closes(req[r].kind)]
    /\ UNCHANGED <<status, redactions, sealed>>

\* db.add(redaction): a row of its own.
AddRedaction(f) ==
    \E d \in RedactionRow \ redactions :
        /\ d[1] = f
        /\ \A e \in RedactionRow \ redactions : e[1] = f => d[2] <= e[2]
        /\ redactions' = redactions \cup {d}

\* The commit: a redaction unless it rejects; status and seal if it closes.
Commit(r) ==
    LET t == req[r]
        final == IF t.kind = "reject" THEN "rejected" ELSE "completed"
    IN  /\ t.pc = "locked"
        /\ IF t.kind = "reject" THEN UNCHANGED redactions ELSE AddRedaction(t.finding)
        /\ status' = IF t.closes THEN final ELSE status
        /\ sealed' = IF t.closes THEN final ELSE sealed
        /\ End(r)

Serve(r) == Begin(r) \/ Lock(r) \/ Commit(r)

ReviewNext ==
    \E r \in Reviewers :
        \/ \E f \in Findings, kind \in Decisions : Load(r, f, kind)
        \/ Serve(r)

\* A request that has been accepted is served to its end.
ReviewSpec ==
    /\ ReviewInit /\ [][ReviewNext]_reviewVars
    /\ \A r \in Reviewers : WF_reviewVars(Serve(r))

-----------------------------------------------------------------------------
(* Properties.                                                             *)

(***************************************************************************)
(* "Approve a finding: create a Redaction, advance operation if fully      *)
(* reviewed" (approve_finding): a reviewer's approval of a finding that is *)
(* still to be decided ends in a redaction of it, unless another decision  *)
(* ends the review before.                                                 *)
(***************************************************************************)
ApprovalIsRecorded ==
    \A f \in Findings :
        (\E r \in Reviewers : req[r].pc = "loaded" /\ req[r].kind = "approve"
                                                   /\ req[r].finding = f)
        ~> ((\E d \in redactions : d[1] = f) \/ status # "escalated")
=============================================================================
