------------------------- MODULE OperationLifecycle -------------------------
(***************************************************************************)
(* What the pipeline promises about the life of an operation, without      *)
(* queues, tasks, retries or crashes.  An operation is accepted; it is     *)
(* either held for a human before anything of it is sanitized, and then no *)
(* automatic step touches it, or it is sanitized for good, and only then   *)
(* completed, flagged by the re-scan, or sealed.                           *)
(***************************************************************************)
CONSTANT Ops

VARIABLES
    phase,            \* [Ops -> Phases]
    sealed            \* the operations with a chain hash and a signature

lifecycle == <<phase, sealed>>

\* The phases of an operation whose sanitized text exists.
Clean == {"sanitized", "completed", "flagged"}

Phases == {"absent", "accepted", "held"} \cup Clean

LifecycleInit ==
    /\ phase = [o \in Ops |-> "absent"]
    /\ sealed = {}

\* o goes from one of the phases in from to phase s.
Move(o, from, s) ==
    /\ phase[o] \in from
    /\ phase' = [phase EXCEPT ![o] = s]

\* POST /v1/scan, or the MCP tool, accepts the document.
AcceptOp(o) == Move(o, {"absent"}, "accepted") /\ UNCHANGED sealed

\* process_scan holds it for a human: no action leads out of "held".
HoldOp(o) == Move(o, {"accepted"}, "held") /\ UNCHANGED sealed

\* process_sanitize writes the sanitized text.
SanitizeOp(o) == Move(o, {"accepted"}, "sanitized") /\ UNCHANGED sealed

\* The re-scan, or a redelivered task, decides again on a sanitized text.
DecideOp(o) == (\E s \in Clean : Move(o, Clean, s)) /\ UNCHANGED sealed

\* process_audit seals a sanitized operation and completes it, unless it had
\* found it completed: then it writes no status.
SealOp(o) ==
    /\ \E s \in {"completed", phase[o]} : Move(o, Clean, s)
    /\ sealed' = sealed \cup {o}

LifecycleNext ==
    \E o \in Ops : AcceptOp(o) \/ HoldOp(o) \/ SanitizeOp(o) \/ DecideOp(o) \/ SealOp(o)

LifecycleSpec == LifecycleInit /\ [][LifecycleNext]_lifecycle
=============================================================================
