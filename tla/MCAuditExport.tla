---------------------------- MODULE MCAuditExport ---------------------------
(* Small instances of AuditExport, with the chain under it, for TLC.       *)
EXTENDS AuditExport, TLC

Symmetry == Permutations(Sealers)

Open == Cardinality({s \in Sealers : sealer[s].pc # "idle"})

\* A chain that was disturbed stays so, and nothing more is claimed of it but
\* for an export under way: such states are checked, and explored further only
\* with an export and without a seal under way.  Nothing goes on from an answer,
\* while a request is under way at most one transaction seals, and an export,
\* which reads no anchor, does not go on beside an anchor request.
Explored ==
    /\ orderly \/ (export.pc \in {"loaded", "signed"} /\ Open = 0)
    /\ export.pc # "served" /\ verdict.pc # "done"
    /\ Quiet \/ Open <= 1
    /\ export.pc = "idle" \/ anchoring = GENESIS_HASH
=============================================================================
