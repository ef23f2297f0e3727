---------------------------- MODULE AuditExport -----------------------------
(***************************************************************************)
(* What the audit API says of the custody chain: exports of an operation   *)
(* (GET /v1/audit/{trace_id} and the MCP tool audit, get_audit_export) and *)
(* verdicts on the chain (GET /v1/audit/chain/verify).                     *)
(*                                                                         *)
(* Both are made in several steps, with Vault asked in between, while      *)
(* operations are sealed, anchors stored and the key rotated.  Requests    *)
(* only read, so one of them is followed.                                  *)
(***************************************************************************)
EXTENDS EvidenceChain

CONSTANTS
    RequireSignature  \* the setting audit_require_digital_signature

ASSUME ExportAssumption == RequireSignature \in BOOLEAN

VARIABLES
    export,       \* the export, of get_audit_export
    verdict       \* the verdict, of verify_chain_endpoint

auditVars == <<chainVars, export, verdict>>

(***************************************************************************)
(* status, over, by, ver: as in Row, when the operation was loaded, or the *)
(* signature made for this export, which is over the exported view (over   *)
(* is "absent") and has no recorded version.  key: the version of the      *)
(* embedded public key, 0 for none.                                        *)
(* History: durable, the signature's version was in the archive at the     *)
(* time; sound, the operation had been sealed once and left alone.         *)
(***************************************************************************)
Export ==
    [pc : {"idle", "loaded", "signed", "served"}, status : Statuses,
     over : Statuses, by : 0 .. MaxVersion, ver : 0 .. MaxVersion,
     key : 0 .. MaxVersion, signature_at_write_time : BOOLEAN,
     durable : BOOLEAN, sound : BOOLEAN]

NoExport == [pc |-> "idle", status |-> "absent", over |-> "absent", by |-> 0,
             ver |-> 0, key |-> 0, signature_at_write_time |-> FALSE,
             durable |-> FALSE, sound |-> FALSE]

(***************************************************************************)
(* head, ver: of the latest anchor.  History: walked, the operations that  *)
(* were sealed when the chain was read; checked, Vault did check.          *)
(***************************************************************************)
Verdict ==
    [pc : {"idle", "walked", "anchor", "done"}, valid : BOOLEAN, walked : 0 .. N,
     head : Seq(OperationHash), ver : 0 .. MaxVersion,
     anchor_head_matches : BOOLEAN, anchor_valid : BOOLEAN, checked : BOOLEAN]

NoVerdict == [pc |-> "idle", valid |-> FALSE, walked |-> 0,
              head |-> GENESIS_HASH, ver |-> 0, anchor_head_matches |-> FALSE,
              anchor_valid |-> FALSE, checked |-> FALSE]

ExportTypeOK == ChainTypeOK /\ export \in Export /\ verdict \in Verdict

AuditInit == ChainInit /\ export = NoExport /\ verdict = NoVerdict

\* The request has not begun.
Quiet == export.pc = "idle" /\ verdict.pc = "idle"

-----------------------------------------------------------------------------
(* GET /v1/audit/{trace_id}                                                *)

\* The operation is loaded; a trace that is not there is answered 404.
ExportLoad(o) ==
    /\ Quiet
    /\ Exists(o)
    /\ export' = [pc |-> "loaded", status |-> row[o].status,
                  over |-> row[o].over, by |-> row[o].by, ver |-> row[o].ver,
                  key |-> 0, signature_at_write_time |-> row[o].by # 0,
                  durable |-> row[o].ver \in archive,
                  sound |-> orderly /\ resigned]
    /\ UNCHANGED <<chainVars, verdict>>

\* The versions that sign_data may sign with; 0 if it gives no signature.
sign_data == {0, vault}

\* Mutant of ExportSign: an export that is withheld stays half made.
ExportSignWithheld ==
    /\ export.pc = "loaded"
    /\ IF export.signature_at_write_time
       THEN export' = [export EXCEPT !.pc = "signed"]
       ELSE \E v \in sign_data :
              export' = IF v = 0 /\ RequireSignature
                        THEN [export EXCEPT !.pc = "withheld"]
                        ELSE [export EXCEPT !.pc = "signed", !.by = v]
    /\ UNCHANGED <<chainVars, verdict>>

(***************************************************************************)
(* A signature made when the operation was sealed is preferred; else Vault *)
(* signs the exported view.  Without a signature, and if one is required,  *)
(* the export is withheld: 503.                                            *)
(***************************************************************************)
ExportSign ==
    /\ export.pc = "loaded"
    /\ IF export.signature_at_write_time
       THEN export' = [export EXCEPT !.pc = "signed"]
       ELSE \E v \in sign_data :
              export' = IF v = 0 /\ RequireSignature THEN NoExport
                        ELSE [export EXCEPT !.pc = "signed", !.by = v]
    /\ UNCHANGED <<chainVars, verdict>>

\* The versions whose key Vault may hand out; 0 if it does not answer.
get_public_key == {0, vault}

\* Mutant of _resolve_public_key: the live key is preferred to the archive.
ResolveLiveFirst(ver) ==
    IF ver = 0 \/ ver \notin archive THEN get_public_key ELSE {ver, vault}

_resolve_public_key(ver) ==
    IF ver # 0 /\ ver \in archive THEN {ver} ELSE get_public_key

\* The public key is looked up and the export is answered.
ExportServe ==
    /\ export.pc = "signed"
    /\ \E k \in IF export.by = 0 THEN {0} ELSE _resolve_public_key(export.ver) :
          export' = [export EXCEPT !.pc = "served", !.key = k]
    /\ UNCHANGED <<chainVars, verdict>>

-----------------------------------------------------------------------------
(* GET /v1/audit/chain/verify                                              *)

\* verify_chain walks the operations.
VerdictWalk ==
    /\ Quiet
    /\ verdict' = [NoVerdict EXCEPT !.pc = "walked", !.valid = verify_chain,
                     !.walked = Cardinality({o \in Ops : Sealed(o)})]
    /\ UNCHANGED <<chainVars, export>>

\* _verify_latest_anchor: the latest anchor; without one, anchored is false.
VerdictAnchor ==
    /\ verdict.pc = "walked"
    /\ verdict' = IF anchor = NoAnchor THEN [verdict EXCEPT !.pc = "done"]
                  ELSE [verdict EXCEPT !.pc = "anchor", !.head = anchor.head,
                                       !.ver = anchor.ver]
    /\ UNCHANGED <<chainVars, export>>

\* Mutant of head_matches: an anchor that the chain has outgrown is good, too.
HeadIsPrefix(head) ==
    head = SubSeq(get_latest_chain_hash, 1, Len(head))

head_matches(head) == get_latest_chain_hash = head

\* The anchor keeps the token vault:vN:... whole, so Vault checks it with the
\* version that made it, of those that it has; otherwise it counts as invalid.
verify_signature(up, ver) == up /\ ver \in 1 .. vault

\* The live head is compared with the anchored one and the signature checked.
VerdictHead(up) ==
    /\ verdict.pc = "anchor"
    /\ verdict' = [verdict EXCEPT !.pc = "done",
                     !.anchor_head_matches = head_matches(verdict.head),
                     !.anchor_valid = verify_signature(up, verdict.ver),
                     !.checked = up]
    /\ UNCHANGED <<chainVars, export>>

-----------------------------------------------------------------------------
AuditStep ==
    \/ \E o \in Ops : ExportLoad(o)
    \/ ExportSign \/ ExportServe
    \/ VerdictWalk \/ VerdictAnchor \/ (\E up \in BOOLEAN : VerdictHead(up))

AuditNext ==
    \/ ChainNext /\ UNCHANGED <<export, verdict>>
    \/ AuditStep

AuditSpec == AuditInit /\ [][AuditNext]_auditVars

-----------------------------------------------------------------------------
(* Properties.                                                             *)

(***************************************************************************)
(* An export can be checked by whoever gets it: its key is the one that    *)
(* made its signature, unless the archive lacked that one and it is not    *)
(* the latest any more; and the signature of a sealed operation fits the   *)
(* exported status, whatever happened to the operation meanwhile.          *)
(***************************************************************************)
ServedExportVerifies ==
    export.pc = "served" =>
        /\ export.key \notin {0, export.by} => ~export.durable /\ export.by < vault
        /\ export.durable => export.key = export.by
        /\ export.sound /\ export.ver # 0 => export.over = export.status

(***************************************************************************)
(* No false alarm by the anchor: in a chain that was sealed in order the   *)
(* verdict is valid; a head that matches was anchored with every operation *)
(* that was walked, and one that does not has only grown since.  Whatever  *)
(* was rotated since, Vault still confirms the anchor's signature.         *)
(***************************************************************************)
VerdictIsHonest ==
    orderly /\ verdict.pc = "done" =>
        /\ verdict.valid
        /\ verdict.head # GENESIS_HASH /\ verdict.checked => verdict.anchor_valid
        /\ verdict.anchor_head_matches => verdict.walked <= Len(verdict.head)
        /\ verdict.head # GENESIS_HASH /\ ~verdict.anchor_head_matches
              => Len(verdict.head) < Cardinality({o \in Ops : Sealed(o)})
=============================================================================
