--------------------------- MODULE EvidenceChain ----------------------------
(***************************************************************************)
(* The custody chain of a tenant: sealing at write-time (apps/api/db/      *)
(* evidence.py), verification (core/chain.py), signed anchors and exports  *)
(* (api/v1/audit.py) and offline verification (tools/verify_offline.py).   *)
(*                                                                         *)
(* A seal reads the newest chain hash, hashes the operation, asks Vault    *)
(* for a signature and commits with the caller's status change.  Nothing   *)
(* locks the chain, so two operations can be sealed on one predecessor,    *)
(* and the order of seals need not be the order of creation in which the   *)
(* chain is verified.  SHA-256 is taken to be free of collisions: a hash   *)
(* is the sequence of the operation hashes that went into it.              *)
(*                                                                         *)
(* Three callers seal: process_audit, tool_classify and the reviews        *)
(* (api/v1/review.py, tool_approve).  The reviews never get as far: see    *)
(* HumanReview.  Kinds says which of the callers there are.                *)
(***************************************************************************)
EXTENDS Naturals, Sequences, FiniteSets

CONSTANTS
    N,            \* operations are 1 .. N, in the order of their created_at
    Sealers,      \* transactions that may be open at once
    SignOnWrite,  \* the setting audit_sign_on_write
    Kinds,        \* who seals: the auditor, classify, an approval, a rejection
    MaxVersion,   \* bound on the rotations of the Transit key
    Limit         \* verify_chain's limit, 1000 in the code

SealKinds == {"audit", "classify", "approve", "reject"}

ASSUME ChainAssumption ==
    /\ N \in Nat
    /\ SignOnWrite \in BOOLEAN
    /\ Kinds \subseteq SealKinds
    /\ MaxVersion \in Nat \ {0}
    /\ Limit \in Nat

VARIABLES
    row,          \* [Ops -> Row]: the operations table
    sealer,       \* [Sealers -> Seal]: transactions that seal
    vault,        \* latest version of the Transit key
    archive,      \* key versions in the signing_keys table
    anchor,       \* the latest chain_anchors row
    anchoring,    \* the head that an anchor request has read, or GENESIS_HASH
    orderly,      \* no seal, status change or delete has disturbed the chain
    resigned      \* no operation was sealed again without a new signature

chainVars == <<row, sealer, vault, archive, anchor, anchoring, orderly, resigned>>

Ops == 1 .. N

Statuses == {"absent", "pending", "escalated", "completed", "rejected", "purged"}

\* compute_operation_hash: of the hashed fields only the status can change.
compute_operation_hash(o, s) == [op |-> o, status |-> s]

OperationHash == [op : Ops, status : Statuses]

GENESIS_HASH == <<>>

\* Mutant of compute_chain_hash: the predecessor is not hashed.
ChainHashAlone(prev, h) == <<h>>

compute_chain_hash(prev, h) == Append(prev, h)

(***************************************************************************)
(* chain: chain_hash, with GENESIS_HASH for NULL, which no seal produces;  *)
(* over, by: the status that event_signature is over and the key version   *)
(* that made it; ver: signing_key_version, 0 for NULL; archived: it has an *)
(* artifact; held: it has been escalated, which happens once, since scan   *)
(* and re-scan both stop when they find what they inserted before.         *)
(***************************************************************************)
Row == [status : Statuses, chain : Seq(OperationHash),
        over : Statuses, by : 0 .. MaxVersion, ver : 0 .. MaxVersion,
        archived : BOOLEAN, held : BOOLEAN]

NoRow == [status |-> "absent", chain |-> GENESIS_HASH, over |-> "absent",
          by |-> 0, ver |-> 0, archived |-> FALSE, held |-> FALSE]

\* A transaction that seals op; it read the status loaded.
Seal == [pc : {"idle", "loaded", "sealing"}, op : 0 .. N, loaded : Statuses,
         kind : SealKinds, prev : Seq(OperationHash)]

NoSeal == [pc |-> "idle", op |-> 0, loaded |-> "absent", kind |-> "audit",
           prev |-> GENESIS_HASH]

\* The status that each kind of transaction writes.
FinalStatus(kind) == IF kind = "reject" THEN "rejected" ELSE "completed"

Anchor == [head : Seq(OperationHash), ver : 0 .. MaxVersion]

NoAnchor == [head |-> GENESIS_HASH, ver |-> 0]

ChainTypeOK ==
    /\ row \in [Ops -> Row]
    /\ sealer \in [Sealers -> Seal]
    /\ vault \in 1 .. MaxVersion
    /\ archive \subseteq 1 .. MaxVersion
    /\ anchor \in Anchor
    /\ anchoring \in Seq(OperationHash)
    /\ orderly \in BOOLEAN
    /\ resigned \in BOOLEAN

ChainInit ==
    /\ row = [o \in Ops |-> NoRow]
    /\ sealer = [s \in Sealers |-> NoSeal]
    /\ vault = 1
    /\ archive = {}
    /\ anchor = NoAnchor
    /\ anchoring = GENESIS_HASH
    /\ orderly = TRUE
    /\ resigned = TRUE

-----------------------------------------------------------------------------
(* Reading the chain.                                                      *)

Exists(o) == row[o].status \notin {"absent", "purged"}

Sealed(o) == row[o].chain # GENESIS_HASH

\* The chain hash of the newest operation of S that has one.
NewestIn(S) ==
    IF \E o \in S : \A p \in S : p <= o
    THEN row[CHOOSE o \in S : \A p \in S : p <= o].chain
    ELSE GENESIS_HASH

\* Mutant of get_latest_chain_hash: every seal starts a chain of its own.
AlwaysGenesis == GENESIS_HASH

get_latest_chain_hash == NewestIn({o \in Ops : Sealed(o)})

\* Among the first Limit rows in the order of created_at.
Checked(o) == Cardinality({p \in Ops : Exists(p) /\ p < o}) < Limit

(***************************************************************************)
(* verify_chain: every sealed row that is looked at extends the hash of    *)
(* the sealed row before it.  Rows without a hash are reported as gaps and *)
(* skipped.                                                                *)
(***************************************************************************)
Links(o) ==
    row[o].chain = compute_chain_hash(NewestIn({p \in Ops : Sealed(p) /\ p < o}),
                                      compute_operation_hash(o, row[o].status))

verify_chain == \A o \in Ops : Sealed(o) /\ Checked(o) => Links(o)

-----------------------------------------------------------------------------
(* Operations come and their status moves without a seal.                  *)

\* The row of o is not locked by a transaction that has flushed its UPDATE.
Unlocked(o) ==
    \A s \in Sealers : sealer[s].pc = "sealing" => sealer[s].op # o

\* A scan, or a call of a tool; created_at is the time of the request.
Create(o) ==
    /\ row[o].status = "absent"
    /\ \A p \in Ops : p < o => row[p].status # "absent"
    /\ row' = [row EXCEPT ![o].status = "pending"]
    /\ UNCHANGED <<sealer, vault, archive, anchor, anchoring, orderly, resigned>>

(***************************************************************************)
(* process_scan and rescan_operation write the status and do not seal: an  *)
(* escalation, or the completion of a pending operation by a clean re-scan.*)
(***************************************************************************)
SetStatus(o, s) ==
    /\ \/ /\ s = "escalated"
          /\ row[o].status \in {"pending", "completed"}
          /\ ~row[o].held
       \/ s = "completed" /\ row[o].status = "pending"
    /\ Unlocked(o)
    /\ row' = [row EXCEPT ![o].status = s,
                         ![o].held = row[o].held \/ s = "escalated"]
    /\ orderly' = (orderly /\ ~Sealed(o))
    /\ UNCHANGED <<sealer, vault, archive, anchor, anchoring, resigned>>

-----------------------------------------------------------------------------
(* seal_operation, in the transaction of its caller.                       *)

\* The row as it was inserted.
JustInserted(o) == row[o] = [NoRow EXCEPT !.status = "pending"]

(***************************************************************************)
(* The caller has the operation: process_audit loads one without an        *)
(* artifact, whatever its status is, a review only one that is escalated.  *)
(* tool_classify inserts one and seals it in one transaction: here Create  *)
(* and a seal of the new row, with all that may come in between.           *)
(***************************************************************************)
SealLoad(s, o, kind) ==
    /\ sealer[s].pc = "idle"
    /\ Exists(o)
    /\ kind = "audit" => ~row[o].archived
    /\ kind = "classify" => JustInserted(o)
    /\ kind \in {"approve", "reject"} => row[o].status = "escalated"
    /\ sealer' = [sealer EXCEPT ![s] = [pc |-> "loaded", op |-> o, kind |-> kind,
                     loaded |-> row[o].status, prev |-> GENESIS_HASH]]
    /\ UNCHANGED <<row, vault, archive, anchor, anchoring, orderly, resigned>>

\* The UPDATE is flushed, which locks the row, and the newest hash is read.
SealFlush(s) ==
    /\ sealer[s].pc = "loaded"
    /\ Exists(sealer[s].op)
    /\ Unlocked(sealer[s].op)
    /\ sealer' = [sealer EXCEPT ![s].pc = "sealing",
                                ![s].prev = get_latest_chain_hash]
    /\ UNCHANGED <<row, vault, archive, anchor, anchoring, orderly, resigned>>

\* The seal neither overlaps another, nor comes out of order, nor repeats one.
Disturbs(s) ==
    \/ sealer[s].prev # get_latest_chain_hash
    \/ \E p \in Ops : Sealed(p) /\ p >= sealer[s].op

\* Mutant of SealCommit: every signature is recorded as one of version 1.
SealCommitFirstVersion(s, signs, archives) ==
    LET t == sealer[s]
        o == t.op
        final == FinalStatus(t.kind)
        version == 1
    IN  /\ t.pc = "sealing"
        /\ signs => SignOnWrite
        /\ archives => signs
        /\ row' = [row EXCEPT ![o] =
             [status |-> IF t.loaded = final THEN row[o].status ELSE final,
              chain |-> compute_chain_hash(t.prev, compute_operation_hash(o, final)),
              over |-> IF signs THEN final ELSE row[o].over,
              by |-> IF signs THEN vault ELSE row[o].by,
              ver |-> IF signs THEN version ELSE row[o].ver,
              archived |-> row[o].archived \/ t.kind = "audit",
              held |-> row[o].held]]
        /\ archive' = IF archives THEN archive \cup {version} ELSE archive
        /\ orderly' = (/\ orderly
                       /\ ~Disturbs(s)
                       /\ t.loaded = final => row[o].status = final)
        /\ resigned' = (resigned /\ (signs \/ row[o].ver = 0))
        /\ sealer' = [sealer EXCEPT ![s] = NoSeal]
        /\ UNCHANGED <<vault, anchor, anchoring>>

(***************************************************************************)
(* The hash is written, with a signature if Vault gives one; the public    *)
(* key of its version is archived if it is not yet and Vault hands it out. *)
(* The status column is written only if it differs from the loaded one.    *)
(***************************************************************************)
SealCommit(s, signs, archives) ==
    LET t == sealer[s]
        o == t.op
        final == FinalStatus(t.kind)
        version == vault
    IN  /\ t.pc = "sealing"
        /\ signs => SignOnWrite
        /\ archives => signs
        /\ row' = [row EXCEPT ![o] =
             [status |-> IF t.loaded = final THEN row[o].status ELSE final,
              chain |-> compute_chain_hash(t.prev, compute_operation_hash(o, final)),
              over |-> IF signs THEN final ELSE row[o].over,
              by |-> IF signs THEN vault ELSE row[o].by,
              ver |-> IF signs THEN version ELSE row[o].ver,
              archived |-> row[o].archived \/ t.kind = "audit",
              held |-> row[o].held]]
        /\ archive' = IF archives THEN archive \cup {version} ELSE archive
        /\ orderly' = (/\ orderly
                       /\ ~Disturbs(s)
                       /\ t.loaded = final => row[o].status = final)
        /\ resigned' = (resigned /\ (signs \/ row[o].ver = 0))
        /\ sealer' = [sealer EXCEPT ![s] = NoSeal]
        /\ UNCHANGED <<vault, anchor, anchoring>>

\* The transaction is rolled back: an error, a crash, a row that is gone.
SealAbort(s) ==
    /\ sealer[s].pc # "idle"
    /\ sealer' = [sealer EXCEPT ![s] = NoSeal]
    /\ UNCHANGED <<row, vault, archive, anchor, anchoring, orderly, resigned>>

-----------------------------------------------------------------------------
(* Keys, anchors and exports.                                              *)

\* The Transit key is rotated in Vault.
Rotate ==
    /\ vault < MaxVersion
    /\ vault' = vault + 1
    /\ UNCHANGED <<row, sealer, archive, anchor, anchoring, orderly, resigned>>

\* POST /v1/audit/chain/anchor reads the head and refuses an empty chain.
AnchorBegin ==
    /\ anchoring = GENESIS_HASH
    /\ get_latest_chain_hash # GENESIS_HASH
    /\ anchoring' = get_latest_chain_hash
    /\ UNCHANGED <<row, sealer, vault, archive, anchor, orderly, resigned>>

\* Vault signed the head: the anchor is stored, whatever was sealed meanwhile.
AnchorCommit(archives) ==
    /\ anchoring # GENESIS_HASH
    /\ anchor' = [head |-> anchoring, ver |-> vault]
    /\ anchoring' = GENESIS_HASH
    /\ archive' = IF archives THEN archive \cup {vault} ELSE archive
    /\ UNCHANGED <<row, sealer, vault, orderly, resigned>>

\* Vault did not sign: 503, nothing is stored.
AnchorRefused ==
    /\ anchoring # GENESIS_HASH
    /\ anchoring' = GENESIS_HASH
    /\ UNCHANGED <<row, sealer, vault, archive, anchor, orderly, resigned>>

\* _resolve_public_key: the archived key, or the latest that Vault serves.
ExportKey(o, up) ==
    IF row[o].ver # 0 /\ row[o].ver \in archive THEN row[o].ver
    ELSE IF up THEN vault ELSE 0

(***************************************************************************)
(* verify_offline.verify_export of an export of o, made while Vault is up  *)
(* or not.  A signature made at export time is over the exported view and  *)
(* not over the operation hash, so it never verifies.                      *)
(***************************************************************************)
verify_export(o, up) ==
    /\ row[o].by # 0
    /\ ExportKey(o, up) = row[o].by
    /\ row[o].over = row[o].status

-----------------------------------------------------------------------------
SealStep(s) ==
    \/ \E o \in Ops, kind \in Kinds : SealLoad(s, o, kind)
    \/ SealFlush(s)
    \/ \E signs, archives \in BOOLEAN : SealCommit(s, signs, archives)
    \/ SealAbort(s)

AnchorStep ==
    \/ AnchorBegin
    \/ \E archives \in BOOLEAN : AnchorCommit(archives)
    \/ AnchorRefused

\* What happens to the rows of the operations table.
RowStep ==
    \/ \E o \in Ops : Create(o)
    \/ \E o \in Ops, s \in {"escalated", "completed"} : SetStatus(o, s)
    \/ \E s \in Sealers : SealStep(s)

ChainNext ==
    \/ RowStep
    \/ Rotate
    \/ AnchorStep

ChainSpec == ChainInit /\ [][ChainNext]_chainVars

-----------------------------------------------------------------------------
(* Properties.                                                             *)

(***************************************************************************)
(* GET /v1/audit/chain/verify raises no false alarm by itself: the chain   *)
(* verifies as long as each operation was sealed once, after every older   *)
(* sealed one and before the next, and its status not changed since.       *)
(***************************************************************************)
OrderlyChainVerifies == orderly => verify_chain

(***************************************************************************)
(* While the chain is orderly it only grows: what an anchor signed is a    *)
(* prefix of the present head, although the head is read long before the   *)
(* anchor is stored.                                                       *)
(***************************************************************************)
AnchorIsPrefix ==
    orderly => \E k \in 0 .. Len(get_latest_chain_hash) :
                   anchor.head = SubSeq(get_latest_chain_hash, 1, k)

(***************************************************************************)
(* The evidence of an operation outlives key rotations: if it was signed   *)
(* and left alone, and its key version is archived or still the latest,    *)
(* its export verifies offline.                                            *)
(***************************************************************************)
OfflineVerifies ==
    \A o \in Ops, up \in BOOLEAN :
        /\ orderly /\ resigned
        /\ row[o].ver # 0
        /\ row[o].ver \in archive \/ (up /\ row[o].ver = vault)
        => verify_export(o, up)

(***************************************************************************)
(* "valid: bool - whether the chain is intact" (core/chain.py): a chain    *)
(* that only process_audit has written, for operations that were never     *)
(* escalated, verifies.  It need not: the order of seals is the order in   *)
(* which audits finish, and verify_chain follows the order of creation.    *)
(***************************************************************************)
IntactChainVerifies == (\A o \in Ops : ~row[o].held) => verify_chain
=============================================================================
