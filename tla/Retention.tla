----------------------------- MODULE Retention ------------------------------
(***************************************************************************)
(* Retention on top of the custody chain: the GDPR purge of a tenant with  *)
(* its deletion certificate (apps/api/core/retention_gdpr.py, triggered by *)
(* api/v1/admin_retention.py) and the plain retention job (api/v1/         *)
(* retention.py).                                                          *)
(*                                                                         *)
(* A purge takes the time twice: once for the cut-off of its DELETE and,   *)
(* a moment later, once more to list the operations for the certificate.   *)
(* Purges, seals and the passing of time interleave.                       *)
(***************************************************************************)
EXTENDS EvidenceChain

CONSTANTS
    Purgers       \* purge requests that may run at once

VARIABLES
    horizon,      \* the operations 1 .. horizon are past their retention
    purger,       \* [Purgers -> Purge]
    certs         \* certificates stored in WORM storage

purgeVars == <<horizon, purger, certs>>

retentionVars == <<chainVars, purgeVars>>

\* cutoff: the horizon at the first reading of the clock.
Purge == [pc : {"idle", "begun", "listed", "deleted"}, cutoff : 0 .. N,
          listed : SUBSET Ops, deleted : SUBSET Ops]

NoPurge == [pc |-> "idle", cutoff |-> 0, listed |-> {}, deleted |-> {}]

\* ids: operation_ids of the certificate; gone: what its DELETE removed.
Certificate == [ids : SUBSET Ops, gone : SUBSET Ops]

RetentionTypeOK ==
    /\ ChainTypeOK
    /\ horizon \in 0 .. N
    /\ purger \in [Purgers -> Purge]
    /\ certs \subseteq Certificate

RetentionInit ==
    /\ ChainInit
    /\ horizon = 0
    /\ purger = [p \in Purgers |-> NoPurge]
    /\ certs = {}

\* Time passes: the oldest operation within retention leaves it.
Expire ==
    /\ horizon < N
    /\ row[horizon + 1].status # "absent"
    /\ horizon' = horizon + 1
    /\ UNCHANGED <<chainVars, purger, certs>>

\* The rows that find_expired_operations and the DELETE select.
Expired(h) == {o \in Ops : Exists(o) /\ o <= h}

\* DELETE FROM operations: it waits for locked rows.
DeleteRows(S) ==
    /\ \A o \in S : Unlocked(o)
    /\ row' = [o \in Ops |-> IF o \in S THEN [NoRow EXCEPT !.status = "purged"]
                                        ELSE row[o]]
    /\ orderly' = (orderly /\ \A o \in S : ~Sealed(o))
    /\ UNCHANGED <<sealer, vault, archive, anchor, anchoring, resigned>>

\* run_gdpr_purge computes the cut-off.
PurgeBegin(p) ==
    /\ purger[p].pc = "idle"
    /\ purger' = [purger EXCEPT ![p] = [NoPurge EXCEPT !.pc = "begun",
                                                       !.cutoff = horizon]]
    /\ UNCHANGED <<chainVars, horizon, certs>>

\* find_expired_operations reads the clock again; an empty answer ends it.
PurgeList(p) ==
    /\ purger[p].pc = "begun"
    /\ purger' = [purger EXCEPT ![p] =
         IF Expired(horizon) = {} THEN NoPurge
         ELSE [purger[p] EXCEPT !.pc = "listed", !.listed = Expired(horizon)]]
    /\ UNCHANGED <<chainVars, horizon, certs>>

\* Mutant of PurgeDelete: the DELETE takes the time of its execution.
PurgeDeleteNow(p) ==
    /\ purger[p].pc = "listed"
    /\ DeleteRows(Expired(horizon))
    /\ purger' = [purger EXCEPT ![p].pc = "deleted",
                                ![p].deleted = Expired(horizon)]
    /\ UNCHANGED <<horizon, certs>>

\* Mutant of PurgeDelete: the rows listed are counted, not the rows removed.
PurgeDeleteCountsListed(p) ==
    /\ purger[p].pc = "listed"
    /\ DeleteRows(Expired(purger[p].cutoff))
    /\ purger' = [purger EXCEPT ![p].pc = "deleted",
                                ![p].deleted = purger[p].listed]
    /\ UNCHANGED <<horizon, certs>>

\* delete_operations and the commit.
PurgeDelete(p) ==
    LET S == Expired(purger[p].cutoff)
    IN  /\ purger[p].pc = "listed"
        /\ DeleteRows(S)
        /\ purger' = [purger EXCEPT ![p].pc = "deleted", ![p].deleted = S]
        /\ UNCHANGED <<horizon, certs>>

\* The write to the locked bucket; FALSE is answered if that is down.
store_with_retention(cert, stored) == certs' = IF stored THEN certs \cup {cert} ELSE certs

\* The certificate is signed and stored, unless WORM storage is down.
PurgeCertify(p, stored) ==
    LET cert == [ids |-> purger[p].listed, gone |-> purger[p].deleted]
    IN  /\ purger[p].pc = "deleted"
        /\ store_with_retention(cert, stored)
        /\ purger' = [purger EXCEPT ![p] = NoPurge]
        /\ UNCHANGED <<chainVars, horizon>>

\* The request fails or its process dies; what was committed stays deleted.
PurgeFails(p) ==
    /\ purger[p].pc # "idle"
    /\ purger' = [purger EXCEPT ![p] = NoPurge]
    /\ UNCHANGED <<chainVars, horizon, certs>>

\* The plain job: one DELETE, no certificate.
run_retention ==
    /\ Expired(horizon) # {}
    /\ DeleteRows(Expired(horizon))
    /\ UNCHANGED purgeVars

PurgeStep(p) ==
    \/ PurgeBegin(p) \/ PurgeList(p) \/ PurgeDelete(p)
    \/ \E stored \in BOOLEAN : PurgeCertify(p, stored)
    \/ PurgeFails(p)

\* Keys and anchors are left alone: retention neither reads nor writes them.
RetentionNext ==
    \/ RowStep /\ UNCHANGED purgeVars
    \/ Expire
    \/ \E p \in Purgers : PurgeStep(p)
    \/ run_retention

RetentionSpec == RetentionInit /\ [][RetentionNext]_retentionVars

-----------------------------------------------------------------------------
(* Properties.                                                             *)

(***************************************************************************)
(* No deletion goes unnamed: what a purge deletes is among the ids of its  *)
(* certificate, although the two are computed from different readings of   *)
(* the clock and other purges run in between.                              *)
(***************************************************************************)
CertificateNamesDeleted ==
    /\ \A p \in Purgers : purger[p].deleted \subseteq purger[p].listed
    /\ \A c \in certs : c.gone \subseteq c.ids

(***************************************************************************)
(* No deletion is counted twice: two purges, even if they listed the same  *)
(* operations at the same time, never both count one as deleted.           *)
(***************************************************************************)
DeletedOnce ==
    /\ \A p, q \in Purgers : p # q => purger[p].deleted \cap purger[q].deleted = {}
    /\ \A p \in Purgers, c \in certs : purger[p].deleted \cap c.gone = {}
    /\ \A c, d \in certs : c # d => c.gone \cap d.gone = {}

(***************************************************************************)
(* "Any tampering or deletion of intermediate records will break the       *)
(* chain" (api/v1/audit.py): a purge of sealed operations from a chain     *)
(* that verifies is noticed if a later sealed operation remains, one that  *)
(* verify_chain looks at.                                                  *)
(***************************************************************************)
DeletionIsNoticed ==
    [][ \A o \in Ops :
          /\ verify_chain
          /\ Sealed(o) /\ row'[o].status = "purged"
          /\ \E p \in Ops : o < p /\ Sealed(p) /\ Checked(p) /\ row'[p] = row[p]
          => ~verify_chain' ]_retentionVars
=============================================================================
