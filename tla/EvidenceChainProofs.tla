------------------------ MODULE EvidenceChainProofs -------------------------
(***************************************************************************)
(* Proofs about the custody chain, its exports and its retention, for any  *)
(* number of operations, open transactions, key versions and any limit.    *)
(*                                                                         *)
(* OrderlyChainVerifies is not inductive: verify_chain looks at the first  *)
(* Limit rows only, while a seal continues the newest one.  The invariant  *)
(* ChainInv says that every sealed row of an orderly chain extends the     *)
(* sealed row before it.  GrowthInv adds that anchors, stored or being     *)
(* made, are prefixes of the present head.  On these rests AuditInv, about *)
(* the exports and verdicts of the audit API, whose parts are read at      *)
(* different times.                                                        *)
(***************************************************************************)
EXTENDS AuditExport, Retention, SequenceTheorems, FiniteSetTheorems,
        WellFoundedInduction, TLAPS

\* Every sealed row, not only those that verify_chain looks at.
AllLink == \A o \in Ops : Sealed(o) => Links(o)

\* Rows that do not exist yet have no hash.
FreshIsUnsealed == \A o \in Ops : row[o].status = "absent" => ~Sealed(o)

ChainInv ==
    /\ ChainTypeOK
    /\ orderly => AllLink /\ FreshIsUnsealed

-----------------------------------------------------------------------------
(* Types.                                                                  *)

\* compute_chain_hash yields a hash of the chain's type that is not NULL.
LEMMA ChainHashType ==
    ASSUME NEW prev \in Seq(OperationHash), NEW o \in Ops, NEW st \in Statuses
    PROVE  /\ compute_chain_hash(prev, compute_operation_hash(o, st))
                \in Seq(OperationHash)
           /\ compute_chain_hash(prev, compute_operation_hash(o, st)) # GENESIS_HASH
<1>1. compute_operation_hash(o, st) \in OperationHash
  BY DEF compute_operation_hash, OperationHash
<1> DEFINE h == compute_operation_hash(o, st)
<1> HIDE DEF h
<1>2. Append(prev, h) \in Seq(OperationHash) /\ Append(prev, h) # << >>
  BY <1>1, AppendProperties DEF h
<1> QED BY <1>2 DEF compute_chain_hash, GENESIS_HASH, h

\* The newest hash of any set of rows is a hash.
LEMMA NewestType ==
    ASSUME row \in [Ops -> Row], NEW S \in SUBSET Ops
    PROVE  NewestIn(S) \in Seq(OperationHash)
<1>1. CASE \E o \in S : \A p \in S : p <= o
  <2>1. (CHOOSE o \in S : \A p \in S : p <= o) \in S
    BY <1>1
  <2> QED BY <1>1, <2>1 DEF NewestIn, Row
<1>2. CASE ~ \E o \in S : \A p \in S : p <= o
  BY <1>2 DEF NewestIn, GENESIS_HASH
<1> QED BY <1>1, <1>2

LEMMA InitType == ChainInit => ChainTypeOK
<1> SUFFICES ASSUME ChainInit PROVE ChainTypeOK
  OBVIOUS
<1> USE ChainAssumption
<1>1. NoRow \in Row
  BY DEF NoRow, Row, Statuses, GENESIS_HASH
<1>2. NoSeal \in Seal
  BY DEF NoSeal, Seal, SealKinds, Statuses, GENESIS_HASH
<1>3. NoAnchor \in Anchor
  BY DEF NoAnchor, Anchor, GENESIS_HASH
<1> QED BY <1>1, <1>2, <1>3 DEF ChainInit, ChainTypeOK, GENESIS_HASH

\* Steps that write a status keep the types.
LEMMA StatusType ==
    ASSUME ChainTypeOK, NEW o \in Ops,
           Create(o) \/ \E s \in {"escalated", "completed"} : SetStatus(o, s)
    PROVE  ChainTypeOK'
<1>1. row' \in [Ops -> Row]
  <2>1. CASE Create(o)
    <3>1. [row[o] EXCEPT !.status = "pending"] \in Row
      BY DEF ChainTypeOK, Row, Statuses
    <3>2. row' = [row EXCEPT ![o] = [row[o] EXCEPT !.status = "pending"]]
      BY <2>1 DEF Create
    <3> QED BY <3>1, <3>2 DEF ChainTypeOK
  <2>2. ASSUME NEW s \in {"escalated", "completed"}, SetStatus(o, s)
        PROVE  row' \in [Ops -> Row]
    <3> DEFINE r == [row[o] EXCEPT !.status = s,
                                   !.held = row[o].held \/ s = "escalated"]
    <3>1. r \in Row
      BY DEF ChainTypeOK, Row, Statuses
    <3>2. row' = [row EXCEPT ![o] = r]
      BY <2>2 DEF SetStatus
    <3> QED BY <3>1, <3>2 DEF ChainTypeOK
  <2> QED BY <2>1, <2>2
<1>2. orderly' \in BOOLEAN
  BY DEF Create, SetStatus, ChainTypeOK
<1>3. UNCHANGED <<sealer, vault, archive, anchor, anchoring, resigned>>
  BY DEF Create, SetStatus
<1> QED BY <1>1, <1>2, <1>3 DEF ChainTypeOK

\* A transaction that has loaded no operation seals none.
LEMMA SealNowhere ==
    ASSUME ChainTypeOK, NEW s \in Sealers, NEW signs, NEW archives,
           SealCommit(s, signs, archives), sealer[s].op \notin Ops
    PROVE  row' = row
<1>1. PICK r : row' = [row EXCEPT ![sealer[s].op] = r]
  BY DEF SealCommit
<1>2. row \in [Ops -> Row]
  BY DEF ChainTypeOK
<1> QED BY <1>1, <1>2

\* Steps of a transaction that seals keep the types.
LEMMA SealType ==
    ASSUME ChainTypeOK, NEW s \in Sealers, SealStep(s)
    PROVE  ChainTypeOK'
<1> USE ChainAssumption
<1>1. CASE \E o \in Ops, kind \in Kinds : SealLoad(s, o, kind)
  <2>1. PICK o \in Ops, kind \in Kinds : SealLoad(s, o, kind)
    BY <1>1
  <2> DEFINE t == [pc |-> "loaded", op |-> o, kind |-> kind,
                   loaded |-> row[o].status, prev |-> GENESIS_HASH]
  <2>2. t \in Seal
    <3>1. row[o].status \in Statuses
      BY DEF ChainTypeOK, Row
    <3>2. o \in 0 .. N /\ kind \in SealKinds
      BY DEF Ops
    <3>3. GENESIS_HASH \in Seq(OperationHash)
      BY DEF GENESIS_HASH
    <3> QED BY <3>1, <3>2, <3>3 DEF Seal
  <2>3. sealer' = [sealer EXCEPT ![s] = t]
    BY <2>1 DEF SealLoad
  <2>4. UNCHANGED <<row, vault, archive, anchor, anchoring, orderly, resigned>>
    BY <2>1 DEF SealLoad
  <2> QED BY <2>2, <2>3, <2>4 DEF ChainTypeOK
<1>2. CASE SealFlush(s)
  <2> DEFINE t == [sealer[s] EXCEPT !.pc = "sealing", !.prev = get_latest_chain_hash]
  <2>1. get_latest_chain_hash \in Seq(OperationHash)
    BY NewestType DEF get_latest_chain_hash, ChainTypeOK
  <2>2. t \in Seal
    BY <2>1 DEF Seal, ChainTypeOK
  <2>3. sealer' = [sealer EXCEPT ![s] = t]
    BY <1>2 DEF SealFlush
  <2>4. UNCHANGED <<row, vault, archive, anchor, anchoring, orderly, resigned>>
    BY <1>2 DEF SealFlush
  <2> QED BY <2>2, <2>3, <2>4 DEF ChainTypeOK
<1>3. NoSeal \in Seal
  BY DEF NoSeal, Seal, SealKinds, Statuses, GENESIS_HASH
<1>4. CASE \E signs, archives \in BOOLEAN : SealCommit(s, signs, archives)
  <2>1. PICK signs, archives \in BOOLEAN : SealCommit(s, signs, archives)
    BY <1>4
  <2>2. row' \in [Ops -> Row]
    <3>1. CASE sealer[s].op \in Ops
      <4> DEFINE o == sealer[s].op
                 final == FinalStatus(sealer[s].kind)
                 h == compute_chain_hash(sealer[s].prev,
                                         compute_operation_hash(o, final))
                 r == [status |-> IF sealer[s].loaded = final
                                    THEN row[o].status ELSE final,
                       chain |-> h,
                       over |-> IF signs THEN final ELSE row[o].over,
                       by |-> IF signs THEN vault ELSE row[o].by,
                       ver |-> IF signs THEN vault ELSE row[o].ver,
                       archived |-> row[o].archived \/ sealer[s].kind = "audit",
                       held |-> row[o].held]
      <4>1. final \in Statuses
        BY DEF FinalStatus, Statuses
      <4>2. sealer[s].prev \in Seq(OperationHash)
        BY DEF ChainTypeOK, Seal
      <4>3. h \in Seq(OperationHash)
        BY <3>1, <4>1, <4>2, ChainHashType
      <4>4. row[o] \in Row /\ vault \in 0 .. MaxVersion
        BY <3>1 DEF ChainTypeOK
      <4>5. row' = [row EXCEPT ![o] = r]
        BY <2>1 DEF SealCommit
      <4> HIDE DEF final, h
      <4>6. r \in Row
        BY <4>1, <4>3, <4>4 DEF Row
      <4> HIDE DEF r
      <4> QED BY <4>5, <4>6 DEF ChainTypeOK
    <3>2. CASE sealer[s].op \notin Ops
      <4>1. row' = row
        BY <2>1, <3>2, SealNowhere
      <4> QED BY <4>1 DEF ChainTypeOK
    <3> QED BY <3>1, <3>2
  <2>3. sealer' \in [Sealers -> Seal]
    BY <2>1, <1>3 DEF SealCommit, ChainTypeOK
  <2>4. /\ archive' \subseteq 1 .. MaxVersion
        /\ orderly' \in BOOLEAN
        /\ resigned' \in BOOLEAN
        /\ UNCHANGED <<vault, anchor, anchoring>>
    BY <2>1 DEF SealCommit, ChainTypeOK
  <2> QED BY <2>2, <2>3, <2>4 DEF ChainTypeOK
<1>5. CASE SealAbort(s)
  BY <1>5, <1>3 DEF SealAbort, ChainTypeOK
<1> QED BY <1>1, <1>2, <1>4, <1>5 DEF SealStep

\* Rotations and anchors keep the types.
LEMMA KeyType ==
    ASSUME ChainTypeOK, Rotate \/ AnchorStep
    PROVE  ChainTypeOK'
<1> USE ChainAssumption
<1>1. CASE Rotate
  BY <1>1 DEF Rotate, ChainTypeOK
<1>2. CASE AnchorBegin
  <2>1. get_latest_chain_hash \in Seq(OperationHash)
    BY NewestType DEF get_latest_chain_hash, ChainTypeOK
  <2> QED BY <1>2, <2>1 DEF AnchorBegin, ChainTypeOK
<1>3. CASE \E archives \in BOOLEAN : AnchorCommit(archives)
  BY <1>3 DEF AnchorCommit, ChainTypeOK, Anchor, GENESIS_HASH
<1>4. CASE AnchorRefused
  BY <1>4 DEF AnchorRefused, ChainTypeOK, GENESIS_HASH
<1> QED BY <1>1, <1>2, <1>3, <1>4 DEF AnchorStep

\* Every step keeps the types.
LEMMA StepType ==
    ASSUME ChainTypeOK, [ChainNext]_chainVars
    PROVE  ChainTypeOK'
<1>1. CASE UNCHANGED chainVars
  BY <1>1 DEF chainVars, ChainTypeOK
<1>2. CASE ChainNext
  BY <1>2, StatusType, SealType, KeyType DEF ChainNext, RowStep
<1> QED BY <1>1, <1>2

-----------------------------------------------------------------------------
(* The chain.                                                              *)

\* NewestIn depends on the hashes of the set only.
LEMMA NewestStable ==
    ASSUME NEW S, \A p \in S : row'[p].chain = row[p].chain
    PROVE  NewestIn(S)' = NewestIn(S)
<1>1. CASE \E o \in S : \A p \in S : p <= o
  <2>1. (CHOOSE o \in S : \A p \in S : p <= o) \in S
    BY <1>1
  <2> QED BY <1>1, <2>1 DEF NewestIn
<1>2. CASE ~ \E o \in S : \A p \in S : p <= o
  BY <1>2 DEF NewestIn
<1> QED BY <1>1, <1>2

\* The sealed rows before o, which its hash must extend.
Before(o) == {p \in Ops : Sealed(p) /\ p < o}

\* A row that keeps its hash and status, with the sealed rows before it the
\* same, extends its predecessor as it did.
LEMMA LinksStable ==
    ASSUME NEW o \in Ops, Links(o),
           row'[o].chain = row[o].chain, row'[o].status = row[o].status,
           Before(o)' = Before(o),
           \A p \in Before(o) : row'[p].chain = row[p].chain
    PROVE  Links(o)'
<1>1. NewestIn(Before(o))' = NewestIn(Before(o))
  BY NewestStable
<1> QED BY <1>1 DEF Links, Before

\* A step that writes the status of an unsealed row only, and no hash.
LEMMA StatusLinks ==
    ASSUME ChainTypeOK, orderly, AllLink, FreshIsUnsealed, orderly',
           NEW o \in Ops,
           Create(o) \/ \E s \in {"escalated", "completed"} : SetStatus(o, s)
    PROVE  AllLink' /\ FreshIsUnsealed'
<1>1. \A p \in Ops : row'[p].chain = row[p].chain
  <2>1. CASE Create(o)
    <3>1. row' = [row EXCEPT ![o] = [row[o] EXCEPT !.status = "pending"]]
      BY <2>1 DEF Create
    <3> QED BY <3>1 DEF ChainTypeOK, Row
  <2>2. ASSUME NEW s \in {"escalated", "completed"}, SetStatus(o, s)
        PROVE  \A p \in Ops : row'[p].chain = row[p].chain
    <3>1. row' = [row EXCEPT ![o] = [row[o] EXCEPT
                    !.status = s, !.held = row[o].held \/ s = "escalated"]]
      BY <2>2 DEF SetStatus
    <3> QED BY <3>1 DEF ChainTypeOK, Row
  <2> QED BY <2>1, <2>2
<1>2. ~Sealed(o)
  BY DEF Create, SetStatus, FreshIsUnsealed
<1>3. \A p \in Ops : p # o => row'[p] = row[p]
  BY DEF Create, SetStatus, ChainTypeOK, Row
<1>4. \A p \in Ops : Sealed(p)' <=> Sealed(p)
  BY <1>1 DEF Sealed, GENESIS_HASH
<1>5. ASSUME NEW p \in Ops, Sealed(p)' PROVE Links(p)'
  <2>1. Sealed(p) /\ p # o
    BY <1>2, <1>4, <1>5
  <2>2. Before(p)' = Before(p)
    BY <1>4 DEF Before, Ops
  <2> QED BY <1>1, <1>3, <2>1, <2>2, LinksStable DEF AllLink, Before
<1>6. FreshIsUnsealed'
  BY <1>2, <1>3, <1>4 DEF FreshIsUnsealed
<1> QED BY <1>5, <1>6 DEF AllLink

\* An orderly seal extends the newest row and is newer than any.
LEMMA SealLinks ==
    ASSUME ChainTypeOK, orderly, AllLink, FreshIsUnsealed, orderly',
           NEW s \in Sealers, NEW signs \in BOOLEAN, NEW archives \in BOOLEAN,
           SealCommit(s, signs, archives)
    PROVE  AllLink' /\ FreshIsUnsealed'
<1>0. PICK o, final : o = sealer[s].op /\ final = FinalStatus(sealer[s].kind)
  OBVIOUS
<1> DEFINE h == compute_operation_hash(o, final)
<1> USE <1>0
<1>1. CASE o \notin Ops
  <2>1. row' = row
    BY <1>1, SealNowhere
  <2> QED BY <2>1 DEF AllLink, FreshIsUnsealed, Sealed, Links, NewestIn
<1>2. CASE o \in Ops
  <2> USE <1>2
  <2>1. /\ sealer[s].prev = get_latest_chain_hash
        /\ \A p \in Ops : Sealed(p) => ~(p >= o)
        /\ sealer[s].loaded = final => row[o].status = final
    BY DEF SealCommit, Disturbs
  <2>2. row'[o].status = final /\ row'[o].chain = compute_chain_hash(sealer[s].prev, h)
    BY <2>1 DEF SealCommit, ChainTypeOK
  <2>3. \A p \in Ops : p # o => row'[p] = row[p]
    BY DEF SealCommit, ChainTypeOK
  <2>4. final \in Statuses /\ final # "absent"
    BY DEF FinalStatus, Statuses
  <2>5. Sealed(o)'
    <3>1. sealer[s].prev \in Seq(OperationHash)
      BY DEF ChainTypeOK, Seal
    <3>2. compute_chain_hash(sealer[s].prev, h) # GENESIS_HASH
      BY <2>4, <3>1, ChainHashType
    <3> QED BY <2>2, <3>2 DEF Sealed, GENESIS_HASH
  <2>6. \A p \in Ops : p # o => (Sealed(p)' <=> Sealed(p))
    BY <2>3 DEF Sealed, GENESIS_HASH
  <2>7. \A p \in Ops : Sealed(p) => p < o
    BY <2>1 DEF Ops
  <2>8. Links(o)'
    <3>1. PICK S : S = {p \in Ops : Sealed(p)}
      OBVIOUS
    <3>2. S = {p \in Ops : Sealed(p)' /\ p < o}
      BY <2>6, <2>7, <3>1 DEF Ops
    <3>3. \A p \in S : row'[p].chain = row[p].chain
      BY <2>3, <2>7, <3>1 DEF Ops
    <3>4. NewestIn(S)' = NewestIn(S)
      BY <3>3, NewestStable
    <3>5. get_latest_chain_hash = NewestIn(S)
      BY <3>1 DEF get_latest_chain_hash
    <3> QED BY <2>1, <2>2, <3>2, <3>4, <3>5 DEF Links
  <2>9. ASSUME NEW p \in Ops, p # o, Sealed(p)' PROVE Links(p)'
    <3>1. Sealed(p) /\ p < o /\ ~(o < p)
      BY <2>6, <2>7, <2>9 DEF Ops
    <3>2. Before(p)' = Before(p)
      BY <2>6, <3>1 DEF Before, Ops
    <3>3. \A q \in Before(p) : row'[q].chain = row[q].chain
      BY <2>3, <3>1 DEF Before, Ops
    <3> QED BY <2>3, <2>9, <3>1, <3>2, <3>3, LinksStable DEF AllLink
  <2>10. FreshIsUnsealed'
    BY <2>2, <2>3, <2>4, <2>6 DEF FreshIsUnsealed
  <2> QED BY <2>8, <2>9, <2>10 DEF AllLink
<1> QED BY <1>1, <1>2

\* Steps that leave the table alone.
LEMMA OtherLinks ==
    ASSUME AllLink, FreshIsUnsealed, row' = row
    PROVE  AllLink' /\ FreshIsUnsealed'
BY DEF AllLink, FreshIsUnsealed, Sealed, Links, NewestIn

\* A chain that was disturbed stays so.
LEMMA DisturbedForGood ==
    ASSUME [ChainNext]_chainVars, orderly'
    PROVE  orderly
<1>1. ASSUME NEW s \in Sealers, SealStep(s) PROVE orderly
  BY <1>1 DEF SealStep, SealLoad, SealFlush, SealCommit, SealAbort
<1>2. ASSUME NEW o \in Ops, NEW s, Create(o) \/ SetStatus(o, s) PROVE orderly
  BY <1>2 DEF Create, SetStatus
<1>3. ASSUME Rotate \/ AnchorStep PROVE orderly
  BY <1>3 DEF Rotate, AnchorStep, AnchorBegin, AnchorCommit, AnchorRefused
<1> QED BY <1>1, <1>2, <1>3 DEF ChainNext, RowStep, chainVars

LEMMA InvStep ==
    ASSUME ChainInv, [ChainNext]_chainVars
    PROVE  ChainInv'
<1>1. ChainTypeOK'
  BY StepType DEF ChainInv
<1>2. orderly' => orderly
  BY DisturbedForGood
<1>3. ASSUME orderly' PROVE AllLink' /\ FreshIsUnsealed'
  <2>1. ChainTypeOK /\ orderly /\ AllLink /\ FreshIsUnsealed
    BY <1>2, <1>3 DEF ChainInv
  <2>2. CASE UNCHANGED chainVars
    BY <2>1, <2>2, OtherLinks DEF chainVars
  <2>3. CASE \E o \in Ops : Create(o)
    BY <1>3, <2>1, <2>3, StatusLinks
  <2>4. CASE \E o \in Ops, s \in {"escalated", "completed"} : SetStatus(o, s)
    BY <1>3, <2>1, <2>4, StatusLinks
  <2>5. CASE Rotate \/ AnchorStep
    BY <2>1, <2>5, OtherLinks
       DEF Rotate, AnchorStep, AnchorBegin, AnchorCommit, AnchorRefused
  <2>6. ASSUME NEW s \in Sealers, SealStep(s) PROVE AllLink' /\ FreshIsUnsealed'
    <3>1. CASE \E signs, archives \in BOOLEAN : SealCommit(s, signs, archives)
      BY <1>3, <2>1, <3>1, SealLinks
    <3>2. CASE ~ \E signs, archives \in BOOLEAN : SealCommit(s, signs, archives)
      <4>1. row' = row
        BY <2>6, <3>2 DEF SealStep, SealLoad, SealFlush, SealAbort
      <4> QED BY <2>1, <4>1, OtherLinks
    <3> QED BY <3>1, <3>2
  <2> QED BY <2>2, <2>3, <2>4, <2>5, <2>6 DEF ChainNext, RowStep
<1> QED BY <1>1, <1>3 DEF ChainInv

LEMMA InvInit == ChainInit => ChainInv
<1> SUFFICES ASSUME ChainInit PROVE ChainInv
  OBVIOUS
<1>1. \A o \in Ops : ~Sealed(o)
  BY DEF ChainInit, Sealed, NoRow
<1> QED BY <1>1, InitType DEF ChainInv, AllLink, FreshIsUnsealed

-----------------------------------------------------------------------------
(* Signatures.                                                             *)

\* The recorded signature of a row is by the recorded version, over the status.
SignedAsRecorded ==
    \A o \in Ops : row[o].ver # 0 =>
        /\ Sealed(o)
        /\ row[o].by = row[o].ver
        /\ row[o].over = row[o].status

SignedInv == ChainInv /\ (orderly /\ resigned => SignedAsRecorded)

LEMMA SignedStep ==
    ASSUME SignedInv, [ChainNext]_chainVars
    PROVE  SignedInv'
<1>1. ChainTypeOK /\ ChainInv /\ ChainInv'
  BY InvStep DEF SignedInv, ChainInv
<1> USE <1>1
<1>2. ASSUME NEW o \in Ops, Create(o), orderly', resigned' PROVE SignedAsRecorded'
  <2>1. row' = [row EXCEPT ![o] = [row[o] EXCEPT !.status = "pending"]]
    BY <1>2 DEF Create
  <2>2. SignedAsRecorded
    BY <1>2 DEF Create, SignedInv
  <2>3. row[o].ver = 0
    BY <1>2, <2>2 DEF Create, ChainInv, FreshIsUnsealed, SignedAsRecorded
  <2> QED BY <2>1, <2>2, <2>3 DEF SignedAsRecorded, Sealed, ChainTypeOK, Row, GENESIS_HASH
<1>3. ASSUME NEW o \in Ops, NEW s \in {"escalated", "completed"}, SetStatus(o, s),
             orderly', resigned'
      PROVE  SignedAsRecorded'
  <2>1. row' = [row EXCEPT ![o] = [row[o] EXCEPT
                  !.status = s, !.held = row[o].held \/ s = "escalated"]]
    BY <1>3 DEF SetStatus
  <2>2. SignedAsRecorded /\ ~Sealed(o)
    BY <1>3 DEF SetStatus, SignedInv
  <2> QED BY <2>1, <2>2 DEF SignedAsRecorded, Sealed, ChainTypeOK, Row, GENESIS_HASH
<1>4. ASSUME NEW s \in Sealers, NEW signs \in BOOLEAN, NEW archives \in BOOLEAN,
             SealCommit(s, signs, archives), orderly', resigned'
      PROVE  SignedAsRecorded'
  <2>1. PICK o, final : o = sealer[s].op /\ final = FinalStatus(sealer[s].kind)
    OBVIOUS
  <2>2. /\ SignedAsRecorded
        /\ signs \/ row[o].ver = 0
        /\ sealer[s].loaded = final => row[o].status = final
    BY <1>4, <2>1 DEF SealCommit, SignedInv
  <2>3. \A p \in Ops : p # o => row'[p] = row[p]
    BY <1>4, <2>1 DEF SealCommit, ChainTypeOK
  <2>4. CASE o \in Ops
    <3>1. compute_chain_hash(sealer[s].prev, compute_operation_hash(o, final))
            # GENESIS_HASH
      <4>1. final \in Statuses
        BY <2>1 DEF FinalStatus, Statuses
      <4>2. sealer[s].prev \in Seq(OperationHash)
        BY DEF ChainTypeOK, Seal
      <4> QED BY <2>4, <4>1, <4>2, ChainHashType
    <3>2. /\ row'[o].chain # GENESIS_HASH
          /\ row'[o].status = final
          /\ row'[o].over = IF signs THEN final ELSE row[o].over
          /\ row'[o].by = IF signs THEN vault ELSE row[o].by
          /\ row'[o].ver = IF signs THEN vault ELSE row[o].ver
      BY <1>4, <2>1, <2>2, <2>4, <3>1 DEF SealCommit, ChainTypeOK
    <3> QED BY <2>2, <2>3, <3>2 DEF SignedAsRecorded, Sealed, GENESIS_HASH
  <2>5. CASE o \notin Ops
    BY <2>2, <2>3, <2>5 DEF SignedAsRecorded, Sealed, GENESIS_HASH
  <2> QED BY <2>4, <2>5
<1>5. ASSUME row' = row, orderly' = orderly, resigned' = resigned,
             orderly', resigned'
      PROVE  SignedAsRecorded'
  BY <1>5 DEF SignedInv, SignedAsRecorded, Sealed
<1>6. ASSUME NEW s \in Sealers, SealStep(s), orderly', resigned'
      PROVE  SignedAsRecorded'
  BY <1>4, <1>5, <1>6 DEF SealStep, SealLoad, SealFlush, SealAbort
<1>7. ASSUME Rotate \/ AnchorStep \/ UNCHANGED chainVars, orderly', resigned'
      PROVE  SignedAsRecorded'
  BY <1>5, <1>7
     DEF Rotate, AnchorStep, AnchorBegin, AnchorCommit, AnchorRefused, chainVars
<1> QED BY <1>2, <1>3, <1>6, <1>7 DEF ChainNext, RowStep, SignedInv

-----------------------------------------------------------------------------
(* The head of the chain.                                                  *)

SealedOps == {o \in Ops : Sealed(o)}

\* What an anchor signed: the head as it was when k operations were sealed.
IsPrefixOf(h, head) == \E k \in 0 .. Len(head) : h = SubSeq(head, 1, k)

\* The head and nothing at all are prefixes of the head.
LEMMA PrefixEnds ==
    ASSUME NEW head \in Seq(OperationHash)
    PROVE  IsPrefixOf(head, head) /\ IsPrefixOf(GENESIS_HASH, head)
<1>1. SubSeq(head, 1, Len(head)) = head /\ SubSeq(head, 1, 0) = << >>
  BY SubSeqFull, SubSeqEmpty
<1>2. Len(head) \in 0 .. Len(head) /\ 0 \in 0 .. Len(head)
  OBVIOUS
<1>3. IsPrefixOf(head, head)
  BY <1>1, <1>2, Zenon DEF IsPrefixOf
<1>4. IsPrefixOf(<< >>, head)
  BY <1>1, <1>2, Zenon DEF IsPrefixOf
<1> QED BY <1>3, <1>4 DEF GENESIS_HASH

\* A prefix stays one when the chain grows.
LEMMA PrefixGrows ==
    ASSUME NEW head \in Seq(OperationHash), NEW x \in OperationHash, NEW h,
           IsPrefixOf(h, head)
    PROVE  IsPrefixOf(h, Append(head, x))
<1>1. PICK k \in 0 .. Len(head) : h = SubSeq(head, 1, k)
  BY DEF IsPrefixOf
<1> DEFINE longer == Append(head, x)
<1>2. /\ longer \in Seq(OperationHash) /\ Len(longer) = Len(head) + 1
      /\ Len(head) \in Nat
      /\ \A i \in 1 .. Len(head) : longer[i] = head[i]
  OBVIOUS
<1> HIDE DEF longer
<1>3. SubSeq(longer, 1, k) = SubSeq(head, 1, k)
  <2>1. /\ \A i \in 1 .. k : head[i] \in OperationHash
        /\ \A i \in 1 .. k : longer[i] \in OperationHash
        /\ \A i \in 1 .. k : longer[i] = head[i]
    BY <1>2
  <2> DEFINE a == SubSeq(longer, 1, k)
             b == SubSeq(head, 1, k)
  <2>2. a \in Seq(OperationHash) /\ Len(a) = k /\ \A i \in 1 .. k : a[i] = longer[i]
    BY <2>1, SubSeqProperties
  <2>3. b \in Seq(OperationHash) /\ Len(b) = k /\ \A i \in 1 .. k : b[i] = head[i]
    BY <2>1, SubSeqProperties
  <2> HIDE DEF a, b
  <2>4. \A i \in 1 .. k : a[i] = b[i]
    BY <2>1, <2>2, <2>3
  <2>5. a = b
    BY <2>2, <2>3, <2>4, SeqEqual
  <2> QED BY <2>5 DEF a, b
<1> QED BY <1>1, <1>2, <1>3 DEF IsPrefixOf, longer

\* A prefix other than the head is shorter.
LEMMA PrefixShorter ==
    ASSUME NEW head \in Seq(OperationHash), NEW h, IsPrefixOf(h, head), h # head
    PROVE  Len(h) < Len(head)
<1>1. PICK k \in 0 .. Len(head) : h = SubSeq(head, 1, k)
  BY DEF IsPrefixOf
<1>2. k # Len(head) /\ Len(head) \in Nat
  BY <1>1, SubSeqFull
<1>3. \A i \in 1 .. k : head[i] \in OperationHash
  BY <1>2
<1>4. Len(h) = k
  BY <1>1, <1>2, <1>3, SubSeqProperties
<1> QED BY <1>2, <1>4

\* The head is the hash of the newest sealed row.
LEMMA HeadType ==
    ASSUME ChainTypeOK
    PROVE  get_latest_chain_hash \in Seq(OperationHash)
BY NewestType DEF get_latest_chain_hash, ChainTypeOK

\* Rows that keep their hashes keep the head.
LEMMA HeadStable ==
    ASSUME \A p \in Ops : row'[p].chain = row[p].chain
    PROVE  /\ get_latest_chain_hash' = get_latest_chain_hash
           /\ SealedOps' = SealedOps
<1>1. SealedOps' = SealedOps
  BY DEF SealedOps, Sealed, GENESIS_HASH
<1>2. PICK S : S = SealedOps
  OBVIOUS
<1>3. NewestIn(S)' = NewestIn(S)
  BY <1>2, NewestStable DEF SealedOps
<1>4. get_latest_chain_hash = NewestIn(S) /\ get_latest_chain_hash' = NewestIn(S)'
  BY <1>1, <1>2 DEF get_latest_chain_hash, SealedOps
<1> QED BY <1>1, <1>3, <1>4

\* An orderly seal makes the chain longer by one operation, which was not
\* sealed before.
LEMMA HeadGrows ==
    ASSUME ChainTypeOK, orderly', NEW s \in Sealers, NEW signs \in BOOLEAN,
           NEW archives \in BOOLEAN, SealCommit(s, signs, archives),
           sealer[s].op \in Ops
    PROVE  \E x \in OperationHash, o \in Ops \ SealedOps :
              /\ get_latest_chain_hash' = Append(get_latest_chain_hash, x)
              /\ SealedOps' = SealedOps \cup {o}
<1>0. PICK o, final : o = sealer[s].op /\ final = FinalStatus(sealer[s].kind)
  OBVIOUS
<1>1. PICK x : x = compute_operation_hash(o, final)
  OBVIOUS
<1>2. final \in Statuses /\ o \in Ops
  BY <1>0 DEF FinalStatus, Statuses
<1>3. x \in OperationHash
  BY <1>1, <1>2 DEF compute_operation_hash, OperationHash
<1>4. /\ sealer[s].prev = get_latest_chain_hash
      /\ \A p \in Ops : Sealed(p) => ~(p >= o)
  BY <1>0 DEF SealCommit, Disturbs
<1>5. \A p \in Ops : Sealed(p) => p < o
  BY <1>2, <1>4 DEF Ops
<1>6. o \in Ops \ SealedOps
  BY <1>2, <1>5 DEF SealedOps, Ops
<1>7. row'[o].chain = Append(get_latest_chain_hash, x)
  BY <1>0, <1>1, <1>2, <1>4 DEF SealCommit, ChainTypeOK, compute_chain_hash
<1>8. \A p \in Ops : p # o => row'[p] = row[p]
  BY <1>0 DEF SealCommit, ChainTypeOK
<1>9. Append(get_latest_chain_hash, x) # << >>
  BY <1>3, HeadType, AppendProperties
<1>10. SealedOps' = SealedOps \cup {o}
  BY <1>2, <1>7, <1>8, <1>9 DEF SealedOps, Sealed, GENESIS_HASH
<1>11. get_latest_chain_hash' = row'[o].chain
  <2>1. PICK S : S = SealedOps'
    OBVIOUS
  <2>2. o \in S /\ \A p \in S : p <= o /\ (o <= p => p = o)
    BY <1>2, <1>5, <1>10, <2>1 DEF SealedOps, Ops
  <2>3. (CHOOSE q \in S : \A p \in S : p <= q) = o
    <3>1. \E q \in S : \A p \in S : p <= q
      BY <2>2
    <3>2. PICK newest : newest = CHOOSE q \in S : \A p \in S : p <= q
      OBVIOUS
    <3>3. newest \in S /\ \A p \in S : p <= newest
      BY <3>1, <3>2
    <3> QED BY <2>2, <3>2, <3>3
  <2>4. get_latest_chain_hash' = NewestIn(S)'
    BY <2>1 DEF get_latest_chain_hash, SealedOps
  <2> QED BY <2>2, <2>3, <2>4 DEF NewestIn
<1> QED BY <1>3, <1>6, <1>7, <1>10, <1>11

\* How a step changes the head of a chain that is orderly after it.
LEMMA HeadStep ==
    ASSUME ChainTypeOK, orderly', [ChainNext]_chainVars
    PROVE  \/ /\ get_latest_chain_hash' = get_latest_chain_hash
              /\ SealedOps' = SealedOps
           \/ /\ \E x \in OperationHash, o \in Ops \ SealedOps :
                    /\ get_latest_chain_hash' = Append(get_latest_chain_hash, x)
                    /\ SealedOps' = SealedOps \cup {o}
              /\ UNCHANGED <<anchor, anchoring, vault>>
<1>1. CASE row' = row
  BY <1>1, HeadStable
<1>2. CASE row' # row
  <2>1. ASSUME NEW o \in Ops, Create(o)
        PROVE  \A p \in Ops : row'[p].chain = row[p].chain
    <3>1. row' = [row EXCEPT ![o] = [row[o] EXCEPT !.status = "pending"]]
      BY <2>1 DEF Create
    <3> QED BY <3>1 DEF ChainTypeOK, Row
  <2>2. ASSUME NEW o \in Ops, NEW s \in {"escalated", "completed"}, SetStatus(o, s)
        PROVE  \A p \in Ops : row'[p].chain = row[p].chain
    <3>1. row' = [row EXCEPT ![o] = [row[o] EXCEPT
                    !.status = s, !.held = row[o].held \/ s = "escalated"]]
      BY <2>2 DEF SetStatus
    <3> QED BY <3>1 DEF ChainTypeOK, Row
  <2>3. CASE \/ \E o \in Ops : Create(o)
             \/ \E o \in Ops, s \in {"escalated", "completed"} : SetStatus(o, s)
    BY <2>1, <2>2, <2>3, HeadStable
  <2>4. ASSUME NEW s \in Sealers, NEW signs \in BOOLEAN, NEW archives \in BOOLEAN,
               SealCommit(s, signs, archives)
        PROVE  /\ \E x \in OperationHash, o \in Ops \ SealedOps :
                     /\ get_latest_chain_hash' = Append(get_latest_chain_hash, x)
                     /\ SealedOps' = SealedOps \cup {o}
               /\ UNCHANGED <<anchor, anchoring, vault>>
    <3>1. sealer[s].op \in Ops
      BY <1>2, <2>4, SealNowhere
    <3>2. UNCHANGED <<anchor, anchoring, vault>>
      BY <2>4 DEF SealCommit
    <3> QED BY <2>4, <3>1, <3>2, HeadGrows
  <2>5. ASSUME NEW s \in Sealers, SealStep(s)
        PROVE  \E signs, archives \in BOOLEAN : SealCommit(s, signs, archives)
    BY <1>2, <2>5 DEF SealStep, SealLoad, SealFlush, SealAbort
  <2>6. ~(Rotate \/ AnchorStep \/ UNCHANGED chainVars)
    BY <1>2 DEF Rotate, AnchorStep, AnchorBegin, AnchorCommit, AnchorRefused, chainVars
  <2> QED BY <2>3, <2>4, <2>5, <2>6 DEF ChainNext, RowStep
<1> QED BY <1>1, <1>2

(***************************************************************************)
(* The inductive invariant behind AnchorIsPrefix: the head that an anchor  *)
(* request has read is a prefix, too, and every sealed operation made the  *)
(* chain longer by one.                                                    *)
(***************************************************************************)
GrowthInv ==
    /\ ChainInv
    /\ orderly => /\ IsPrefixOf(anchor.head, get_latest_chain_hash)
                  /\ IsPrefixOf(anchoring, get_latest_chain_hash)
                  /\ Len(get_latest_chain_hash) = Cardinality(SealedOps)

\* The operations are finitely many, and so are those that were sealed.
LEMMA SealedFinite ==
    /\ IsFiniteSet(SealedOps)
    /\ Cardinality(SealedOps) \in 0 .. N
<1>1. IsFiniteSet(Ops) /\ Cardinality(Ops) = N
  BY FS_Interval, ChainAssumption DEF Ops
<1>2. SealedOps \in SUBSET Ops
  BY DEF SealedOps
<1>3. IsFiniteSet(SealedOps) /\ Cardinality(SealedOps) <= N
  BY <1>1, <1>2, FS_Subset
<1> QED BY <1>3, FS_CardinalityType, ChainAssumption

LEMMA GrowthInit == ChainInit => GrowthInv
<1> SUFFICES ASSUME ChainInit PROVE GrowthInv
  OBVIOUS
<1>1. SealedOps = {}
  BY DEF ChainInit, SealedOps, Sealed, NoRow
<1>2. get_latest_chain_hash = << >>
  BY <1>1 DEF get_latest_chain_hash, SealedOps, NewestIn, GENESIS_HASH
<1>3. Len(get_latest_chain_hash) = Cardinality(SealedOps)
  BY <1>1, <1>2, FS_EmptySet
<1>4. anchor.head = GENESIS_HASH /\ anchoring = GENESIS_HASH
  BY DEF ChainInit, NoAnchor
<1>5. get_latest_chain_hash \in Seq(OperationHash)
  BY <1>2
<1> QED BY <1>3, <1>4, <1>5, InvInit, PrefixEnds DEF GrowthInv

\* What a step can do to the anchor and to the request for one.
LEMMA AnchorMoves ==
    ASSUME [ChainNext]_chainVars
    PROVE  \/ UNCHANGED <<anchor, anchoring>>
           \/ anchoring' = GENESIS_HASH /\ anchor' = anchor
           \/ /\ anchoring' = GENESIS_HASH
              /\ anchor'.head = anchoring /\ anchor'.ver = vault /\ vault' = vault
           \/ anchoring' = get_latest_chain_hash /\ anchor' = anchor
<1>1. ASSUME NEW s \in Sealers, SealStep(s) PROVE UNCHANGED <<anchor, anchoring>>
  BY <1>1 DEF SealStep, SealLoad, SealFlush, SealCommit, SealAbort
<1>2. ASSUME NEW o \in Ops, NEW s, Create(o) \/ SetStatus(o, s)
      PROVE  UNCHANGED <<anchor, anchoring>>
  BY <1>2 DEF Create, SetStatus
<1>3. CASE RowStep
  BY <1>1, <1>2, <1>3 DEF RowStep
<1>4. CASE Rotate \/ UNCHANGED chainVars
  BY <1>4 DEF Rotate, chainVars
<1>5. CASE AnchorStep
  <2>1. ASSUME NEW archives, AnchorCommit(archives)
        PROVE  /\ anchoring' = GENESIS_HASH /\ vault' = vault
               /\ anchor'.head = anchoring /\ anchor'.ver = vault
    BY <2>1 DEF AnchorCommit
  <2> QED BY <1>5, <2>1 DEF AnchorStep, AnchorBegin, AnchorRefused
<1> QED BY <1>3, <1>4, <1>5 DEF ChainNext

LEMMA GrowthStep ==
    ASSUME GrowthInv, [ChainNext]_chainVars
    PROVE  GrowthInv'
<1>1. ChainInv' /\ ChainTypeOK /\ ChainTypeOK'
  BY InvStep DEF GrowthInv, ChainInv
<1>2. ASSUME orderly'
      PROVE  /\ IsPrefixOf(anchor'.head, get_latest_chain_hash')
             /\ IsPrefixOf(anchoring', get_latest_chain_hash')
             /\ Len(get_latest_chain_hash') = Cardinality(SealedOps')
  <2>1. PICK head, later : head = get_latest_chain_hash /\ later = get_latest_chain_hash'
    OBVIOUS
  <2>2. /\ IsPrefixOf(anchor.head, head) /\ IsPrefixOf(anchoring, head)
        /\ Len(head) = Cardinality(SealedOps)
    BY <1>2, <2>1, DisturbedForGood DEF GrowthInv
  <2>3. head \in Seq(OperationHash)
    BY <1>1, <2>1, HeadType
  <2>4. CASE later = head /\ SealedOps' = SealedOps
    <3>1. \/ UNCHANGED <<anchor, anchoring>>
          \/ anchoring' = GENESIS_HASH /\ anchor' = anchor
          \/ anchoring' = GENESIS_HASH /\ anchor'.head = anchoring
          \/ anchoring' = head /\ anchor' = anchor
      BY <2>1, AnchorMoves
    <3>2. IsPrefixOf(anchor'.head, head) /\ IsPrefixOf(anchoring', head)
      BY <2>2, <2>3, <3>1, PrefixEnds
    <3> QED BY <2>1, <2>2, <2>4, <3>2
  <2>5. CASE /\ \E x \in OperationHash, o \in Ops \ SealedOps :
                   later = Append(head, x) /\ SealedOps' = SealedOps \cup {o}
             /\ UNCHANGED <<anchor, anchoring>>
    <3>1. PICK x \in OperationHash, o \in Ops \ SealedOps :
             later = Append(head, x) /\ SealedOps' = SealedOps \cup {o}
      BY <2>5
    <3>2. IsPrefixOf(anchor.head, later) /\ IsPrefixOf(anchoring, later)
      BY <2>2, <2>3, <3>1, PrefixGrows
    <3>3. Len(later) = Len(head) + 1
      BY <2>3, <3>1
    <3>4. Cardinality(SealedOps') = Cardinality(SealedOps) + 1
      BY <3>1, SealedFinite, FS_AddElement
    <3> QED BY <2>1, <2>2, <2>5, <3>2, <3>3, <3>4
  <2> QED BY <1>1, <1>2, <2>1, <2>4, <2>5, HeadStep
<1> QED BY <1>1, <1>2 DEF GrowthInv

-----------------------------------------------------------------------------
(* What the audit API answers.                                             *)

\* A signature is by its recorded version, which Vault has.
RecordedInv ==
    /\ \A o \in Ops : row[o].by = row[o].ver /\ row[o].by <= vault
    /\ anchor.head # GENESIS_HASH => anchor.ver \in 1 .. vault

(***************************************************************************)
(* An export under way or answered keeps what was true of its signature    *)
(* when the operation was loaded, although versions and archived keys are  *)
(* added meanwhile.                                                        *)
(***************************************************************************)
ExportInv ==
    export.pc # "idle" =>
        /\ export.by <= vault
        /\ export.ver # 0 => export.by = export.ver
        /\ export.pc = "loaded" => (export.signature_at_write_time <=> export.by # 0)
        /\ export.durable => export.ver \in archive
        /\ export.sound /\ export.ver # 0 => export.over = export.status
        /\ export.pc = "served" =>
              /\ export.durable => export.key = export.by
              /\ export.key \notin {0, export.by} => ~export.durable /\ export.by < vault

(***************************************************************************)
(* What a verdict has found out so far stays true of the chain, as long as *)
(* the chain is orderly.                                                   *)
(***************************************************************************)
VerdictInv ==
    /\ verdict.pc = "walked" =>
          verdict.head = GENESIS_HASH /\ ~verdict.anchor_head_matches
    /\ verdict.pc = "anchor" /\ verdict.head # GENESIS_HASH => verdict.ver \in 1 .. vault
    /\ orderly /\ verdict.pc # "idle" =>
          verdict.valid /\ verdict.walked <= Cardinality(SealedOps)
    /\ orderly /\ verdict.pc = "anchor" =>
          IsPrefixOf(verdict.head, get_latest_chain_hash)
    /\ VerdictIsHonest

AuditInv ==
    /\ GrowthInv /\ SignedInv /\ RecordedInv
    /\ export \in Export /\ verdict \in Verdict
    /\ ExportInv /\ VerdictInv

\* Versions and archived keys are only added.
LEMMA KeysGrow ==
    ASSUME ChainTypeOK, [ChainNext]_chainVars
    PROVE  /\ vault \in 1 .. MaxVersion /\ vault' \in 1 .. MaxVersion
           /\ vault <= vault' /\ archive \subseteq archive'
<1>1. vault \in 1 .. MaxVersion /\ vault' \in 1 .. MaxVersion
  BY StepType DEF ChainTypeOK
<1>2. ASSUME NEW s \in Sealers, SealStep(s) PROVE vault' = vault /\ archive \subseteq archive'
  BY <1>2 DEF SealStep, SealLoad, SealFlush, SealCommit, SealAbort
<1>3. ASSUME NEW o \in Ops, NEW s, Create(o) \/ SetStatus(o, s)
      PROVE  vault' = vault /\ archive' = archive
  BY <1>3 DEF Create, SetStatus
<1>4. CASE RowStep
  BY <1>1, <1>2, <1>3, <1>4, ChainAssumption DEF RowStep
<1>5. CASE Rotate
  BY <1>1, <1>5, ChainAssumption DEF Rotate
<1>6. CASE AnchorStep \/ UNCHANGED chainVars
  BY <1>1, <1>6, ChainAssumption
     DEF AnchorStep, AnchorBegin, AnchorCommit, AnchorRefused, chainVars
<1> QED BY <1>4, <1>5, <1>6 DEF ChainNext

LEMMA RecordedStep ==
    ASSUME ChainTypeOK, RecordedInv, [ChainNext]_chainVars
    PROVE  RecordedInv'
<1> USE ChainAssumption
<1>1. /\ vault \in 1 .. MaxVersion /\ vault' \in 1 .. MaxVersion /\ vault <= vault'
      /\ \A o \in Ops : row[o] \in Row
  BY KeysGrow DEF ChainTypeOK
<1>2. \A o \in Ops : row'[o].by = row'[o].ver /\ row'[o].by <= vault'
  <2>1. ASSUME NEW o \in Ops,
               \/ row'[o].by = row[o].by /\ row'[o].ver = row[o].ver
               \/ row'[o].by = vault /\ row'[o].ver = vault
        PROVE  row'[o].by = row'[o].ver /\ row'[o].by <= vault'
    <3>1. row[o].by = row[o].ver /\ row[o].by <= vault /\ row[o].by \in Nat
      BY <1>1 DEF RecordedInv, Row
    <3> QED BY <1>1, <2>1, <3>1
  <2>2. CASE row' = row
    BY <2>1, <2>2
  <2>3. ASSUME NEW o \in Ops, Create(o), NEW p \in Ops
        PROVE  row'[p].by = row[p].by /\ row'[p].ver = row[p].ver
    <3>1. row' = [row EXCEPT ![o] = [row[o] EXCEPT !.status = "pending"]]
      BY <2>3 DEF Create
    <3> QED BY <3>1 DEF ChainTypeOK, Row
  <2>4. ASSUME NEW o \in Ops, NEW s \in {"escalated", "completed"}, SetStatus(o, s),
               NEW p \in Ops
        PROVE  row'[p].by = row[p].by /\ row'[p].ver = row[p].ver
    <3>1. row' = [row EXCEPT ![o] = [row[o] EXCEPT
                    !.status = s, !.held = row[o].held \/ s = "escalated"]]
      BY <2>4 DEF SetStatus
    <3> QED BY <3>1 DEF ChainTypeOK, Row
  <2>5. ASSUME NEW s \in Sealers, NEW signs \in BOOLEAN, NEW archives \in BOOLEAN,
               SealCommit(s, signs, archives), NEW p \in Ops
        PROVE  \/ row'[p].by = row[p].by /\ row'[p].ver = row[p].ver
               \/ row'[p].by = vault /\ row'[p].ver = vault
    <3>1. CASE p = sealer[s].op
      BY <2>5, <3>1 DEF SealCommit, ChainTypeOK
    <3>2. CASE p # sealer[s].op
      BY <2>5, <3>2 DEF SealCommit, ChainTypeOK
    <3> QED BY <3>1, <3>2
  <2>6. ASSUME NEW s \in Sealers, SealStep(s)
        PROVE  row' = row \/ \E signs, archives \in BOOLEAN : SealCommit(s, signs, archives)
    BY <2>6 DEF SealStep, SealLoad, SealFlush, SealAbort
  <2>7. Rotate \/ AnchorStep \/ UNCHANGED chainVars => row' = row
    BY DEF Rotate, AnchorStep, AnchorBegin, AnchorCommit, AnchorRefused, chainVars
  <2>8. CASE RowStep
    BY <2>1, <2>2, <2>3, <2>4, <2>5, <2>6, <2>8 DEF RowStep
  <2> QED BY <2>2, <2>7, <2>8 DEF ChainNext
<1>3. anchor'.head # GENESIS_HASH => anchor'.ver \in 1 .. vault'
  <2>1. \/ anchor'.head = anchor.head /\ anchor'.ver = anchor.ver
        \/ anchor'.ver = vault
    BY AnchorMoves
  <2>2. CASE anchor'.ver = vault
    BY <1>1, <2>2
  <2>3. CASE anchor'.head = anchor.head /\ anchor'.ver = anchor.ver
    BY <1>1, <2>3 DEF RecordedInv, GENESIS_HASH
  <2> QED BY <2>1, <2>2, <2>3
<1> QED BY <1>2, <1>3 DEF RecordedInv, GENESIS_HASH

LEMMA AuditInitInv == AuditInit => AuditInv
<1> SUFFICES ASSUME AuditInit PROVE AuditInv
  OBVIOUS
<1> USE ChainAssumption
<1>1. ChainInit /\ export = NoExport /\ verdict = NoVerdict
  BY DEF AuditInit
<1>2. SignedInv
  BY <1>1, InvInit DEF ChainInit, SignedInv, SignedAsRecorded, NoRow
<1>3. RecordedInv
  BY <1>1 DEF ChainInit, RecordedInv, NoRow, NoAnchor
<1>4. export \in Export
  BY <1>1 DEF NoExport, Export, Statuses
<1>5. GENESIS_HASH \in Seq(OperationHash)
  BY DEF GENESIS_HASH
<1>6. verdict \in Verdict
  BY <1>1, <1>5 DEF NoVerdict, Verdict
<1>7. export.pc = "idle" /\ verdict.pc = "idle"
  BY <1>1 DEF NoExport, NoVerdict
<1>8. ExportInv /\ VerdictInv
  BY <1>7 DEF ExportInv, VerdictInv, VerdictIsHonest
<1> QED BY <1>1, <1>2, <1>3, <1>4, <1>6, <1>8, GrowthInit DEF AuditInv

\* What happens to the chain meanwhile spoils neither an export nor a verdict.
LEMMA MeanwhileStep ==
    ASSUME AuditInv, [ChainNext]_chainVars, UNCHANGED <<export, verdict>>
    PROVE  AuditInv'
<1> USE ChainAssumption
<1>1. ChainTypeOK
  BY DEF AuditInv, GrowthInv, ChainInv
<1>2. GrowthInv' /\ SignedInv' /\ RecordedInv'
  BY <1>1, GrowthStep, SignedStep, RecordedStep DEF AuditInv
<1>3. /\ vault \in 1 .. MaxVersion /\ vault' \in 1 .. MaxVersion
      /\ vault <= vault' /\ archive \subseteq archive'
  BY <1>1, KeysGrow
<1>4. export.by \in Nat /\ verdict.ver \in Nat /\ verdict.walked \in Nat
  BY DEF AuditInv, Export, Verdict
<1>5. ExportInv'
  <2>1. export.by <= vault => export.by <= vault'
    BY <1>3, <1>4
  <2>2. export.by < vault => export.by < vault'
    BY <1>3, <1>4
  <2>3. export.ver \in archive => export.ver \in archive'
    BY <1>3
  <2> QED BY <2>1, <2>2, <2>3 DEF AuditInv, ExportInv
<1>6. orderly' => /\ orderly
                  /\ Cardinality(SealedOps) <= Cardinality(SealedOps')
                  /\ Cardinality(SealedOps) \in Nat /\ Cardinality(SealedOps') \in Nat
                  /\ \A h : IsPrefixOf(h, get_latest_chain_hash)
                       => IsPrefixOf(h, get_latest_chain_hash')
  <2> SUFFICES ASSUME orderly'
               PROVE  /\ orderly
                      /\ Cardinality(SealedOps) <= Cardinality(SealedOps')
                      /\ Cardinality(SealedOps) \in Nat /\ Cardinality(SealedOps') \in Nat
                      /\ \A h : IsPrefixOf(h, get_latest_chain_hash)
                           => IsPrefixOf(h, get_latest_chain_hash')
    OBVIOUS
  <2>1. orderly
    BY DisturbedForGood
  <2>2. IsFiniteSet(SealedOps) /\ Cardinality(SealedOps) \in Nat
    BY SealedFinite
  <2>3. CASE get_latest_chain_hash' = get_latest_chain_hash /\ SealedOps' = SealedOps
    BY <2>1, <2>2, <2>3
  <2>4. ASSUME NEW x \in OperationHash, NEW o \in Ops \ SealedOps,
               get_latest_chain_hash' = Append(get_latest_chain_hash, x),
               SealedOps' = SealedOps \cup {o}
        PROVE  /\ Cardinality(SealedOps) <= Cardinality(SealedOps')
               /\ Cardinality(SealedOps') \in Nat
               /\ \A h : IsPrefixOf(h, get_latest_chain_hash)
                    => IsPrefixOf(h, get_latest_chain_hash')
    <3>1. Cardinality(SealedOps') = Cardinality(SealedOps) + 1
      BY <2>2, <2>4, FS_AddElement
    <3>2. get_latest_chain_hash \in Seq(OperationHash)
      BY <1>1, HeadType
    <3>3. \A h : IsPrefixOf(h, get_latest_chain_hash)
                    => IsPrefixOf(h, Append(get_latest_chain_hash, x))
      BY <3>2, PrefixGrows
    <3> QED BY <2>2, <2>4, <3>1, <3>3
  <2> QED BY <1>1, <2>1, <2>2, <2>3, <2>4, HeadStep
<1>7. verdict \in Verdict /\ Len(verdict.head) \in Nat
  BY DEF AuditInv, Verdict
<1>8. VerdictIsHonest'
  <2> SUFFICES ASSUME orderly', verdict.pc = "done"
               PROVE  /\ verdict.valid
                      /\ verdict.head # GENESIS_HASH /\ verdict.checked => verdict.anchor_valid
                      /\ verdict.anchor_head_matches => verdict.walked <= Len(verdict.head)
                      /\ verdict.head # GENESIS_HASH /\ ~verdict.anchor_head_matches
                            => Len(verdict.head) < Cardinality(SealedOps')
    BY DEF VerdictIsHonest, SealedOps, GENESIS_HASH
  <2>1. /\ verdict.valid
        /\ verdict.head # GENESIS_HASH /\ verdict.checked => verdict.anchor_valid
        /\ verdict.anchor_head_matches => verdict.walked <= Len(verdict.head)
        /\ verdict.head # GENESIS_HASH /\ ~verdict.anchor_head_matches
              => Len(verdict.head) < Cardinality(SealedOps)
    BY <1>6 DEF AuditInv, VerdictInv, VerdictIsHonest, SealedOps
  <2>2. Len(verdict.head) < Cardinality(SealedOps)
          => Len(verdict.head) < Cardinality(SealedOps')
    BY <1>6, <1>7
  <2> QED BY <2>1, <2>2
<1>9. VerdictInv'
  <2>1. verdict.ver \in 1 .. vault => verdict.ver \in 1 .. vault'
    BY <1>3, <1>4
  <2>2. orderly' /\ verdict.walked <= Cardinality(SealedOps)
           => verdict.walked <= Cardinality(SealedOps')
    BY <1>4, <1>6
  <2> QED BY <1>6, <1>8, <2>1, <2>2 DEF AuditInv, VerdictInv, GENESIS_HASH
<1> QED BY <1>2, <1>5, <1>9 DEF AuditInv

\* A step of the audit API changes nothing that it reports on.
LEMMA ReadOnly ==
    ASSUME AuditInv, UNCHANGED chainVars
    PROVE  /\ GrowthInv' /\ SignedInv' /\ RecordedInv'
           /\ UNCHANGED export => ExportInv'
           /\ UNCHANGED verdict => VerdictInv'
<1>1. ChainTypeOK
  BY DEF AuditInv, GrowthInv, ChainInv
<1>2. GrowthInv' /\ SignedInv' /\ RecordedInv'
  BY <1>1, GrowthStep, SignedStep, RecordedStep DEF AuditInv
<1>3. UNCHANGED export => ExportInv'
  BY DEF AuditInv, ExportInv, chainVars
<1>4. SealedOps' = SealedOps /\ get_latest_chain_hash' = get_latest_chain_hash
  BY HeadStable DEF chainVars
<1>5. UNCHANGED verdict => VerdictIsHonest'
  BY <1>4 DEF AuditInv, VerdictInv, VerdictIsHonest, SealedOps, chainVars, GENESIS_HASH
<1>6. UNCHANGED verdict => VerdictInv'
  BY <1>4, <1>5 DEF AuditInv, VerdictInv, chainVars, GENESIS_HASH
<1> QED BY <1>2, <1>3, <1>6

LEMMA ExportLoadStep ==
    ASSUME AuditInv, NEW o \in Ops, ExportLoad(o)
    PROVE  AuditInv'
<1> USE ChainAssumption
<1>1. UNCHANGED chainVars /\ UNCHANGED verdict
  BY DEF ExportLoad
<1>2. /\ row[o] \in Row /\ vault \in 1 .. MaxVersion
      /\ orderly \in BOOLEAN /\ resigned \in BOOLEAN /\ archive \subseteq 1 .. MaxVersion
  BY DEF AuditInv, GrowthInv, ChainInv, ChainTypeOK
<1>3. PICK r, written, durable, sound :
         /\ r = row[o] /\ written = (r.by # 0) /\ durable = (r.ver \in archive)
         /\ sound = (orderly /\ resigned)
  OBVIOUS
<1>4. /\ r \in Row /\ written \in BOOLEAN /\ durable \in BOOLEAN /\ sound \in BOOLEAN
  BY <1>2, <1>3
<1>5. PICK e : e = [pc |-> "loaded", status |-> r.status, over |-> r.over,
                   by |-> r.by, ver |-> r.ver, key |-> 0,
                   signature_at_write_time |-> written, durable |-> durable,
                   sound |-> sound]
  OBVIOUS
<1>6. export' = e
  BY <1>3, <1>5, Zenon DEF ExportLoad
<1>7. e \in Export
  BY <1>2, <1>4, <1>5 DEF Export, Row
<1>8. r.by = r.ver /\ r.by <= vault
  BY <1>3 DEF AuditInv, RecordedInv
<1>9. sound /\ r.ver # 0 => r.over = r.status
  BY <1>2, <1>3 DEF AuditInv, SignedInv, SignedAsRecorded
<1>10. /\ e.pc = "loaded" /\ e.by = r.by /\ e.ver = r.ver
       /\ e.signature_at_write_time <=> r.by # 0
       /\ e.durable => r.ver \in archive
       /\ e.sound = sound /\ e.over = r.over /\ e.status = r.status
  BY <1>3, <1>5
<1>11. archive' = archive /\ vault' = vault
  BY <1>1 DEF chainVars
<1>12. ExportInv'
  BY <1>6, <1>8, <1>9, <1>10, <1>11 DEF ExportInv
<1> QED BY <1>1, <1>6, <1>7, <1>12, ReadOnly DEF AuditInv

LEMMA ExportSignStep ==
    ASSUME AuditInv, ExportSign
    PROVE  AuditInv'
<1> USE ChainAssumption
<1>1. UNCHANGED chainVars /\ UNCHANGED verdict /\ export.pc = "loaded"
  BY DEF ExportSign
<1>2. export \in Export /\ vault \in 1 .. MaxVersion /\ archive \subseteq 1 .. MaxVersion
  BY DEF AuditInv, GrowthInv, ChainInv, ChainTypeOK
<1>3. /\ export.by <= vault
      /\ export.ver # 0 => export.by = export.ver
      /\ export.signature_at_write_time <=> export.by # 0
      /\ export.durable => export.ver \in archive
      /\ export.sound /\ export.ver # 0 => export.over = export.status
  BY <1>1 DEF AuditInv, ExportInv
<1>4. CASE export' = NoExport
  <2>1. NoExport \in Export /\ NoExport.pc = "idle"
    BY DEF NoExport, Export, Statuses
  <2>2. ExportInv'
    BY <1>4, <2>1 DEF ExportInv
  <2> QED BY <1>1, <1>4, <2>1, <2>2, ReadOnly DEF AuditInv
<1>5. ASSUME NEW b \in {0, vault} \cup {export.by},
             export.by # 0 => b = export.by,
             export' = [export EXCEPT !.pc = "signed", !.by = b]
      PROVE  AuditInv'
  <2>1. b \in 0 .. MaxVersion /\ b <= vault
    BY <1>2, <1>3, <1>5 DEF Export
  <2>2. export' \in Export
    BY <1>2, <1>5, <2>1 DEF Export
  <2>3. /\ export'.pc = "signed" /\ export'.by = b /\ export'.ver = export.ver
        /\ export'.durable = export.durable /\ export'.sound = export.sound
        /\ export'.over = export.over /\ export'.status = export.status
    BY <1>2, <1>5 DEF Export
  <2>4. export.ver # 0 => b = export.ver
    BY <1>3, <1>5
  <2>5. ExportInv'
    BY <1>1, <1>3, <2>1, <2>3, <2>4 DEF ExportInv, chainVars
  <2> QED BY <1>1, <2>2, <2>5, ReadOnly DEF AuditInv
<1>6. CASE export.signature_at_write_time
  <2>1. export' = [export EXCEPT !.pc = "signed"]
    BY <1>6 DEF ExportSign
  <2>2. export' = [export EXCEPT !.pc = "signed", !.by = export.by]
    BY <1>2, <2>1 DEF Export
  <2> QED BY <1>5, <2>2
<1>7. CASE ~export.signature_at_write_time
  <2>1. PICK v \in {0, vault} :
           export' = IF v = 0 /\ RequireSignature THEN NoExport
                     ELSE [export EXCEPT !.pc = "signed", !.by = v]
    BY <1>7 DEF ExportSign, sign_data
  <2> QED BY <1>3, <1>4, <1>5, <1>7, <2>1
<1> QED BY <1>6, <1>7

LEMMA ExportServeStep ==
    ASSUME AuditInv, ExportServe
    PROVE  AuditInv'
<1> USE ChainAssumption
<1>1. UNCHANGED chainVars /\ UNCHANGED verdict /\ export.pc = "signed"
  BY DEF ExportServe
<1>2. export \in Export /\ vault \in 1 .. MaxVersion /\ archive \subseteq 1 .. MaxVersion
  BY DEF AuditInv, GrowthInv, ChainInv, ChainTypeOK
<1>3. /\ export.by <= vault
      /\ export.ver # 0 => export.by = export.ver
      /\ export.durable => export.ver \in archive
      /\ export.sound /\ export.ver # 0 => export.over = export.status
  BY <1>1 DEF AuditInv, ExportInv
<1>4. PICK k \in IF export.by = 0 THEN {0} ELSE _resolve_public_key(export.ver) :
         export' = [export EXCEPT !.pc = "served", !.key = k]
  BY DEF ExportServe
<1>5. k \in {0, vault, export.by}
  BY <1>3, <1>4 DEF _resolve_public_key, get_public_key
<1>6. export.durable => k = export.by
  BY <1>2, <1>3, <1>4 DEF _resolve_public_key
<1>7. k \notin {0, export.by} => ~export.durable /\ export.by < vault
  BY <1>2, <1>3, <1>5, <1>6 DEF Export
<1>8. k \in 0 .. MaxVersion
  BY <1>2, <1>5 DEF Export
<1>9. export' \in Export
  BY <1>2, <1>4, <1>8 DEF Export
<1>10. /\ export'.pc = "served" /\ export'.key = k /\ export'.by = export.by
       /\ export'.ver = export.ver /\ export'.durable = export.durable
       /\ export'.sound = export.sound /\ export'.over = export.over
       /\ export'.status = export.status
  BY <1>2, <1>4 DEF Export
<1>11. ExportInv'
  BY <1>1, <1>3, <1>6, <1>7, <1>10 DEF ExportInv, chainVars
<1> QED BY <1>1, <1>9, <1>11, ReadOnly DEF AuditInv

LEMMA VerdictWalkStep ==
    ASSUME AuditInv, VerdictWalk
    PROVE  AuditInv'
<1>1. UNCHANGED chainVars /\ UNCHANGED export
  BY DEF VerdictWalk
<1>2. PICK valid, walked : valid = verify_chain /\ walked = Cardinality(SealedOps)
  OBVIOUS
<1>3. valid \in BOOLEAN /\ walked \in 0 .. N
  BY <1>2, SealedFinite DEF verify_chain
<1>4. verdict' = [NoVerdict EXCEPT !.pc = "walked", !.valid = valid, !.walked = walked]
  BY <1>2, Zenon DEF VerdictWalk, SealedOps
<1>5. GENESIS_HASH \in Seq(OperationHash)
  BY DEF GENESIS_HASH
<1>6. NoVerdict \in Verdict /\ NoVerdict.head = GENESIS_HASH /\ ~NoVerdict.anchor_head_matches
  BY <1>5, ChainAssumption DEF NoVerdict, Verdict
<1>7. verdict' \in Verdict
  BY <1>3, <1>4, <1>6 DEF Verdict
<1>8. /\ verdict'.pc = "walked" /\ verdict'.valid = valid /\ verdict'.walked = walked
      /\ verdict'.head = GENESIS_HASH /\ ~verdict'.anchor_head_matches
  BY <1>4, <1>6 DEF Verdict
<1>9. orderly => valid
  BY <1>2 DEF AuditInv, GrowthInv, ChainInv, AllLink, verify_chain
<1>10. SealedOps' = SealedOps /\ orderly' = orderly
  BY <1>1, HeadStable DEF chainVars
<1>11. walked \in Nat
  BY <1>3
<1>12. VerdictInv'
  BY <1>2, <1>8, <1>9, <1>10, <1>11 DEF VerdictInv, VerdictIsHonest, GENESIS_HASH
<1> QED BY <1>1, <1>7, <1>12, ReadOnly DEF AuditInv

LEMMA VerdictAnchorStep ==
    ASSUME AuditInv, VerdictAnchor
    PROVE  AuditInv'
<1>1. UNCHANGED chainVars /\ UNCHANGED export /\ verdict.pc = "walked"
  BY DEF VerdictAnchor
<1>2. verdict \in Verdict /\ anchor \in Anchor
  BY DEF AuditInv, GrowthInv, ChainInv, ChainTypeOK
<1>3. /\ verdict.head = GENESIS_HASH /\ ~verdict.anchor_head_matches
      /\ orderly => verdict.valid /\ verdict.walked <= Cardinality(SealedOps)
  BY <1>1 DEF AuditInv, VerdictInv
<1>4. /\ SealedOps' = SealedOps /\ get_latest_chain_hash' = get_latest_chain_hash
      /\ orderly' = orderly /\ vault' = vault
  BY <1>1, HeadStable DEF chainVars
<1>5. CASE anchor = NoAnchor
  <2>1. verdict' = [verdict EXCEPT !.pc = "done"]
    BY <1>5 DEF VerdictAnchor
  <2>2. /\ verdict' \in Verdict /\ verdict'.pc = "done"
        /\ verdict'.head = verdict.head /\ verdict'.valid = verdict.valid
        /\ verdict'.walked = verdict.walked
        /\ verdict'.anchor_head_matches = verdict.anchor_head_matches
    BY <1>2, <2>1 DEF Verdict
  <2>3. VerdictInv'
    BY <1>3, <1>4, <2>2 DEF VerdictInv, VerdictIsHonest, GENESIS_HASH
  <2> QED BY <1>1, <2>2, <2>3, ReadOnly DEF AuditInv
<1>6. CASE anchor # NoAnchor
  <2>1. verdict' = [verdict EXCEPT !.pc = "anchor", !.head = anchor.head,
                                   !.ver = anchor.ver]
    BY <1>6 DEF VerdictAnchor
  <2>2. anchor.head \in Seq(OperationHash) /\ anchor.ver \in 0 .. MaxVersion
    BY <1>2 DEF Anchor
  <2>3. /\ verdict' \in Verdict /\ verdict'.pc = "anchor"
        /\ verdict'.head = anchor.head /\ verdict'.ver = anchor.ver
        /\ verdict'.valid = verdict.valid /\ verdict'.walked = verdict.walked
    BY <1>2, <2>1, <2>2 DEF Verdict
  <2>4. anchor.head # GENESIS_HASH => anchor.ver \in 1 .. vault
    BY DEF AuditInv, RecordedInv
  <2>5. orderly => IsPrefixOf(anchor.head, get_latest_chain_hash)
    BY DEF AuditInv, GrowthInv
  <2>6. VerdictInv'
    BY <1>3, <1>4, <2>3, <2>4, <2>5 DEF VerdictInv, VerdictIsHonest, GENESIS_HASH
  <2> QED BY <1>1, <2>3, <2>6, ReadOnly DEF AuditInv
<1> QED BY <1>5, <1>6

LEMMA VerdictHeadStep ==
    ASSUME AuditInv, NEW up \in BOOLEAN, VerdictHead(up)
    PROVE  AuditInv'
<1>1. UNCHANGED chainVars /\ UNCHANGED export /\ verdict.pc = "anchor"
  BY DEF VerdictHead
<1>2. verdict \in Verdict /\ ChainTypeOK
  BY DEF AuditInv, GrowthInv, ChainInv
<1>3. PICK matches, good : /\ matches = head_matches(verdict.head)
                           /\ good = verify_signature(up, verdict.ver)
  OBVIOUS
<1>4. matches \in BOOLEAN /\ good \in BOOLEAN
  BY <1>3 DEF head_matches, verify_signature
<1>5. verdict' = [verdict EXCEPT !.pc = "done", !.anchor_head_matches = matches,
                                 !.anchor_valid = good, !.checked = up]
  BY <1>3, Zenon DEF VerdictHead
<1>6. /\ verdict' \in Verdict /\ verdict'.pc = "done" /\ verdict'.head = verdict.head
      /\ verdict'.valid = verdict.valid /\ verdict'.walked = verdict.walked
      /\ verdict'.anchor_head_matches = matches
      /\ verdict'.anchor_valid = good /\ verdict'.checked = up
  BY <1>2, <1>4, <1>5 DEF Verdict
<1>7. /\ SealedOps' = SealedOps /\ orderly' = orderly
      /\ get_latest_chain_hash' = get_latest_chain_hash
  BY <1>1, HeadStable DEF chainVars
<1>8. ASSUME orderly
      PROVE  /\ verdict.valid
             /\ verdict.head # GENESIS_HASH /\ up => good
             /\ matches => verdict.walked <= Len(verdict.head)
             /\ ~matches => Len(verdict.head) < Cardinality(SealedOps)
             /\ verdict.walked <= Cardinality(SealedOps)
  <2>1. /\ verdict.valid /\ verdict.walked <= Cardinality(SealedOps)
        /\ IsPrefixOf(verdict.head, get_latest_chain_hash)
        /\ verdict.head # GENESIS_HASH => verdict.ver \in 1 .. vault
    BY <1>1, <1>8 DEF AuditInv, VerdictInv
  <2>2. Len(get_latest_chain_hash) = Cardinality(SealedOps)
    BY <1>8 DEF AuditInv, GrowthInv
  <2>3. verdict.head # GENESIS_HASH /\ up => good
    BY <1>3, <2>1 DEF verify_signature
  <2>4. matches => get_latest_chain_hash = verdict.head
    BY <1>3 DEF head_matches
  <2>5. ~matches => verdict.head # get_latest_chain_hash
    BY <1>3 DEF head_matches
  <2>6. ~matches => Len(verdict.head) < Len(get_latest_chain_hash)
    BY <1>2, <2>1, <2>5, HeadType, PrefixShorter
  <2> QED BY <2>1, <2>2, <2>3, <2>4, <2>6
<1>9. VerdictIsHonest'
  <2> SUFFICES ASSUME orderly'
               PROVE  /\ verdict'.valid
                      /\ verdict'.head # GENESIS_HASH /\ verdict'.checked
                            => verdict'.anchor_valid
                      /\ verdict'.anchor_head_matches
                            => verdict'.walked <= Len(verdict'.head)
                      /\ verdict'.head # GENESIS_HASH /\ ~verdict'.anchor_head_matches
                            => Len(verdict'.head) < Cardinality(SealedOps')
    BY DEF VerdictIsHonest, SealedOps, GENESIS_HASH
  <2> QED BY <1>6, <1>7, <1>8
<1>10. VerdictInv'
  BY <1>6, <1>7, <1>8, <1>9 DEF VerdictInv
<1> QED BY <1>1, <1>6, <1>10, ReadOnly DEF AuditInv

LEMMA AuditStepInv ==
    ASSUME AuditInv, [AuditNext]_auditVars
    PROVE  AuditInv'
<1>1. CASE UNCHANGED auditVars
  BY <1>1, MeanwhileStep DEF auditVars
<1>2. CASE ChainNext /\ UNCHANGED <<export, verdict>>
  BY <1>2, MeanwhileStep
<1>3. CASE AuditStep
  BY <1>3, ExportLoadStep, ExportSignStep, ExportServeStep, VerdictWalkStep,
     VerdictAnchorStep, VerdictHeadStep DEF AuditStep
<1> QED BY <1>1, <1>2, <1>3 DEF AuditNext

-----------------------------------------------------------------------------
(* Theorems.                                                               *)

(***************************************************************************)
(* Rows, transactions that seal, keys and anchors stay well typed.         *)
(***************************************************************************)
THEOREM ChainTypeCorrect == ChainSpec => []ChainTypeOK
<1>1. ChainTypeOK /\ [ChainNext]_chainVars => ChainTypeOK'
  BY StepType
<1> QED BY <1>1, InitType, PTL DEF ChainSpec

(***************************************************************************)
(* The verification endpoint raises no false alarm of its own: whatever    *)
(* the number of operations and of transactions that seal, a chain whose   *)
(* seals came one by one in the order of creation, and whose statuses were *)
(* left alone since, verifies.                                             *)
(***************************************************************************)
THEOREM NoFalseAlarm == ChainSpec => []OrderlyChainVerifies
<1>1. ChainInv /\ [ChainNext]_chainVars => ChainInv'
  BY InvStep
<1>2. ChainInv => OrderlyChainVerifies
  BY DEF ChainInv, AllLink, OrderlyChainVerifies, verify_chain
<1> QED BY <1>1, <1>2, InvInit, PTL DEF ChainSpec

(***************************************************************************)
(* Key rotations do not invalidate evidence: an operation that was signed  *)
(* when it was sealed, and left alone since, has an export that verifies   *)
(* offline as long as its key version is archived or the latest.           *)
(***************************************************************************)
THEOREM EvidenceOutlivesRotation == ChainSpec => []OfflineVerifies
<1>1. ChainInit => SignedInv
  BY InvInit DEF ChainInit, SignedInv, SignedAsRecorded, NoRow
<1>2. SignedInv /\ [ChainNext]_chainVars => SignedInv'
  BY SignedStep
<1>3. SignedInv => OfflineVerifies
  BY DEF SignedInv, SignedAsRecorded, OfflineVerifies, verify_export, ExportKey
<1> QED BY <1>1, <1>2, <1>3, PTL DEF ChainSpec

(***************************************************************************)
(* An anchor is never ahead of, or beside, an orderly chain: whatever was  *)
(* sealed between reading the head and storing the anchor, what was signed *)
(* is a prefix of the present head.                                        *)
(***************************************************************************)
THEOREM AnchorsHold == ChainSpec => []AnchorIsPrefix
<1>1. GrowthInv /\ [ChainNext]_chainVars => GrowthInv'
  BY GrowthStep
<1>2. GrowthInv => AnchorIsPrefix
  BY DEF GrowthInv, AnchorIsPrefix, IsPrefixOf
<1> QED BY <1>1, <1>2, GrowthInit, PTL DEF ChainSpec

(***************************************************************************)
(* Exports and verdicts stay well typed, and with them the chain.          *)
(***************************************************************************)
THEOREM AuditTypeCorrect == AuditSpec => []ExportTypeOK
<1>1. AuditInv /\ [AuditNext]_auditVars => AuditInv'
  BY AuditStepInv
<1>2. AuditInv => ExportTypeOK
  BY DEF AuditInv, GrowthInv, ChainInv, ExportTypeOK
<1> QED BY <1>1, <1>2, AuditInitInv, PTL DEF AuditSpec

(***************************************************************************)
(* Whoever gets an export can check it, however the key is rotated and the *)
(* operation re-sealed between the three reads that it is made of.         *)
(***************************************************************************)
THEOREM ExportsCanBeChecked == AuditSpec => []ServedExportVerifies
<1>1. AuditInv /\ [AuditNext]_auditVars => AuditInv'
  BY AuditStepInv
<1>2. AuditInv => ServedExportVerifies
  BY DEF AuditInv, ExportInv, ServedExportVerifies
<1> QED BY <1>1, <1>2, AuditInitInv, PTL DEF AuditSpec

(***************************************************************************)
(* A verdict on an orderly chain tells the truth, although the rows, the   *)
(* anchor and the head are read at three different times.                  *)
(***************************************************************************)
THEOREM VerdictsAreHonest == AuditSpec => []VerdictIsHonest
<1>1. AuditInv /\ [AuditNext]_auditVars => AuditInv'
  BY AuditStepInv
<1>2. AuditInv => VerdictIsHonest
  BY DEF AuditInv, VerdictInv
<1> QED BY <1>1, <1>2, AuditInitInv, PTL DEF AuditSpec

-----------------------------------------------------------------------------
(***************************************************************************)
(* Retention, for any number of purges, seals and retention jobs at once.  *)
(*                                                                         *)
(* What a purge deletes lies within what it listed because the cut-off of  *)
(* its DELETE was taken first, and nothing is deleted twice because a row  *)
(* that was purged never comes back, not even by a seal that had loaded it *)
(* before: a seal locks the row it writes, and finds that it is gone.      *)
(* A DELETE is noticed because it takes the oldest rows: the first sealed  *)
(* row that it leaves continues one that is gone.                          *)
(***************************************************************************)
Purged(o) == row[o].status = "purged"

\* Every operation that is past its retention has been created.
ExpiredExisted == \A o \in Ops : o <= horizon => row[o].status # "absent"

\* A transaction that has locked a row has a row to write.
SealersHold ==
    \A s \in Sealers :
        /\ sealer[s].pc # "idle" => sealer[s].op \in Ops
        /\ sealer[s].pc = "sealing" => Exists(sealer[s].op)

\* What a purge has read and done so far.
PurgerOK(p) ==
    /\ purger[p].cutoff <= horizon
    /\ purger[p].pc = "listed" => Expired(purger[p].cutoff) \subseteq purger[p].listed
    /\ purger[p].pc # "deleted" => purger[p].deleted = {}
    /\ \A o \in purger[p].deleted : Purged(o)

RetentionInv ==
    /\ RetentionTypeOK
    /\ ExpiredExisted
    /\ SealersHold
    /\ \A p \in Purgers : PurgerOK(p)
    /\ \A c \in certs : \A o \in c.gone : Purged(o)
    /\ CertificateNamesDeleted
    /\ DeletedOnce

-----------------------------------------------------------------------------
(* Rows.                                                                   *)

\* A row never returns to absent, and one that is purged stays so.
RowsOnlyAge ==
    \A o \in Ops : row[o].status # "absent" =>
        /\ row'[o].status # "absent"
        /\ Exists(o)' => Exists(o)

LEMMA PurgedStays ==
    ASSUME RowsOnlyAge, NEW o \in Ops, Purged(o)
    PROVE  Purged(o)'
BY DEF RowsOnlyAge, Exists, Purged

\* The steps of RowStep, seals included.
LEMMA RowStepAges ==
    ASSUME ChainTypeOK, SealersHold, RowStep
    PROVE  RowsOnlyAge /\ SealersHold'
<1>1. ASSUME NEW o \in Ops, Create(o) PROVE RowsOnlyAge /\ SealersHold'
  <2>1. row' = [row EXCEPT ![o] = [row[o] EXCEPT !.status = "pending"]]
        /\ sealer' = sealer /\ row[o].status = "absent"
    BY <1>1 DEF Create
  <2>2. \A p \in Ops : row'[p].status = IF p = o THEN "pending" ELSE row[p].status
    BY <2>1 DEF ChainTypeOK, Row
  <2> QED BY <2>1, <2>2 DEF RowsOnlyAge, SealersHold, Exists
<1>2. ASSUME NEW o \in Ops, NEW st \in {"escalated", "completed"}, SetStatus(o, st)
      PROVE  RowsOnlyAge /\ SealersHold'
  <2>1. /\ row' = [row EXCEPT ![o] = [row[o] EXCEPT
                  !.status = st, !.held = row[o].held \/ st = "escalated"]]
        /\ sealer' = sealer
        /\ row[o].status \in {"pending", "completed"}
    BY <1>2 DEF SetStatus
  <2>2. \A p \in Ops : row'[p].status = IF p = o THEN st ELSE row[p].status
    BY <2>1 DEF ChainTypeOK, Row
  <2> QED BY <2>1, <2>2 DEF RowsOnlyAge, SealersHold, Exists
<1>3. ASSUME NEW s \in Sealers, SealStep(s) PROVE RowsOnlyAge /\ SealersHold'
  <2>1. CASE \E o \in Ops, kind \in Kinds : SealLoad(s, o, kind)
    BY <2>1 DEF SealLoad, RowsOnlyAge, SealersHold, Exists, ChainTypeOK
  <2>2. CASE SealFlush(s)
    <3>1. /\ sealer' = [sealer EXCEPT ![s] = [sealer[s] EXCEPT
                 !.pc = "sealing", !.prev = get_latest_chain_hash]]
          /\ Exists(sealer[s].op) /\ sealer[s].pc = "loaded" /\ row' = row
      BY <2>2 DEF SealFlush
    <3>2. \A u \in Sealers : /\ sealer'[u].op = sealer[u].op
                             /\ u # s => sealer'[u] = sealer[u]
      BY <3>1 DEF ChainTypeOK, Seal
    <3> QED BY <3>1, <3>2 DEF RowsOnlyAge, SealersHold, Exists
  <2>3. CASE \E signs, archives \in BOOLEAN : SealCommit(s, signs, archives)
    <3>1. PICK signs, archives \in BOOLEAN : SealCommit(s, signs, archives)
      BY <2>3
    <3>2. PICK o : o = sealer[s].op
      OBVIOUS
    <3>3. o \in Ops /\ Exists(o)
      BY <3>1, <3>2 DEF SealCommit, SealersHold
    <3>4. row'[o].status \in {row[o].status, "completed", "rejected"}
      BY <3>1, <3>2, <3>3 DEF SealCommit, ChainTypeOK, FinalStatus
    <3>5. \A p \in Ops : p # o => row'[p] = row[p]
      BY <3>1, <3>2 DEF SealCommit, ChainTypeOK
    <3>6. /\ sealer'[s].pc = "idle"
          /\ \A u \in Sealers : u # s => sealer'[u] = sealer[u]
      BY <3>1 DEF SealCommit, ChainTypeOK, NoSeal
    <3> QED BY <3>3, <3>4, <3>5, <3>6 DEF RowsOnlyAge, SealersHold, Exists
  <2>4. CASE SealAbort(s)
    BY <2>4 DEF SealAbort, RowsOnlyAge, SealersHold, Exists, ChainTypeOK, NoSeal
  <2> QED BY <1>3, <2>1, <2>2, <2>3, <2>4 DEF SealStep
<1> QED BY <1>1, <1>2, <1>3 DEF RowStep

\* A DELETE: it leaves locked rows and the types alone.
LEMMA DeleteAges ==
    ASSUME ChainTypeOK, SealersHold, NEW S \in SUBSET Ops, DeleteRows(S)
    PROVE  /\ ChainTypeOK'
           /\ RowsOnlyAge
           /\ SealersHold'
           /\ \A o \in S : Purged(o)'
<1> DEFINE gone == [NoRow EXCEPT !.status = "purged"]
<1>1. gone \in Row /\ gone.status = "purged"
  <2>1. NoRow \in Row
    BY ChainAssumption DEF NoRow, Row, Statuses, GENESIS_HASH
  <2> QED BY <2>1 DEF Row, Statuses
<1>2. \A o \in Ops : row'[o] = IF o \in S THEN gone ELSE row[o]
  BY DEF DeleteRows
<1>3. row' \in [Ops -> Row]
  <2> HIDE DEF gone
  <2>1. \A o \in Ops : (IF o \in S THEN gone ELSE row[o]) \in Row
    BY <1>1 DEF ChainTypeOK
  <2> QED BY <2>1 DEF DeleteRows, gone
<1>4. ChainTypeOK'
  BY <1>3 DEF DeleteRows, ChainTypeOK
<1> HIDE DEF gone
<1>5. RowsOnlyAge /\ \A o \in S : Purged(o)'
  BY <1>1, <1>2 DEF RowsOnlyAge, Exists, Purged
<1>6. SealersHold'
  BY <1>2 DEF DeleteRows, Unlocked, SealersHold, Exists
<1> QED BY <1>4, <1>5, <1>6

-----------------------------------------------------------------------------
(* The parts of the invariant that a change of the rows can disturb.       *)

\* What is past its retention and not purged can only shrink.
LEMMA ExpiredShrinks ==
    ASSUME RetentionTypeOK, RowsOnlyAge, ExpiredExisted, NEW h \in 0 .. N, h <= horizon
    PROVE  Expired(h)' \subseteq Expired(h)
<1> SUFFICES ASSUME NEW o \in Ops, Exists(o)', o <= h PROVE Exists(o)
  BY DEF Expired
<1>1. o <= horizon
  BY ChainAssumption DEF Ops, RetentionTypeOK
<1> QED BY <1>1 DEF RowsOnlyAge, ExpiredExisted

\* A step of the rows alone.
LEMMA RowsInv ==
    ASSUME RetentionInv, ChainTypeOK', RowsOnlyAge, SealersHold', UNCHANGED purgeVars
    PROVE  RetentionInv'
<1> USE DEF RetentionInv
<1>1. RetentionTypeOK'
  BY DEF RetentionTypeOK, purgeVars
<1>2. ExpiredExisted'
  BY DEF ExpiredExisted, RowsOnlyAge, purgeVars
<1>3. ASSUME NEW p \in Purgers PROVE PurgerOK(p)'
  <2>1. PurgerOK(p) /\ purger'[p] = purger[p] /\ horizon' = horizon
    BY DEF purgeVars
  <2>2. PICK h, d : h = purger[p].cutoff /\ d = purger[p].deleted
    OBVIOUS
  <2>3. h \in 0 .. N /\ h <= horizon /\ d \subseteq Ops
    BY <2>1, <2>2 DEF PurgerOK, RetentionTypeOK, Purge
  <2>4. Expired(h)' \subseteq Expired(h)
    BY <2>3, ExpiredShrinks
  <2>5. \A o \in d : Purged(o)'
    BY <2>1, <2>2, <2>3, PurgedStays DEF PurgerOK
  <2> QED BY <2>1, <2>2, <2>3, <2>4, <2>5 DEF PurgerOK
<1>4. \A c \in certs' : \A o \in c.gone : Purged(o)'
  BY PurgedStays DEF purgeVars, RetentionTypeOK, Certificate
<1>5. CertificateNamesDeleted' /\ DeletedOnce'
  BY DEF CertificateNamesDeleted, DeletedOnce, purgeVars
<1> QED BY <1>1, <1>2, <1>3, <1>4, <1>5

\* A step of one purge that deletes nothing, or forgets what it deleted.
LEMMA PurgerInv ==
    ASSUME RetentionInv, UNCHANGED <<chainVars, horizon, certs>>,
           NEW p \in Purgers, NEW q \in Purge,
           purger' = [purger EXCEPT ![p] = q],
           q.deleted = {},
           q.cutoff <= horizon,
           q.pc = "listed" => Expired(q.cutoff) \subseteq q.listed
    PROVE  RetentionInv'
<1> USE DEF RetentionInv
<1>0. /\ purger'[p] = q
      /\ \A u \in Purgers : u # p => purger'[u] = purger[u]
  BY DEF RetentionTypeOK
<1>1. RetentionTypeOK'
  BY DEF RetentionTypeOK, chainVars, ChainTypeOK
<1>2. ExpiredExisted' /\ SealersHold'
  BY DEF ExpiredExisted, SealersHold, Exists, chainVars
<1>3. ASSUME NEW u \in Purgers PROVE PurgerOK(u)'
  BY <1>0 DEF PurgerOK, Expired, Exists, Purged, chainVars
<1>4. \A c \in certs' : \A o \in c.gone : Purged(o)'
  BY DEF Purged, chainVars
<1>5. CertificateNamesDeleted'
  BY <1>0 DEF CertificateNamesDeleted
<1>6. DeletedOnce'
  BY <1>0 DEF DeletedOnce
<1> QED BY <1>1, <1>2, <1>3, <1>4, <1>5, <1>6

-----------------------------------------------------------------------------
(* The steps of a purge.                                                   *)

LEMMA PurgeDeleteInv ==
    ASSUME RetentionInv, NEW p \in Purgers, PurgeDelete(p)
    PROVE  RetentionInv'
<1> USE DEF RetentionInv
<1>0. PICK S, old : S = Expired(purger[p].cutoff) /\ old = purger[p]
  OBVIOUS
<1>1. /\ S \in SUBSET Ops
      /\ S \subseteq old.listed
      /\ DeleteRows(S)
      /\ \A o \in S : ~Purged(o)
      /\ old.pc = "listed"
  BY <1>0 DEF PurgeDelete, Expired, PurgerOK, Exists, Purged
<1>2. ChainTypeOK' /\ RowsOnlyAge /\ SealersHold' /\ \A o \in S : Purged(o)'
  BY <1>1, DeleteAges DEF RetentionTypeOK
<1>3. UNCHANGED <<horizon, certs>>
  BY DEF PurgeDelete
<1>4. /\ purger' \in [Purgers -> Purge]
      /\ purger'[p] = [old EXCEPT !.pc = "deleted", !.deleted = S]
      /\ \A u \in Purgers : u # p => purger'[u] = purger[u]
  <2> DEFINE new == [old EXCEPT !.pc = "deleted", !.deleted = S]
  <2>1. purger' = [purger EXCEPT ![p] = new]
    BY <1>0 DEF PurgeDelete
  <2>2. new \in Purge
    BY <1>0, <1>1 DEF RetentionTypeOK, Purge
  <2> HIDE DEF new
  <2>3. /\ purger' \in [Purgers -> Purge]
        /\ purger'[p] = new
        /\ \A u \in Purgers : u # p => purger'[u] = purger[u]
    BY <2>1, <2>2 DEF RetentionTypeOK
  <2> QED BY <2>3 DEF new
<1>5. /\ purger'[p].pc = "deleted" /\ purger'[p].deleted = S
      /\ purger'[p].cutoff = old.cutoff /\ purger'[p].listed = old.listed
  BY <1>0, <1>4 DEF RetentionTypeOK, Purge
<1>6. RetentionTypeOK' /\ ExpiredExisted'
  BY <1>2, <1>3, <1>4 DEF RetentionTypeOK, ExpiredExisted, RowsOnlyAge
<1>7. ASSUME NEW u \in Purgers, u # p PROVE PurgerOK(u)'
  <2>1. PurgerOK(u) /\ purger'[u] = purger[u]
    BY <1>4, <1>7
  <2>2. PICK h, d : h = purger[u].cutoff /\ d = purger[u].deleted
    OBVIOUS
  <2>3. h \in 0 .. N /\ h <= horizon /\ d \subseteq Ops
    BY <2>1, <2>2 DEF PurgerOK, RetentionTypeOK, Purge
  <2>4. Expired(h)' \subseteq Expired(h)
    BY <1>2, <2>3, ExpiredShrinks
  <2>5. \A o \in d : Purged(o)'
    BY <1>2, <2>1, <2>2, <2>3, PurgedStays DEF PurgerOK
  <2> QED BY <1>3, <2>1, <2>2, <2>3, <2>4, <2>5 DEF PurgerOK
<1>8. PurgerOK(p)'
  BY <1>0, <1>2, <1>3, <1>5 DEF PurgerOK
<1>9. \A c \in certs' : \A o \in c.gone : Purged(o)'
  BY <1>2, <1>3, PurgedStays DEF RetentionTypeOK, Certificate
<1>10. CertificateNamesDeleted'
  BY <1>0, <1>1, <1>3, <1>4, <1>5 DEF CertificateNamesDeleted
<1>11. DeletedOnce'
  <2>1. \A u \in Purgers : u # p => purger[u].deleted \cap S = {}
    BY <1>1 DEF PurgerOK
  <2>2. \A c \in certs : S \cap c.gone = {}
    BY <1>1
  <2>3. ASSUME NEW u \in Purgers, NEW v \in Purgers, u # v
        PROVE  purger'[u].deleted \cap purger'[v].deleted = {}
    <3>1. CASE u = p
      BY <1>4, <1>5, <2>1, <2>3, <3>1
    <3>2. CASE v = p
      BY <1>4, <1>5, <2>1, <2>3, <3>2
    <3>3. CASE u # p /\ v # p
      BY <1>4, <2>3, <3>3 DEF DeletedOnce
    <3> QED BY <3>1, <3>2, <3>3
  <2>4. ASSUME NEW u \in Purgers, NEW c \in certs
        PROVE  purger'[u].deleted \cap c.gone = {}
    <3>1. CASE u = p
      BY <1>5, <2>2, <3>1
    <3>2. CASE u # p
      BY <1>4, <3>2 DEF DeletedOnce
    <3> QED BY <3>1, <3>2
  <2> QED BY <1>3, <2>3, <2>4 DEF DeletedOnce
<1> QED BY <1>2, <1>6, <1>7, <1>8, <1>9, <1>10, <1>11

LEMMA PurgeStepInv ==
    ASSUME RetentionInv, NEW p \in Purgers, PurgeStep(p)
    PROVE  RetentionInv'
<1> USE DEF RetentionInv
<1>0. NoPurge \in Purge /\ horizon \in 0 .. N /\ purger[p] \in Purge
  BY ChainAssumption DEF NoPurge, Purge, RetentionTypeOK
<1>1. CASE PurgeBegin(p)
  <2> DEFINE q == [NoPurge EXCEPT !.pc = "begun", !.cutoff = horizon]
  <2>1. q \in Purge /\ q.deleted = {} /\ q.cutoff = horizon /\ q.pc = "begun"
    BY <1>0 DEF NoPurge, Purge
  <2>2. purger' = [purger EXCEPT ![p] = q] /\ UNCHANGED <<chainVars, horizon, certs>>
    BY <1>1 DEF PurgeBegin
  <2> HIDE DEF q
  <2>3. q.cutoff <= horizon
    BY <1>0, <2>1, ChainAssumption
  <2> QED BY <2>1, <2>2, <2>3, PurgerInv
<1>2. ASSUME purger' = [purger EXCEPT ![p] = NoPurge],
             UNCHANGED <<chainVars, horizon, certs>>
      PROVE  RetentionInv'
  <2>1. NoPurge.deleted = {} /\ NoPurge.cutoff <= horizon /\ NoPurge.pc = "idle"
    BY <1>0 DEF NoPurge
  <2> QED BY <1>0, <1>2, <2>1, PurgerInv
<1>3. CASE PurgeList(p)
  <2>1. CASE Expired(horizon) = {}
    BY <1>2, <1>3, <2>1 DEF PurgeList
  <2>2. CASE Expired(horizon) # {}
    <3> DEFINE q == [purger[p] EXCEPT !.pc = "listed", !.listed = Expired(horizon)]
    <3>1. purger[p].deleted = {} /\ purger[p].cutoff <= horizon
      BY <1>3 DEF PurgeList, PurgerOK
    <3>2. /\ q \in Purge /\ q.deleted = {} /\ q.cutoff = purger[p].cutoff
          /\ q.pc = "listed" /\ q.listed = Expired(horizon)
      BY <1>0, <3>1 DEF Purge, Expired
    <3>3. purger' = [purger EXCEPT ![p] = q] /\ UNCHANGED <<chainVars, horizon, certs>>
      BY <1>3, <2>2 DEF PurgeList
    <3>4. Expired(purger[p].cutoff) \subseteq Expired(horizon)
      BY <1>0, <3>1, ChainAssumption DEF Expired, Ops, Purge
    <3> HIDE DEF q
    <3> QED BY <3>1, <3>2, <3>3, <3>4, PurgerInv
  <2> QED BY <2>1, <2>2
<1>4. CASE PurgeDelete(p)
  BY <1>4, PurgeDeleteInv
<1>5. ASSUME NEW stored \in BOOLEAN, PurgeCertify(p, stored) PROVE RetentionInv'
  <2>1. PICK cert : cert = [ids |-> purger[p].listed, gone |-> purger[p].deleted]
    OBVIOUS
  <2>2. cert \in Certificate
    BY <1>0, <2>1 DEF Certificate, Purge
  <2>3. /\ certs' \subseteq certs \cup {cert}
        /\ purger' = [purger EXCEPT ![p] = NoPurge]
        /\ UNCHANGED <<chainVars, horizon>>
    BY <1>5, <2>1 DEF PurgeCertify, store_with_retention
  <2>4. /\ purger'[p] = NoPurge
        /\ \A u \in Purgers : u # p => purger'[u] = purger[u]
    BY <2>3 DEF RetentionTypeOK
  <2>5. NoPurge.deleted = {} /\ NoPurge.cutoff <= horizon /\ NoPurge.pc = "idle"
    BY <1>0 DEF NoPurge
  <2>6. RetentionTypeOK'
    BY <1>0, <2>2, <2>3 DEF RetentionTypeOK, chainVars, ChainTypeOK
  <2>7. ExpiredExisted' /\ SealersHold'
    BY <2>3 DEF ExpiredExisted, SealersHold, Exists, chainVars
  <2>8. ASSUME NEW u \in Purgers PROVE PurgerOK(u)'
    BY <2>3, <2>4, <2>5 DEF PurgerOK, Expired, Exists, Purged, chainVars
  <2>9. /\ \A o \in cert.gone : Purged(o)
        /\ cert.gone \subseteq cert.ids
        /\ \A u \in Purgers : u # p => purger[u].deleted \cap cert.gone = {}
        /\ \A c \in certs : c.gone \cap cert.gone = {}
    BY <2>1 DEF PurgerOK, CertificateNamesDeleted, DeletedOnce
  <2>10. \A c \in certs' : \A o \in c.gone : Purged(o)'
    BY <2>3, <2>9 DEF Purged, chainVars
  <2>11. CertificateNamesDeleted'
    BY <2>3, <2>4, <2>5, <2>9 DEF CertificateNamesDeleted
  <2>12. DeletedOnce'
    BY <2>3, <2>4, <2>5, <2>9 DEF DeletedOnce
  <2> QED BY <2>6, <2>7, <2>8, <2>10, <2>11, <2>12
<1>6. CASE PurgeFails(p)
  BY <1>2, <1>6 DEF PurgeFails
<1> QED BY <1>1, <1>3, <1>4, <1>5, <1>6 DEF PurgeStep

LEMMA RetentionStep ==
    ASSUME RetentionInv, [RetentionNext]_retentionVars
    PROVE  RetentionInv'
<1>0. ChainTypeOK /\ SealersHold
  BY DEF RetentionInv, RetentionTypeOK
<1>1. CASE UNCHANGED retentionVars
  <2>1. ChainTypeOK' /\ RowsOnlyAge /\ SealersHold' /\ UNCHANGED purgeVars
    BY <1>0, <1>1
       DEF retentionVars, chainVars, ChainTypeOK, RowsOnlyAge, SealersHold, Exists
  <2> QED BY <2>1, RowsInv
<1>2. CASE RowStep /\ UNCHANGED purgeVars
  <2>1. ChainTypeOK'
    BY <1>0, <1>2, StatusType, SealType DEF RowStep
  <2> QED BY <1>0, <1>2, <2>1, RowStepAges, RowsInv
<1>3. CASE Expire
  <2> USE DEF RetentionInv
  <2>1. /\ horizon \in 0 .. N /\ horizon < N /\ horizon' = horizon + 1
        /\ row[horizon + 1].status # "absent"
        /\ UNCHANGED <<chainVars, purger, certs>>
    BY <1>3 DEF Expire, RetentionTypeOK
  <2>2. RetentionTypeOK'
    BY <2>1, ChainAssumption DEF RetentionTypeOK, chainVars, ChainTypeOK
  <2>3. ExpiredExisted'
    BY <2>1, ChainAssumption DEF ExpiredExisted, chainVars, Ops
  <2>4. SealersHold' /\ (\A c \in certs' : \A o \in c.gone : Purged(o)')
    BY <2>1 DEF SealersHold, Exists, Purged, chainVars
  <2>5. ASSUME NEW p \in Purgers PROVE PurgerOK(p)'
    <3>1. PurgerOK(p) /\ purger[p].cutoff \in 0 .. N
      BY DEF RetentionTypeOK, Purge
    <3> QED BY <2>1, <3>1, ChainAssumption
            DEF PurgerOK, Expired, Exists, Purged, chainVars
  <2>6. CertificateNamesDeleted' /\ DeletedOnce'
    BY <2>1 DEF CertificateNamesDeleted, DeletedOnce
  <2> QED BY <2>2, <2>3, <2>4, <2>5, <2>6
<1>4. CASE \E p \in Purgers : PurgeStep(p)
  BY <1>4, PurgeStepInv
<1>5. CASE run_retention
  <2>1. PICK S : S = Expired(horizon)
    OBVIOUS
  <2>2. S \in SUBSET Ops /\ DeleteRows(S) /\ UNCHANGED purgeVars
    BY <1>5, <2>1 DEF run_retention, Expired
  <2>3. ChainTypeOK' /\ RowsOnlyAge /\ SealersHold'
    BY <1>0, <2>2, DeleteAges
  <2> QED BY <2>2, <2>3, RowsInv
<1> QED BY <1>1, <1>2, <1>3, <1>4, <1>5 DEF RetentionNext

LEMMA RetentionInitInv == RetentionInit => RetentionInv
<1> SUFFICES ASSUME RetentionInit PROVE RetentionInv
  OBVIOUS
<1>1. NoPurge \in Purge /\ NoPurge.deleted = {} /\ NoPurge.pc = "idle"
      /\ NoPurge.cutoff = 0
  BY ChainAssumption DEF NoPurge, Purge
<1>2. RetentionTypeOK
  BY <1>1, InitType, ChainAssumption DEF RetentionInit, RetentionTypeOK
<1>3. ExpiredExisted
  BY ChainAssumption DEF RetentionInit, ExpiredExisted, Ops
<1>4. SealersHold
  BY DEF RetentionInit, ChainInit, SealersHold, NoSeal
<1>5. \A p \in Purgers : PurgerOK(p)
  BY <1>1 DEF RetentionInit, PurgerOK
<1>6. CertificateNamesDeleted /\ DeletedOnce /\ certs = {}
  BY <1>1 DEF RetentionInit, CertificateNamesDeleted, DeletedOnce
<1> QED BY <1>2, <1>3, <1>4, <1>5, <1>6 DEF RetentionInv

-----------------------------------------------------------------------------
(* A deletion is noticed.                                                  *)

\* A set of numbers has a least one.
LEMMA Least ==
    ASSUME NEW S \in SUBSET Nat, S # {}
    PROVE  \E x \in S : \A y \in S : x <= y
<1>1. PICK x \in S : \A y \in S : ~(<<y, x>> \in OpToRel(<, Nat))
  <2> HIDE DEF IsWellFoundedOn
  <2> QED BY NatLessThanWellFounded, WFMin, Zenon
<1>2. \A y \in S : ~(y < x)
  <2> SUFFICES ASSUME NEW y \in S, y < x PROVE <<y, x>> \in OpToRel(<, Nat)
    BY <1>1, Zenon
  <2>1. <<y, x>> \in {ss \in Nat \X Nat : ss[1] < ss[2]}
    OBVIOUS
  <2> QED BY <2>1, Zenon DEF OpToRel
<1> QED BY <1>2

\* A bounded one has a greatest.
LEMMA Greatest ==
    ASSUME NEW n \in Nat, NEW S \in SUBSET (0 .. n), S # {}
    PROVE  \E x \in S : \A y \in S : y <= x
<1> DEFINE T == {k \in 0 .. n : n - k \in S}
<1>1. T \in SUBSET Nat /\ T # {}
  <2>1. PICK s \in S : TRUE
    OBVIOUS
  <2>2. n - s \in 0 .. n /\ n - (n - s) = s
    BY <2>1
  <2> QED BY <2>1, <2>2
<1>2. PICK m \in T : \A k \in T : m <= k
  <2> HIDE DEF T
  <2> QED BY <1>1, Least
<1>3. \A y \in S : n - y \in T
  OBVIOUS
<1>4. \A y \in S : y <= n - m
  BY <1>2, <1>3
<1> QED BY <1>2, <1>4

\* Only rows that are there have a hash.
SealedExist == \A o \in Ops : Sealed(o) => Exists(o)

\* A step other than a DELETE purges nothing and keeps hashes on live rows.
LEMMA RowStepSealed ==
    ASSUME ChainTypeOK, SealersHold, SealedExist, RowStep
    PROVE  /\ SealedExist'
           /\ \A o \in Ops : Purged(o)' => Purged(o)
<1>1. ASSUME NEW o \in Ops, Create(o)
      PROVE  SealedExist' /\ \A p \in Ops : Purged(p)' => Purged(p)
  <2>1. row' = [row EXCEPT ![o] = [row[o] EXCEPT !.status = "pending"]]
    BY <1>1 DEF Create
  <2>2. \A p \in Ops : /\ row'[p].status = IF p = o THEN "pending" ELSE row[p].status
                       /\ row'[p].chain = row[p].chain
    BY <2>1 DEF ChainTypeOK, Row
  <2> QED BY <2>2 DEF SealedExist, Sealed, Exists, Purged
<1>2. ASSUME NEW o \in Ops, NEW st \in {"escalated", "completed"}, SetStatus(o, st)
      PROVE  SealedExist' /\ \A p \in Ops : Purged(p)' => Purged(p)
  <2>1. row' = [row EXCEPT ![o] = [row[o] EXCEPT
                  !.status = st, !.held = row[o].held \/ st = "escalated"]]
    BY <1>2 DEF SetStatus
  <2>2. \A p \in Ops : /\ row'[p].status = IF p = o THEN st ELSE row[p].status
                       /\ row'[p].chain = row[p].chain
    BY <2>1 DEF ChainTypeOK, Row
  <2> QED BY <2>2 DEF SealedExist, Sealed, Exists, Purged
<1>3. ASSUME NEW s \in Sealers, SealStep(s)
      PROVE  SealedExist' /\ \A p \in Ops : Purged(p)' => Purged(p)
  <2>1. CASE UNCHANGED row
    BY <2>1 DEF SealedExist, Sealed, Exists, Purged
  <2>2. CASE \E signs, archives \in BOOLEAN : SealCommit(s, signs, archives)
    <3>1. PICK signs, archives \in BOOLEAN : SealCommit(s, signs, archives)
      BY <2>2
    <3>2. PICK o : o = sealer[s].op
      OBVIOUS
    <3>3. o \in Ops /\ Exists(o)
      BY <3>1, <3>2 DEF SealCommit, SealersHold
    <3>4. row'[o].status \in {row[o].status, "completed", "rejected"}
      BY <3>1, <3>2, <3>3 DEF SealCommit, ChainTypeOK, FinalStatus
    <3>5. \A p \in Ops : p # o => row'[p] = row[p]
      BY <3>1, <3>2 DEF SealCommit, ChainTypeOK
    <3> QED BY <3>3, <3>4, <3>5 DEF SealedExist, Sealed, Exists, Purged
  <2> QED BY <1>3, <2>1, <2>2 DEF SealStep, SealLoad, SealFlush, SealAbort
<1> QED BY <1>1, <1>2, <1>3 DEF RowStep

\* What a DELETE leaves behind.
LEMMA DeleteSealed ==
    ASSUME ChainTypeOK, SealedExist, NEW S \in SUBSET Ops, DeleteRows(S)
    PROVE  /\ SealedExist'
           /\ \A o \in S : ~Sealed(o)' /\ ~Exists(o)'
           /\ \A o \in Ops : o \notin S => row'[o] = row[o]
<1> DEFINE gone == [NoRow EXCEPT !.status = "purged"]
<1>1. gone.status = "purged" /\ gone.chain = GENESIS_HASH
  BY DEF NoRow
<1>2. \A o \in Ops : row'[o] = IF o \in S THEN gone ELSE row[o]
  BY DEF DeleteRows
<1> HIDE DEF gone
<1> QED BY <1>1, <1>2 DEF SealedExist, Sealed, Exists

\* The newest hash of a set of sealed rows is the hash of one of them.
LEMMA NewestSealed ==
    ASSUME NEW S \in SUBSET Ops, S # {}, \A o \in S : Sealed(o)
    PROVE  NewestIn(S) # GENESIS_HASH
<1>1. S \in SUBSET (0 .. N)
  BY ChainAssumption DEF Ops
<1>2. \E o \in S : \A p \in S : p <= o
  BY <1>1, Greatest, ChainAssumption
<1>3. (CHOOSE o \in S : \A p \in S : p <= o) \in S
  BY <1>2
<1> QED BY <1>2, <1>3 DEF NewestIn, Sealed

\* verify_chain looks at a row if it looks at a later one, and still does when
\* rows have been deleted.
LEMMA CheckedEarlier ==
    ASSUME NEW p \in Ops, NEW q \in Ops, q <= p, Checked(p),
           \A o \in Ops : Exists(o)' => Exists(o)
    PROVE  Checked(q) /\ Checked(q)'
<1> DEFINE P == {o \in Ops : Exists(o) /\ o < p}
           Q == {o \in Ops : Exists(o) /\ o < q}
<1>1. IsFiniteSet(Ops)
  BY FS_Interval, ChainAssumption DEF Ops
<1>2. P \in SUBSET Ops /\ Q \in SUBSET P /\ Q' \in SUBSET P
  BY ChainAssumption DEF Ops
<1>3. Cardinality(P) < Limit
  BY DEF Checked
<1> HIDE DEF P, Q
<1>4. IsFiniteSet(P) /\ Cardinality(P) \in Nat
  BY <1>1, <1>2, FS_Subset, FS_CardinalityType
<1>5. /\ Cardinality(Q) \in Nat /\ Cardinality(Q) <= Cardinality(P)
      /\ Cardinality(Q') \in Nat /\ Cardinality(Q') <= Cardinality(P)
  BY <1>2, <1>4, FS_Subset, FS_CardinalityType
<1>6. Cardinality(Q) < Limit /\ Cardinality(Q') < Limit
  BY <1>3, <1>4, <1>5, ChainAssumption
<1> QED BY <1>6 DEF Checked, Q

(***************************************************************************)
(* A DELETE takes every row up to its cut-off, so the first sealed row     *)
(* that it leaves has none before it and still extends one.                *)
(***************************************************************************)
LEMMA DeleteNoticed ==
    ASSUME ChainTypeOK, SealedExist, NEW h, DeleteRows(Expired(h)),
           h \in 0 .. N, verify_chain,
           NEW o \in Ops, Sealed(o), Purged(o)',
           NEW p \in Ops, o < p, Sealed(p), Checked(p), row'[p] = row[p]
    PROVE  ~verify_chain'
<1> DEFINE S == Expired(h)
<1>1. S \in SUBSET Ops
  BY DEF Expired
<1>2. /\ SealedExist'
      /\ \A q \in S : ~Sealed(q)' /\ ~Exists(q)'
      /\ \A q \in Ops : q \notin S => row'[q] = row[q]
  BY <1>1, DeleteSealed
<1>3. o <= h
  <2>1. Exists(o)
    BY DEF SealedExist
  <2> QED BY <1>2, <2>1 DEF Expired, Exists, Purged
<1> DEFINE Left == {q \in Ops : Sealed(q)'}
<1>4. p \in Left /\ Left \in SUBSET Nat
  BY ChainAssumption DEF Ops, Sealed
<1>5. PICK q \in Left : \A r \in Left : q <= r
  <2> HIDE DEF Left
  <2> QED BY <1>4, Least
<1>6. q \in Ops /\ q \notin S /\ row'[q] = row[q] /\ Sealed(q) /\ Exists(q)
  BY <1>2, <1>5 DEF Sealed, SealedExist
<1>7. o < q /\ q <= p
  BY <1>3, <1>4, <1>5, <1>6, ChainAssumption DEF Expired, Ops
<1>8. Checked(q) /\ Checked(q)'
  <2>1. \A r \in Ops : Exists(r)' => Exists(r)
    BY <1>2 DEF Exists
  <2> QED BY <1>6, <1>7, <2>1, CheckedEarlier
<1>9. PICK x : /\ x = NewestIn(Before(q))
               /\ x \in Seq(OperationHash) /\ x # << >>
  <2>1. Before(q) \in SUBSET Ops /\ o \in Before(q) /\ \A r \in Before(q) : Sealed(r)
    BY <1>7 DEF Before
  <2> QED BY <2>1, NewestSealed, NewestType DEF ChainTypeOK, GENESIS_HASH
<1>10. NewestIn(Before(q))' = << >>
  <2>1. Before(q)' = {}
    BY <1>4, <1>5, ChainAssumption DEF Before, Ops
  <2> QED BY <2>1 DEF NewestIn, GENESIS_HASH
<1>11. PICK y : y = compute_operation_hash(q, row[q].status)
  OBVIOUS
<1>12. y \in OperationHash
  BY <1>6, <1>11 DEF compute_operation_hash, OperationHash, ChainTypeOK, Row
<1>13. row[q].chain = Append(x, y)
  BY <1>6, <1>8, <1>9, <1>11 DEF verify_chain, Links, Before, compute_chain_hash
<1>14. ASSUME verify_chain' PROVE FALSE
  <2>1. Sealed(q)' /\ compute_operation_hash(q, row'[q].status) = y
    BY <1>5, <1>6, <1>11
  <2>2. row'[q].chain = Append(<< >>, y)
    BY <1>6, <1>8, <1>10, <1>14, <2>1
       DEF verify_chain, Links, Before, compute_chain_hash
  <2>3. Append(x, y) = Append(<< >>, y)
    BY <1>6, <1>13, <2>2
  <2> HIDE DEF S, Left
  <2>4. Len(Append(x, y)) = Len(x) + 1 /\ Len(Append(<< >>, y)) = 1
    BY <1>9, <1>12, AppendProperties
  <2>5. Len(x) \in Nat /\ Len(x) # 0
    BY <1>9, EmptySeq, LenProperties
  <2> QED BY <2>3, <2>4, <2>5
<1> QED BY <1>14

LEMMA SealedStep ==
    ASSUME RetentionInv, SealedExist, [RetentionNext]_retentionVars
    PROVE  SealedExist'
<1>0. ChainTypeOK /\ SealersHold
  BY DEF RetentionInv, RetentionTypeOK
<1>1. CASE UNCHANGED row
  BY <1>1 DEF SealedExist, Sealed, Exists
<1>2. CASE RowStep
  BY <1>0, <1>2, RowStepSealed
<1>3. ASSUME NEW h, DeleteRows(Expired(h)) PROVE SealedExist'
  <2>1. Expired(h) \in SUBSET Ops
    BY DEF Expired
  <2> QED BY <1>0, <1>3, <2>1, DeleteSealed
<1>4. CASE run_retention
  BY <1>3, <1>4 DEF run_retention
<1>5. ASSUME NEW p \in Purgers, PurgeStep(p) PROVE SealedExist'
  <2>1. CASE PurgeDelete(p)
    BY <1>3, <2>1 DEF PurgeDelete
  <2> QED BY <1>1, <1>5, <2>1 DEF PurgeStep, PurgeBegin, PurgeList, PurgeCertify,
                                  PurgeFails, chainVars
<1>6. CASE UNCHANGED retentionVars \/ Expire
  BY <1>1, <1>6 DEF retentionVars, chainVars, Expire
<1> QED BY <1>2, <1>4, <1>5, <1>6 DEF RetentionNext

\* Only a DELETE up to some cut-off turns a row into a purged one.
LEMMA OnlyDeletesPurge ==
    ASSUME RetentionInv, SealedExist, RetentionNext,
           NEW o \in Ops, ~Purged(o), Purged(o)'
    PROVE  \E h \in 0 .. N : DeleteRows(Expired(h))
<1>0. ChainTypeOK /\ SealersHold /\ horizon \in 0 .. N
  BY DEF RetentionInv, RetentionTypeOK
<1>1. row' # row
  BY DEF Purged
<1>2. ~RowStep
  BY <1>0, RowStepSealed
<1>3. CASE run_retention
  BY <1>0, <1>3 DEF run_retention
<1>4. ASSUME NEW p \in Purgers, PurgeStep(p)
      PROVE  \E h \in 0 .. N : DeleteRows(Expired(h))
  <2>1. PurgeDelete(p)
    BY <1>1, <1>4 DEF PurgeStep, PurgeBegin, PurgeList, PurgeCertify, PurgeFails,
                      chainVars
  <2>2. purger[p].cutoff \in 0 .. N
    BY DEF RetentionInv, RetentionTypeOK, Purge
  <2> QED BY <2>1, <2>2 DEF PurgeDelete
<1> QED BY <1>1, <1>2, <1>3, <1>4 DEF RetentionNext, Expire, chainVars

-----------------------------------------------------------------------------
(* Theorems.                                                               *)

(***************************************************************************)
(* Purges, certificates and the chain under them stay well typed: a purge  *)
(* only lists and deletes operations, whatever is sealed meanwhile.        *)
(***************************************************************************)
THEOREM RetentionTypeCorrect == RetentionSpec => []RetentionTypeOK
<1>1. RetentionInv /\ [RetentionNext]_retentionVars => RetentionInv'
  BY RetentionStep
<1>2. RetentionInv => RetentionTypeOK
  BY DEF RetentionInv
<1> QED BY <1>1, <1>2, RetentionInitInv, PTL DEF RetentionSpec

(***************************************************************************)
(* run_gdpr_purge deletes nothing that its certificate does not name,      *)
(* whatever seals, purges and retention jobs run in between and however    *)
(* much time passes between its two readings of the clock.                 *)
(***************************************************************************)
THEOREM DeletionsAreNamed == RetentionSpec => []CertificateNamesDeleted
<1>1. RetentionInv /\ [RetentionNext]_retentionVars => RetentionInv'
  BY RetentionStep
<1>2. RetentionInv => CertificateNamesDeleted
  BY DEF RetentionInv
<1> QED BY <1>1, <1>2, RetentionInitInv, PTL DEF RetentionSpec

(***************************************************************************)
(* No two purges count the same operation as deleted, and no seal brings a *)
(* deleted operation back.                                                 *)
(***************************************************************************)
THEOREM DeletionsAreCountedOnce == RetentionSpec => []DeletedOnce
<1>1. RetentionInv /\ [RetentionNext]_retentionVars => RetentionInv'
  BY RetentionStep
<1>2. RetentionInv => DeletedOnce
  BY DEF RetentionInv
<1> QED BY <1>1, <1>2, RetentionInitInv, PTL DEF RetentionSpec

(***************************************************************************)
(* Whatever is sealed and purged at once, a purge that takes sealed rows   *)
(* off a chain that verifies leaves one that does not, if verify_chain     *)
(* reached a later sealed row.                                             *)
(***************************************************************************)
THEOREM PurgesAreNoticed == RetentionSpec => DeletionIsNoticed
<1>1. RetentionInit => SealedExist
  BY DEF RetentionInit, ChainInit, SealedExist, Sealed, NoRow
<1>2. /\ RetentionInv /\ [RetentionNext]_retentionVars => RetentionInv'
      /\ RetentionInv /\ SealedExist /\ [RetentionNext]_retentionVars => SealedExist'
  BY RetentionStep, SealedStep
<1>3. RetentionInv /\ SealedExist /\ [RetentionNext]_retentionVars
        => [ \A o \in Ops :
               /\ verify_chain
               /\ Sealed(o) /\ row'[o].status = "purged"
               /\ \E p \in Ops : o < p /\ Sealed(p) /\ Checked(p) /\ row'[p] = row[p]
               => ~verify_chain' ]_retentionVars
  <2> SUFFICES ASSUME RetentionInv, SealedExist, RetentionNext, verify_chain,
                      NEW o \in Ops, Sealed(o), Purged(o)',
                      NEW p \in Ops, o < p, Sealed(p), Checked(p), row'[p] = row[p]
               PROVE  ~verify_chain'
    BY DEF Purged
  <2>1. ~Purged(o)
    BY DEF SealedExist, Exists, Purged
  <2>2. PICK h \in 0 .. N : DeleteRows(Expired(h))
    BY <2>1, OnlyDeletesPurge
  <2> QED BY <2>2, DeleteNoticed DEF RetentionInv, RetentionTypeOK
<1> QED BY <1>1, <1>2, <1>3, RetentionInitInv, PTL DEF RetentionSpec, DeletionIsNoticed
=============================================================================
