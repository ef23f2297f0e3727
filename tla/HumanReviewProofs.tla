------------------------- MODULE HumanReviewProofs --------------------------
(***************************************************************************)
(* What human review comes to, for any number of findings and reviewers.   *)
(*                                                                         *)
(* That nothing is decided is not inductive: it needs that no request gets *)
(* past db.begin(), and that in turn that each one that gets there has had *)
(* its session begin a transaction.                                        *)
(***************************************************************************)
EXTENDS HumanReview, TLAPS

\* A request is answered, or has loaded its finding in a transaction.
Unbegun ==
    [pc : {"idle", "loaded"}, kind : Decisions,
     finding : Findings \cup {CHOOSE f \in Findings : TRUE},
     in_transaction : BOOLEAN, closes : BOOLEAN]

NoneBegins ==
    /\ req \in [Reviewers -> Unbegun]
    /\ \A r \in Reviewers : req[r].pc = "loaded" => req[r].in_transaction

(***************************************************************************)
(* No approval, rejection or delegated approval leaves a trace: the        *)
(* operation stays escalated and unsealed, with the redactions it had.     *)
(***************************************************************************)
Undecided ==
    /\ status = "escalated" /\ sealed = "none"
    /\ redactions = Redacted \X {1}

LEMMA LoadStep ==
    ASSUME NoneBegins, NEW r \in Reviewers, NEW f \in Findings, NEW kind \in Decisions,
           Load(r, f, kind)
    PROVE  NoneBegins'
<1> DEFINE t == [pc |-> "loaded", kind |-> kind, finding |-> f,
                 in_transaction |-> TRUE, closes |-> FALSE]
<1>1. t \in Unbegun /\ t.in_transaction
  BY DEF Unbegun
<1>2. req' = [req EXCEPT ![r] = t]
  BY DEF Load
<1> HIDE DEF t
<1> QED BY <1>1, <1>2 DEF NoneBegins

LEMMA BeginStep ==
    ASSUME NoneBegins, NEW r \in Reviewers, Begin(r)
    PROVE  NoneBegins'
<1> DEFINE t == [req[r] EXCEPT !.pc = "idle", !.in_transaction = FALSE]
<1>1. req[r] \in Unbegun /\ req[r].in_transaction
  BY DEF NoneBegins, Begin
<1>2. t \in Unbegun /\ t.pc = "idle"
  BY <1>1 DEF Unbegun
<1>3. req' = [req EXCEPT ![r] = t]
  BY <1>1 DEF Begin, End
<1> HIDE DEF t
<1> QED BY <1>2, <1>3 DEF NoneBegins

\* A request that would lock or commit has passed db.begin(): there is none.
LEMMA NoneLocks ==
    ASSUME NoneBegins, NEW r \in Reviewers
    PROVE  ~Lock(r) /\ ~Commit(r)
<1>1. req[r].pc \in {"idle", "loaded"}
  BY DEF NoneBegins, Unbegun
<1> QED BY <1>1 DEF Lock, Commit

LEMMA UndecidedStep ==
    ASSUME NoneBegins, Undecided, [ReviewNext]_reviewVars
    PROVE  NoneBegins' /\ Undecided'
<1>1. CASE UNCHANGED reviewVars
  BY <1>1 DEF NoneBegins, Undecided, reviewVars
<1>2. ASSUME NEW r \in Reviewers, NEW f \in Findings, NEW kind \in Decisions,
             Load(r, f, kind)
      PROVE  NoneBegins' /\ Undecided'
  <2>1. Undecided'
    BY <1>2 DEF Load, Undecided
  <2> QED BY <1>2, <2>1, LoadStep
<1>3. ASSUME NEW r \in Reviewers, Serve(r)
      PROVE  NoneBegins' /\ Undecided'
  <2>1. Begin(r)
    BY <1>3, NoneLocks DEF Serve
  <2>2. Undecided'
    BY <2>1 DEF Begin, Undecided
  <2> QED BY <2>1, <2>2, BeginStep
<1> QED BY <1>1, <1>2, <1>3 DEF ReviewNext

LEMMA UndecidedInit == ReviewInit => NoneBegins /\ Undecided
<1> SUFFICES ASSUME ReviewInit PROVE NoneBegins /\ Undecided
  OBVIOUS
<1>1. PICK g : g = CHOOSE f \in Findings : TRUE
  OBVIOUS
<1>2. [pc |-> "idle", kind |-> "approve", in_transaction |-> FALSE,
       finding |-> g, closes |-> FALSE] \in Unbegun
  BY <1>1 DEF Unbegun, Decisions
<1>3. NoneBegins
  BY <1>1, <1>2 DEF ReviewInit, NoneBegins
<1> QED BY <1>3 DEF ReviewInit, Undecided

(***************************************************************************)
(* However many reviewers and agents decide on however many findings, no   *)
(* decision is ever recorded: as every handler executes a SELECT before    *)
(* its db.begin(), each request ends there with an error.  What approve,   *)
(* reject and tool_approve write after it is never reached.                *)
(***************************************************************************)
THEOREM NoDecisionIsRecorded == ReviewSpec => []Undecided
<1>1. NoneBegins /\ Undecided /\ [ReviewNext]_reviewVars => (NoneBegins /\ Undecided)'
  BY UndecidedStep
<1> QED BY <1>1, UndecidedInit, PTL DEF ReviewSpec
=============================================================================
