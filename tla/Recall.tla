------------------------------- MODULE Recall -------------------------------
(***************************************************************************)
(* The recall of PresidioDetector on a labelled sample, as the workers     *)
(* publish it (workers/ml/recall_evaluator.py): labels and detections are  *)
(* spans, and a detection finds a label if their intersection over union   *)
(* is at least one half.                                                   *)
(***************************************************************************)
EXTENDS Redaction

\* Mutant of _iou: the intersection over the detection alone.
OverDetection(a, b) ==
    LET inter_start == Max({a.start, b.start})
        inter_end == Min({a.end, b.end})
    IN  IF inter_end <= inter_start THEN [num |-> 0, den |-> 1]
        ELSE [num |-> inter_end - inter_start, den |-> b.end - b.start]

\* A fraction num/den.
_iou(a, b) ==
    LET inter_start == Max({a.start, b.start})
        inter_end == Min({a.end, b.end})
        inter == inter_end - inter_start
    IN  IF inter_end <= inter_start THEN [num |-> 0, den |-> 1]
        ELSE [num |-> inter,
              den |-> (a.end - a.start) + (b.end - b.start) - inter]

\* How many of the labels are found, and how many there are.
_compute_recall(expected, detected) ==
    LET hit(e) == \E d \in detected : 2 * _iou(e, d).num >= _iou(e, d).den
    IN  [true_positive |-> Cardinality({e \in expected : hit(e)}),
         total |-> Cardinality(expected)]

-----------------------------------------------------------------------------
Positions(f) == (f.start + 1) .. f.end

(***************************************************************************)
(* The published recall is not inflated by what a detection credits at the *)
(* threshold: whatever Presidio reports, at least half of each label that  *)
(* counts as found is covered; and a single detection is credited for two  *)
(* labels that do not overlap only if it is exactly both of them, side by  *)
(* side and equally long.                                                  *)
(***************************************************************************)
RecallIsNotInflated ==
    pc = "detected" => \A d \in presidio, e, f \in Span :
        /\ _compute_recall({e}, {d}).true_positive = 1 =>
              2 * Cardinality(Positions(e) \cap Positions(d)) >= Cardinality(Positions(e))
        /\ _compute_recall({e, f}, {d}).true_positive = 2 /\ ~Overlap(e, f) =>
              /\ Positions(d) = Positions(e) \cup Positions(f)
              /\ Cardinality(Positions(e)) = Cardinality(Positions(f))
=============================================================================
