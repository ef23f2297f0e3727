---------------------------- MODULE MCRedaction -----------------------------
(* A small instance of Redaction and Recall for TLC.                       *)
EXTENDS Recall, TLC

Symmetry == Permutations(Rule)
=============================================================================
