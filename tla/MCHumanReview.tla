--------------------------- MODULE MCHumanReview ----------------------------
(* Small instances of HumanReview for TLC.                                 *)
EXTENDS HumanReview
=============================================================================
