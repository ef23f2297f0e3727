------------------------------ MODULE MCLimits ------------------------------
(* A small instance of Limits for TLC.                                     *)
EXTENDS Limits, TLC

\* Replicas are interchangeable, and so are calls.
Symmetry == Permutations(Replicas) \cup Permutations(CallIds)
=============================================================================
