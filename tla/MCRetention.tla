---------------------------- MODULE MCRetention -----------------------------
(* Small instances of Retention, with the chain under it, for TLC.         *)
EXTENDS Retention, TLC

Symmetry == Permutations(Sealers) \cup Permutations(Purgers)
=============================================================================
