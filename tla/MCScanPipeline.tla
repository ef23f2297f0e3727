--------------------------- MODULE MCScanPipeline ---------------------------
(* Small instances of ScanPipeline for TLC.                                *)
EXTENDS ScanPipeline, TLC

\* Processes are interchangeable, and so are relays.
Symmetry == Permutations(Workers) \cup Permutations(Relays)
=============================================================================
