----------------------------- MODULE MCScanTiming ---------------------------
(* ScanTiming for TLC. *)
EXTENDS ScanTiming, TLC

Symmetry == Permutations(Workers)
=============================================================================
