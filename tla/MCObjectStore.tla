--------------------------- MODULE MCObjectStore ---------------------------
(* ObjectStore for TLC.                                                     *)
EXTENDS ObjectStore, TLC

\* Callers are interchangeable, and so are digests.
Symmetry == Permutations(Callers) \cup Permutations(Digests)
=============================================================================
