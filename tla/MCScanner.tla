----------------------------- MODULE MCScanner -----------------------------
(* Scanner for TLC.  Without symmetry, since liveness is checked, too.       *)
EXTENDS Scanner
=============================================================================
