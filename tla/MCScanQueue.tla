----------------------------- MODULE MCScanQueue -----------------------------
(* ScanQueue for TLC.  Without symmetry, since liveness is checked, too.     *)
EXTENDS ScanQueue
=============================================================================
