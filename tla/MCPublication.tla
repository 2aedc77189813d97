--------------------------- MODULE MCPublication ---------------------------
(* Publication for TLC.                                                     *)
EXTENDS Publication, TLC

CONSTANTS a1, s1, s2

\* Two uploads of one author, one of which policy would list and one that it would
\* not, sent under keys that may be the same.
TwoUploads ==
  {[skill |-> s1, author |-> a1, tier |-> FALSE],
   [skill |-> s2, author |-> a1, tier |-> TRUE]}

\* Requests, idempotency keys and downloads are interchangeable.
Symmetry == Permutations(Requests) \cup Permutations(Idems) \cup Permutations(Downloads)

\* Two requests race while nothing is downloaded, and a download runs beside one.
RaceOrDownload ==
  \/ \E r \in Requests : pc[r] = "idle"
  \/ /\ \A q \in Downloads : step[q] = "idle"
     /\ \A s \in Skills : downloads[s] = 0
     /\ \A o \in Objects : bytes[o] # "damaged"
=============================================================================
