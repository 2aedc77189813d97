------------------------------- MODULE MCHub -------------------------------
EXTENDS Hub, TLC

CONSTANTS a1, s1

BothTiers == {[skill |-> s1, author |-> a1, tier |-> tier] : tier \in BOOLEAN}

\* Once it is published a skill version is scanned, decided on and downloaded, and not
\* sent again; what requests do to each other is in MCPublication.
PublishedOnce ==
  (\E s \in Skills : record[s] # Pub!NoRecord) =>
    \A r \in Requests : stage[r] \in {"idle", "respond", "answered"}
=============================================================================
