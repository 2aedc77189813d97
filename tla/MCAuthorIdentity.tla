-------------------------- MODULE MCAuthorIdentity --------------------------
(* AuthorIdentity for TLC. *)
EXTENDS AuthorIdentity, TLC

Symmetry ==
  Permutations(Authors) \cup Permutations(Keys) \cup Permutations(Creds)
    \cup Permutations(Requests) \cup Permutations(Idems)
=============================================================================
