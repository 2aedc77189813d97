--------------------------- MODULE MCKeyMaterial ---------------------------
(* KeyMaterial for TLC. *)
EXTENDS KeyMaterial, TLC

Runs == Permutations(Generators)

\* Each source unset, given by value or given by file, in every combination, with a
\* hub that does not publish; one source alone by both, or by a value that is no key;
\* and a hub that publishes with no key or with the root key.
Environment(publishing, byValue, byFile, text) ==
  [publishing |-> publishing,
   value      |-> [s \in Sources |-> IF s \in byValue THEN text ELSE "unset"],
   file       |-> [s \in Sources |-> s \in byFile]]

SomeEnvironments ==
  {Environment(FALSE, byValue, byFile, "seed") : byValue \in SUBSET Sources, byFile \in SUBSET Sources}
    \cup {Environment(FALSE, {s}, {}, "malformed") : s \in Sources}
    \cup {Environment(TRUE, {}, byFile, "seed") : byFile \in {{}, {"root"}}}

Twice(e) == \E s, r \in Sources : s # r /\ e.value[s] # "unset" /\ e.file[s] /\ Configured(e, r)
OncePerSource == {e \in SomeEnvironments : ~Twice(e)}

\* Two runs race while the hub is down, and the hub starts beside one run.
RaceOrStart == hub = Down \/ \E g \in Generators : step[g] = "new"
=============================================================================
