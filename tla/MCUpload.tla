------------------------------ MODULE MCUpload -----------------------------
(* Upload for TLC: any archive around the plainest metadata, and any metadata  *)
(* in the plainest archive.                                                    *)
EXTENDS Upload

\* A directory in two spellings, a file, the manifest in two spellings at three
\* depths, and a component no path may have.
SomeComponents == {"lib", "Lib", "run", "skill.yaml", "Skill.yaml", ".."}
SomeFold == [c \in SomeComponents |->
               CASE c = "Lib" -> "lib" [] c = "Skill.yaml" -> "skill.yaml" [] OTHER -> c]
SomePaths ==
  { <<"lib">>, <<"Lib">>, <<"run">>, <<"skill.yaml">>, <<"..">>,
    <<"lib", "run">>, <<"Lib", "run">>, <<"lib", "skill.yaml">>, <<"lib", "Skill.yaml">>,
    <<"lib", "lib", "run">>, <<"lib", "Lib">>, <<"lib", "lib", "skill.yaml">> }

\* tarfile writes an extended header before the one of a long name.
SomeHeaders == [p \in SomePaths |-> [k \in Kinds |-> IF Len(p) = 3 THEN 6 ELSE 2]]

Row(name, tier, escalation, bypass, reasoning, approval, safe) ==
  [name |-> name, tier |-> tier, escalation |-> escalation, bypass |-> bypass,
   reasoning |-> reasoning, approval |-> approval, safe |-> safe]

\* Every trigger there is of one name, up to the choices no rule tells apart (what
\* other tiers than C fall back to, which model an escalation goes to), and a second
\* name with the tiers and the policies that tell triggers apart.
EveryAndAnother ==
  UNION {{Row("heat", tier, e, bypass, r, approval, safe) :
            e \in {"default", "rule", "gateway"}, bypass \in BOOLEAN,
            r \in {"none", "post_action", "other"}, approval \in BOOLEAN,
            safe \in IF tier = "C" THEN ActionNames \cup {Dashboard, NoAction} ELSE {Dashboard}} :
         tier \in Tiers}
  \cup
  {Row("smoke", tier, "default", FALSE, IF tier = "B" THEN r ELSE "none", approval, Dashboard) :
     tier \in Tiers, r \in {"none", "post_action"}, approval \in BOOLEAN}

PlainArchive == members = <<[path |-> <<"skill.yaml">>, kind |-> "file", size |-> 1]>>

PlainMetadata ==
  /\ triggers \in {<<>>, <<Row("smoke", "A", "default", FALSE, "none", FALSE, Dashboard)>>}
  /\ DOMAIN actions \subseteq {"notify"} /\ \A a \in DOMAIN actions : actions[a] = "A"
  /\ defaults \in {<<>>, <<<<"notify">>>>}

OneOfThemPlain == PlainMetadata \/ (pass = 1 /\ PlainArchive)
=============================================================================
