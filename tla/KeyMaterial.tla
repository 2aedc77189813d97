---------------------------- MODULE KeyMaterial ----------------------------
(***************************************************************************)
(* Signing keys: commands that generate them into one directory, file by   *)
(* file, and clean up when a step fails; and the hub that reads them when  *)
(* it starts, from the environment and from those files.                   *)
(***************************************************************************)
EXTENDS Naturals, Sequences

CONSTANTS
  Generators,   \* runs of ori-hub-keys generate, on the same directory
  Nobody,       \* not a run
  Environments  \* the environments the hub is started in

ASSUME NobodyAssumption == Nobody \notin Generators

Sources == {"root", "manifest", "artifact"}
Profiles == {"manifest", "artifact"}

\* A source is configured by its value, by the file of its private key, or both.
ASSUME EnvironmentsAssumption ==
  Environments \subseteq
    [publishing : BOOLEAN,
     value      : [Sources -> {"unset", "malformed", "seed"}],
     file       : [Sources -> BOOLEAN]]

VARIABLES
  owner,     \* the run that made the directory, Nobody if it is not there
  files,     \* what is in the directory
  step,      \* where each run is
  shared,    \* --shared-root-key
  position,  \* the file of the run's list it is at
  children,  \* the files a run that cleans up has still to look at
  hindered,  \* the runs that the system kept from listing or removing something
  hub        \* the start of the hub

keyDirectory == <<owner, files>>
run == <<step, shared, position, children, hindered>>
vars == <<keyDirectory, run, hub>>

PrivateFile(s) == CASE s = "root" -> "root-private" [] s = "manifest" -> "manifest-private" [] s = "artifact" -> "artifact-private"

GeneratedFiles ==
  {"root-private", "root-public", "manifest-private", "manifest-public", "artifact-private", "artifact-public"}
Names == GeneratedFiles \cup {"notes"}

\* A file in the order it is written.
FilesOf(g) ==
  IF shared[g] THEN <<"root-private", "root-public">>
  ELSE <<"manifest-private", "manifest-public", "artifact-private", "artifact-public">>

Absent == [by |-> Nobody, text |-> "absent"]
File(g, text) == [by |-> g, text |-> text]
Here(n) == files[n].text # "absent"

-----------------------------------------------------------------------------
(* Generating.                                                             *)

Going(g, next) == step' = [step EXCEPT ![g] = next]

Fails(g) ==
  /\ Going(g, "listing")
  /\ UNCHANGED <<shared, position, children, hindered>>

\* The directory exists, is inside a Git worktree or has no parent, or the run goes on.
Look(g) ==
  /\ step[g] = "new"
  /\ \/ Going(g, "failed")
     \/ owner = Nobody /\ Going(g, "checked")
  /\ \E form \in BOOLEAN : shared' = [shared EXCEPT ![g] = form]
  /\ UNCHANGED <<keyDirectory, position, children, hindered, hub>>

\* Mutant: an existing directory is taken over.
MakesAnyway(g) == TRUE

\* mkdir is exclusive.
Makes(g) == owner = Nobody

MakeDirectory(g) ==
  /\ step[g] = "checked"
  /\ \/ Going(g, "failed") /\ UNCHANGED owner
     \/ Makes(g) /\ Going(g, "made") /\ owner' = g
  /\ UNCHANGED <<files, shared, position, children, hindered, hub>>

Secure(g) ==
  /\ step[g] = "made"
  /\ \/ Going(g, "opening") /\ UNCHANGED <<shared, position, children, hindered>>
     \/ Fails(g)
  /\ UNCHANGED <<keyDirectory, hub>>

\* Each file is created exclusively, and its mode set, before it is written.
OpenFile(g) ==
  /\ step[g] = "opening"
  /\ LET n == FilesOf(g)[position[g]]
     IN \/ /\ ~Here(n) /\ owner # Nobody
           /\ files' = [files EXCEPT ![n] = File(g, "empty")]
           /\ \/ Going(g, "writing") /\ UNCHANGED <<shared, position, children, hindered>>
              \/ Fails(g)
        \/ UNCHANGED files /\ Fails(g)
  /\ UNCHANGED <<owner, hub>>

LastFile(g) == position[g] = Len(FilesOf(g))

\* What could not be written may have been cut short.
WriteFile(g) ==
  /\ step[g] = "writing"
  /\ LET n == FilesOf(g)[position[g]]
     IN \/ /\ files' = [files EXCEPT ![n] = File(g, "whole")]
           /\ IF LastFile(g)
              THEN Going(g, "done") /\ UNCHANGED position
              ELSE Going(g, "opening") /\ position' = [position EXCEPT ![g] = @ + 1]
           /\ UNCHANGED <<shared, children, hindered>>
        \/ \E text \in {"empty", "cut", "whole"} :
              files' = [files EXCEPT ![n] = File(g, text)] /\ Fails(g)
  /\ UNCHANGED <<owner, hub>>

\* Mutant: the file at which the run failed is not cleaned up.
CleansWritten(g) == {FilesOf(g)[i] : i \in 1..(position[g] - 1)}

\* Mutant: everything found is cleaned up.
CleansAll(g) == Names

Cleans(g) == GeneratedFiles

ListDirectory(g) ==
  /\ step[g] = "listing"
  /\ \/ /\ children' = [children EXCEPT ![g] = {n \in Names : Here(n)}]
        /\ Going(g, "cleaning")
        /\ UNCHANGED hindered
     \/ /\ Going(g, "failed")
        /\ hindered' = hindered \cup {g}
        /\ UNCHANGED children
  /\ UNCHANGED <<keyDirectory, shared, position, hub>>

CleanFile(g) ==
  /\ step[g] = "cleaning"
  /\ \E n \in children[g] :
       /\ children' = [children EXCEPT ![g] = @ \ {n}]
       /\ \/ /\ n \in Cleans(g) /\ Here(n)
             /\ files' = [files EXCEPT ![n] = Absent]
             /\ UNCHANGED hindered
          \/ /\ n \in Cleans(g)
             /\ hindered' = hindered \cup {g}
             /\ UNCHANGED files
          \/ n \notin Cleans(g) /\ UNCHANGED <<files, hindered>>
  /\ UNCHANGED <<owner, step, shared, position, hub>>

\* The directory is removed if nothing is left in it.
RemoveDirectory(g) ==
  /\ step[g] = "cleaning"
  /\ children[g] = {}
  /\ Going(g, "failed")
  /\ \/ (\A n \in Names : ~Here(n)) /\ owner' = Nobody /\ UNCHANGED hindered
     \/ (\E n \in Names : Here(n)) /\ UNCHANGED <<owner, hindered>>
     \/ hindered' = hindered \cup {g} /\ UNCHANGED owner
  /\ UNCHANGED <<files, shared, position, children, hub>>

\* The run is killed, or ends on an exception that is not an OSError.
Die(g) ==
  /\ step[g] \notin {"done", "failed", "dead"}
  /\ Going(g, "dead")
  /\ UNCHANGED <<keyDirectory, shared, position, children, hindered, hub>>

Busy(g) == step[g] \in {"made", "opening", "writing", "listing", "cleaning"}

-----------------------------------------------------------------------------
(* The operator.                                                           *)

\* Something else is put into the directory.
PutNotes ==
  /\ owner # Nobody
  /\ files' = [files EXCEPT !["notes"] = File(Nobody, "whole")]
  /\ UNCHANGED <<owner, run, hub>>

\* The directory is cleared away when no run is at work in it.
ClearAway ==
  /\ owner # Nobody
  /\ \A g \in Generators : ~Busy(g)
  /\ owner' = Nobody
  /\ files' = [n \in Names |-> Absent]
  /\ UNCHANGED <<run, hub>>

-----------------------------------------------------------------------------
(* Starting the hub.                                                       *)

Down == [at |-> "down"]
NoKey == File(Nobody, "absent")
Value(text) == File(Nobody, text)

Configured(e, s) == e.value[s] # "unset" \/ e.file[s]

StartHub ==
  /\ hub.at \in {"down", "up"}
  /\ \E e \in Environments :
       hub' = [at |-> "root", environment |-> e, read |-> [s \in Sources |-> NoKey]]
  /\ UNCHANGED <<keyDirectory, run>>

Following(s) == CASE s = "root" -> "manifest" [] s = "manifest" -> "artifact" [] s = "artifact" -> "deciding"

\* A source given twice, a file that cannot be read and an empty file end the start.
ReadSource(s) ==
  /\ hub.at = s
  /\ LET e == hub.environment
         f == files[PrivateFile(s)]
         Have(key) == hub' = [hub EXCEPT !.at = Following(s), !.read[s] = key]
     IN \/ e.value[s] # "unset" /\ e.file[s] /\ hub' = Down
        \/ e.value[s] # "unset" /\ ~e.file[s] /\ Have(Value(IF e.value[s] = "seed" THEN "whole" ELSE "cut"))
        \/ e.value[s] = "unset" /\ ~e.file[s] /\ Have(NoKey)
        \/ /\ e.value[s] = "unset" /\ e.file[s]
           /\ IF f.text \in {"absent", "empty"} THEN hub' = Down ELSE Have(f)
  /\ UNCHANGED <<keyDirectory, run>>

Given(s) == hub.read[s] # NoKey

\* Mutant: the root key is preferred to profile keys given beside it.
NeverAmbiguous == FALSE

Ambiguous == Given("root") /\ (Given("manifest") \/ Given("artifact"))

Partial == Given("manifest") # Given("artifact")

Keys ==
  IF Given("root") THEN [p \in Profiles |-> hub.read["root"]]
  ELSE [p \in Profiles |-> hub.read[p]]

Decide ==
  /\ hub.at = "deciding"
  /\ \/ /\ \/ Ambiguous
           \/ Partial
           \/ \E s \in Sources : Given(s) /\ hub.read[s].text # "whole"
           \/ hub.environment.publishing /\ \A s \in Sources : ~Given(s)
        /\ hub' = Down
     \/ /\ ~Ambiguous
        /\ ~Partial
        /\ \A s \in Sources : Given(s) => hub.read[s].text = "whole"
        /\ hub.environment.publishing => \E s \in Sources : Given(s)
        /\ hub' = [at |-> "up", environment |-> hub.environment, keys |-> Keys]
  /\ UNCHANGED <<keyDirectory, run>>

Init ==
  /\ owner = Nobody
  /\ files = [n \in Names |-> Absent]
  /\ step = [g \in Generators |-> "new"]
  /\ shared = [g \in Generators |-> FALSE]
  /\ position = [g \in Generators |-> 1]
  /\ children = [g \in Generators |-> {}]
  /\ hindered = {}
  /\ hub = Down

Generate(g) ==
  \/ Look(g) \/ MakeDirectory(g) \/ Secure(g) \/ OpenFile(g) \/ WriteFile(g)
  \/ ListDirectory(g) \/ CleanFile(g) \/ RemoveDirectory(g)

Next ==
  \/ \E g \in Generators : Generate(g) \/ Die(g)
  \/ PutNotes
  \/ ClearAway
  \/ StartHub
  \/ \E s \in Sources : ReadSource(s)
  \/ Decide

Spec == Init /\ [][Next]_vars

-----------------------------------------------------------------------------
(* Properties.                                                             *)

TypeOK ==
  /\ owner \in Generators \cup {Nobody}
  /\ files \in [Names -> [by : Generators \cup {Nobody}, text : {"absent", "empty", "cut", "whole"}]]
  /\ step \in [Generators -> {"new", "checked", "made", "opening", "writing", "listing",
                             "cleaning", "done", "failed", "dead"}]
  /\ shared \in [Generators -> BOOLEAN]
  /\ position \in [Generators -> 1..4]
  /\ \A g \in Generators : position[g] <= Len(FilesOf(g))
  /\ children \in [Generators -> SUBSET Names]
  /\ hindered \subseteq Generators

\* A generation that failed, with nothing in the way of its cleaning up, left no
\* file of its own, whole or cut short, and no directory either unless somebody
\* put something else into it.
FailureLeavesNothing ==
  \A g \in Generators : step[g] = "failed" /\ g \notin hindered =>
    /\ \A n \in Names : Here(n) => files[n].by # g
    /\ owner = g => Here("notes")

\* The directory of a generation that succeeded has every file of it, whole and
\* from the same generation, however many others were given the same directory.
SuccessIsWhole ==
  \A g \in Generators : step[g] = "done" /\ owner = g =>
    \A i \in 1..Len(FilesOf(g)) : files[FilesOf(g)[i]] = File(g, "whole")

\* A generation overwrites and removes nothing but what it wrote itself.
Acted(g) == g \in Generators /\ (step'[g] # step[g] \/ children'[g] # children[g])
OthersKept ==
  [][ \A n \in Names : run' # run /\ Here(n) /\ files'[n] # files[n] => Acted(files[n].by) ]_vars

\* The hub comes up only on one of the documented forms: a root key alone, both
\* profile keys alone or, if it does not publish, no key; each source given once
\* and whole, and each profile with the key of its own source.
UpAsConfigured ==
  hub.at = "up" =>
    LET e == hub.environment
        given == {s \in Sources : Configured(e, s)}
        SourceOf(p) == IF given = {"root"} THEN "root" ELSE p
    IN /\ given \in {{}, {"root"}, Profiles}
       /\ given = {} => ~e.publishing
       /\ \A p \in Profiles : given # {} =>
            /\ hub.keys[p].text = "whole"
            /\ hub.keys[p].by \in Generators <=> e.file[SourceOf(p)]
            /\ e.value[SourceOf(p)] = IF e.file[SourceOf(p)] THEN "unset" ELSE "seed"
=============================================================================
