----------------------------- MODULE Migrations -----------------------------
(***************************************************************************)
(* The schema revisions of the hub, statement by statement, over an SQLite *)
(* database: commands that upgrade and downgrade it, that fail or die on   *)
(* the way and are given again, and the releases of the hub that put rows  *)
(* into it in between.                                                     *)
(*                                                                         *)
(* SQLite's Python driver opens a transaction before the first statement   *)
(* that changes rows and not before one that changes the schema, so what a *)
(* revision does up to there is committed statement by statement.          *)
(***************************************************************************)
EXTENDS Integers, Sequences

VARIABLES
  pieces,    \* tables, columns and triggers that are there
  rows,      \* kinds of rows of which there is at least one
  revision,  \* alembic_version, 0 for none
  rollback,  \* what to go back to if the open transaction does not commit
  command,   \* the command in progress
  serving,   \* the hub is up
  upgraded,  \* the last command was an upgrade to the head and succeeded
  cutShort   \* history: revisions whose downgrade ended half way and was not completed since

database == <<pieces, rows, revision>>
schemaVars == <<database, rollback, command, serving, upgraded, cutShort>>

Newest == 4
Idle == [kind |-> "none"]
NoTransaction == <<>>

Columns == {"scanner_verdict", "scanner_detail",
            "author_artifact_digest", "author_artifact_signature"}

\* What each revision adds.  A name ending in _guards stands for the triggers a
\* revision puts on those tables, "initial_status" for the one trigger that two
\* revisions define, and "active_author" for its second definition.
Base ==
  {"artifacts", "authors", "author_credentials", "skill_versions", "skill_transition_audit",
   "artifact_guards", "audit_guards", "version_guards", "initial_status"}
Identity ==
  {"identity_revision", "credential_states", "author_keys", "author_identity_audit",
   "one_active_kind", "active_author", "identity_guards"}
Scanning ==
  {"requires_scan", "scan_jobs", "scan_events", "event_guards", "job_guards", "evidence_guards"}

PiecesOf == <<Base, Identity, Columns, Scanning>>
PiecesAt(r) == UNION {PiecesOf[n] : n \in 1..r}

\* Rows: authors without identity history and artifacts without provenance, of
\* earlier releases; authors with it, artifacts with it, and scan jobs.
Rows == {"legacy_author", "legacy_artifact", "identity", "provenance", "job"}
History == {"identity", "provenance", "job"}

\* A table goes with its columns and triggers, and with its rows.
Attached ==
  [t \in {"artifacts", "authors", "skill_versions", "skill_transition_audit", "scan_jobs", "scan_events"} |->
     CASE t = "artifacts"      -> Columns \cup {"artifact_guards"}
       [] t = "authors"        -> {"identity_revision"}
       [] t = "skill_versions" -> {"version_guards", "initial_status", "active_author", "requires_scan"}
       [] t = "skill_transition_audit" -> {"audit_guards", "evidence_guards"}
       [] t = "scan_jobs"      -> {"job_guards"}
       [] t = "scan_events"    -> {"event_guards"}]

RowsIn(p) ==
  CASE p = "authors"     -> {"legacy_author", "identity"}
    [] p = "author_keys" -> {"identity"}
    [] p = "artifacts"   -> {"legacy_artifact", "provenance"}
    [] p = "scan_jobs"   -> {"job"}
    [] OTHER             -> {}

-----------------------------------------------------------------------------
(* Statements.                                                             *)

Nothing == [needs |-> {}, bars |-> {}, adds |-> {}, removes |-> {}, refuses |-> {}, copies |-> FALSE]

Refuse(some)     == [Nothing EXCEPT !.refuses = some]
Create(p)        == [Nothing EXCEPT !.bars = {p}, !.adds = {p}]
AddTo(t, p)      == [Nothing EXCEPT !.needs = {t}, !.bars = {p}, !.adds = {p}]
Drop(p)          == [Nothing EXCEPT !.needs = {p}, !.removes = {p}]
DropTable(t)     == [Nothing EXCEPT !.needs = {t}, !.removes = {t} \cup Attached[t]]
DropIfExists(p)  == [Nothing EXCEPT !.removes = {p}]

\* The rows of a table are copied into the new one that takes its place: the copy
\* opens a transaction.
Rebuild(t, new, adds, removes) ==
  [Nothing EXCEPT !.needs = {t, new}, !.adds = adds, !.removes = {new} \cup removes, !.copies = TRUE]

\* The second definition of the trigger on a skill version's first status.
AddActiveAuthor  == [AddTo("skill_versions", "initial_status") EXCEPT !.adds = @ \cup {"active_author"}]
DropActiveAuthor == [Drop("initial_status") EXCEPT !.removes = @ \cup {"active_author"}]

Upgrade1 ==
  << Create("artifacts"), Create("authors"), Create("author_credentials"),
     Create("skill_versions"), Create("skill_transition_audit"),
     AddTo("artifacts", "artifact_guards"), AddTo("skill_transition_audit", "audit_guards"),
     AddTo("skill_versions", "initial_status"), AddTo("skill_versions", "version_guards") >>

Downgrade1 ==
  << DropTable("skill_transition_audit"), DropTable("skill_versions"),
     Drop("author_credentials"), DropTable("authors"), DropTable("artifacts") >>

Upgrade2 ==
  << Refuse({"legacy_author", "identity"}),
     AddTo("authors", "new_authors"),
     Rebuild("authors", "new_authors", {"identity_revision"}, {}),
     AddTo("author_credentials", "new_credentials"),
     Rebuild("author_credentials", "new_credentials", {"credential_states"}, {}),
     Create("author_keys"), Create("author_identity_audit"),
     AddTo("author_credentials", "one_active_kind"),
     Drop("initial_status"),
     AddActiveAuthor,
     AddTo("author_keys", "identity_guards") >>

Downgrade2 ==
  << Refuse({"identity"}), DropIfExists("identity_guards"),
     DropActiveAuthor,
     AddTo("skill_versions", "initial_status"),
     Drop("one_active_kind"),
     AddTo("author_credentials", "new_credentials"),
     Rebuild("author_credentials", "new_credentials", {}, {"credential_states"}),
     Drop("author_identity_audit"), Drop("author_keys"),
     AddTo("authors", "new_authors"),
     Rebuild("authors", "new_authors", {}, {"identity_revision"}) >>

Upgrade3 ==
  << Refuse({"legacy_artifact", "provenance"}),
     AddTo("artifacts", "scanner_verdict"), AddTo("artifacts", "scanner_detail"),
     AddTo("artifacts", "author_artifact_digest"), AddTo("artifacts", "author_artifact_signature") >>

Downgrade3 ==
  << Refuse({"legacy_artifact", "provenance"}),
     Drop("author_artifact_signature"), Drop("author_artifact_digest"),
     Drop("scanner_detail"), Drop("scanner_verdict") >>

Upgrade4 ==
  << AddTo("skill_versions", "requires_scan"), Create("scan_jobs"), Create("scan_events"),
     AddTo("scan_events", "event_guards"), AddTo("scan_jobs", "job_guards"),
     AddTo("skill_versions", "evidence_guards") >>

Downgrade4 ==
  << Refuse({"job"}), DropIfExists("evidence_guards"), DropIfExists("job_guards"),
     DropIfExists("event_guards"), DropTable("scan_events"), DropTable("scan_jobs"),
     Drop("requires_scan") >>

Upgrades   == <<Upgrade1, Upgrade2, Upgrade3, Upgrade4>>
Downgrades == <<Downgrade1, Downgrade2, Downgrade3, Downgrade4>>

-----------------------------------------------------------------------------
(* A command.                                                              *)

Script == IF command.kind = "upgrade" THEN Upgrades[command.of] ELSE Downgrades[command.of]

Begin == rollback' = IF rollback = NoTransaction THEN database ELSE rollback

SchemaInit ==
  /\ pieces = {}
  /\ rows = {}
  /\ revision = 0
  /\ rollback = NoTransaction
  /\ command = Idle
  /\ serving = FALSE
  /\ upgraded = FALSE
  /\ cutShort = {}

\* alembic upgrade, alembic downgrade: nothing to do, or the first revision to apply.
\* The hub is stopped for it.
Give(kind, target) ==
  /\ command = Idle
  /\ ~serving
  /\ \/ kind = "upgrade" /\ target >= revision
     \/ kind = "downgrade" /\ target < revision
  /\ IF target = revision
     THEN command' = Idle /\ upgraded' = (target = Newest)
     ELSE /\ command' = [kind |-> kind, target |-> target, at |-> 1,
                         of |-> IF kind = "upgrade" THEN revision + 1 ELSE revision]
          /\ upgraded' = FALSE
  /\ UNCHANGED <<database, rollback, serving, cutShort>>

\* Mutant: a revision of the schema is not checked for rows it cannot vouch for.
AcceptsAnyRows(s) == s.needs \subseteq pieces /\ s.bars \cap pieces = {}

Accepts(s) ==
  /\ s.needs \subseteq pieces
  /\ s.bars \cap pieces = {}
  /\ s.refuses \cap rows = {}

Execute ==
  /\ command # Idle
  /\ command.at <= Len(Script)
  /\ LET s == Script[command.at]
     IN /\ Accepts(s)
        /\ IF s.copies THEN Begin ELSE UNCHANGED rollback
        /\ pieces' = (pieces \ s.removes) \cup s.adds
        /\ rows' = rows \ UNION {RowsIn(p) : p \in s.removes}
  /\ command' = [command EXCEPT !.at = @ + 1]
  /\ UNCHANGED <<revision, serving, upgraded, cutShort>>

\* Mutant: the revision is recorded before its statements.
DueFirst == command.at = 1

Due == command.at > Len(Script)

\* The revision is recorded and the transaction committed; the command goes on
\* with the next one or ends.
Record ==
  /\ command # Idle
  /\ Due
  /\ revision' = IF command.kind = "upgrade" THEN command.of ELSE command.of - 1
  /\ rollback' = NoTransaction
  /\ IF revision' = command.target
     THEN command' = Idle /\ upgraded' = (revision' = Newest)
     ELSE /\ command' = [command EXCEPT !.at = 1,
                           !.of = IF command.kind = "upgrade" THEN @ + 1 ELSE @ - 1]
          /\ UNCHANGED upgraded
  /\ cutShort' = IF command.kind = "downgrade" THEN cutShort \ {command.of} ELSE cutShort
  /\ UNCHANGED <<pieces, rows, serving>>

\* A refusal, a statement the schema does not allow, a locked database, a full
\* disk, a killed process: an open transaction is undone, and nothing else.
BreakOff ==
  /\ command # Idle
  /\ command' = Idle
  /\ rollback' = NoTransaction
  /\ IF rollback = NoTransaction
     THEN UNCHANGED database
     ELSE pieces' = rollback[1] /\ rows' = rollback[2] /\ revision' = rollback[3]
  /\ cutShort' = IF command.kind = "downgrade" /\ command.at > 1 THEN cutShort \cup {command.of} ELSE cutShort
  /\ UNCHANGED <<serving, upgraded>>

-----------------------------------------------------------------------------
(* The hub.                                                                *)

\* The application is started once the upgrade has succeeded.
Serve ==
  /\ ~serving
  /\ upgraded /\ command = Idle
  /\ serving' = TRUE
  /\ UNCHANGED <<database, rollback, command, upgraded, cutShort>>

Stop ==
  /\ serving
  /\ serving' = FALSE
  /\ UNCHANGED <<database, rollback, command, upgraded, cutShort>>

\* A row is written by whoever finds the tables and columns it names, unless a
\* transaction is open.
Insert(row, needs) ==
  /\ rollback = NoTransaction
  /\ needs \subseteq pieces
  /\ rows' = rows \cup {row}
  /\ UNCHANGED <<pieces, revision, rollback, command, serving, upgraded, cutShort>>

Register ==
  serving /\ Insert("identity", {"authors", "identity_revision", "author_credentials",
                                 "author_keys", "author_identity_audit"})

\* The artifact's row and the job's are of one transaction.
PublishNow ==
  /\ serving
  /\ "identity" \in rows
  /\ rollback = NoTransaction
  /\ {"artifacts", "skill_versions", "skill_transition_audit", "scan_jobs", "requires_scan"}
        \cup Columns \subseteq pieces
  /\ rows' = rows \cup {"provenance", "job"}
  /\ UNCHANGED <<pieces, revision, rollback, command, serving, upgraded, cutShort>>

\* An earlier release, run at the revision it belongs to.
Earlier(row) ==
  /\ command = Idle /\ ~serving
  /\ \/ row = "legacy_author" /\ revision = 1 /\ Insert(row, {"authors"})
     \/ row = "legacy_artifact" /\ revision \in {1, 2} /\ Insert(row, {"artifacts", "skill_versions"})
     \/ row = "identity" /\ revision \in {2, 3} /\ Insert(row, {"authors", "author_keys", "author_identity_audit"})
     \/ /\ row = "provenance" /\ revision = 3
        /\ "identity" \in rows /\ Insert(row, {"artifacts", "skill_versions"} \cup Columns)

SchemaNext ==
  \/ \E kind \in {"upgrade", "downgrade"}, target \in 0..Newest : Give(kind, target)
  \/ Execute
  \/ Record
  \/ BreakOff
  \/ Serve
  \/ Stop
  \/ Register
  \/ PublishNow
  \/ \E row \in Rows : Earlier(row)

SchemaSpec == SchemaInit /\ [][SchemaNext]_schemaVars

-----------------------------------------------------------------------------
(* Properties.                                                             *)

\* What there can be of a database, and a command.
Parts == PiecesAt(Newest) \cup {"new_authors", "new_credentials"}
Commands == [kind : {"upgrade", "downgrade"}, target : 0..Newest, at : Nat \ {0}, of : 1..Newest]

\* Types.
SchemaTypeOK ==
  /\ pieces \subseteq Parts
  /\ rows \subseteq Rows
  /\ revision \in 0..Newest
  /\ rollback = NoTransaction \/ rollback \in (SUBSET Parts) \X (SUBSET Rows) \X (0..Newest)
  /\ command \in Commands \cup {Idle}
  /\ serving \in BOOLEAN
  /\ upgraded \in BOOLEAN
  /\ cutShort \subseteq 1..Newest

\* What a database at revision r has, but for what a downgrade that was cut short
\* and not completed since may have taken.
Touched(S, p) == \E j \in 1..Len(S) : p \in S[j].removes
Trusted(r, cut) == {p \in PiecesAt(r) : \A n \in cut : ~Touched(Downgrades[n], p)}

\* Whoever starts the hub after an upgrade to the head that succeeded has every
\* table, column and trigger of every revision, whatever failed or died before,
\* but for what a downgrade takes that was cut short and not completed since.
ServedWhole == serving => Trusted(Newest, cutShort) \subseteq pieces

\* No author without identity history is taken over by the revisions that promise
\* one, and no artifact without provenance (the checks that open two upgrades).
NothingPromoted ==
  /\ revision >= 2 => "legacy_author" \notin rows
  /\ revision >= 3 => "legacy_artifact" \notin rows

\* A database that serves, or that a revision has been recorded in, is what it says.
DatabaseSound == ServedWhole /\ NothingPromoted

\* Identity history, provenance and scan jobs that are there are never discarded,
\* by whatever sequence of downgrades, failures and upgrades (the checks that
\* open three downgrades).
HistoryKept == [][\A kind \in History : kind \in rows => kind \in rows']_schemaVars
=============================================================================
