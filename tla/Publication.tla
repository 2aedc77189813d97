---------------------------- MODULE Publication ----------------------------
(***************************************************************************)
(* Publication and download: requests that authenticate, check, scan or    *)
(* defer, store and commit, each in transactions and store calls of its    *)
(* own, and downloads that look, read, count and send.                     *)
(*                                                                         *)
(* It composes three other parts through what they promise: the visibility *)
(* of skills (SkillLifecycle), the object store (ObjectPromise), and of an *)
(* author's identity whether it has been revoked.  Every other step of     *)
(* those parts may come between any two steps here.                        *)
(***************************************************************************)
EXTENDS Naturals, FiniteSets

CONSTANTS
  Authors,      \* registered authors
  Skills,       \* skill versions: name and version
  Uploads,      \* archives: the skill version, author and tier their manifests declare
  Idems,        \* idempotency keys authors choose
  Requests,     \* publish requests in flight
  Downloads,    \* download requests in flight
  MaxDownloads, \* bound: downloads counted for a skill version
  MaxDamage,    \* bound: objects damaged
  None

ASSUME UploadsAssumption ==
  Uploads \subseteq [skill : Skills, author : Authors, tier : BOOLEAN]
ASSUME NoneAssumption == None \notin Uploads \cup Idems \cup Skills
ASSUME DownloadsAssumption == IsFiniteSet(Downloads)
ASSUME BoundsAssumption == MaxDownloads \in Nat /\ MaxDamage \in Nat

VARIABLES
  status, tierCD, evidence, lister,  \* SkillLifecycle
  bytes, promised,                   \* ObjectPromise
  revoked,                           \* authors revoked so far
  deferred,                          \* this deployment defers scans to the worker
  record,                            \* artifacts and first audit row of each skill version
  pc, request,                       \* publish requests
  step, fetching,                    \* downloads
  downloads, served                  \* the counter; history: what was sent

skillVars   == <<status, tierCD, evidence, lister>>
storeVars   == <<bytes, promised>>
publishVars == <<pc, request>>
readVars    == <<step, fetching, downloads, served>>
vars == <<skillVars, storeVars, revoked, deferred, record, publishVars, readVars>>

\* The two objects of a publication.  The rebuild is deterministic and the
\* signatures are, so one upload always gives the same artifact.
Upload(u)   == [kind |-> "upload", of |-> u]
Artifact(u) == [kind |-> "artifact", of |-> u]
Objects == {Upload(u) : u \in Uploads} \cup {Artifact(u) : u \in Uploads}

Skill == INSTANCE SkillLifecycle
Store == INSTANCE ObjectPromise WITH Digests <- Objects

Verdicts == {"clean", "suspicious", "unavailable"}
Answers  == {"none", "published", "replay", "conflict"}

NewRequest(u, i) == [upload |-> u, idem |-> i, verdict |-> "unavailable", answer |-> "none"]
NoRequest == NewRequest(None, None)
NoRecord  == [upload |-> None, idem |-> None, verdict |-> "unavailable"]

Init ==
  /\ Skill!Init
  /\ Store!Init
  /\ revoked = {}
  /\ deferred \in BOOLEAN
  /\ record  = [s \in Skills |-> NoRecord]
  /\ pc      = [r \in Requests |-> "idle"]
  /\ request = [r \in Requests |-> NoRequest]
  /\ step     = [q \in Downloads |-> "idle"]
  /\ fetching = [q \in Downloads |-> None]
  /\ downloads = [s \in Skills |-> 0]
  /\ served    = [s \in Skills |-> 0]

-----------------------------------------------------------------------------
(* Publish requests.                                                       *)

\* An author has used an idempotency key for a publication.
Recorded(author, idem) ==
  \E s \in Skills : /\ record[s] # NoRecord
                    /\ record[s].upload.author = author
                    /\ record[s].idem = idem

GoTo(r, where) == pc' = [pc EXCEPT ![r] = where]

Answer(r, answer) ==
  /\ GoTo(r, "answered")
  /\ request' = [request EXCEPT ![r].answer = answer]

\* The author is authenticated.  Uploads whose signature or manifest does not
\* verify against that author go no further and change nothing.
Authenticate(r, u, i) ==
  /\ pc[r] \in {"idle", "answered"}
  /\ u.author \notin revoked
  /\ GoTo(r, "check_replay")
  /\ request' = [request EXCEPT ![r] = NewRequest(u, i)]
  /\ UNCHANGED <<skillVars, storeVars, revoked, deferred, record, readVars>>

\* publication_recorded_for_idempotency_key, then the signature and manifest.
CheckReplay(r) ==
  /\ pc[r] = "check_replay"
  /\ IF Recorded(request[r].upload.author, request[r].idem)
     THEN Answer(r, "replay")
     ELSE GoTo(r, "check_version") /\ UNCHANGED request
  /\ UNCHANGED <<skillVars, storeVars, revoked, deferred, record, readVars>>

\* skill_version_exists.
CheckVersion(r) ==
  /\ pc[r] = "check_version"
  /\ IF record[request[r].upload.skill] # NoRecord
     THEN Answer(r, "conflict")
     ELSE GoTo(r, IF deferred THEN "store_upload" ELSE "scan") /\ UNCHANGED request
  /\ UNCHANGED <<skillVars, storeVars, revoked, deferred, record, readVars>>

\* _scan_with_timeout: a scanner that fails or is late counts as unavailable,
\* and a late answer has nowhere to go.
Scan(r) ==
  /\ pc[r] = "scan"
  /\ \E verdict \in Verdicts : request' = [request EXCEPT ![r].verdict = verdict]
  /\ GoTo(r, "store_artifact")
  /\ UNCHANGED <<skillVars, storeVars, revoked, deferred, record, readVars>>

\* A call of store: the object appears, unless it is there; then it is promised.
\* A damaged object fails the comparison, which ends the request.
Put(r, object, next) ==
  \/ Store!Appear(object) /\ UNCHANGED publishVars
  \/ Store!Promise(object) /\ bytes[object] = "whole" /\ GoTo(r, next) /\ UNCHANGED request

\* Mutant: the worker is left to store its input.
StoreUploadNever(r) ==
  /\ pc[r] = "store_upload"
  /\ GoTo(r, "store_artifact")
  /\ UNCHANGED <<skillVars, storeVars, revoked, deferred, record, request, readVars>>

StoreUpload(r) ==
  /\ pc[r] = "store_upload"
  /\ Put(r, Upload(request[r].upload), "store_artifact")
  /\ UNCHANGED <<skillVars, revoked, deferred, record, readVars>>

StoreArtifact(r) ==
  /\ pc[r] = "store_artifact"
  /\ Put(r, Artifact(request[r].upload), "commit")
  /\ UNCHANGED <<skillVars, revoked, deferred, record, readVars>>

\* Mutant: the scanner's verdict is recorded and otherwise forgotten.
InitialStatusByTier(r) ==
  IF ~deferred /\ ~request[r].upload.tier THEN "listed" ELSE "pending_review"

\* publish_decision and the scanner verdict together.
InitialStatus(r) ==
  IF ~deferred /\ ~request[r].upload.tier /\ request[r].verdict = "clean"
  THEN "listed" ELSE "pending_review"

\* Mutant: the transaction trusts the replay check made earlier.
AdmissibleUnlessTaken(r) ==
  /\ record[request[r].upload.skill] = NoRecord
  /\ request[r].upload.author \notin revoked

\* The unique constraints on skill version and on actor and idempotency key,
\* and skill_versions_validate_initial_status on the author.
Admissible(r) ==
  /\ record[request[r].upload.skill] = NoRecord
  /\ ~Recorded(request[r].upload.author, request[r].idem)
  /\ request[r].upload.author \notin revoked

\* create_publication commits.
Commit(r) ==
  LET s == request[r].upload.skill
  IN /\ pc[r] = "commit"
     /\ Admissible(r)
     /\ record' = [record EXCEPT ![s] =
                    [upload |-> request[r].upload, idem |-> request[r].idem,
                     verdict |-> request[r].verdict]]
     /\ Skill!Publish(s)
     /\ tierCD'[s] = request[r].upload.tier
     /\ status'[s] = InitialStatus(r)
     /\ evidence'[s] = IF deferred THEN "awaited" ELSE "none"
     /\ GoTo(r, "respond")
     /\ UNCHANGED <<storeVars, revoked, deferred, request, readVars>>

\* Mutant: any conflict is taken for a key used before.
RefuseAsReplay(r) ==
  /\ pc[r] = "commit"
  /\ ~Admissible(r)
  /\ Answer(r, "replay")
  /\ UNCHANGED <<skillVars, storeVars, revoked, deferred, record, readVars>>

\* A constraint or the trigger aborts it.
Refuse(r) ==
  /\ pc[r] = "commit"
  /\ ~Admissible(r)
  /\ Answer(r, "conflict")
  /\ UNCHANGED <<skillVars, storeVars, revoked, deferred, record, readVars>>

Respond(r) ==
  /\ pc[r] = "respond"
  /\ Answer(r, "published")
  /\ UNCHANGED <<skillVars, storeVars, revoked, deferred, record, readVars>>

\* The store fails, the process dies or the client leaves: nobody is answered.
Abandon(r) ==
  /\ pc[r] \notin {"idle", "answered"}
  /\ GoTo(r, "idle")
  /\ request' = [request EXCEPT ![r] = NoRequest]
  /\ UNCHANGED <<skillVars, storeVars, revoked, deferred, record, readVars>>

-----------------------------------------------------------------------------
(* Downloads.                                                              *)

EndDownload(q) ==
  /\ step' = [step EXCEPT ![q] = "idle"]
  /\ fetching' = [fetching EXCEPT ![q] = None]

\* get_listed_skill.
Look(q, s) ==
  /\ step[q] = "idle"
  /\ status[s] = "listed"
  /\ step' = [step EXCEPT ![q] = "read"]
  /\ fetching' = [fetching EXCEPT ![q] = s]
  /\ UNCHANGED <<skillVars, storeVars, revoked, deferred, record, publishVars, downloads, served>>

\* Mutant: the bytes go out as soon as they are read.
ReadAndSend(q) ==
  /\ step[q] = "read"
  /\ IF bytes[Artifact(record[fetching[q]].upload)] = "whole"
     THEN step' = [step EXCEPT ![q] = "send"] /\ UNCHANGED fetching
     ELSE EndDownload(q)
  /\ UNCHANGED <<skillVars, storeVars, revoked, deferred, record, publishVars, downloads, served>>

\* storage.read; an object missing or damaged is a 503.
Read(q) ==
  /\ step[q] = "read"
  /\ IF bytes[Artifact(record[fetching[q]].upload)] = "whole"
     THEN step' = [step EXCEPT ![q] = "count"] /\ UNCHANGED fetching
     ELSE EndDownload(q)
  /\ UNCHANGED <<skillVars, storeVars, revoked, deferred, record, publishVars, downloads, served>>

\* The WHERE clause of the UPDATE.
Countable(s) == status[s] = "listed"

\* increment_downloads: where the skill is no longer listed, a 404.
Count(q) ==
  /\ step[q] = "count"
  /\ downloads[fetching[q]] < MaxDownloads
  /\ IF Countable(fetching[q])
     THEN /\ downloads' = [downloads EXCEPT ![fetching[q]] = @ + 1]
          /\ step' = [step EXCEPT ![q] = "send"]
          /\ UNCHANGED fetching
     ELSE EndDownload(q) /\ UNCHANGED downloads
  /\ UNCHANGED <<skillVars, storeVars, revoked, deferred, record, publishVars, served>>

Send(q) ==
  /\ step[q] = "send"
  /\ served' = [served EXCEPT ![fetching[q]] = @ + 1]
  /\ EndDownload(q)
  /\ UNCHANGED <<skillVars, storeVars, revoked, deferred, record, publishVars, downloads>>

\* The client leaves or the process dies.
Drop(q) ==
  /\ step[q] # "idle"
  /\ EndDownload(q)
  /\ UNCHANGED <<skillVars, storeVars, revoked, deferred, record, publishVars, downloads, served>>

-----------------------------------------------------------------------------
(* The other parts.                                                        *)

\* A verdict of the worker or a decision of the administrator.
Review(s) ==
  /\ \/ \E v \in Skill!Final : Skill!Verdict(s, v)
     \/ Skill!Approve(s)
     \/ Skill!Reject(s)
     \/ Skill!Unlist(s)
  /\ UNCHANGED <<storeVars, revoked, deferred, record, publishVars, readVars>>

Revoke(a) ==
  /\ a \notin revoked
  /\ revoked' = revoked \cup {a}
  /\ UNCHANGED <<skillVars, storeVars, deferred, record, publishVars, readVars>>

\* A stored file is changed from outside.
Damage(object) ==
  /\ Cardinality({o \in Objects : bytes[o] = "damaged"}) < MaxDamage
  /\ Store!Damage(object)
  /\ UNCHANGED <<skillVars, revoked, deferred, record, publishVars, readVars>>

\* The machine stops; what the store did not promise may be lost.
PowerFailure ==
  /\ Store!Lose
  /\ pc' = [r \in Requests |-> "idle"]
  /\ request' = [r \in Requests |-> NoRequest]
  /\ step' = [q \in Downloads |-> "idle"]
  /\ fetching' = [q \in Downloads |-> None]
  /\ UNCHANGED <<skillVars, revoked, deferred, record, downloads, served>>

Next ==
  \/ \E r \in Requests :
       \/ \E u \in Uploads, i \in Idems : Authenticate(r, u, i)
       \/ CheckReplay(r) \/ CheckVersion(r) \/ Scan(r)
       \/ StoreUpload(r) \/ StoreArtifact(r)
       \/ Commit(r) \/ Refuse(r) \/ Respond(r) \/ Abandon(r)
  \/ \E q \in Downloads :
       \/ \E s \in Skills : Look(q, s)
       \/ Read(q) \/ Count(q) \/ Send(q) \/ Drop(q)
  \/ \E s \in Skills : Review(s)
  \/ \E a \in Authors : Revoke(a)
  \/ \E object \in Objects : Damage(object)
  \/ PowerFailure

Spec == Init /\ [][Next]_vars

-----------------------------------------------------------------------------
(* Properties.                                                             *)

Stages == {"idle", "check_replay", "check_version", "scan", "store_upload",
           "store_artifact", "commit", "respond", "answered"}

SkillsTyped ==
  /\ status   \in [Skills -> {"absent", "pending_review", "listed", "rejected", "unlisted"}]
  /\ tierCD   \in [Skills -> BOOLEAN]
  /\ evidence \in [Skills -> {"none", "awaited"} \cup Skill!Final]
  /\ lister   \in [Skills -> {"nobody", "author", "scanner", "admin"}]

StoreTyped ==
  /\ bytes \in [Objects -> {"absent", "whole", "damaged"}]
  /\ promised \subseteq Objects

RecordsTyped ==
  /\ revoked  \subseteq Authors
  /\ deferred \in BOOLEAN
  /\ record   \in [Skills -> [upload : Uploads \cup {None}, idem : Idems \cup {None},
                              verdict : Verdicts]]

RequestsTyped ==
  /\ pc      \in [Requests -> Stages]
  /\ request \in [Requests -> [upload : Uploads \cup {None}, idem : Idems \cup {None},
                               verdict : Verdicts, answer : Answers]]

DownloadsTyped ==
  /\ step      \in [Downloads -> {"idle", "read", "count", "send"}]
  /\ fetching  \in [Downloads -> Skills \cup {None}]
  /\ downloads \in [Skills -> Nat]
  /\ served    \in [Skills -> Nat]

\* Every variable has its type.
TypeOK ==
  SkillsTyped /\ StoreTyped /\ RecordsTyped /\ RequestsTyped /\ DownloadsTyped

\* There for good, whole unless it was damaged from outside.
Secured(object) == object \in promised /\ bytes[object] # "absent"

\* A publication's artifact, and the upload its scan job needs, were promised
\* by the store before the row was there: neither a crash between the writes
\* nor a later power failure leaves a row without its objects.
RecordsHaveObjects ==
  \A s \in Skills :
    /\ record[s] # NoRecord => Secured(Artifact(record[s].upload))
    /\ evidence[s] # "none" => record[s] # NoRecord /\ Secured(Upload(record[s].upload))

\* An author publishes at most once under one idempotency key, however many
\* requests passed the replay check together.
OnePublicationPerKey ==
  \A s, t \in Skills :
    /\ record[s] # NoRecord /\ record[t] # NoRecord
    /\ record[s].upload.author = record[t].upload.author
    /\ record[s].idem = record[t].idem
    => s = t

\* What a client was told stays true: "published" means that its upload is the
\* one on record under its key, "replay" that its key has published, and
\* "conflict" that the skill version, the key or the author is taken for good.
AnswersAreTrue ==
  \A r \in Requests :
    LET u == request[r].upload  i == request[r].idem
    IN CASE request[r].answer = "published" ->
              record[u.skill].upload = u /\ record[u.skill].idem = i
         [] request[r].answer = "replay"   -> Recorded(u.author, i)
         [] request[r].answer = "conflict" ->
              record[u.skill] # NoRecord \/ Recorded(u.author, i) \/ u.author \in revoked
         [] OTHER -> TRUE

\* What was ever sent to anyone had been let through: by the administrator,
\* or, for a skill without Tier C or D actions, by a clean verdict of the
\* scanner on its upload, then or later.
SentWasAllowed ==
  \A s \in Skills :
    served[s] > 0 =>
      \/ lister[s] = "admin"
      \/ ~record[s].upload.tier /\ (evidence[s] = "clean" \/ record[s].verdict = "clean")

\* Everything sent was counted first.
SentWasCounted ==
  \A s \in Skills :
    served[s] + Cardinality({q \in Downloads : step[q] = "send" /\ fetching[q] = s}) <= downloads[s]

\* What is sent had been let through, and is counted.
SentRightly == SentWasAllowed /\ SentWasCounted
=============================================================================
