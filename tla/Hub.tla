-------------------------------- MODULE Hub --------------------------------
(***************************************************************************)
(* The hub at work: requests that publish and download, and the workers    *)
(* that scan, over one database and one object store.                      *)
(*                                                                         *)
(* Module Publication knows of the queue only what SkillLifecycle promises,*)
(* and ScanQueue takes a publication as it comes.  Here the two meet:      *)
(* create_publication is one transaction of both, a worker reads the       *)
(* upload that a request has stored, and a download is let through by      *)
(* what workers and administrator have written.                            *)
(***************************************************************************)
EXTENDS ScanQueue, FiniteSets

CONSTANTS
  Authors, Uploads, Idems, Requests, Downloads, MaxDownloads, MaxDamage  \* as in Publication

ASSUME PublicationAssumption ==
  /\ Uploads \subseteq [skill : Skills, author : Authors, tier : BOOLEAN]
  /\ None \notin Uploads \cup Idems \cup Skills
  /\ IsFiniteSet(Downloads)
  /\ MaxDownloads \in Nat /\ MaxDamage \in Nat

VARIABLES
  bytes, promised,              \* the object store
  revoked, deferred, record,    \* authors revoked, the deployment, artifacts
  stage, request,               \* publish requests
  step, fetching,               \* downloads
  downloads, served

Pub ==
  INSTANCE Publication WITH
    evidence <- [s \in Skills |-> EvidenceOf(jobState[s])],
    lister   <- [s \in Skills |-> ListerOf(s)],
    pc       <- stage

requestVars  == <<bytes, promised, revoked, deferred, record, stage, request>>
downloadVars == <<step, fetching, downloads, served>>
hubVars == <<vars, requestVars, downloadVars>>

HubInit == Init /\ Pub!Init

\* create_publication: the rows of the request, and the job, event and audit row
\* of the queue, in one transaction.
Commit(r) ==
  /\ stage[r] = "commit"
  /\ \E s \in Skills : s = request[r].upload.skill /\ Publish(s)
  /\ Pub!Commit(r)

\* What a request or a download does but for that, a revocation, damage and a
\* power failure leave the queue alone.
Serve ==
  /\ UNCHANGED vars
  /\ \/ \E r \in Requests :
          \/ \E u \in Uploads, i \in Idems : Pub!Authenticate(r, u, i)
          \/ Pub!CheckReplay(r) \/ Pub!CheckVersion(r) \/ Pub!Scan(r)
          \/ Pub!StoreUpload(r) \/ Pub!StoreArtifact(r)
          \/ Pub!Refuse(r) \/ Pub!Respond(r) \/ Pub!Abandon(r)
     \/ \E q \in Downloads :
          \/ \E s \in Skills : Pub!Look(q, s)
          \/ Pub!Read(q) \/ Pub!Count(q) \/ Pub!Send(q) \/ Pub!Drop(q)
     \/ \E a \in Authors : Pub!Revoke(a)
     \/ \E object \in Pub!Objects : Pub!Damage(object)
     \/ Pub!PowerFailure

\* The stored upload of a skill version, as storage.read finds it.
Stored(s) == bytes[Pub!Upload(record[s].upload)]

\* A worker, the administrator or the clock; a worker sends what storage.read
\* gave it, gives up where nothing is stored, and raises where it is damaged.
Work ==
  /\ \/ \E s \in Skills :
          \/ \E target \in {"listed", "rejected", "unlisted"} : AdminTransition(s, target)
          \/ BecomeDue(s) \/ GrowOld(s) \/ LeaseExpires(s)
     \/ \E w \in Workers :
          \/ \E s \in Skills : Claim(w, s)
          \/ FindNothing(w) /\ Stored(task[w].skill) = "absent"
          \/ Offer(w) /\ Stored(task[w].skill) = "whole"
          \/ Poll(w) \/ Reread(w) \/ ReadClock(w)
          \/ RecordProgress(w) \/ Complete(w) \/ Refused(w)
          \/ Raise(w) \/ Crash(w)
  /\ UNCHANGED <<requestVars, downloadVars>>

HubNext ==
  \/ \E r \in Requests : Commit(r)
  \/ Serve
  \/ Work

HubSpec == HubInit /\ [][HubNext]_hubVars

-----------------------------------------------------------------------------
(* Properties.                                                             *)

\* A worker always finds the upload of the job it has claimed: what publishing
\* stores before its transaction, power failures in between included, is what
\* the queue needs after it, so no job goes to manual review for want of it.
UploadsFound ==
  \A w \in Workers : pc[w] = "submit" => Stored(task[w].skill) # "absent"

\* Of every skill version ever sent to anyone the rows still tell who let it
\* through: the administrator, or the scanner with a clean verdict, from a job
\* or from the request itself, on an upload with no Tier C or D action.
ServedRightly ==
  \A s \in Skills :
    served[s] > 0 =>
      \/ approvedBy[s] = Admin
      \/ ~record[s].upload.tier /\ (jobState[s] = "clean" \/ record[s].verdict = "clean")

\* The queue keeps the promises Publication relies on, and the hub does nothing
\* that Publication did not reckon with.
ImplementsPublication == Pub!Spec
=============================================================================
