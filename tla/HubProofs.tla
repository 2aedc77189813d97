----------------------------- MODULE HubProofs -----------------------------
(***************************************************************************)
(* The hub is the queue and the publication at once, so whatever is proved *)
(* of either holds of it; and two things that neither could say alone, for *)
(* any number of skill versions, authors, requests, downloads and workers. *)
(***************************************************************************)
EXTENDS Hub, ScanQueueProofs, TLAPS

PubProofs ==
  INSTANCE PublicationProofs WITH
    evidence <- [s \in Skills |-> EvidenceOf(jobState[s])],
    lister   <- [s \in Skills |-> ListerOf(s)],
    pc       <- stage

-----------------------------------------------------------------------------
(* The hub is a queue: no request or download, no damage and no power      *)
(* failure writes what belongs to it, but for the commit.                  *)

LEMMA QueueStep == [HubNext]_hubVars => [Next]_vars
<1> SUFFICES ASSUME [HubNext]_hubVars PROVE Next \/ UNCHANGED vars
  OBVIOUS
<1>1. CASE UNCHANGED hubVars
  BY <1>1 DEF hubVars
<1>2. ASSUME NEW r \in Requests, Commit(r) PROVE Next
  BY <1>2 DEF Commit, Next
<1>3. CASE Serve
  BY <1>3 DEF Serve
<1>4. CASE Work
  BY <1>4 DEF Work, Next, WorkerStep, Submit
<1> QED  BY <1>1, <1>2, <1>3, <1>4 DEF HubNext

\* Every run of the hub is a run of the queue and its workers, to which a
\* publication only ever adds a skill with its job (create_publication).
THEOREM HubIsQueue == HubSpec => Spec
BY QueueStep, PTL DEF HubSpec, HubInit, Spec

-----------------------------------------------------------------------------
(* The hub is a publication: to requests and downloads, what workers and   *)
(* administrator do is a verdict or a decision, or nothing at all.         *)

LEMMA WorkMaps ==
  ASSUME Typed, Evidence, Work
  PROVE  \/ \E s \in Skills : Pub!Review(s)
         \/ UNCHANGED Pub!vars
<1>0. UNCHANGED <<requestVars, downloadVars>>
  BY DEF Work
<1>1. ASSUME UNCHANGED Lifecycle!vars PROVE UNCHANGED Pub!vars
  BY <1>0, <1>1 DEF Lifecycle!vars, requestVars, downloadVars,
    Pub!vars, Pub!skillVars, Pub!storeVars, Pub!publishVars, Pub!readVars
<1>2. ASSUME NEW s \in Skills,
             \/ \E v \in Lifecycle!Final : Lifecycle!Verdict(s, v)
             \/ Lifecycle!Approve(s) \/ Lifecycle!Reject(s) \/ Lifecycle!Unlist(s)
      PROVE  Pub!Review(s)
  BY <1>0, <1>2 DEF Pub!Review, Pub!storeVars, Pub!publishVars, Pub!readVars,
    Pub!Skill!Final, Pub!Skill!Verdict, Pub!Skill!Approve, Pub!Skill!Reject, Pub!Skill!Unlist,
    Lifecycle!Final, Lifecycle!Verdict, Lifecycle!Approve, Lifecycle!Reject, Lifecycle!Unlist,
    requestVars, downloadVars
<1>3. ASSUME NEW s \in Skills, NEW target \in {"listed", "rejected", "unlisted"},
             AdminTransition(s, target)
      PROVE  \E t \in Skills : Pub!Review(t)
  BY <1>2, <1>3, MapAdmin
<1>4. ASSUME NEW w \in Workers, Complete(w) PROVE \E t \in Skills : Pub!Review(t)
  BY <1>2, <1>4, MapComplete
<1>5. ASSUME NEW w \in Workers, RecordProgress(w) PROVE UNCHANGED Pub!vars
  BY <1>1, <1>5, MapProgress
<1>6. ASSUME NEW s \in Skills,
             \/ BecomeDue(s) \/ GrowOld(s) \/ LeaseExpires(s)
             \/ \E w \in Workers : Claim(w, s)
      PROVE  UNCHANGED Pub!vars
  BY <1>1, <1>6, Stutters DEF BecomeDue, GrowOld, LeaseExpires, Claim
<1>7. ASSUME NEW w \in Workers,
             \/ FindNothing(w) \/ Offer(w) \/ Poll(w) \/ Raise(w) \/ Reread(w) \/ ReadClock(w)
             \/ Refused(w) \/ Crash(w)
      PROVE  UNCHANGED Pub!vars
  BY <1>1, <1>7, Stutters
     DEF FindNothing, Offer, Poll, Raise, Reread, ReadClock, Refused, Crash, jobVars
<1> QED  BY <1>3, <1>4, <1>5, <1>6, <1>7 DEF Work

LEMMA PublicationStep ==
  Typed /\ Evidence /\ [HubNext]_hubVars => [Pub!Next]_(Pub!vars)
<1> SUFFICES ASSUME Typed, Evidence, [HubNext]_hubVars PROVE Pub!Next \/ UNCHANGED Pub!vars
  OBVIOUS
<1>1. CASE Serve
  BY <1>1 DEF Serve, Pub!Next
<1>2. CASE Work
  BY <1>2, WorkMaps DEF Pub!Next
<1>3. ASSUME NEW r \in Requests, Commit(r) PROVE Pub!Next
  BY <1>3 DEF Commit, Pub!Next
<1>4. CASE UNCHANGED hubVars
  BY <1>4, Stutters DEF hubVars, vars, jobVars, requestVars, downloadVars, Lifecycle!vars,
    Pub!vars, Pub!skillVars, Pub!storeVars, Pub!publishVars, Pub!readVars
<1> QED  BY <1>1, <1>2, <1>3, <1>4 DEF HubNext

\* Every run of the hub is a run of Publication: the transactions of the worker
\* and of the administrator are, to requests and downloads, what SkillLifecycle
\* lets come between their steps, and create_publication is one step of both.
THEOREM HubIsPublication == HubSpec => ImplementsPublication
BY HubIsQueue, SafeEvidence, PublicationStep, PTL
   DEF HubSpec, HubInit, ImplementsPublication, Pub!Spec

-----------------------------------------------------------------------------
(* What is proved of Publication holds of the hub.  Pub and PubProofs name *)
(* the same definitions twice; action by action, they are the same.        *)

USE DEF Pub!skillVars, PubProofs!skillVars, Pub!storeVars, PubProofs!storeVars, Pub!publishVars,
        PubProofs!publishVars, Pub!readVars, PubProofs!readVars, Pub!GoTo, PubProofs!GoTo,
        Pub!Answer, PubProofs!Answer, Pub!NewRequest, PubProofs!NewRequest, Pub!NoRequest,
        PubProofs!NoRequest, Pub!NoRecord, PubProofs!NoRecord, Pub!Recorded, PubProofs!Recorded,
        Pub!Upload, PubProofs!Upload, Pub!Artifact, PubProofs!Artifact, Pub!Objects,
        PubProofs!Objects, Pub!EndDownload, PubProofs!EndDownload

LEMMA RequestSteps ==
  ASSUME NEW r, NEW u, NEW i
  PROVE  /\ Pub!Authenticate(r, u, i) <=> PubProofs!Authenticate(r, u, i)
         /\ Pub!CheckReplay(r) <=> PubProofs!CheckReplay(r)
         /\ Pub!CheckVersion(r) <=> PubProofs!CheckVersion(r)
         /\ Pub!Scan(r) <=> PubProofs!Scan(r)
         /\ Pub!StoreUpload(r) <=> PubProofs!StoreUpload(r)
         /\ Pub!StoreArtifact(r) <=> PubProofs!StoreArtifact(r)
         /\ Pub!Commit(r) <=> PubProofs!Commit(r)
         /\ Pub!Refuse(r) <=> PubProofs!Refuse(r)
         /\ Pub!Respond(r) <=> PubProofs!Respond(r)
         /\ Pub!Abandon(r) <=> PubProofs!Abandon(r)
<1>1. Pub!Authenticate(r, u, i) <=> PubProofs!Authenticate(r, u, i)
  BY DEF Pub!Authenticate, PubProofs!Authenticate
<1>2. Pub!CheckReplay(r) <=> PubProofs!CheckReplay(r)
  BY DEF Pub!CheckReplay, PubProofs!CheckReplay
<1>3. Pub!CheckVersion(r) <=> PubProofs!CheckVersion(r)
  BY DEF Pub!CheckVersion, PubProofs!CheckVersion
<1>4. Pub!Scan(r) <=> PubProofs!Scan(r)
  BY DEF Pub!Scan, PubProofs!Scan, Pub!Verdicts, PubProofs!Verdicts
<1>5. Pub!StoreUpload(r) <=> PubProofs!StoreUpload(r)
  BY DEF Pub!StoreUpload, PubProofs!StoreUpload, Pub!Put, PubProofs!Put, Pub!Store!Appear,
         PubProofs!Store!Appear, Pub!Store!Promise, PubProofs!Store!Promise
<1>6. Pub!StoreArtifact(r) <=> PubProofs!StoreArtifact(r)
  BY DEF Pub!StoreArtifact, PubProofs!StoreArtifact, Pub!Put, PubProofs!Put, Pub!Store!Appear,
         PubProofs!Store!Appear, Pub!Store!Promise, PubProofs!Store!Promise
<1>7. Pub!Commit(r) <=> PubProofs!Commit(r)
  BY DEF Pub!Commit, PubProofs!Commit, Pub!Admissible, PubProofs!Admissible, Pub!InitialStatus,
         PubProofs!InitialStatus, Pub!Skill!Publish, PubProofs!Skill!Publish
<1>8. Pub!Refuse(r) <=> PubProofs!Refuse(r)
  BY DEF Pub!Refuse, PubProofs!Refuse, Pub!Admissible, PubProofs!Admissible
<1>9. Pub!Respond(r) <=> PubProofs!Respond(r)
  BY DEF Pub!Respond, PubProofs!Respond
<1>10. Pub!Abandon(r) <=> PubProofs!Abandon(r)
  BY DEF Pub!Abandon, PubProofs!Abandon
<1> QED  BY <1>1, <1>2, <1>3, <1>4, <1>5, <1>6, <1>7, <1>8, <1>9, <1>10

LEMMA DownloadSteps ==
  ASSUME NEW q, NEW s
  PROVE  /\ Pub!Look(q, s) <=> PubProofs!Look(q, s)
         /\ Pub!Read(q) <=> PubProofs!Read(q)
         /\ Pub!Count(q) <=> PubProofs!Count(q)
         /\ Pub!Send(q) <=> PubProofs!Send(q)
         /\ Pub!Drop(q) <=> PubProofs!Drop(q)
<1>1. Pub!Look(q, s) <=> PubProofs!Look(q, s)
  BY DEF Pub!Look, PubProofs!Look
<1>2. Pub!Read(q) <=> PubProofs!Read(q)
  BY DEF Pub!Read, PubProofs!Read
<1>3. Pub!Count(q) <=> PubProofs!Count(q)
  BY DEF Pub!Count, PubProofs!Count, Pub!Countable, PubProofs!Countable
<1>4. Pub!Send(q) <=> PubProofs!Send(q)
  BY DEF Pub!Send, PubProofs!Send
<1>5. Pub!Drop(q) <=> PubProofs!Drop(q)
  BY DEF Pub!Drop, PubProofs!Drop
<1> QED  BY <1>1, <1>2, <1>3, <1>4, <1>5

LEMMA OtherSteps ==
  ASSUME NEW s, NEW a, NEW object
  PROVE  /\ Pub!Review(s) <=> PubProofs!Review(s)
         /\ Pub!Revoke(a) <=> PubProofs!Revoke(a)
         /\ Pub!Damage(object) <=> PubProofs!Damage(object)
         /\ Pub!PowerFailure <=> PubProofs!PowerFailure
<1>1. Pub!Review(s) <=> PubProofs!Review(s)
  BY DEF Pub!Review, PubProofs!Review, Pub!Skill!Final, PubProofs!Skill!Final,
         Pub!Skill!Verdict, PubProofs!Skill!Verdict, Pub!Skill!Approve, PubProofs!Skill!Approve,
         Pub!Skill!Reject, PubProofs!Skill!Reject, Pub!Skill!Unlist, PubProofs!Skill!Unlist
<1>2. Pub!Revoke(a) <=> PubProofs!Revoke(a)
  BY DEF Pub!Revoke, PubProofs!Revoke
<1>3. Pub!Damage(object) <=> PubProofs!Damage(object)
  BY DEF Pub!Damage, PubProofs!Damage, Pub!Cardinality, PubProofs!Cardinality, Pub!Store!Damage,
         PubProofs!Store!Damage
<1>4. Pub!PowerFailure <=> PubProofs!PowerFailure
  BY DEF Pub!PowerFailure, PubProofs!PowerFailure, Pub!Store!Lose, PubProofs!Store!Lose
<1> QED  BY <1>1, <1>2, <1>3, <1>4

LEMMA SameObjects == Pub!Objects = PubProofs!Objects
OBVIOUS

LEMMA SameInit == Pub!Init <=> PubProofs!Init
BY DEF Pub!Init, PubProofs!Init, Pub!Skill!Init, PubProofs!Skill!Init, Pub!Store!Init,
       PubProofs!Store!Init

LEMMA SameNext == Pub!Next <=> PubProofs!Next
BY RequestSteps, DownloadSteps, OtherSteps, SameObjects DEF Pub!Next, PubProofs!Next

LEMMA HubProves == HubSpec => PubProofs!Spec
<1>1. [Pub!Next]_(Pub!vars) => [PubProofs!Next]_(PubProofs!vars)
  BY SameNext DEF Pub!vars, PubProofs!vars
<1> QED
  BY <1>1, SameInit, HubIsPublication, PTL DEF ImplementsPublication, Pub!Spec, PubProofs!Spec

-----------------------------------------------------------------------------
(* What only both together can promise.                                    *)

\* A job, whatever its state, is evidence for Publication.
LEMMA EvidenceThere == ASSUME NEW x \in JobStates PROVE EvidenceOf(x) # "none"
BY EvidenceValues DEF JobStates, Scanning, Terminal

\* A worker's task counts an attempt of its job, so there is one.
LEMMA ClaimedHasJob ==
  ASSUME Typed, Tokens, EventLog, NEW w \in Workers, pc[w] = "submit"
  PROVE  task[w].skill \in Skills /\ jobState[task[w].skill] \in JobStates
<1>1. task[w].skill \in Skills /\ task[w].attempt \in 1..attempts[task[w].skill]
  BY DEF Typed, TaskOK, Busy, Tokens, Reached
<1>2. attempts[task[w].skill] # 0
  BY <1>1
<1> QED  BY <1>1, <1>2 DEF EventLog, Typed, TypeOK

\* Whatever crashes, damage and power failures come between, a worker finds what
\* a request stored before create_publication (_submit, storage.read).
THEOREM WorkersFindUploads == HubSpec => []UploadsFound
<1>1. ASSUME Typed, Tokens, EventLog, PubProofs!RecordsHaveObjects PROVE UploadsFound
  <2> SUFFICES ASSUME NEW w \in Workers, pc[w] = "submit"
               PROVE  Stored(task[w].skill) # "absent"
    BY DEF UploadsFound
  <2> DEFINE s == task[w].skill
  <2>1. s \in Skills /\ EvidenceOf(jobState[s]) # "none"
    BY <1>1, ClaimedHasJob, EvidenceThere
  <2>2. bytes[PubProofs!Upload(record[s].upload)] # "absent"
    BY <1>1, <2>1 DEF PubProofs!RecordsHaveObjects, PubProofs!Secured
  <2> QED  BY <2>2 DEF Stored, Pub!Upload, PubProofs!Upload
<1>2. HubSpec => []PubProofs!RecordsHaveObjects
  BY HubProves, PublicationAssumption, PubProofs!RecordsNeverDangle
     DEF PubProofs!IsFiniteSet, IsFiniteSet
<1>3. Spec => [](Typed /\ Tokens /\ EventLog)
  BY SafeTokens, SafeEvidence, InitLogs, NextEventLog, PTL DEF Spec
<1> QED  BY <1>1, <1>2, <1>3, HubIsQueue, PTL

\* Whatever was ever downloaded, the rows of the queue and of the publication
\* still say why that was right, decisions and verdicts since then included.
THEOREM RowsJustifyDownloads == HubSpec => []ServedRightly
<1>1. ASSUME Typed, PubProofs!SentRightly PROVE ServedRightly
  <2> SUFFICES ASSUME NEW s \in Skills, served[s] > 0
               PROVE  \/ approvedBy[s] = Admin
                      \/ ~record[s].upload.tier /\ (jobState[s] = "clean" \/ record[s].verdict = "clean")
    BY DEF ServedRightly
  <2>1. ListerOf(s) = "admin" => approvedBy[s] = Admin
    BY DEF ListerOf
  <2>2. EvidenceOf(jobState[s]) = "clean" => jobState[s] = "clean"
    BY <1>1, EvidenceValues DEF Typed, TypeOK, JobStates, Terminal
  <2> QED  BY <1>1, <2>1, <2>2 DEF PubProofs!SentRightly, PubProofs!SentWasAllowed
<1>2. HubSpec => []PubProofs!SentRightly
  BY HubProves, PublicationAssumption, PubProofs!SentIsRight
     DEF PubProofs!IsFiniteSet, IsFiniteSet
<1> QED  BY <1>1, <1>2, SafeEvidence, HubIsQueue, PTL
=============================================================================
