------------------------- MODULE PublicationProofs -------------------------
(***************************************************************************)
(* What holds of Publication for all sets of authors, skills, uploads,     *)
(* keys and requests.                                                      *)
(***************************************************************************)
EXTENDS Publication, FiniteSetTheorems, TLAPS

\* A request in progress, or answered, has an upload and a key.
Shaped == \A r \in Requests :
  pc[r] # "idle" => request[r].upload \in Uploads /\ request[r].idem \in Idems

\* A record is of an upload of its own skill version.
Filed == \A s \in Skills :
  record[s] # NoRecord =>
    record[s].upload \in Uploads /\ record[s].upload.skill = s /\ record[s].idem \in Idems

\* A download in progress has a skill version that has been published.
Aimed ==
  /\ \A q \in Downloads : step[q] # "idle" => fetching[q] \in Skills
  /\ \A s \in Skills : status[s] # "absent" => record[s] # NoRecord

Typed == TypeOK /\ Shaped /\ Filed /\ Aimed

\* The moves the steps are made of.
LEMMA AnswerTyped ==
  ASSUME Typed, NEW r \in Requests, NEW answer \in Answers, Answer(r, answer), pc[r] # "idle"
  PROVE  RequestsTyped' /\ Shaped'
BY DEF Typed, TypeOK, RequestsTyped, Shaped, Answer, GoTo, Stages

LEMMA GoToTyped ==
  ASSUME Typed, NEW r \in Requests, NEW where \in Stages, pc[r] # "idle",
         GoTo(r, where), UNCHANGED request
  PROVE  RequestsTyped' /\ Shaped'
BY DEF Typed, TypeOK, RequestsTyped, Shaped, GoTo

LEMMA InitTyped == Init => Typed
BY DEF Init, Typed, TypeOK, SkillsTyped, StoreTyped, RecordsTyped, RequestsTyped, DownloadsTyped,
       Shaped, Filed, Aimed, Skill!Init, Store!Init, Stages, Verdicts, Answers,
       NewRequest, NoRequest, NoRecord

\* Steps of a request before its commit, and its answers.
LEMMA RequestTyped ==
  ASSUME Typed, NEW r \in Requests,
         \/ \E u \in Uploads, i \in Idems : Authenticate(r, u, i)
         \/ CheckReplay(r) \/ CheckVersion(r) \/ Scan(r) \/ Refuse(r) \/ Respond(r) \/ Abandon(r)
  PROVE  Typed'
<1>1. RequestsTyped' /\ Shaped'
  <2>1. CASE \E u \in Uploads, i \in Idems : Authenticate(r, u, i)
    BY <2>1 DEF Typed, TypeOK, RequestsTyped, Shaped, Authenticate, GoTo, Stages, NewRequest,
                Verdicts, Answers
  <2>2. CASE CheckReplay(r)
    BY <2>2, AnswerTyped, GoToTyped DEF CheckReplay, Stages, Answers
  <2>3. CASE CheckVersion(r)
    BY <2>3, AnswerTyped, GoToTyped DEF CheckVersion, Stages, Answers
  <2>4. CASE Scan(r)
    BY <2>4 DEF Typed, TypeOK, RequestsTyped, Shaped, Scan, GoTo, Stages
  <2>5. CASE Refuse(r)
    BY <2>5, AnswerTyped DEF Refuse, Answers
  <2>6. CASE Respond(r)
    BY <2>6, AnswerTyped DEF Respond, Answers
  <2>7. CASE Abandon(r)
    BY <2>7 DEF Typed, TypeOK, RequestsTyped, Shaped, Abandon, GoTo, Stages, NewRequest, NoRequest,
                Verdicts, Answers
  <2>8. QED
    BY <2>1, <2>2, <2>3, <2>4, <2>5, <2>6, <2>7
<1>2. UNCHANGED <<skillVars, storeVars, revoked, deferred, record, readVars>>
  BY DEF Authenticate, CheckReplay, CheckVersion, Scan, Refuse, Respond, Abandon
<1>3. QED
  BY <1>1, <1>2
     DEF Typed, TypeOK, SkillsTyped, StoreTyped, RecordsTyped, DownloadsTyped, Filed, Aimed,
         skillVars, storeVars, readVars

LEMMA PutTyped ==
  ASSUME Typed, NEW r \in Requests, NEW object \in Objects, NEW next \in Stages,
         pc[r] # "idle", Put(r, object, next),
         UNCHANGED <<skillVars, revoked, deferred, record, readVars>>
  PROVE  Typed'
<1>1. StoreTyped'
  BY DEF Typed, TypeOK, StoreTyped, Put, Store!Appear, Store!Promise
<1>2. RequestsTyped' /\ Shaped'
  BY GoToTyped DEF Put, publishVars, Typed, TypeOK, RequestsTyped, Shaped
<1>3. QED
  BY <1>1, <1>2
     DEF Typed, TypeOK, SkillsTyped, RecordsTyped, DownloadsTyped, Filed, Aimed,
         skillVars, readVars

LEMMA StoringTyped ==
  ASSUME Typed, NEW r \in Requests, StoreUpload(r) \/ StoreArtifact(r)
  PROVE  Typed'
<1>1. pc[r] # "idle" /\ request[r].upload \in Uploads
  BY DEF StoreUpload, StoreArtifact, Typed, Shaped
<1>2. Upload(request[r].upload) \in Objects /\ Artifact(request[r].upload) \in Objects
  BY <1>1 DEF Objects
<1>3. QED
  BY <1>1, <1>2, PutTyped DEF StoreUpload, StoreArtifact, Stages

\* What a commit writes.
LEMMA CommitRecord ==
  ASSUME Typed, NEW r \in Requests, Commit(r)
  PROVE  LET u == request[r].upload
         IN /\ u \in Uploads /\ u.skill \in Skills /\ request[r].idem \in Idems
            /\ record[u.skill] = NoRecord
            /\ record' = [record EXCEPT ![u.skill] =
                 [upload |-> u, idem |-> request[r].idem, verdict |-> request[r].verdict]]
            /\ record'[u.skill] # NoRecord
<1>1. request[r].upload \in Uploads /\ request[r].idem \in Idems
  BY DEF Commit, Typed, Shaped
<1>2. request[r].upload.skill \in Skills
  BY <1>1, UploadsAssumption
<1>3. request[r].upload # None
  BY <1>1, NoneAssumption
<1>4. QED
  BY <1>1, <1>2, <1>3 DEF Commit, Admissible, Typed, TypeOK, RecordsTyped, NoRecord

\* The one record a commit makes.
LEMMA NewRecord ==
  ASSUME Typed, NEW r \in Requests, Commit(r)
  PROVE  LET u == request[r].upload
         IN /\ u.skill \in Skills
            /\ record[u.skill] = NoRecord
            /\ record'[u.skill].upload = u
            /\ record'[u.skill].idem = request[r].idem
            /\ record'[u.skill].verdict = request[r].verdict
            /\ \A s \in Skills : s # u.skill => record'[s] = record[s]
<1> DEFINE u == request[r].upload
           new == [upload |-> u, idem |-> request[r].idem, verdict |-> request[r].verdict]
<1>1. u.skill \in Skills /\ record[u.skill] = NoRecord /\ record' = [record EXCEPT ![u.skill] = new]
  BY CommitRecord
<1>2. DOMAIN record = Skills
  BY DEF Typed, TypeOK, RecordsTyped
<1>3. record'[u.skill] = new
  BY <1>1, <1>2
<1>4. \A s \in Skills : s # u.skill => record'[s] = record[s]
  BY <1>1, <1>2
<1>5. QED
  BY <1>1, <1>3, <1>4

LEMMA CommitTyped ==
  ASSUME Typed, NEW r \in Requests, Commit(r)
  PROVE  Typed'
<1> DEFINE u == request[r].upload
<1>1. /\ u \in Uploads /\ u.skill \in Skills /\ request[r].idem \in Idems
      /\ record' = [record EXCEPT ![u.skill] =
           [upload |-> u, idem |-> request[r].idem, verdict |-> request[r].verdict]]
      /\ record'[u.skill] # NoRecord
  BY CommitRecord
<1>2. SkillsTyped'
  BY <1>1 DEF Commit, Skill!Publish, Typed, TypeOK, SkillsTyped
<1>3. RecordsTyped'
  <2> DEFINE new == [upload |-> u, idem |-> request[r].idem, verdict |-> request[r].verdict]
             Row == [upload : Uploads \cup {None}, idem : Idems \cup {None},
                          verdict : Verdicts]
  <2>1. request[r].verdict \in Verdicts /\ deferred \in BOOLEAN
    BY DEF Typed, TypeOK, RecordsTyped, RequestsTyped
  <2>2. new \in Row
    BY <1>1, <2>1
  <2>3. record \in [Skills -> Row] /\ record' = [record EXCEPT ![u.skill] = new]
    BY <1>1 DEF Typed, TypeOK, RecordsTyped
  <2> HIDE DEF new, Row
  <2>4. record' \in [Skills -> Row]
    BY <1>1, <2>2, <2>3
  <2>5. revoked' = revoked /\ deferred' = deferred
    BY DEF Commit
  <2>6. QED
    BY <2>4, <2>5 DEF Typed, TypeOK, RecordsTyped, Row
<1>4. StoreTyped' /\ DownloadsTyped'
  BY DEF Commit, Typed, TypeOK, StoreTyped, DownloadsTyped, storeVars, readVars
<1>5. RequestsTyped' /\ Shaped'
  BY GoToTyped DEF Commit, Stages
<1>6. Filed'
  BY <1>1 DEF Typed, TypeOK, RecordsTyped, Filed
<1>7. Aimed'
  <2>1. \A s \in Skills \ {u.skill} : record'[s] = record[s] /\ status'[s] = status[s]
    BY <1>1 DEF Commit, Skill!Publish, Typed, TypeOK, RecordsTyped, SkillsTyped
  <2>2. UNCHANGED <<step, fetching>>
    BY DEF Commit, readVars
  <2>3. QED
    BY <1>1, <2>1, <2>2 DEF Typed, Aimed
<1>8. QED
  BY <1>2, <1>3, <1>4, <1>5, <1>6, <1>7 DEF Typed, TypeOK

LEMMA DownloadTyped ==
  ASSUME Typed, NEW q \in Downloads,
         (\E s \in Skills : Look(q, s)) \/ Read(q) \/ Count(q) \/ Send(q) \/ Drop(q)
  PROVE  Typed'
<1>1. DownloadsTyped' /\ Aimed'
  <2>1. CASE \E s \in Skills : Look(q, s)
    BY <2>1 DEF Typed, TypeOK, DownloadsTyped, Aimed, Look, skillVars
  <2>2. CASE Read(q)
    BY <2>2 DEF Typed, TypeOK, DownloadsTyped, Aimed, Read, EndDownload, skillVars
  <2>3. CASE Count(q)
    <3>1. fetching[q] \in Skills
      BY <2>3 DEF Count, Typed, Aimed
    <3>2. QED
      BY <2>3, <3>1 DEF Typed, TypeOK, DownloadsTyped, Aimed, Count, EndDownload, skillVars
  <2>4. CASE Send(q)
    <3>1. fetching[q] \in Skills
      BY <2>4 DEF Send, Typed, Aimed
    <3>2. QED
      BY <2>4, <3>1 DEF Typed, TypeOK, DownloadsTyped, Aimed, Send, EndDownload, skillVars
  <2>5. CASE Drop(q)
    BY <2>5 DEF Typed, TypeOK, DownloadsTyped, Aimed, Drop, EndDownload, skillVars
  <2>6. QED
    BY <2>1, <2>2, <2>3, <2>4, <2>5
<1>2. UNCHANGED <<skillVars, storeVars, revoked, deferred, record, publishVars>>
  BY DEF Look, Read, Count, Send, Drop
<1>3. QED
  BY <1>1, <1>2
     DEF Typed, TypeOK, SkillsTyped, StoreTyped, RecordsTyped, RequestsTyped, Shaped, Filed,
         skillVars, storeVars, publishVars

LEMMA ReviewTyped ==
  ASSUME Typed, NEW s \in Skills, Review(s)
  PROVE  Typed'
<1>1. SkillsTyped' /\ Aimed'
  <2>1. PICK v \in Skill!Final :
          Skill!Verdict(s, v) \/ Skill!Approve(s) \/ Skill!Reject(s) \/ Skill!Unlist(s)
    BY DEF Review, Skill!Final
  <2>2. SkillsTyped'
    BY <2>1 DEF Typed, TypeOK, SkillsTyped, Skill!Verdict, Skill!Approve, Skill!Reject, Skill!Unlist
  <2>3. \A t \in Skills : status'[t] # "absent" => status[t] # "absent"
    BY <2>1 DEF Typed, TypeOK, SkillsTyped, Skill!Verdict, Skill!Approve, Skill!Reject, Skill!Unlist
  <2>4. QED
    BY <2>2, <2>3 DEF Typed, Aimed, Review, readVars
<1>2. QED
  BY <1>1
     DEF Review, Typed, TypeOK, StoreTyped, RecordsTyped, RequestsTyped, DownloadsTyped,
         Shaped, Filed, storeVars, publishVars, readVars

LEMMA OutsideTyped ==
  ASSUME Typed,
         \/ \E a \in Authors : Revoke(a)
         \/ \E object \in Objects : Damage(object)
         \/ PowerFailure
  PROVE  Typed'
<1>1. CASE \E a \in Authors : Revoke(a)
  BY <1>1 DEF Revoke, Typed, TypeOK, SkillsTyped, StoreTyped, RecordsTyped, RequestsTyped,
              DownloadsTyped, Shaped, Filed, Aimed, skillVars, storeVars, publishVars, readVars
<1>2. CASE \E object \in Objects : Damage(object)
  BY <1>2 DEF Damage, Store!Damage, Typed, TypeOK, SkillsTyped, StoreTyped, RecordsTyped,
              RequestsTyped, DownloadsTyped, Shaped, Filed, Aimed, skillVars, publishVars, readVars
<1>3. CASE PowerFailure
  <2>1. StoreTyped'
    BY <1>3 DEF PowerFailure, Store!Lose, Typed, TypeOK, StoreTyped
  <2>2. RequestsTyped' /\ DownloadsTyped' /\ Shaped' /\ Aimed'
    BY <1>3 DEF PowerFailure, Typed, TypeOK, RequestsTyped, DownloadsTyped, Shaped, Aimed,
                NewRequest, NoRequest, Stages, Verdicts, Answers, skillVars
  <2>3. QED
    BY <1>3, <2>1, <2>2 DEF PowerFailure, Typed, TypeOK, SkillsTyped, RecordsTyped, Filed, skillVars
<1>4. QED
  BY <1>1, <1>2, <1>3

LEMMA NextTyped == Typed /\ [Next]_vars => Typed'
<1> SUFFICES ASSUME Typed, [Next]_vars PROVE Typed'
  OBVIOUS
<1>1. CASE UNCHANGED vars
  BY <1>1 DEF vars, skillVars, storeVars, publishVars, readVars, Typed, TypeOK, SkillsTyped,
              StoreTyped, RecordsTyped, RequestsTyped, DownloadsTyped, Shaped, Filed, Aimed
<1>2. CASE Next
  BY <1>2, RequestTyped, StoringTyped, CommitTyped, DownloadTyped, ReviewTyped, OutsideTyped DEF Next
<1>3. QED
  BY <1>1, <1>2

LEMMA SafeTyped == Spec => []Typed
<1>1. QED
  BY InitTyped, NextTyped, PTL DEF Spec

\* Every reachable state is well typed.
THEOREM TypeCorrect == Spec => []TypeOK
<1>1. Typed => TypeOK
  BY DEF Typed
<1>2. QED
  BY <1>1, SafeTyped, PTL
-----------------------------------------------------------------------------
(* Records and their objects.                                              *)

\* What every step but a commit leaves alone.
LEMMA RecordSteps ==
  ASSUME Typed, [Next]_vars
  PROVE  record' = record \/ \E r \in Requests : Commit(r)
BY DEF Next, vars, Authenticate, CheckReplay, CheckVersion, Scan, StoreUpload, StoreArtifact,
       Refuse, Respond, Abandon, Look, Read, Count, Send, Drop, Review, Revoke, Damage, PowerFailure

\* A record, once made, stays; and so do a spent key and a revocation.
LEMMA RecordsStay ==
  ASSUME Typed, [Next]_vars
  PROVE  /\ \A s \in Skills : record[s] # NoRecord => record'[s] = record[s]
         /\ \A a, i : Recorded(a, i) => Recorded(a, i)'
         /\ revoked \subseteq revoked'
<1>1. \A s \in Skills : record[s] # NoRecord => record'[s] = record[s]
  <2>1. CASE record' = record
    BY <2>1
  <2>2. ASSUME NEW r \in Requests, Commit(r)
        PROVE  \A s \in Skills : record[s] # NoRecord => record'[s] = record[s]
    BY <2>2, NewRecord
  <2>3. QED
    BY <2>1, <2>2, RecordSteps
<1>2. \A a, i : Recorded(a, i) => Recorded(a, i)'
  BY <1>1 DEF Recorded
<1>3. revoked \subseteq revoked'
  BY DEF Next, vars, Authenticate, CheckReplay, CheckVersion, Scan, StoreUpload, StoreArtifact, Commit,
         Refuse, Respond, Abandon, Look, Read, Count, Send, Drop, Review, Revoke, Damage, PowerFailure
<1>4. QED
  BY <1>1, <1>2, <1>3

\* What the store promised is there; a request on its way to the commit has
\* been promised what it stored, and scans only where scans are not deferred.
Present == \A d \in promised : bytes[d] # "absent"
Staged ==
  \A r \in Requests :
    /\ pc[r] = "commit" => Artifact(request[r].upload) \in promised
    /\ pc[r] \in {"store_artifact", "commit"} /\ deferred => Upload(request[r].upload) \in promised
    /\ pc[r] = "scan" => ~deferred

Kept == Present /\ Staged /\ RecordsHaveObjects

\* Promises are never taken back.
LEMMA PromisesStay ==
  ASSUME Typed, Present, [Next]_vars
  PROVE  promised \subseteq promised' /\ Present'
<1>1. CASE UNCHANGED storeVars
  BY <1>1 DEF storeVars, Present
<1>2. ASSUME NEW r \in Requests, StoreUpload(r) \/ StoreArtifact(r)
      PROVE  promised \subseteq promised' /\ Present'
  BY <1>2 DEF StoreUpload, StoreArtifact, Put, Store!Appear, Store!Promise, Present,
              Typed, TypeOK, StoreTyped
<1>3. ASSUME NEW object \in Objects, Damage(object)
      PROVE  promised \subseteq promised' /\ Present'
  BY <1>3 DEF Damage, Store!Damage, Present, Typed, TypeOK, StoreTyped
<1>4. CASE PowerFailure
  BY <1>4 DEF PowerFailure, Store!Lose, Present, Typed, TypeOK, StoreTyped
<1>5. UNCHANGED storeVars \/ (\E r \in Requests : StoreUpload(r) \/ StoreArtifact(r))
        \/ (\E object \in Objects : Damage(object)) \/ PowerFailure
  BY DEF Next, vars, storeVars, Authenticate, CheckReplay, CheckVersion, Scan, Commit,
         Refuse, Respond, Abandon, Look, Read, Count, Send, Drop, Review, Revoke
<1>6. QED
  BY <1>1, <1>2, <1>3, <1>4, <1>5

LEMMA NextStaged ==
  ASSUME Typed, Present, Staged, [Next]_vars
  PROVE  Staged'
<1>1. promised \subseteq promised'
  BY PromisesStay
<1>2. deferred' = deferred
  BY DEF Next, vars, Authenticate, CheckReplay, CheckVersion, Scan, StoreUpload, StoreArtifact, Commit,
         Refuse, Respond, Abandon, Look, Read, Count, Send, Drop, Review, Revoke, Damage, PowerFailure
<1>3. CASE UNCHANGED publishVars
  BY <1>1, <1>2, <1>3 DEF Staged, publishVars, Artifact, Upload
<1>4. CASE PowerFailure
  BY <1>4 DEF PowerFailure, Staged
<1>5. ASSUME NEW r \in Requests,
             \/ \E u \in Uploads, i \in Idems : Authenticate(r, u, i)
             \/ CheckReplay(r) \/ CheckVersion(r) \/ Scan(r)
             \/ StoreUpload(r) \/ StoreArtifact(r)
             \/ Commit(r) \/ Refuse(r) \/ Respond(r) \/ Abandon(r)
      PROVE  Staged'
  <2>1. \A t \in Requests \ {r} : pc'[t] = pc[t] /\ request'[t] = request[t]
    BY <1>5 DEF Typed, TypeOK, RequestsTyped, Authenticate, CheckReplay, CheckVersion, Scan,
                StoreUpload, StoreArtifact, Put, publishVars, Commit, Refuse, Respond, Abandon,
                Answer, GoTo
  <2>2. /\ pc'[r] = "commit" => Artifact(request'[r].upload) \in promised'
        /\ pc'[r] \in {"store_artifact", "commit"} /\ deferred =>
             Upload(request'[r].upload) \in promised'
        /\ pc'[r] = "scan" => ~deferred
    <3>1. CASE StoreUpload(r)
      BY <1>1, <3>1 DEF StoreUpload, Put, Store!Appear, Store!Promise, GoTo, publishVars, Staged,
                        Typed, TypeOK, RequestsTyped
    <3>2. CASE StoreArtifact(r)
      BY <1>1, <3>2 DEF StoreArtifact, Put, Store!Appear, Store!Promise, GoTo, publishVars, Staged,
                        Typed, TypeOK, RequestsTyped
    <3>3. CASE CheckVersion(r)
      BY <3>3 DEF CheckVersion, Answer, GoTo, Typed, TypeOK, RequestsTyped
    <3>4. CASE Scan(r)
      <4>1. ~deferred
        BY <3>4 DEF Scan, Staged
      <4>2. QED
        BY <3>4, <4>1 DEF Scan, GoTo, Typed, TypeOK, RequestsTyped
    <3>5. CASE \/ \E u \in Uploads, i \in Idems : Authenticate(r, u, i)
               \/ CheckReplay(r) \/ Commit(r) \/ Refuse(r) \/ Respond(r) \/ Abandon(r)
      BY <3>5 DEF Authenticate, CheckReplay, Commit, Refuse, Respond, Abandon, Answer, GoTo,
                  Typed, TypeOK, RequestsTyped
    <3>6. QED
      BY <1>5, <3>1, <3>2, <3>3, <3>4, <3>5
  <2>3. QED
    BY <1>1, <1>2, <2>1, <2>2 DEF Staged
<1>6. UNCHANGED publishVars \/ PowerFailure \/ \E r \in Requests :
         \/ \E u \in Uploads, i \in Idems : Authenticate(r, u, i)
         \/ CheckReplay(r) \/ CheckVersion(r) \/ Scan(r)
         \/ StoreUpload(r) \/ StoreArtifact(r)
         \/ Commit(r) \/ Refuse(r) \/ Respond(r) \/ Abandon(r)
  BY DEF Next, vars, publishVars, Look, Read, Count, Send, Drop, Review, Revoke, Damage
<1>7. QED
  BY <1>3, <1>4, <1>5, <1>6

\* A scan is asked for by the commit, in a deployment that defers scans.
LEMMA EvidenceSteps ==
  ASSUME Typed, [Next]_vars, NEW s \in Skills, evidence[s] = "none", evidence'[s] # "none"
  PROVE  \E r \in Requests : Commit(r) /\ request[r].upload.skill = s /\ deferred
<1>1. CASE UNCHANGED skillVars
  BY <1>1 DEF skillVars
<1>2. ASSUME NEW t \in Skills, Review(t) PROVE FALSE
  BY <1>2 DEF Review, Skill!Verdict, Skill!Approve, Skill!Reject, Skill!Unlist, Skill!Final,
              Typed, TypeOK, SkillsTyped
<1>3. ASSUME NEW r \in Requests, Commit(r) PROVE request[r].upload.skill = s /\ deferred
  <2>1. request[r].upload.skill \in Skills
    BY <1>3, NewRecord
  <2>2. QED
    BY <1>3, <2>1 DEF Commit, Skill!Publish, Typed, TypeOK, SkillsTyped
<1>4. QED
  BY <1>1, <1>2, <1>3
     DEF Next, vars, Authenticate, CheckReplay, CheckVersion, Scan, StoreUpload, StoreArtifact,
         Refuse, Respond, Abandon, Look, Read, Count, Send, Drop, Revoke, Damage, PowerFailure

\* A commit records what was promised before; nothing else touches the records.
LEMMA NextKept == Typed /\ Kept /\ [Next]_vars => Kept'
<1> SUFFICES ASSUME Typed, Kept, [Next]_vars PROVE Kept'
  OBVIOUS
<1>1. Present' /\ Staged' /\ promised \subseteq promised'
  BY PromisesStay, NextStaged DEF Kept
<1>2. ASSUME NEW s \in Skills, record'[s] # NoRecord
      PROVE  Artifact(record'[s].upload) \in promised'
  <2>1. CASE record[s] # NoRecord
    BY <1>1, <2>1, RecordsStay DEF Kept, RecordsHaveObjects, Secured, Artifact
  <2>2. CASE record[s] = NoRecord
    <3>1. PICK r \in Requests : Commit(r)
      BY <1>2, <2>2, RecordSteps
    <3>2. record'[s].upload = request[r].upload
      BY <1>2, <2>2, <3>1, NewRecord
    <3>3. QED
      BY <1>1, <3>1, <3>2 DEF Commit, Kept, Staged, Artifact
  <2>3. QED
    BY <2>1, <2>2
<1>3. ASSUME NEW s \in Skills, evidence'[s] # "none"
      PROVE  record'[s] # NoRecord /\ Upload(record'[s].upload) \in promised'
  <2>1. CASE evidence[s] # "none"
    BY <1>1, <2>1, RecordsStay DEF Kept, RecordsHaveObjects, Secured, Upload
  <2>2. CASE evidence[s] = "none"
    <3>1. PICK r \in Requests : Commit(r) /\ request[r].upload.skill = s /\ deferred
      BY <1>3, <2>2, EvidenceSteps
    <3>2. record'[s] # NoRecord /\ record'[s].upload = request[r].upload
      BY <3>1, CommitRecord, NewRecord
    <3>3. QED
      BY <1>1, <3>1, <3>2 DEF Commit, Kept, Staged, Upload
  <2>3. QED
    BY <2>1, <2>2
<1>4. RecordsHaveObjects'
  BY <1>1, <1>2, <1>3 DEF RecordsHaveObjects, Present, Secured, Artifact, Upload
<1>5. QED
  BY <1>1, <1>4 DEF Kept

LEMMA InitKept == Init => Kept
BY DEF Init, Kept, Present, Staged, RecordsHaveObjects, Store!Init, Skill!Init

\* Every record's objects were promised by the store before the record was
\* made: no crash or power failure leaves a row without its bytes.
THEOREM RecordsNeverDangle == Spec => []RecordsHaveObjects
<1>1. Spec => [](Typed /\ Kept)
  BY InitTyped, NextTyped, InitKept, NextKept, PTL DEF Spec
<1>2. Typed /\ Kept => RecordsHaveObjects
  BY DEF Kept
<1>3. QED
  BY <1>1, <1>2, PTL

-----------------------------------------------------------------------------
(* Keys and answers.                                                       *)

LEMMA NextOnePerKey ==
  ASSUME Typed, OnePublicationPerKey, [Next]_vars
  PROVE  OnePublicationPerKey'
<1>1. CASE record' = record
  BY <1>1 DEF OnePublicationPerKey
<1>2. ASSUME NEW r \in Requests, Commit(r)
      PROVE  OnePublicationPerKey'
  <2> DEFINE u == request[r].upload
  <2>1. /\ u.skill \in Skills
        /\ record[u.skill] = NoRecord
        /\ record'[u.skill].upload = u /\ record'[u.skill].idem = request[r].idem
        /\ \A s \in Skills \ {u.skill} : record'[s] = record[s]
    BY <1>2, NewRecord
  <2>2. ~Recorded(u.author, request[r].idem)
    BY <1>2 DEF Commit, Admissible
  <2>3. QED
    BY <2>1, <2>2 DEF OnePublicationPerKey, Recorded
<1>3. QED
  BY <1>1, <1>2, RecordSteps

\* An author has at most one publication per idempotency key, for any number
\* of requests that overlap.
THEOREM KeysAreSpentOnce == Spec => []OnePublicationPerKey
<1>1. Init => OnePublicationPerKey
  BY DEF Init, OnePublicationPerKey
<1>2. Typed /\ OnePublicationPerKey /\ [Next]_vars => OnePublicationPerKey'
  BY NextOnePerKey
<1>3. QED
  BY <1>1, <1>2, SafeTyped, PTL DEF Spec

\* A request's slot says the truth about what it was answered or will be.
TrueSlot(r) ==
  LET u == request[r].upload  i == request[r].idem
  IN /\ pc[r] # "answered" => request[r].answer = "none"
     /\ pc[r] = "respond" \/ request[r].answer = "published" =>
          record[u.skill].upload = u /\ record[u.skill].idem = i
     /\ request[r].answer = "replay" => Recorded(u.author, i)
     /\ request[r].answer = "conflict" =>
          record[u.skill] # NoRecord \/ Recorded(u.author, i) \/ u.author \in revoked

\* What is true of a slot stays true while the request is left alone.
LEMMA SlotStays ==
  ASSUME Typed, [Next]_vars, NEW r \in Requests, TrueSlot(r),
         request'[r] = request[r], pc'[r] = pc[r], pc[r] # "idle"
  PROVE  TrueSlot(r)'
<1>1. request[r].upload \in Uploads /\ request[r].upload.skill \in Skills
  BY UploadsAssumption DEF Typed, Shaped
<1>2. request[r].upload # None
  BY <1>1, NoneAssumption
<1>3. record[request[r].upload.skill].upload = request[r].upload =>
        record[request[r].upload.skill] # NoRecord
  BY <1>2 DEF NoRecord
<1>4. QED
  BY <1>1, <1>3, RecordsStay DEF TrueSlot

\* An answer is true when it is given.
LEMMA SlotStep ==
  ASSUME Typed, [Next]_vars, NEW r \in Requests, TrueSlot(r),
         \/ \E u \in Uploads, i \in Idems : Authenticate(r, u, i)
         \/ CheckReplay(r) \/ CheckVersion(r) \/ Scan(r)
         \/ StoreUpload(r) \/ StoreArtifact(r)
         \/ Commit(r) \/ Refuse(r) \/ Respond(r) \/ Abandon(r)
  PROVE  TrueSlot(r)'
<1>1. CASE \E u \in Uploads, i \in Idems : Authenticate(r, u, i)
  BY <1>1 DEF Authenticate, GoTo, NewRequest, TrueSlot, Typed, TypeOK, RequestsTyped
<1>2. CASE Abandon(r)
  BY <1>2 DEF Abandon, GoTo, NoRequest, NewRequest, TrueSlot, Typed, TypeOK, RequestsTyped
<1> DEFINE u == request[r].upload
           i == request[r].idem
<1>3. CASE CheckReplay(r) \/ CheckVersion(r) \/ Refuse(r) \/ Respond(r)
  <2>1. record' = record /\ revoked' = revoked
    BY <1>3 DEF CheckReplay, CheckVersion, Refuse, Respond
  <2>2. request'[r].upload = u /\ request'[r].idem = i
    BY <1>3 DEF CheckReplay, CheckVersion, Refuse, Respond, Answer, Typed, TypeOK, RequestsTyped
  <2>3. /\ pc'[r] # "respond"
        /\ pc'[r] # "answered" => request'[r].answer = "none"
        /\ \/ request'[r].answer = request[r].answer
           \/ request'[r].answer = "published" /\ pc[r] = "respond"
           \/ request'[r].answer = "replay" /\ Recorded(u.author, i)
           \/ /\ request'[r].answer = "conflict"
              /\ record[u.skill] # NoRecord \/ Recorded(u.author, i) \/ u.author \in revoked
    BY <1>3 DEF CheckReplay, CheckVersion, Refuse, Respond, Admissible, Answer, GoTo,
                Typed, TypeOK, RequestsTyped, TrueSlot
  <2>4. Recorded(u.author, i)' = Recorded(u.author, i)
    BY <2>1, <2>2 DEF Recorded
  <2>5. QED
    BY <2>1, <2>2, <2>3, <2>4 DEF TrueSlot, Recorded
<1>4. CASE Scan(r) \/ StoreUpload(r) \/ StoreArtifact(r)
  <2>1. record' = record /\ revoked' = revoked
    BY <1>4 DEF Scan, StoreUpload, StoreArtifact
  <2>2. /\ request'[r].upload = u /\ request'[r].idem = i
        /\ request'[r].answer = "none"
        /\ pc'[r] # "respond"
    BY <1>4 DEF Scan, StoreUpload, StoreArtifact, Put, publishVars, GoTo, Typed, TypeOK, RequestsTyped,
                TrueSlot
  <2>3. QED
    BY <2>1, <2>2 DEF TrueSlot, Recorded
<1>5. CASE Commit(r)
  <2>1. request' = request
    BY <1>5 DEF Commit
  <2>2. record'[u.skill].upload = u /\ record'[u.skill].idem = i
    BY <1>5, NewRecord
  <2>3. u \in Uploads /\ u.skill \in Skills
    BY <1>5, UploadsAssumption DEF Commit, Typed, Shaped
  <2>4. record[u.skill] = NoRecord /\ u # None
    BY <1>5, <2>3, NoneAssumption DEF Commit, Admissible
  <2>5. record'[u.skill] # NoRecord
    BY <1>5, CommitRecord
  <2>6. request[r].answer = "none"
    BY <1>5 DEF Commit, GoTo, Typed, TypeOK, RequestsTyped, TrueSlot
  <2>7. QED
    BY <2>1, <2>2, <2>5, <2>6 DEF TrueSlot
<1>6. QED
  BY <1>1, <1>2, <1>3, <1>4, <1>5

\* A request moves alone.
LEMMA OthersWait ==
  ASSUME Typed, NEW r \in Requests, NEW t \in Requests, r # t,
         \/ \E u \in Uploads, i \in Idems : Authenticate(t, u, i)
         \/ CheckReplay(t) \/ CheckVersion(t) \/ Scan(t)
         \/ StoreUpload(t) \/ StoreArtifact(t)
         \/ Commit(t) \/ Refuse(t) \/ Respond(t) \/ Abandon(t)
  PROVE  pc'[r] = pc[r] /\ request'[r] = request[r]
BY DEF Authenticate, CheckReplay, CheckVersion, Scan, StoreUpload, StoreArtifact, Put, publishVars,
       Commit, Refuse, Respond, Abandon, Answer, GoTo, Typed, TypeOK, RequestsTyped

LEMMA NextSlots ==
  ASSUME Typed, \A r \in Requests : TrueSlot(r), [Next]_vars
  PROVE  \A r \in Requests : TrueSlot(r)'
<1> SUFFICES ASSUME NEW r \in Requests PROVE TrueSlot(r)'
  OBVIOUS
<1>1. CASE PowerFailure
  <2>1. pc'[r] = "idle" /\ request'[r].answer = "none"
    BY <1>1 DEF PowerFailure, NoRequest, NewRequest
  <2>2. QED
    BY <2>1 DEF TrueSlot
<1>2. CASE pc[r] = "idle" /\ pc'[r] = pc[r] /\ request'[r] = request[r]
  <2>1. request[r].answer = "none"
    BY <1>2 DEF TrueSlot
  <2>2. QED
    BY <1>2, <2>1 DEF TrueSlot
<1>3. CASE pc[r] # "idle" /\ pc'[r] = pc[r] /\ request'[r] = request[r]
  BY <1>3, SlotStays
<1>4. CASE \/ \E u \in Uploads, i \in Idems : Authenticate(r, u, i)
           \/ CheckReplay(r) \/ CheckVersion(r) \/ Scan(r)
           \/ StoreUpload(r) \/ StoreArtifact(r)
           \/ Commit(r) \/ Refuse(r) \/ Respond(r) \/ Abandon(r)
  BY <1>4, SlotStep
<1>5. CASE UNCHANGED publishVars
  BY <1>2, <1>3, <1>5 DEF publishVars
<1>6. ASSUME NEW t \in Requests, t # r,
             \/ \E u \in Uploads, i \in Idems : Authenticate(t, u, i)
             \/ CheckReplay(t) \/ CheckVersion(t) \/ Scan(t)
             \/ StoreUpload(t) \/ StoreArtifact(t)
             \/ Commit(t) \/ Refuse(t) \/ Respond(t) \/ Abandon(t)
      PROVE  TrueSlot(r)'
  BY <1>2, <1>3, <1>6, OthersWait
<1>7. QED
  BY <1>1, <1>4, <1>5, <1>6
     DEF Next, vars, Look, Read, Count, Send, Drop, Review, Revoke, Damage

\* Whatever a client was told stays true: of its own publication, of a key
\* that was used before and of a refusal.
THEOREM AnswersStayTrue == Spec => []AnswersAreTrue
<1> DEFINE Slots == \A r \in Requests : TrueSlot(r)
<1>1. Init => Slots
  BY DEF Init, NoRequest, NewRequest, TrueSlot
<1>2. Typed /\ Slots /\ [Next]_vars => Slots'
  BY NextSlots
<1>3. Slots => AnswersAreTrue
  BY DEF TrueSlot, AnswersAreTrue
<1> HIDE DEF Slots
<1>4. QED
  BY <1>1, <1>2, <1>3, SafeTyped, PTL DEF Spec

-----------------------------------------------------------------------------
(* What was sent.                                                          *)

\* The uploads that were let through: by the administrator, or by a clean verdict.
Allowed(s) ==
  \/ lister[s] = "admin"
  \/ (~record[s].upload.tier /\ (evidence[s] = "clean" \/ record[s].verdict = "clean"))

\* A skill version on record has the tier of its upload and only what is, or was,
\* listed has a lister; what was ever listed, or is about to be sent, was let through.
Cleared ==
  /\ \A s \in Skills :
       /\ status[s] # "absent" => tierCD[s] = record[s].upload.tier
       /\ lister[s] = "admin" => status[s] \in {"listed", "unlisted"}
       /\ status[s] \in {"listed", "unlisted"} => Allowed(s)
       /\ served[s] > 0 => status[s] # "absent" /\ Allowed(s)
  /\ \A q \in Downloads :
       step[q] = "send" => status[fetching[q]] # "absent" /\ Allowed(fetching[q])

\* Steps that write neither the skill's row nor its record.
LEMMA QuietAllowed ==
  ASSUME UNCHANGED <<skillVars, record>>
  PROVE  \A s \in Skills : (Allowed(s)' <=> Allowed(s))
BY DEF Allowed, skillVars

LEMMA QuietCleared ==
  ASSUME Typed, Cleared, UNCHANGED <<skillVars, record, served>>,
         \A q \in Downloads : step'[q] = "send" =>
           /\ fetching'[q] = fetching[q]
           /\ step[q] = "send" \/ (fetching[q] \in Skills /\ status[fetching[q]] = "listed")
  PROVE  Cleared'
<1>1. \A s \in Skills : Allowed(s)' <=> Allowed(s)
  BY QuietAllowed
<1>2. UNCHANGED <<status, tierCD, evidence, lister>>
  BY DEF skillVars
<1>3. \A q \in Downloads : step'[q] = "send" =>
        fetching[q] \in Skills /\ status[fetching[q]] # "absent" /\ Allowed(fetching[q])
  BY DEF Cleared, Typed, Aimed
<1>4. QED
  BY <1>1, <1>2, <1>3 DEF Cleared

\* A decision keeps what was let through so, and lists nothing else.
LEMMA ReviewCleared ==
  ASSUME Typed, Cleared, NEW s \in Skills, Review(s)
  PROVE  Cleared'
<1>1. PICK v \in Skill!Final :
        Skill!Verdict(s, v) \/ Skill!Approve(s) \/ Skill!Reject(s) \/ Skill!Unlist(s)
  BY DEF Review, Skill!Final
<1>2. /\ UNCHANGED <<record, step, fetching, served>> /\ tierCD' = tierCD
      /\ \A t \in Skills : t # s => /\ status'[t] = status[t] /\ evidence'[t] = evidence[t]
                                    /\ lister'[t] = lister[t]
  BY <1>1 DEF Review, readVars, Typed, TypeOK, SkillsTyped,
              Skill!Verdict, Skill!Approve, Skill!Reject, Skill!Unlist
<1>3. \A t \in Skills : t # s => (Allowed(t)' <=> Allowed(t))
  BY <1>2 DEF Allowed
<1>4. status[s] = "absent" =>
        served[s] = 0 /\ ~(\E q \in Downloads : step[q] = "send" /\ fetching[q] = s)
  BY DEF Cleared, Typed, TypeOK, DownloadsTyped
<1>5. /\ status'[s] # "absent" => status[s] # "absent"
      /\ status[s] # "absent" => status'[s] # "absent"
      /\ lister'[s] = "admin" => status'[s] \in {"listed", "unlisted"}
      /\ status[s] # "absent" /\ Allowed(s) => Allowed(s)'
      /\ status'[s] \in {"listed", "unlisted"} => Allowed(s)'
  <2>1. CASE Skill!Verdict(s, v)
    <3>1. /\ evidence[s] = "awaited" /\ evidence'[s] = v
          /\ \/ /\ status[s] = "pending_review" /\ v = "clean" /\ ~tierCD[s]
                /\ status'[s] = "listed" /\ lister'[s] = "scanner"
             \/ /\ ~(status[s] = "pending_review" /\ v = "clean" /\ ~tierCD[s])
                /\ lister'[s] = lister[s]
                /\ \/ status'[s] = status[s]
                   \/ (status[s] = "pending_review" /\ status'[s] = "rejected")
      BY <2>1 DEF Skill!Verdict, Typed, TypeOK, SkillsTyped
    <3>2. status[s] = "pending_review" => lister[s] # "admin" /\ tierCD[s] = record[s].upload.tier
      BY DEF Cleared
    <3>3. QED
      BY <1>2, <3>1, <3>2 DEF Cleared, Allowed
  <2>2. CASE Skill!Approve(s)
    BY <1>2, <2>2 DEF Skill!Approve, Cleared, Allowed, Typed, TypeOK, SkillsTyped
  <2>3. CASE Skill!Reject(s)
    BY <1>2, <2>3 DEF Skill!Reject, Cleared, Allowed, Typed, TypeOK, SkillsTyped
  <2>4. CASE Skill!Unlist(s)
    BY <1>2, <2>4 DEF Skill!Unlist, Cleared, Allowed, Typed, TypeOK, SkillsTyped
  <2>5. QED
    BY <1>1, <2>1, <2>2, <2>3, <2>4
<1>6. \A q \in Downloads : step[q] = "send" => fetching[q] \in Skills
  BY DEF Typed, Aimed
<1>7. QED
  BY <1>2, <1>3, <1>4, <1>5, <1>6 DEF Cleared

\* A publication lists only what has no Tier C or D action and a clean verdict.
LEMMA CommitCleared ==
  ASSUME Typed, Cleared, NEW r \in Requests, Commit(r)
  PROVE  Cleared'
<1>0. PICK s : s = request[r].upload.skill
  OBVIOUS
<1>1. /\ s \in Skills /\ record[s] = NoRecord
      /\ record'[s].upload = request[r].upload /\ record'[s].verdict = request[r].verdict
      /\ \A t \in Skills : t # s => record'[t] = record[t]
  BY <1>0, NewRecord
<1>2. /\ status[s] = "absent" /\ lister[s] # "admin" /\ served[s] = 0
      /\ \A q \in Downloads : step[q] = "send" => fetching[q] \in Skills /\ fetching[q] # s
  <2>1. status[s] = "absent"
    BY <1>0 DEF Commit, Skill!Publish
  <2>2. served[s] \in Nat /\ \A q \in Downloads : step[q] = "send" => fetching[q] \in Skills
    BY <1>1 DEF Typed, Aimed, TypeOK, DownloadsTyped
  <2>3. QED
    BY <1>1, <2>1, <2>2 DEF Cleared
<1>3. /\ tierCD'[s] = request[r].upload.tier /\ status'[s] = InitialStatus(r)
      /\ UNCHANGED <<step, fetching, served>>
      /\ lister'[s] \in {lister[s], "author"}
      /\ \A t \in Skills : t # s => /\ status'[t] = status[t] /\ evidence'[t] = evidence[t]
                                    /\ lister'[t] = lister[t] /\ tierCD'[t] = tierCD[t]
  <2>1. /\ tierCD'[s] = request[r].upload.tier /\ status'[s] = InitialStatus(r)
        /\ UNCHANGED <<step, fetching, served>>
        /\ Skill!Publish(s)
    BY <1>0 DEF Commit, readVars
  <2>2. /\ \E x : status' = [status EXCEPT ![s] = x]
        /\ \E x : tierCD' = [tierCD EXCEPT ![s] = x]
        /\ evidence' = evidence \/ \E x : evidence' = [evidence EXCEPT ![s] = x]
        /\ lister' = lister \/ lister' = [lister EXCEPT ![s] = "author"]
    BY <2>1 DEF Skill!Publish
  <2>3. QED
    BY <1>1, <2>1, <2>2 DEF Typed, TypeOK, SkillsTyped
<1>4. status'[s] = "listed" => ~request[r].upload.tier /\ request[r].verdict = "clean"
  BY <1>3 DEF InitialStatus
<1>5. status'[s] \in {"listed", "pending_review"}
  BY <1>3 DEF InitialStatus
<1>6. status'[s] = "listed" => Allowed(s)'
  BY <1>1, <1>4 DEF Allowed
<1>7. \A t \in Skills : t # s => (Allowed(t)' <=> Allowed(t))
  BY <1>1, <1>3 DEF Allowed
<1>8. \A t \in Skills :
        /\ status'[t] # "absent" => tierCD'[t] = record'[t].upload.tier
        /\ lister'[t] = "admin" => status'[t] \in {"listed", "unlisted"}
        /\ status'[t] \in {"listed", "unlisted"} => Allowed(t)'
        /\ served'[t] > 0 => status'[t] # "absent" /\ Allowed(t)'
  BY <1>1, <1>2, <1>3, <1>5, <1>6, <1>7 DEF Cleared
<1>9. \A q \in Downloads :
        step'[q] = "send" => status'[fetching'[q]] # "absent" /\ Allowed(fetching[q])'
  BY <1>2, <1>3, <1>7 DEF Cleared
<1>10. QED
  BY <1>3, <1>8, <1>9 DEF Cleared

LEMMA SendCleared ==
  ASSUME Typed, Cleared, NEW q \in Downloads, Send(q)
  PROVE  Cleared'
<1>1. /\ UNCHANGED <<skillVars, record>> /\ step[q] = "send"
      /\ step' = [step EXCEPT ![q] = "idle"] /\ fetching' = [fetching EXCEPT ![q] = None]
      /\ served' = [served EXCEPT ![fetching[q]] = @ + 1]
  BY DEF Send, EndDownload
<1>2. /\ \A p \in Downloads : step'[p] = "send" => step[p] = "send" /\ fetching'[p] = fetching[p]
      /\ \A s \in Skills : s # fetching[q] => served'[s] = served[s]
  BY <1>1 DEF Typed, TypeOK, DownloadsTyped
<1>3. \A s \in Skills : Allowed(s)' <=> Allowed(s)
  BY <1>1, QuietAllowed
<1>4. \A p \in Downloads : step[p] = "send" => fetching[p] \in Skills
  BY DEF Typed, Aimed
<1>5. UNCHANGED <<status, tierCD, lister>>
  BY <1>1 DEF skillVars
<1>6. QED
  BY <1>1, <1>2, <1>3, <1>4, <1>5 DEF Cleared

LEMMA NextCleared == Typed /\ Cleared /\ [Next]_vars => Cleared'
<1> SUFFICES ASSUME Typed, Cleared, [Next]_vars PROVE Cleared'
  OBVIOUS
<1>1. ASSUME UNCHANGED <<skillVars, record, readVars>> PROVE Cleared'
  BY <1>1, QuietCleared DEF readVars
<1>2. ASSUME NEW r \in Requests,
             \/ \E u \in Uploads, i \in Idems : Authenticate(r, u, i)
             \/ CheckReplay(r) \/ CheckVersion(r) \/ Scan(r) \/ StoreUpload(r) \/ StoreArtifact(r)
             \/ Refuse(r) \/ Respond(r) \/ Abandon(r)
      PROVE  Cleared'
  BY <1>1, <1>2 DEF Authenticate, CheckReplay, CheckVersion, Scan, StoreUpload, StoreArtifact,
                    Refuse, Respond, Abandon
<1>3. ASSUME NEW q \in Downloads,
             (\E s \in Skills : Look(q, s)) \/ Read(q) \/ Count(q) \/ Drop(q)
      PROVE  Cleared'
  <2>1. UNCHANGED <<skillVars, record, served>>
    BY <1>3 DEF Look, Read, Count, Drop
  <2>2. \A p \in Downloads : step'[p] = "send" =>
          /\ fetching'[p] = fetching[p]
          /\ step[p] = "send" \/ (fetching[p] \in Skills /\ status[fetching[p]] = "listed")
    <3>1. ASSUME NEW p \in Downloads, p # q PROVE step'[p] = step[p] /\ fetching'[p] = fetching[p]
      BY <1>3, <3>1 DEF Look, Read, Count, Drop, EndDownload, Typed, TypeOK, DownloadsTyped
    <3>2. CASE Count(q)
      BY <3>1, <3>2 DEF Count, Countable, EndDownload, Typed, Aimed, TypeOK, DownloadsTyped
    <3>3. CASE ~Count(q)
      BY <1>3, <3>1, <3>3 DEF Look, Read, Drop, EndDownload, Typed, TypeOK, DownloadsTyped
    <3>4. QED
      BY <3>2, <3>3
  <2>3. QED
    BY <2>1, <2>2, QuietCleared
<1>4. ASSUME (\E a \in Authors : Revoke(a)) \/ (\E object \in Objects : Damage(object))
      PROVE  Cleared'
  BY <1>1, <1>4 DEF Revoke, Damage
<1>5. CASE PowerFailure
  BY <1>5, QuietCleared DEF PowerFailure
<1>6. QED
  BY <1>1, <1>2, <1>3, <1>4, <1>5, ReviewCleared, CommitCleared, SendCleared DEF Next, vars

LEMMA InitCleared == Init => Cleared
BY DEF Init, Skill!Init, Cleared

\* Each download about to be sent, and each one sent, was counted.
Sending(s) == {q \in Downloads : step[q] = "send" /\ fetching[q] = s}

LEMMA SendingFinite == \A s : IsFiniteSet(Sending(s)) /\ Cardinality(Sending(s)) \in Nat
BY DownloadsAssumption, FS_Subset, FS_CardinalityType DEF Sending

LEMMA NextCounted == Typed /\ SentWasCounted /\ [Next]_vars => SentWasCounted'
<1> SUFFICES ASSUME Typed, SentWasCounted, [Next]_vars, NEW s \in Skills
             PROVE  served'[s] + Cardinality(Sending(s)') <= downloads'[s]
  BY DEF SentWasCounted, Sending
<1>1. served[s] + Cardinality(Sending(s)) <= downloads[s]
  BY DEF SentWasCounted, Sending
<1>2. /\ served[s] \in Nat /\ downloads[s] \in Nat
      /\ Cardinality(Sending(s)) \in Nat /\ IsFiniteSet(Sending(s))
  BY SendingFinite DEF Typed, TypeOK, DownloadsTyped
<1>3. ASSUME NEW q \in Downloads, Sending(s)' \in {Sending(s), Sending(s) \ {q}},
             UNCHANGED <<served, downloads>>
      PROVE  served'[s] + Cardinality(Sending(s)') <= downloads'[s]
  <2>1. Cardinality(Sending(s)') \in Nat /\ Cardinality(Sending(s)') <= Cardinality(Sending(s))
    <3>1. Sending(s)' \in SUBSET Sending(s)
      BY <1>3
    <3>2. /\ IsFiniteSet(Sending(s)')
          /\ Cardinality(Sending(s)') <= Cardinality(Sending(s))
      BY <1>2, <3>1, FS_Subset
    <3>3. QED
      BY <3>2, FS_CardinalityType
  <2>2. QED
    BY <1>1, <1>2, <1>3, <2>1
<1>4. ASSUME UNCHANGED readVars
      PROVE  served'[s] + Cardinality(Sending(s)') <= downloads'[s]
  BY <1>1, <1>4 DEF readVars, Sending
<1>5. ASSUME NEW q \in Downloads, (\E t \in Skills : Look(q, t)) \/ Read(q) \/ Drop(q)
      PROVE  served'[s] + Cardinality(Sending(s)') <= downloads'[s]
  <2>1. Sending(s)' \in {Sending(s), Sending(s) \ {q}}
    <3>1. \A p \in Downloads : p # q => step'[p] = step[p] /\ fetching'[p] = fetching[p]
      BY <1>5 DEF Look, Read, Drop, EndDownload, Typed, TypeOK, DownloadsTyped
    <3>2. step'[q] # "send"
      BY <1>5 DEF Look, Read, Drop, EndDownload, Typed, TypeOK, DownloadsTyped
    <3>3. Sending(s)' = Sending(s) \ {q}
      BY <3>1, <3>2 DEF Sending
    <3>4. QED
      BY <3>3
  <2>2. UNCHANGED <<served, downloads>>
    BY <1>5 DEF Look, Read, Drop
  <2>3. QED
    BY <1>3, <2>1, <2>2
<1>6. ASSUME NEW q \in Downloads, Count(q)
      PROVE  served'[s] + Cardinality(Sending(s)') <= downloads'[s]
  <2>1. /\ q \notin Sending(s) /\ served' = served /\ fetching[q] \in Skills
        /\ \A p \in Downloads : p # q => step'[p] = step[p] /\ fetching'[p] = fetching[p]
    BY <1>6 DEF Count, EndDownload, Sending, Typed, Aimed, TypeOK, DownloadsTyped
  <2>2. CASE Countable(fetching[q])
    <3>1. /\ downloads' = [downloads EXCEPT ![fetching[q]] = @ + 1]
          /\ step'[q] = "send" /\ fetching' = fetching
      BY <1>6, <2>2 DEF Count, Typed, TypeOK, DownloadsTyped
    <3>2. CASE fetching[q] = s
      <4>1. Sending(s)' = Sending(s) \cup {q}
        BY <2>1, <3>1, <3>2 DEF Sending
      <4>2. Cardinality(Sending(s)') = Cardinality(Sending(s)) + 1
        BY <1>2, <2>1, <4>1, FS_AddElement
      <4>3. downloads'[s] = downloads[s] + 1
        BY <3>1, <3>2 DEF Typed, TypeOK, DownloadsTyped
      <4>4. QED
        BY <1>1, <1>2, <2>1, <4>2, <4>3
    <3>3. CASE fetching[q] # s
      <4>1. Sending(s)' = Sending(s)
        BY <2>1, <3>1, <3>3 DEF Sending
      <4>2. downloads'[s] = downloads[s]
        BY <3>1, <3>3 DEF Typed, TypeOK, DownloadsTyped
      <4>3. QED
        BY <1>1, <2>1, <4>1, <4>2
    <3>4. QED
      BY <3>2, <3>3
  <2>3. CASE ~Countable(fetching[q])
    <3>1. step'[q] = "idle" /\ downloads' = downloads
      BY <1>6, <2>3 DEF Count, EndDownload, Typed, TypeOK, DownloadsTyped
    <3>2. Sending(s)' = Sending(s)
      BY <2>1, <3>1 DEF Sending
    <3>3. QED
      BY <1>1, <2>1, <3>1, <3>2
  <2>4. QED
    BY <2>2, <2>3
<1>7. ASSUME NEW q \in Downloads, Send(q)
      PROVE  served'[s] + Cardinality(Sending(s)') <= downloads'[s]
  <2>1. /\ step[q] = "send" /\ step'[q] = "idle" /\ downloads' = downloads
        /\ served' = [served EXCEPT ![fetching[q]] = @ + 1]
        /\ \A p \in Downloads : p # q => step'[p] = step[p] /\ fetching'[p] = fetching[p]
    BY <1>7 DEF Send, EndDownload, Typed, TypeOK, DownloadsTyped
  <2>2. Sending(s)' = Sending(s) \ {q}
    BY <2>1 DEF Sending
  <2>3. CASE fetching[q] = s
    <3>1. q \in Sending(s) /\ served'[s] = served[s] + 1
      BY <2>1, <2>3 DEF Sending, Typed, TypeOK, DownloadsTyped
    <3>2. Cardinality(Sending(s)') = Cardinality(Sending(s)) - 1
      BY <1>2, <2>2, <3>1, FS_RemoveElement
    <3>3. QED
      BY <1>1, <1>2, <2>1, <3>1, <3>2
  <2>4. CASE fetching[q] # s
    <3>1. Sending(s)' = Sending(s) /\ served'[s] = served[s]
      BY <2>1, <2>2, <2>4 DEF Sending, Typed, TypeOK, DownloadsTyped
    <3>2. QED
      BY <1>1, <2>1, <3>1
  <2>5. QED
    BY <2>3, <2>4
<1>8. CASE PowerFailure
  <2>1. Sending(s)' = {} /\ UNCHANGED <<served, downloads>>
    BY <1>8 DEF PowerFailure, Sending
  <2>2. Cardinality(Sending(s)') = 0
    BY <2>1, FS_EmptySet
  <2>3. QED
    BY <1>1, <1>2, <2>1, <2>2
<1>9. QED
  BY <1>4, <1>5, <1>6, <1>7, <1>8
     DEF Next, vars, Authenticate, CheckReplay, CheckVersion, Scan, StoreUpload, StoreArtifact,
         Commit, Refuse, Respond, Abandon, Review, Revoke, Damage

LEMMA InitCounted == Init => SentWasCounted
<1> SUFFICES ASSUME Init, NEW s \in Skills
             PROVE  served[s] + Cardinality(Sending(s)) <= downloads[s]
  BY DEF SentWasCounted, Sending
<1>1. Sending(s) = {} /\ served[s] = 0 /\ downloads[s] = 0
  BY DEF Init, Sending
<1>2. Cardinality(Sending(s)) = 0
  BY <1>1, FS_EmptySet
<1>3. QED
  BY <1>1, <1>2

\* Whatever was sent had been let through, and was counted: for any number of
\* downloads, publications and decisions at once.
THEOREM SentIsRight == Spec => []SentRightly
<1>1. Cleared => SentWasAllowed
  BY DEF Cleared, SentWasAllowed, Allowed
<1>2. QED
  BY <1>1, InitTyped, NextTyped, InitCleared, NextCleared, InitCounted, NextCounted, PTL
     DEF Spec, SentRightly
=============================================================================
