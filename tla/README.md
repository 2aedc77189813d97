# Verification of ori-skills-hub

TLA+ models of the hub, the TLC runs that check them on small instances, and
the theorems about them that TLAPS proves for instances of any size. Every
definition is translated from the code under `src/`; `PROJECT.json` maps each
one to its lines.

## 1. The system

ori-skills-hub is a FastAPI service over SQLite and a directory of immutable
objects. Authors publish signed skill archives, a background worker has them
scanned by VirusTotal, and an administrator reviews what policy does not decide.

| Component | State | Operations | Status |
|---|---|---|---|
| Scan queue (`db/scans.py`) | `scan_jobs`: state, attempts, analysis id, owner, lease, next attempt; `scan_events` | claim, record submission / polling / retry, complete | modelled |
| Scan worker (`core/scan_worker.py`, `web/main.py`) | the job in hand, local to one `run_once` | submit, poll, retry or exhaust, shut down | modelled |
| Registry (`db/repository.py`, `core/review.py`, `web/admin.py`) | `artifacts`, `skill_versions`, `skill_transition_audit` | publish, approve, reject, unlist, list, count a download | modelled |
| Database guards (`db/_models.py`, `db/session.py`) | none of their own | the triggers and constraints every write runs under | partly |
| Author identities (`db/_identity_repository.py`, `security/author_identity.py`, `web/authors.py`) | `authors`, `author_keys`, `author_credentials`, `author_identity_audit` | register, rotate key, rotate credential, revoke, authenticate | modelled |
| Publish pipeline (`core/publish.py`, `web/skills.py`) | the request in hand | check replay, verify, check conflict, scan, sign, store, commit; download | modelled |
| Object store (`storage/objects.py`) | files `objects/sha256/<digest>` and temporary files | store, read | modelled |
| Provider client (`integrations/scan.py`) | a scan's deadline and pauses | scan; submit, look up; classify an answer | modelled |
| Metadata validation (`core/validation.py`, `core/review.py`) | what was read of one document | accept or refuse a manifest, decide on review | modelled |
| Archives (`storage/tarball.py`) | what was seen of one archive | inspect, rebuild around the signed manifest | modelled |
| Keys and signatures (`security/hub_keys.py`, `security/signing.py`) | key files | generate, clean up, load; sign, verify | partly |
| Schema migrations (`migrations/`) | the schema, `alembic_version` | upgrade and downgrade by four revisions | modelled |
| Configuration (`core/config.py`) | none (pure) | parse the environment | partly |
| Repository scripts (`scripts/`) | – | – | not modelled |

How they interact. A publish request authenticates against the identity tables,
verifies the upload, writes two objects to the store and commits artifact, job,
first audit row and skill version in one transaction. A worker claims the job
under a lease, reads the stored upload, calls the provider in a thread and
writes the answer back in a transaction that also makes the visibility
transition a verdict forces. The administrator's transitions write the same
tables. Nothing is shared but the database and the directory: every
interference is between transactions, and every guard against it is either a
`WHERE` clause, a unique constraint or a trigger.

What is hard here:

- a worker that is slow, crashed or shut down while another takes its job over;
- clocks read before the transaction whose condition they decide;
- the provider call, which happens outside any transaction and is not undone;
- reads and writes of one request in different transactions (retries, identity
  requests, publication checks);
- transitions of two actors, scanner and administrator, on one skill;
- triggers that abort a write the application let through;
- objects and rows that must agree although no transaction spans both;
- time: a lease, the length of a call, pauses asked for by two parties and the
  age of a job, configured apart from each other;
- schema changes that the database driver commits one by one;
- key files written one by one into a directory somebody else may be given;
- rules over one document or archive that must hold in whatever order its
  parts come.

What makes each component right:

- *queue*: only the last claim of a job writes to it; each provider call is
  in an attempt of its own and within the budget; every job settles; the event
  log ends where the row is.
- *visibility*: nothing is listed without evidence, nothing malicious stays
  visible or pending, Tier C and D skills and inconclusive scans are listed by
  a human, nothing waits for review out of the administrator's sight.
- *identities*: one live key and one live credential per active author, keys
  and credentials never come back, of rotations decided on one revision one is made, the audit
  trail replays to the tables, a revocation is always available.
- *object store*: a digest names whole, durable bytes or nothing, from the
  moment `store` returns, whatever crashes.
- *publication*: one version per name and one publication per idempotency
  key, committed only for an active author and only over stored objects.
- *the hub as a whole*: a worker finds what a request stored for it, and whatever was
  downloaded is justified by the rows that request, worker and administrator wrote.
- *provider client*: clean only by a harmless majority; a scan ends within its
  wait, whatever the provider does, and does not flood it.
- *time*: the provider is asked by one worker at a time and not before it said,
  and a job ends soon after its maximum age.
- *migrations*: a hub that serves after an upgrade has every guard, and no
  history is deleted or invented.
- *key files*: a failed generation leaves nothing, a successful one is whole,
  and the hub signs each profile with the key configured for it.
- *archives*: what passes is one portable tree with one manifest, within the
  limits, and nothing else is refused.
- *metadata*: what is listed without a human is harmless, Tier D is run by rule.

## 2. Plan

In this order, the most important behaviour first.

1. `SkillLifecycle` – the promise about visibility. **Done.**
2. `ScanQueue`, `MCScanQueue`, `ScanQueueProofs` – queue, worker, administrator
   and guards; implements `SkillLifecycle`. **Done.**
3. `IdentityLifecycle`, `AuthorIdentity`, `MCAuthorIdentity`,
   `AuthorIdentityProofs` – identities; the second implements the first.
   **Done.**
4. `ObjectPromise`, `ObjectStore`, `MCObjectStore`, `StorageProofs` – the
   content-addressed store under failures, power cuts and concurrent calls; the
   second implements the first. **Done.**
5. `Publication`, `MCPublication`, `PublicationProofs` – publication and
   download, composed with what the other parts promise: `SkillLifecycle`
   (which `ScanQueue` implements), `ObjectPromise` (which `ObjectStore`
   implements) and, of identities, that a revocation is final. **Done.**
6. `Requests`, `Scanner`, `MCScanner`, `TimingProofs` – the synchronous scan of the provider
   client and its verdict. **Done.**
7. `Migrations`, `MCMigrations`, `StorageProofs` – the four schema revisions,
   statement by statement. **Done.**
8. `KeyMaterial`, `MCKeyMaterial`, `KeyMaterialProofs` – key files, generated and
   loaded. **Done.**
9. `ArchivePaths` – the inspection of an archive against a definition that knows no
   order, and the rebuild. **Done.**
10. `SkillContract` – the rules about tiers and the decision on review; `Upload`,
    `MCUpload`, `UploadProofs` – the two as publishing puts them together. **Done.**
11. `ScanTiming`, `MCScanTiming`, `TimingProofs` – the times of the queue as numbers
    on one clock. **Done.**
12. `Hub`, `MCHub`, `HubProofs` – `ScanQueue` and `Publication` over one database and
    one object store. **Done.**

Worth doing next: the clocks of several machines in `ScanTiming`, which has one.

No module with theorems uses a RECURSIVE operator.

## 3. ScanQueue

**State.** One entry per skill version for its `scan_jobs` row (`jobState`,
`attempts`, `analysis`, `owner`, `live`, `due`, `aged`), the last `scan_events`
row (`lastEvent`), its `skill_versions` row (`status`, `tierCD`, `approvedBy`)
and audit trail (`audit`). One entry per worker for the run in progress: where
it is (`pc`), the record as it was when claimed (`task`), what it decided to
write (`op`), the state a retry read again (`fetched`) and whether the lease held
at the clock reading the write uses (`inTime`). `calls` (the attempts that called
the provider, one entry per call, in order) and `faults` are history.

**Steps.** A transaction is one step; between two transactions of a worker
anything else may happen.

| Action | Code |
|---|---|
| `Publish` | `create_publication` with the insert triggers |
| `AdminTransition` | `transition_skill` with the audit triggers |
| `Claim` | `claim_due`, `_expired`, dispatch in `_process` |
| `Submit`, `Poll` | the provider call and what its outcome leads to; `Submit` is `Offer` or, where no upload is stored, `FindNothing` |
| `Raise` | an exception nobody catches: `run_worker` logs it and goes on, the lease stays |
| `Reread` | `record_retry`'s own read of the job |
| `ReadClock` | the `now` each writer takes before its transaction |
| `RecordProgress`, `Complete`, `Refused` | the guarded `UPDATE`, the event, the transition; or no row, or an abort |
| `BecomeDue`, `GrowOld`, `LeaseExpires` | `next_attempt_at`, the maximum age and `lease_expires_at` pass |
| `Crash` | the process stops at an `await`; it comes back under a fresh worker id, so its leases name nobody (`Gone`) |

**Abstractions.** Time is the outcome of the comparisons the code makes (`due`,
`live`, `aged`); a boolean may change at any moment, so every relative timing of
two clocks is covered. The age read at a claim may be stale (`seenAged`). The
order of claims (`ORDER BY next_attempt_at`) is left open, which allows more.
An analysis identifier is the number of the attempt that submitted. A call
handed to a thread may still go out after its worker died. Evidence text,
counters and metrics are left out. Idempotency keys and the author's status
belong to module `Publication`.

**Run.** `queue` (1 skill, 2 workers, 3 attempts, 2 faults) shows that

- nothing is listed but with the evidence and by whom policy demands
  (`ListedRightly`), and nothing waits for review unseen (`NothingStranded`);
- the audit trail and the event log end where the rows are (`LogsAgree`), a worker
  polls the analysis on record (`PollsRecorded`) and no trigger aborts a write that
  its `WHERE` clause let through (`GuardsSilent`);
- writes are fenced (`FencedCommit`), and a job calls the provider at most once
  in an attempt and at most `MaxAttempts` times in all (`CallBudget`);
- the queue implements `SkillLifecycle`, and every job settles.

Why these bounds are enough to meet the interesting cases: jobs share nothing
but the workers, and a worker has one job at a time, so one job shows a job's whole
life; for several jobs there are the proofs. Two workers are what a takeover
needs, a third adds another of the same kind. Three attempts give submission,
poll and retry in one life, and the attempt after the last. Two faults allow a
crash during the recovery from a lapsed lease. `MaxFaults` bounds crashes, failed
writes and leases that run out under a worker still at the job; leases left by a
crash or an error lapse freely. The proofs hold for all of these without bound.
Deadlock is not checked: when every skill is decided and no fault is left the
instance is done.

**Fairness** (`FairSpec`). `next_attempt_at` and `lease_expires_at` are
absolute times, so they pass (`BecomeDue`, `LeaseExpires`). `run_worker` loops
for ever, goes on after any exception and is started with the application, so a
worker that can claim something eventually does, and one in a run eventually
takes its next step: the provider call has a request timeout, the database a busy
timeout. Nothing is assumed of the provider's answers, and no fairness makes a
crash or an error stop; their number is bounded because each uses up an attempt
or a fault. With weak fairness on "claims something" a worker is never obliged to
claim a particular job; finitely many jobs with a bounded budget settle anyway.

## 4. AuthorIdentity

**State.** The four tables: `status`, `revision`, `publicKey` (`authors`),
`keyOwner`, `keyStatus`, `credOwner`, `credStatus`, and `audit` per author; and
`pending`, what each request in flight read.

**Steps.** `rotate_key`, `rotate_credential` and `revoke_author` select the
author, key and credential and then insert. The SQLite driver opens a
transaction at the first `INSERT`, not at a `SELECT`, so those reads are outside
the write transaction: each request is a read step (`ReadForKey`,
`ReadForCredential`, `ReadForRevocation`) and later a `Write`, a `Conflict` (a
constraint or trigger aborts) or an `Abandon` (server or client gone).
Several selects are one read step because a change between two of them moves the
revision away from what was read, and the write is a conflict either way.
`register_author` inserts first and is one step. `Write` applies what the
`author_identity_audit_apply_*` triggers apply, under what
`author_identity_audit_validate_ownership` demands.

**Abstractions.** A row is `pending` only inside a transaction. No code sets a
credential to `expired`; that `expires_at` lies ahead is a parameter of `Accepts`.
The revision a caller expects is compared with the one read, so the two are one
number. There is one configured administrator, so an idempotency key is unique
everywhere. Tokens are random and never repeat. A read that ends in 404 or 409
changes nothing and is a stutter. The partial unique indexes on active rows are
left out on purpose: `OneLiveIdentity`, a part of
`IdentityTold`, shows they never have to fire.

**Runs.** `identity_safety` (2 authors, 3 keys, 3 credentials, 2 requests,
4 idempotency keys) shows one live identity, an audit trail that replays to the
tables, that only the credential in force authenticates (together `IdentityTold`),
and that the tables implement `IdentityLifecycle`. There a request holds the revision it
read until it is done (`sees`), and a rotation is made only of that revision; so of two
rotations that read the same one a single one is made, and none changes an identity its
caller did not see. Two requests are what an overlap needs;
four audit rows allow registration, two overlapping changes and one after
them, or two authors with one change each; a third key and credential let a
second rotation follow the first and an author try a key another holds. Every
audit row uses up one idempotency key, which bounds the run. Symmetry is sound:
the properties have no liveness part and treat the sets alike.

`identity_revocation` (1 author, 2 keys and credentials, 2 requests) is a
disagreement between document and code. `src/README.md:145` says a revocation
"is an unconditional safety action that must remain available after intervening
identity changes". It asks its caller for no revision, but `revoke_author`
(`_identity_repository.py:311`) numbers its audit row from the revision it read
before its first `INSERT`, and names the key and credential it read; if a
rotation commits in between, the ownership trigger (`_models.py:703`) aborts the
write, the caller gets `409`, and the author is still active. The trace has three
steps after registration: a rotation reads, the revocation reads, the rotation
writes. A second try of the same request succeeds, so nothing is lost but the
promise.

## 5. ObjectStore

**State.** For each digest what a read sees now (`bytes`), and whether its bytes
and its directory entry are on disk (`synced`, `named`); for each call of `store`
where it is (`pc`) and which digest it stores (`want`). `promised` and `faults`
are history.

**Steps.** Each system call of `store` is one: `Open`, `Write`, `Sync`, `Link`,
`Compare` (after `FileExistsError`), `SyncDirectory`, `Return`. `Fail` is an
exception or the death of the process anywhere in between. `PowerFailure` takes
away any entries not synced and tears any bytes not synced; `Damage` changes a
file from outside. The file system is external: a link is visible at once, `fsync`
of a file makes its bytes durable, `fsync` of the directory all entries made
before it.

**Abstractions.** A temporary file has a random name, so it is not shared and not
in the model; one that a crash leaves behind stays for good and costs only space.
That the directory itself is durable is assumed: `__init__` creates it long
before the first publication.

**Run.** `object_store` (2 digests, 3 calls, 3 faults) checks `ObjectsAreSafe`, which is
`ReturnedIsDurable` and `NoTornObject`: a digest that was returned
is durable even if the call only found the object another call was still
storing; nothing leaves a partial object under a digest, which would block that
digest for good; the calls implement `ObjectPromise`. Three calls let one link,
one find and one arrive later; three faults a failure, a power cut and damage in
one behaviour; directory syncs reach across digests, hence two. `NoTornObject`
depends on the order write, sync, link; `ReturnedIsDurable` on the directory sync
that the call that found the object makes too.

## 6. Publication

**State.** The variables of `SkillLifecycle` and `ObjectPromise`, whose actions
are used as they are; `revoked` authors; `deferred`, whether scans are left to the
worker; `record`, what a publication wrote (`artifacts`, first audit row). Each
publish request has a place (`pc`) and the variables of `publish_skill`
(`request`), each download a place (`step`) and the row it found (`fetching`).
`downloads` is the counter, `served` is history.

| Action | Code |
|---|---|
| `Authenticate` | `require_author`, headers, upload |
| `CheckReplay` | `publication_recorded_for_idempotency_key`, then signature, archive and manifest |
| `CheckVersion` | `skill_version_exists` and the choice between the two kinds of scan |
| `Scan` | `_scan_with_timeout`, `_verdict_for` |
| `StoreUpload`, `StoreArtifact` | the two calls of `store`; each is "appears" and then "is promised" |
| `Commit`, `Refuse` | `create_publication`: the transaction, or the constraint or trigger that aborts it |
| `Respond` | the answer 201 or 202; until then the process may die with the row committed |
| `Abandon` | an error 422, 500 or 503, a dead process, a client gone |
| `Look`, `Read`, `Count`, `Send`, `Drop` | `get_listed_skill`, `storage.read`, `increment_downloads`, the response, its failure |
| `Review`, `Revoke`, `Damage`, `PowerFailure` | steps of the other parts |

**Abstractions.** An upload is its skill version, author and tier, as its verified
manifest says. The rebuild is deterministic (`mtime=0`) and so are the
signatures, so an upload determines its artifact. A commit is durable (SQLite in
WAL mode syncs on commit by default). An upload that does not verify changes
nothing and ends in `Abandon`; so does a store that finds a damaged object. The
trigger at `_models.py:139` asks at the commit whether the author is active; a
rotation of key or credential does not stop a request already authenticated, and
the code does not claim it does. A conflict caused by a revocation is answered
with the same words as one caused by an existing row; `AnswersAreTrue` therefore
allows it as a reason.

**Run.** `publication` (1 author, 2 skill versions, 2 requests, 2 keys, 1 download, 1
damaged object, counter up to 1) shows that rows have their objects, the artifact that is
downloaded and the upload that a scan job needs (`RecordsHaveObjects`), an author's key is
spent once, answers stay true, and that what is sent was let through and was counted first
(`SentRightly`). An unlisting after the count does not stop the response, and the property
does not say so. That an author who is revoked publishes nothing more, and that an
unlisted skill is not counted, are each one guard of one step (`Admissible`, `Countable`),
and no property restates them.

Two requests meet in one of two ways, over the skill version or over the key, and
either may happen, as each request picks its upload and its key. The two uploads differ
in tier, so that both decisions of `publish_decision` occur. `RaceOrDownload` keeps the
state space small: two requests race while nothing has been downloaded or damaged, and a
download or a damage happens beside at most one request. A second request has no
part in what a download reads or counts. The theorems take any number of all of them,
at once. `MaxDownloads` and `MaxDamage` are the bounds; there is no fairness, nothing
here has to happen. Deadlock is checked.

## 7. Scanner

**State.** Of the provider, what each engine has reported (`votes`) and how far
the analysis is (`analysis`). Of the client, one call of
`VirusTotalScanner.scan`: the request under way (`stage`), the `timeout` it was
given, what is `left` to the deadline, the next pause (`backoff`) and the
`result`. `polls` is history.

| Action | Code |
|---|---|
| `Scan` | `scan` up to the upload: no key, nothing to send, too much of it, or a request |
| `Uploaded` | the answer to the upload, the deadline, the first poll |
| `Queued` | an answer "not done", the deadline, the pause, the deadline, the next poll |
| `Completed` | `_completed_verdict` |
| `Failed` | every `except` of `scan`, and an answer that breaks the contract |
| `Report`, `Finish` | the provider (external) |

**Abstractions.** Time is in whole ticks and passes in the client's steps, those
the code spends in a request or a pause; what the code computes in between takes
none. A request takes any time up to its timeout plus `Overrun` (`Lengths` in `Requests`,
which `ScanTiming` shares), since the HTTP library applies a timeout to each read and write
rather than to the whole. What has a name in `ScanTiming`, too, is called the client's
(`ClientInit`, `ClientNext`, `ClientSpec`, `ClientTypeOK`), so that `TimingProofs` can extend
both; `InitialPause` and `MaxPause` are the client's own backoff, not the worker's. `votes`
are the engines' and the counts the provider sends are counted from them; that
the provider counts right is assumed, and a missing or impossible count is
`Failed`. An engine that reported nothing is in no count. The single calls
`submit` and `poll_once` of the durable worker have neither deadline nor pauses;
their outcomes are the answers of `ScanQueue`. `_scan_with_timeout`, which may
give up on a scan that goes on in its thread, is in `Publication`.

**Run.** `scanner` (4 engines, wait of 9 ticks, requests of 3, pauses of 1, 2, 3,
overrun 1): a clean verdict has a majority, the caller is not held past the wait
and one overrun, polls keep the growing pauses, and every scan ends. Four engines allow a
majority, a tie and a vote that is in no count; the three pauses cover doubling
and the limit; nine ticks hold the pauses of four polls and let the deadline cut a
pause or a timeout. The only fairness is that a request or pause under way ends, by its
timeout if nothing else; the provider may say "not done" for ever, and answer at once.
`MaxWait + 1` also bounds the count of polls, which stays below it since a pause takes a
tick. Deadlock is not checked: a scan that ended has nothing more to do.

## 8. ScanTiming

`ScanQueue` leaves every duration open and so covers every timing; what depends on
durations is here, for one job and the workers of several hub processes.

**State.** The clock `now` in seconds since the job was made; the `job` row (state,
`next_attempt_at`, owner, lease, attempts); each `worker`, asleep or in a call until
some time; the lease of this deployment (`leaseSeconds`, one of `Leases`); `notBefore`,
history: when the last answer allows the next call.

| Action | Code |
|---|---|
| `FindNothing` | `run_worker`: nothing to claim, a second's sleep |
| `Claim` | `claim_due` and `_expired`, then a call of any length up to `RequestTimeout + Overrun` |
| `Answer` | `_submit` and `_poll` with every kind of answer, through `_delay`, `_retry_after_seconds`, `_retry`, `_exhaust`, `_record_progress`, `complete` |
| `Close` (in `Answer`) | `complete`: the verdict is recorded; or the job is closed already and the worker goes on; or its lease is lost on an open job, `complete` raises a conflict and `run_worker` sleeps a second |
| `Crash` | the hub goes down and is up again after `Restart` |
| `Tick` | a second passes, unless somebody awake has a step to take |

**Abstractions.** Transactions take no time (`ScanQueue` is about what happens inside
them). The states "submitted" and "polling" are treated alike and are one. All hubs
read one clock: skew is not modelled. The thread of a hub that went down dies with
it. A pause in fractions of a second is one in whole seconds. The longest
`Retry-After`, 300 seconds in the code, and the default, 60, are constants, so that
a small clock meets them. The assumptions on the constants are what `load_from_env` and
`ScanWorkerPolicy` check. They do not compare the lease with the request timeout
(1 to 300 seconds against a fixed 8): `LeaseCovers` says when it is long enough, and
`NoOverlap` and `PausesKept` are claimed only then. Some worker runs, and none is named as
nobody or as a hub that is gone (`WorkersAssumption`): ids are random.

**Run.** `timing` (2 workers, leases of 1, 3 and 4 seconds, calls up to 3, age 10, 5
attempts, 2 crashes, clock to 25). Of the leases one is shorter than a call, one as long,
one covers it. With the one that does, no two calls overlap, no answer is lost
(`NoOverlap`) and no pause is cut short, whoever got the answer (`PausesKept`). With each
of them the job is closed by `LastChance`: its maximum age plus one call and one pause, or
one lease, and the time hubs were down (`ClosedInTime`), even while calls overlap and
answers are thrown away. Here that is 10 + 8 + 4 = 22, and the clock goes on for three
seconds more, so that a job still open would be seen. Workers are symmetric. Deadlock is
not checked: the clock ends.

## 9. Migrations

**State.** The database: which `pieces` are there (tables, columns, and the triggers
of a revision on a table as one piece each), of which kinds there are `rows`, and the
`revision` in `alembic_version`; what an open transaction would go back to
(`rollback`); the `command` under way; whether the hub is `serving` and whether the last
command was an upgrade to the head that succeeded (`upgraded`); `cutShort`, history: the
revisions whose downgrade ended half way and was not completed since.

Each revision is a sequence of statements, up and down, in the order of its source. A
statement needs some pieces, is barred by some, adds, removes, or refuses to go on while
there are certain rows. The specification is `SchemaSpec`, beside that of the object store
in the module that proves about both. `Give` starts a command, `Execute` does its next statement,
`Record` writes the revision and commits, `BreakOff` is a refusal, an error or a dead
process anywhere. SQLite's driver opens a transaction before the first statement that
changes rows, and not before one that changes the schema; so everything up to the
first copy of rows (`Rebuild`, what `batch_alter_table` does) is committed
statement by statement, and `BreakOff` undoes only what came after. This is external:
`migrations/env.py` asks for one transaction, and does not get it.

`Register` and `PublishNow` are the hub's writes, `Earlier` those of earlier releases at
the revision they belong to.

**Run.** `migrations` takes the revisions as they are; nothing is bounded. Upgrades and
downgrades to any revision, each of which may fail or die at any statement and be given
again, with an earlier release or the hub writing in between. A hub started after an
upgrade that succeeded has every piece that can be `Trusted`, no row is taken over by a revision that cannot
vouch for it (both in `DatabaseSound`), and no history is deleted (`HistoryKept`).

Two limits of that, both from the statements that are committed one by one:

- What a downgrade takes away is excepted while it is cut short (`cutShort`, `Trusted`);
  everything else is there all the same. The downgrade from the head
  drops its triggers first
  (`migrations/versions/c4d2a8f19b73_add_durable_scan_jobs.py:273-285`), and the revision
  is written last. If it dies in between, `alembic upgrade head` finds the head and does
  nothing, and the hub would serve without the guards of `scan_jobs` or of listings. A
  test asserts that all triggers are there after a second `upgrade head`
  (`tests/test_database.py:142`), for a database nobody downgraded. Without the exception
  `ServedWhole` does not hold.
- The hub is stopped during a command (`Give`). The downgrade of the identity revision
  counts the history and then drops its tables
  (`migrations/versions/1e9630e268d4_add_author_identity_lifecycle.py:1044`); a hub still
  up might register an author between the two, who would be deleted, although
  `src/README.md:161` says a downgrade "fails closed after an authenticated identity has
  been registered". With the hub stopped it does.

## 10. KeyMaterial

**State.** The output directory: the run that made it (`owner`) and its `files`, each
with who wrote it and whether it is empty, cut short or whole. Each run of
`ori-hub-keys generate`: where it is (`step`), its form (`shared`), the file it is at
(`position`), what it has still to look at when it cleans up (`children`), and whether
the system kept it from cleaning up (`hindered`). The start of the `hub`: the source it
reads next, what it read, or the keys it came up with.

`Look`, `MakeDirectory`, `Secure`, `OpenFile`, `WriteFile` are `generate_hub_key_material`
and `_write_private_file`, a system call each, any of which may fail; `ListDirectory`,
`CleanFile` and `RemoveDirectory` are `_clean_failed_generation`, which may itself be kept from
removing something; `Die` is a killed process. `StartHub`, `ReadSource` and `Decide` are
`load_hub_signing_keys`, reading one source after the other.

**Assumptions.** An operator may put something else into the directory (`notes`, which is
not the name of a key file) and may clear the directory away, but not while a run
is at work in it. If an operator put a file of a key's name there, a failed run would
remove it: `_clean_failed_generation` goes by names.

**Run.** `key_material` (2 runs, 35 environments): a failure that nothing
hindered leaves no key and no directory, a success is whole, and nobody overwrites or
removes what another wrote (`FailureLeavesNothing`, `SuccessIsWhole`, `OthersKept`); the
hub comes up only on a root key alone, on both profile keys, or, if it does not publish,
on no key; each from one source, whole, and each profile from its own (`UpAsConfigured`).
Two runs are what a race for the directory takes; each has every failure at every step.
`OncePerSource` has each source unset, given by value, by file or by both, in every
combination but those that give one source twice and a second one, too; beside malformed
values and hubs that publish. `RaceOrStart` keeps the state space small: two runs race while the hub is
down, and the hub starts beside one run. That it might read a key whose file a generation
still under way later removes is possible and not claimed otherwise.

## 11. ArchivePaths

**State.** What `_inspect_tarball` remembers: the `members` read, the folded paths of
files and of directories (`seen_paths`), every prefix as it was spelled
(`seen_prefix_spellings`), the `total` of sizes and the `manifests`; which `pass` it is,
of the upload or of what was rebuilt from it; and of the `archive` its compressed size and
that of the tar stream in it.

`Decompress` asks whether these two are within their limits (`oversized` if not);
`Inspect` is one member with every check of `_inspect_tarball`; `EndOfStream` asks for the
manifest and the package root; `Unreadable` is a malformed gzip or tar stream or a manifest
that is not strict YAML; `Rebuild` puts the signed manifest in place and starts the second
inspection. `rebuild_tarball` compares the compressed size once itself and once more in
the second inspection; both are the one `Decompress`.

**Abstractions.** A path is a sequence of components with a fold; that a component is
not portable is a set (`Forbidden`). A size after compression is any of `ArchiveSizes`,
since what `gzip` makes of a stream cannot be told from its length. An upload's stream has
any of `ExpandedSizes` that the members in it, at a header block and their payload each,
leave room for (`Least`). The rebuilt stream is as long as `tarfile` writes it (`Stream`):
what it spends on headers depends on name and kind (`Headers`, a constant, because a long
name takes more than a block), payloads are filled up to blocks, and the whole to
`RecordSize`. That the two libraries read back what they wrote is not assumed: `Unreadable`
may happen in both passes. A prefix recorded for a member that is then
refused does not matter, since the inspection ends there.

**Reference.** `Acceptable` says what an archive must be without saying in which order
its members come or what is remembered of them: `Portable` (no two paths alike where case
does not matter, one spelling, nothing below a file), `OneManifest`, `Within`.

The run and the proofs are those of `Upload`, in section 12.

## 12. SkillContract

**State.** What `validate_skill_metadata` has read: `triggers`, the tiers of the declared
`actions`, the `defaults` of the first triggers; `step`, and the `decision` of
`publish_decision`.

`ReadTrigger`, `EndTriggers`, `ReadAction`, `EndActions`, `ReadDefaults` and `Decide` follow the
validator in its order. `FindFault` stands for every check no other depends on: a field
missing or of the wrong type, too long, repeated, a prompt with too many
placeholders. It may come at any step, and ends the validation.

**Upload.** `publish_skill` inspects the archive (`Inspection`), validates the metadata of
one that passed and decides on it (`Validation`), and rebuilds the archive only around what
was accepted (`Rebuilding`). Whatever fails ends it there, as does anything else between
these calls (another author's handle, a version that is taken): then no further step is taken.

**Runs.** `upload` takes any archive around the plainest metadata, and any metadata in the
plainest archive (`OneOfThemPlain`): the rules of the one read nothing of the other.

- Archives: 12 paths, up to 3 members, sizes 0, 1 and 2, a file and the total up to 2, a
  manifest up to 1; blocks of 2 and records of 8, a header of 2 or, for paths of three
  components, of 6; a stream of up to 16, compressed up to 1, with uploads at and over both
  limits. What passes is `Acceptable` and not over these, and what is refused for its
  members is not `Acceptable` (`VerdictRight`). A rebuilt archive is refused exactly if it
  has outgrown a limit on sums: its files together, its stream, or its compressed size
  (`RebuiltRefusedForSize`). The last two depend on the tar writer and the compressor and
  may refuse an archive whose upload was accepted. The
  paths have two spellings of a directory and of the manifest, nesting, and a file in a
  directory's place, and the members come in every order: rules relate two members, and the
  third is the manifest. Totals, manifests and the number of members occur below, at and
  over their limits.
- Metadata: 2 names of triggers, 2 of actions, up to 2 of each, lists of defaults up to 2;
  every trigger there is of one name, up to choices no rule tells apart, and of the other one
  of each tier and of the policies that tell triggers apart. A skill listed without a human is
  harmless (`ListedIsHarmless`), Tier D is by rule and Tier C falls back to
  something harmless (`AuthorityContained`). Two actions let one notify of what the other
  does, and two triggers give the defaults an order.

`contract_policy`, the same upload, is **violated**: `src/README.md:302` says "physical Tier B
actions require approval or post-action policy", and the check (`validation.py:372`) is
skipped for triggers of Tier C and D; those go to review, so a human sees the skill before it
is listed, but the validator accepts it. Deadlock is not checked: an upload ends.

## 13. Hub

`Publication` relies on what `SkillLifecycle` promises of the queue, and `ScanQueue` takes
a publication as it comes. `Hub` is both at once, over one set of rows and one store:
the variables of `ScanQueue` and those of `Publication`, where `evidence` and `lister` are
computed from the queue's rows (`EvidenceOf`, `ListerOf`), the places of requests are
`stage`, and everything else of an action is that of its module.

| Action | Code |
|---|---|
| `Commit` | `create_publication`: `Publish` of the queue and `Commit` of the request are one transaction |
| `Serve` | any other step of a request or download, a revocation, damage, a power failure; none writes what belongs to the queue |
| `Work` | a step of a worker, the administrator or the clock; `Stored` is what `storage.read` finds for the job in hand |

A worker sends the upload if it is whole, sends nothing and asks for a human if none is
stored (`FileNotFoundError`), and raises if it is damaged. Web application and worker may
run in one process (`create_configured_app`) or in several, so a crash of a worker and
requests that are abandoned are separate steps, in any order. A power failure takes the
requests; the workers it takes are `Crash` steps.

**Run.** `hub` (1 skill version in either tier, 1 request, 1 worker, 2 attempts, 1 fault, 1
download, 1 damaged object) shows that a worker about to submit finds the upload stored
(`UploadsFound`), that the rows justify whatever was downloaded (`ServedRightly`), and that
the hub implements `Publication` (`ImplementsPublication`). With one skill version all
parts meet in it; the races of requests with each other are in `publication`, those of
workers in `queue`, and `PublishedOnce` leaves both out here: once the version is on record
no request starts over. Two attempts allow a retry and an exhaustion, the fault a crash or a
lost lease. Deadlock is not checked: a version that is decided on and downloaded is done.

## 14. What is proved

`ScanQueueProofs`, from the assumptions that the budget is positive, the fault
bound a natural number, and that worker, administrator, author and `Gone` are
distinct identities:

- `TypeCorrect`. The invariant is `Typed`: the types and that a worker in a run
  holds a job (`TaskOK`); without the latter a step could index the tables
  outside their domain.
- `CommitsAreFenced`, `CallsAreBudgeted`. From `Tokens`: a worker's attempt
  number is at most the job's; whoever owns the row holds its last attempt; two
  workers never hold the same attempt of one job; no two calls on record are of
  one attempt; a worker about to call is within the budget, and none of them is of its
  attempt. The attempt number is
  the fencing token that the code, which checks owner and lease, never compares;
  the invariant says why owner and lease stand for it.
- `AttemptsAreBudgeted`. From `Overrun`: beyond the budget the job is being closed
  by the run that owns it, or a fault paid for the attempt.
- `ListingNeedsEvidence`, `ListingNeedsHuman` (together `ListingIsRight`) and
  `ReviewQueueComplete`. From `Evidence`, which adds that a skill still unpublished has no
  job and that a verdict leaves no skill pending that policy decides.
- `PollsAreRecorded`, `GuardsNeverAbort`. From `Recorded`: a job has an analysis on record
  exactly from its submission on (`Submitted`), a worker about to write what a poll told
  it knows that there is one (`Judged`), and what is leased is being scanned
  (`OwnedScans`). Together with `Tokens` these are what the trigger asks for.
- `LogsStayTrue`. From `EventLog` (a job that was never queued was never claimed) and
  `Trails` (a skill has a trail from its publication on, and one row while it waits).
- `QueueImplementsLifecycle`. Each action maps to one step of `SkillLifecycle`
  or to a stutter, under `Typed` and `Evidence`.

`AuthorIdentityProofs`, from the assumption that `None` is no author, key or
credential: `TypeCorrect`; `IdentityIsSingle`, with the
strengthening that an unused key or credential has no owner and that what a
pending request names has the shape its event demands (`ReadsShaped`);
`TrailReplays` and `CredentialInForce`, from `Trail`: an author without a row has no audit
trail and an active one no revocation in it. The step is the lemma `ForceAfter`, on what
one more row leaves in force; the three together are `IdentityIsTold`; and
`TablesImplementLifecycle`, which covers what a request in flight has read: `ReadsProceed` says
that a step leaves it alone but for the request's own.

`StorageProofs`, of `ObjectStore`, from the assumption that the bound is a natural number and
`None` no digest: `TypeCorrect`, `ReturnedObjectsSurvive`, `ObjectsAreWhole` (together `ObjectsStaySafe`)
and `StoreKeepsPromise`, all from one invariant `Inv`: an object in place is not torn
and its bytes are synced; a call that links, found or keeps an object has one to
speak of, and in `kept` its entry is on disk.

And of `Migrations`, which has no constants: `SchemaTypeCorrect`, `DatabaseIsSound` and
`HistoryStays`. The commands may fail at any statement and be given again any number of
times, so what a database has is a matter of induction over its whole life. The invariant
`SchemaInv` says, besides types:

- `AtWork`: a command works on the revision next to the one recorded, the hub is down
  meanwhile, and is up only at the head; only revisions up to the one recorded can
  have a downgrade cut short.
- `Built`: what a database at its revision can be trusted to have is there, but for what the
  script has removed so far (`RemovedBy`); what the script has put there is there (`PutBy`).
- `Undoable`: an open transaction was begun by the command in progress, and goes back to as
  many rows, to the recorded revision and to all that was trusted before.
- `Screened`: no row is there that the revision bars, nor any that the script's first
  statement has refused. Nobody writes such a row while a command is at work.

The steps never look at a statement. All they ask of a revision's script is
`GoodUpgrade` or `GoodDowngrade`: an upgrade leaves what its revision adds, removes nothing
that holds rows and nothing before its first copy, so that a failure brings it back; a
downgrade removes nothing that holds history, unless its first statement has refused it or
the revision never had it; both put back what they remove of older revisions, and refuse
at first the rows that only the revision they come from allows. That the four revisions are so is `Good1` to `Good4`; a fifth needs a fifth lemma and nothing else. `NotYetTaken` is the
step of a statement, `Through` that of a script run to its end, `ExecuteKeeps` why no
statement takes history away.

`PublicationProofs`, from the assumptions that uploads name skills and authors, that
`None` is none of them, and that there are finitely many downloads: `TypeCorrect`, with `Typed` adding that a request in
progress has an upload and a key, a record is of an upload of its own skill
version, and a download aims at a published one; `RecordsNeverDangle`, from `Kept`:
a request about to commit has its artifact promised, and the upload too where the scan is
deferred; `KeysAreSpentOnce`, from `Typed` and the guards of the commit;
`AnswersStayTrue`, from `TrueSlot`, which adds to each answer what a request that
has committed and not yet answered is going to say;
`SentIsRight`, from `Cleared`: a skill version on record has the tier of its upload, and
whatever was ever listed, or is about to be sent, was let through. That everything sent
was counted compares the counter with what was sent and the number of downloads about to
be sent, so the sets of these must be finite.

`TimingProofs`, of `ScanTiming`, from the assumptions on workers, policy and times of
section 8: `TypeCorrect`, `NoTwoCalls`, `PausesAreKept` and `ClosesInTime`, for any number
of workers, any lease, any policy `load_from_env` lets through and a clock of any length.
They are from one invariant, `TimingInv`:

- `Covered`: with a lease that outlasts any call, whoever is in a call owns the job, and
  the call ends before the lease. Claims need a lease that ran out, so there is one caller.
- `Paused`: the pause the last answer asked for is in `due` while nobody owns the job, and
  over once somebody does. Without `Covered` an answer that comes late would not be
  recorded, and its pause would be lost: hence the hypothesis on the lease.
- `Timely`: while the job is open, everything that will move it on (its due time, the
  lease on it, the sleep of every worker) is due by `Limit`, the bound of `ClosedInTime`
  for the crashes there were so far; a call that is under way was begun by the maximum age.
  A tick needs everybody to wait for something, so the clock cannot pass the limit.
- `Asked`, `Awaited`, `ClosedFree`: a call is in an attempt of the budget, nobody who is
  awake waits, nobody owns a closed job.

And of `Scanner`, from the assumptions that the engines are a finite set and the times
positive with the first pause at most the longest: `ClientTypeCorrect` and
`WaitIsBounded`, from `ClientTimed`: a request under way was given no more than what is
left; `CleanIsMajorityHolds`, from `CleanFixed`: a clean verdict belongs to a completed
analysis, so its votes no longer change. The counting is `VerdictIsMajority`: the engines
that reported, none of them malicious or suspicious, are covered by the harmless and the
five inconclusive outcomes, so they number at most the sum of the counts.
`PollsAreSpaced`, from `Paced`: there is a schedule for the polls so far, what is spent by
it has passed, and the pause it asks for next is `backoff`. A schedule is a function of the
number of polls, and one more poll makes it longer by one entry (`ScheduleGrows`).
`PollsAreCounted`: each pause takes a tick, so the bound that `Ask` sets to the count of
polls is never reached and the schedule is compared with the true count.

`KeyMaterialProofs`, from the assumption that `Nobody` is no run: `TypeCorrect`, `NothingLeft`,
`Success`, `Exclusive`, from one invariant: a run at work owns the directory, which
`mkdir` makes exclusive; what is in a directory is its owner's or the operator's, and
nothing is in one that is not there; the owner has written the files before its position;
a run that cleans up, unhindered, has each of its files still to look at.
`UpRight`, for any environments, is from `HubIs`: what was read so far is what its source
was configured with (`AsRead`), and what is not absent in the directory is some run's.

`UploadProofs`, of `ArchivePaths`, from the assumptions that a component folds to a component, the name of the
manifest to itself, paths are not empty and the limits are positive, a manifest's at most a
file's: `TypeCorrect`, `Right` and `RefusedForSize`. The invariant has two parts.
`IInv` says that what is remembered is exactly what the members read are (`Remembered`), and
that these are `Portable`; the step of its induction is `PortableStep`: the checks on parents
and on children together cover both orders. `LimitsInv` says that `total` is the sum of the
members, that each of them is within its limits, that what was refused is not `Acceptable`,
and, in the second pass, that nothing speaks against the rebuilt archive but its sum, that
the stream is as long as `Stream` says, that the members read are the first ones, and that
a refusal of a member means the sum is over the limit, a refusal before any that the stream
or the compressed archive is.

- `Objection`: a member that is refused makes the archive with it unportable, or misplaces a
  manifest, or is over a limit of its own, or takes the total over its limit. The first
  three are kept by any archive that begins alike (`FewerAsGood`), so the order in
  which members come does not decide.
- `ResizedAsGood`: an accepted upload with another payload for its manifest has none of
  the first three, so that `RefusedAgain` leaves only the total.
- The sum is an induction over the members. It goes through the least counterexample
  (`Induction`, from the well-foundedness of the natural numbers): `SumsExist`, two archives
  that begin alike have the same sums so far (`SameSums`), and more members never make the
  sum smaller (`TotalGrows`).

And of `SkillContract`, from the assumptions on names: `ContractTypeCorrect`, `Listed`, `TierD`,
`SafeDefault` (the last two together `Contained`), from the invariant that each trigger and each list of defaults read was valid when it was
read, and still is, since actions no longer change.

Of `Upload`: `UploadIsBoth`, by the actions, and so `UploadRight`, all four properties.

`HubProofs`, from the assumptions of both modules. `HubIsQueue`: nothing but `Commit` writes
what belongs to the queue, and that is a `Publish`. `HubIsPublication`: under `Typed` and
`Evidence` of the queue a step of `Work` is, to `Publication`, a verdict, a decision or a
stutter; without them a verdict could find a skill that waits for none. So every theorem of
`ScanQueueProofs` and of `PublicationProofs` holds of the hub. `PubProofs` instantiates the
latter; it names the same definitions as `Pub`, action by action (`SameNext`). Two theorems
need both parts:

- `WorkersFindUploads`. A claim counted an attempt, so there is a job (`Tokens`, `EventLog`);
  a job is evidence, so there is a record and its upload is secured (`Kept`).
- `RowsJustifyDownloads`. From `SentIsRight`, and what `ListerOf` and `EvidenceOf` say of the
  rows.

`Publication` uses the store through `ObjectPromise`, which `ObjectStore` is proved to
implement, and of identities only that a revocation is final; that these two share nothing
else with the rest is an argument about the code and not a theorem.

No run checks the type invariants or `AttemptBudget`, since they are proved, or the
halves of the invariants that are conjunctions by themselves.

Only model-checked:

- liveness, `EventuallySettled` and `ScanEnds`: under fairness, out of the prover's reach.

`RevocationAvailable` and `PhysicalHasPolicy` do not hold.

## 15. Not modelled

- `signing.py`: cryptography and canonical encodings of bytes. An upload that does not
  verify is a refusal in `Publication`. Formats of tokens and keys likewise.
- Decoding of gzip, tar and YAML in `tarball.py`: the outcome `Unreadable` of
  `ArchivePaths`, which has the sizes of archives and streams and not their bytes.
- Shapes and lengths of metadata fields, prompts and placeholders: the outcome `FindFault`
  of `SkillContract`.
- The parsing of the environment in `config.py`; its bounds on times are assumptions of
  `ScanTiming`, and the key sources are in `KeyMaterial`.
- HTTP parsing and status texts; read-only queries without consequences (metrics, status,
  listings).
- The triggers that reject updates and deletes no code attempts.
- `scripts/`: helpers of continuous integration, outside the running system.
- `storage/local.py`, an unused predecessor of `objects.py`.
