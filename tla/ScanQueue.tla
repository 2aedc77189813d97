------------------------------ MODULE ScanQueue ------------------------------
(***************************************************************************)
(* The durable malware-scan queue and the visibility of what it scans:     *)
(* publications, the scan jobs they carry, the workers that lease a job,   *)
(* call the provider and write back, the administrator's transitions, and  *)
(* the database guards (constraints and triggers) every write runs under.  *)
(*                                                                         *)
(* A database transaction is one step.  Everything a worker does between   *)
(* transactions (the provider call, reading the clock, a separate read) is *)
(* a step of its own, so other workers, the administrator, a lease running *)
(* out and a crash all interleave there.                                   *)
(*                                                                         *)
(* Time is what the code compares it with.  due[s] says next_attempt_at    *)
(* has passed, live[s] that lease_expires_at has not, aged[s] that the job *)
(* outlived maximum_job_age_seconds.                                       *)
(***************************************************************************)
EXTENDS Naturals, Sequences

CONSTANTS
  Skills,       \* skill versions; a scanned one has exactly one scan job
  Workers,      \* scan worker processes
  Admin,        \* the configured administrator's actor id
  Author,       \* the author who publishes
  Gone,         \* the id of a worker process that no longer exists
  None,
  MaxAttempts,  \* ScanWorkerPolicy.maximum_attempts
  MaxFaults     \* bound: crashes, failed writes, leases that run out under their worker

ASSUME AttemptsAssumption == MaxAttempts \in Nat \ {0}
ASSUME FaultsAssumption   == MaxFaults \in Nat
ASSUME ActorsAssumption   ==
  /\ None \notin Workers \cup Skills
  /\ {Gone, Admin, Author} \cap Workers = {}
  /\ Gone # None /\ Admin # Author
  /\ None \notin {Admin, Author}

VARIABLES
  jobState, attempts, analysis, owner, live, due, aged, lastEvent, \* scan_jobs, scan_events
  status, tierCD, approvedBy, audit,              \* skill_versions, skill_transition_audit
  pc, task, op, fetched, inTime,                  \* one run_once of each worker
  calls, faults                                   \* history: attempt of each provider call; faults

jobVars    == <<jobState, attempts, analysis, owner, live, due, aged, lastEvent>>
skillVars  == <<status, tierCD, approvedBy, audit>>
workerVars == <<pc, task, op, fetched, inTime>>
vars       == <<jobVars, skillVars, workerVars, calls, faults>>

Scanning  == {"pending_submission", "submitted", "polling"}
Terminal  == {"clean", "malicious", "manual_review", "exhausted"}
JobStates == Scanning \cup Terminal
Progress  == {"submission", "polling", "retry"}
Actors    == Workers \cup {Admin, Author}
Statuses  == {"absent", "pending_review", "listed", "rejected", "unlisted"}
AuditRows == [actor : Actors, prior : Statuses, new : Statuses]
Events    == [state : JobStates \cup {"none"}, attempt : Nat]
Tasks     == [skill : Skills \cup {None}, attempt : Nat, analysis : Nat]

\* run_once between jobs.
NoTask == [skill |-> None, attempt |-> 0, analysis |-> 0]

Init ==
  /\ jobState   = [s \in Skills |-> "none"]
  /\ attempts   = [s \in Skills |-> 0]
  /\ analysis   = [s \in Skills |-> 0]
  /\ owner      = [s \in Skills |-> None]
  /\ live       = [s \in Skills |-> FALSE]
  /\ due        = [s \in Skills |-> FALSE]
  /\ aged       = [s \in Skills |-> FALSE]
  /\ lastEvent  = [s \in Skills |-> [state |-> "none", attempt |-> 0]]
  /\ status     = [s \in Skills |-> "absent"]
  /\ tierCD     = [s \in Skills |-> FALSE]
  /\ approvedBy = [s \in Skills |-> None]
  /\ audit      = [s \in Skills |-> <<>>]
  /\ pc         = [w \in Workers |-> "idle"]
  /\ task       = [w \in Workers |-> NoTask]
  /\ op         = [w \in Workers |-> "none"]
  /\ fetched    = [w \in Workers |-> "none"]
  /\ inTime     = [w \in Workers |-> FALSE]
  /\ calls      = [s \in Skills |-> <<>>]
  /\ faults     = 0

-----------------------------------------------------------------------------
(* The database's guards.                                                  *)

\* scan_jobs_validate_state_transition and scan_jobs_reject_terminal_rewrite.
JobStep(old, new) ==
  \/ old \in Scanning /\ new = old
  \/ old = "pending_submission" /\ new \in {"submitted", "manual_review", "exhausted"}
  \/ old \in {"submitted", "polling"} /\ new \in {"polling"} \cup Terminal

\* scan_jobs_validate_state_evidence: what is being or has been judged by the
\* provider names its analysis, and the name is never replaced.
JobEvidence(new, oldId, newId) ==
  /\ new \in {"submitted", "polling", "clean", "malicious"} => newId # 0
  /\ oldId # 0 => newId = oldId

RowAllowed(s, new, newId) ==
  JobStep(jobState[s], new) /\ JobEvidence(new, analysis[s], newId)

\* skill_transition_audit_validate_state, skill_versions_validate_status_transition.
StatusStep(prior, target) ==
  \/ prior = "pending_review" /\ target \in {"listed", "rejected"}
  \/ prior = "listed" /\ target = "unlisted"

\* Mutant: only a malicious verdict keeps a skill from being listed.
ListingUnlessMalicious(target, state) == target = "listed" => state # "malicious"

\* skill_transition_audit_require_scan_evidence; a skill with no job asked for none.
ListingEvidence(target, state) ==
  target = "listed" => state \in {"none", "clean", "manual_review", "exhausted"}

\* skill_versions_validate_initial_status and skill_versions_require_scan_job.
InitialAllowed(initial, tier, scanned) ==
  /\ initial \in {"pending_review", "listed"}
  /\ tier => initial # "listed"
  /\ scanned => initial = "pending_review"

\* One audit row.
AuditRow(actor, prior, target) == [actor |-> actor, prior |-> prior, new |-> target]

\* Mutant: the trigger of the other transitions stamps an approver too.
TransitionStamps(s, actor, prior, target) ==
  /\ status' = [status EXCEPT ![s] = target]
  /\ audit' = [audit EXCEPT ![s] = Append(@, AuditRow(actor, prior, target))]
  /\ approvedBy' = [approvedBy EXCEPT ![s] = actor]
  /\ UNCHANGED tierCD

\* The audit row, and the update of the skill its trigger performs.
Transition(s, actor, prior, target) ==
  /\ status' = [status EXCEPT ![s] = target]
  /\ audit' = [audit EXCEPT ![s] = Append(@, AuditRow(actor, prior, target))]
  /\ approvedBy' = IF target = "listed" THEN [approvedBy EXCEPT ![s] = actor] ELSE approvedBy
  /\ UNCHANGED tierCD

LogEvent(s, state, attempt) ==
  lastEvent' = [lastEvent EXCEPT ![s] = [state |-> state, attempt |-> attempt]]

-----------------------------------------------------------------------------
(* Publication and administration.                                         *)

\* create_publication: artifact, job, event, first audit row and skill in one
\* transaction.  scanned says the deployment defers scanning to the worker;
\* otherwise the publish pipeline chose the initial status itself.
Publish(s) ==
  /\ status[s] = "absent"
  /\ \E tier, scanned \in BOOLEAN, initial \in {"pending_review", "listed"} :
       /\ InitialAllowed(initial, tier, scanned)
       /\ status' = [status EXCEPT ![s] = initial]
       /\ tierCD' = [tierCD EXCEPT ![s] = tier]
       /\ audit'  = [audit EXCEPT ![s] = <<AuditRow(Author, "absent", initial)>>]
       /\ IF scanned
          THEN /\ jobState' = [jobState EXCEPT ![s] = "pending_submission"]
               /\ due' = [due EXCEPT ![s] = TRUE]
               /\ LogEvent(s, "pending_submission", 0)
          ELSE UNCHANGED <<jobState, due, lastEvent>>
  /\ UNCHANGED <<attempts, analysis, owner, live, aged, approvedBy, workerVars, calls, faults>>

\* transition_skill: the audit row is inserted only where the skill still has
\* the one status the target may follow.
PriorOf(target) == IF target = "unlisted" THEN "listed" ELSE "pending_review"

AdminTransition(s, target) ==
  /\ status[s] = PriorOf(target)
  /\ StatusStep(status[s], target)
  /\ ListingEvidence(target, jobState[s])
  /\ Transition(s, Admin, PriorOf(target), target)
  /\ UNCHANGED <<jobVars, workerVars, calls, faults>>

\* Mutant: exhausted jobs are left out of the queue.
ReviewQueueDecided ==
  {s \in Skills : status[s] = "pending_review" /\ jobState[s] \in {"none", "clean", "manual_review"}}

\* list_pending_reviews: what the administrator's queue shows.
ReviewQueue ==
  {s \in Skills : /\ status[s] = "pending_review"
                  /\ jobState[s] \in {"none", "clean", "manual_review", "exhausted"}}

-----------------------------------------------------------------------------
(* One run_once of a worker.                                               *)

\* The run ends and the loop comes round again.
Finish(w) ==
  /\ pc'      = [pc EXCEPT ![w] = "idle"]
  /\ task'    = [task EXCEPT ![w] = NoTask]
  /\ op'      = [op EXCEPT ![w] = "none"]
  /\ fetched' = [fetched EXCEPT ![w] = "none"]
  /\ inTime'  = [inTime EXCEPT ![w] = FALSE]

\* Mutant: a retry with attempts left asks again on the spot.
DecideAgain(w, what) ==
  LET spent == task[w].attempt >= MaxAttempts
      final == IF what = "retry" /\ spent THEN "exhausted" ELSE what
  IN /\ op' = [op EXCEPT ![w] = IF final = "retry" THEN "none" ELSE final]
     /\ pc' = [pc EXCEPT ![w] = IF final = "retry" THEN @ ELSE "write"]
     /\ UNCHANGED <<task, fetched, inTime>>

\* The run has decided what to write.  A retry with no attempt left becomes
\* exhaustion; one with attempts left first reads the job again (record_retry).
Decide(w, what) ==
  LET spent == task[w].attempt >= MaxAttempts
      final == IF what = "retry" /\ spent THEN "exhausted" ELSE what
  IN /\ op' = [op EXCEPT ![w] = final]
     /\ pc' = [pc EXCEPT ![w] = IF final = "retry" THEN "reread" ELSE "write"]
     /\ UNCHANGED <<task, fetched, inTime>>

\* Mutant: only a job nobody leased can be claimed.
ClaimableUnowned(s) == jobState[s] \in Scanning /\ due[s] /\ owner[s] = None

\* The WHERE clause of the claim: not terminal, due, lease absent or over.
Claimable(s) == jobState[s] \in Scanning /\ due[s] /\ ~live[s]

\* _expired, on the record as claimed.
Expired(s, seenAged) == attempts[s] + 1 > MaxAttempts \/ seenAged

\* Mutant: the first attempt submits and every later one polls.
FirstStepByAttempt(s) == IF attempts[s] = 0 THEN "submit" ELSE "poll"

FirstStep(s) == IF jobState[s] = "pending_submission" THEN "submit" ELSE "poll"

\* claim_due and the dispatch on the claimed record.  The clock was read before
\* the transaction, so a job that has just aged may not look so.  Which due job
\* comes first (ORDER BY next_attempt_at) is left open.
Claim(w, s) ==
  /\ pc[w] = "idle"
  /\ Claimable(s)
  /\ attempts' = [attempts EXCEPT ![s] = @ + 1]
  /\ owner'    = [owner EXCEPT ![s] = w]
  /\ live'     = [live EXCEPT ![s] = TRUE]
  /\ LogEvent(s, jobState[s], attempts[s] + 1)
  /\ task' = [task EXCEPT ![w] = [skill |-> s, attempt |-> attempts[s] + 1,
                                  analysis |-> analysis[s]]]
  /\ \E seenAged \in {FALSE, aged[s]} :
       /\ op' = [op EXCEPT ![w] = IF Expired(s, seenAged) THEN "exhausted" ELSE "none"]
       /\ pc' = [pc EXCEPT ![w] = IF Expired(s, seenAged) THEN "write" ELSE FirstStep(s)]
  /\ UNCHANGED <<jobState, analysis, due, aged, skillVars, fetched, inTime, calls, faults>>

\* The provider is asked, in the attempt the worker holds.
Calling(w) == calls' = [calls EXCEPT ![task[w].skill] = Append(@, task[w].attempt)]

\* _submit up to the write.  A missing upload needs no call and nobody retries it.
FindNothing(w) ==
  /\ pc[w] = "submit"
  /\ Decide(w, "manual_review")
  /\ UNCHANGED <<jobVars, skillVars, calls, faults>>

\* The provider takes the sample, fails for now (rate limit, credentials, outage)
\* or refuses it.
Offer(w) ==
  /\ pc[w] = "submit"
  /\ Calling(w)
  /\ \E answer \in {"submission", "retry", "manual_review"} : Decide(w, answer)
  /\ UNCHANGED <<jobVars, skillVars, faults>>

Submit(w) == FindNothing(w) \/ Offer(w)

\* _poll up to the write: still running, a verdict, fails for now, or refused.
Poll(w) ==
  /\ pc[w] = "poll"
  /\ IF task[w].analysis = 0
     THEN UNCHANGED calls /\ Decide(w, "manual_review")
     ELSE /\ Calling(w)
          /\ \E answer \in {"polling", "clean", "malicious", "manual_review", "retry"} :
               Decide(w, answer)
  /\ UNCHANGED <<jobVars, skillVars, faults>>

\* An exception no handler catches (a damaged stored upload, an unusable
\* identifier, later on a database that stays locked) ends the run; before the
\* write it may come before or after the call.  The lease stays.
Raise(w) ==
  /\ \/ /\ pc[w] \in {"submit", "poll"}
        /\ UNCHANGED calls \/ Calling(w)
        /\ UNCHANGED faults
     \/ /\ pc[w] \in {"reread", "write", "commit"}
        /\ faults < MaxFaults
        /\ faults' = faults + 1
        /\ UNCHANGED calls
  /\ Finish(w)
  /\ UNCHANGED <<jobVars, skillVars>>

\* record_retry reads the job in a transaction of its own.
Reread(w) ==
  /\ pc[w] = "reread"
  /\ fetched' = [fetched EXCEPT ![w] = jobState[task[w].skill]]
  /\ pc' = [pc EXCEPT ![w] = "write"]
  /\ UNCHANGED <<jobVars, skillVars, task, op, inTime, calls, faults>>

\* The writers read the clock before their transaction: the lease they check
\* is the one they hold, at the time they read, not at the time they commit.
ReadClock(w) ==
  /\ pc[w] = "write"
  /\ inTime' = [inTime EXCEPT ![w] = owner[task[w].skill] = w /\ live[task[w].skill]]
  /\ pc' = [pc EXCEPT ![w] = "commit"]
  /\ UNCHANGED <<jobVars, skillVars, task, op, fetched, calls, faults>>

\* Mutant: the lease is checked for time but not for its owner.
LeaseUnfenced(w) == inTime[w]

\* The lease conditions of the UPDATE.
LeaseHeld(w) == owner[task[w].skill] = w /\ inTime[w]

Expected(w) ==
  CASE op[w] = "submission" -> {"pending_submission"}
    [] op[w] = "polling"    -> {"submitted", "polling"}
    [] op[w] = "retry"      -> {fetched[w]}
    [] OTHER                -> Scanning

\* Mutant: a retry starts the job over.
NewStateRestart(w) ==
  CASE op[w] = "submission" -> "submitted"
    [] op[w] = "retry"      -> "pending_submission"
    [] OTHER                -> op[w]

NewState(w) ==
  CASE op[w] = "submission" -> "submitted"
    [] op[w] = "retry"      -> fetched[w]
    [] OTHER                -> op[w]

\* A submission stores the identifier it was given: the one of this attempt.
NewAnalysis(w) ==
  IF op[w] = "submission" THEN task[w].attempt ELSE analysis[task[w].skill]

\* The UPDATE finds its row.
Matches(w) == LeaseHeld(w) /\ jobState[task[w].skill] \in Expected(w)

\* The transition a verdict forces, where the skill still waits for review.
AutoTarget(verdict) == IF verdict = "clean" THEN "listed" ELSE "rejected"

\* Mutant: a malicious verdict is recorded and the skill left waiting.
AutoDecidesClean(s, verdict) ==
  verdict = "clean" /\ status[s] = "pending_review" /\ ~tierCD[s]

AutoDecides(s, verdict) ==
  /\ verdict \in {"clean", "malicious"}
  /\ status[s] = "pending_review"
  /\ verdict = "malicious" \/ ~tierCD[s]

\* No trigger aborts what the transaction of w writes.
TriggersPass(w) ==
  LET s == task[w].skill
  IN /\ RowAllowed(s, NewState(w), NewAnalysis(w))
     /\ AutoDecides(s, op[w]) =>
          /\ StatusStep(status[s], AutoTarget(op[w]))
          /\ ListingEvidence(AutoTarget(op[w]), op[w])

Commits(w) == Matches(w) /\ TriggersPass(w)

\* The row write common to _record_progress and complete.
WriteJob(w) ==
  LET s == task[w].skill
  IN /\ jobState' = [jobState EXCEPT ![s] = NewState(w)]
     /\ analysis' = [analysis EXCEPT ![s] = NewAnalysis(w)]
     /\ owner' = [owner EXCEPT ![s] = None]
     /\ live'  = [live EXCEPT ![s] = FALSE]
     /\ LogEvent(s, NewState(w), attempts[s])
     /\ UNCHANGED <<attempts, aged>>

\* _record_progress.
RecordProgress(w) ==
  /\ pc[w] = "commit" /\ op[w] \in Progress
  /\ Commits(w)
  /\ WriteJob(w)
  /\ due' = [due EXCEPT ![task[w].skill] = FALSE]
  /\ Finish(w)
  /\ UNCHANGED <<skillVars, calls, faults>>

\* complete: evidence and the transition it forces in one transaction.
Complete(w) ==
  LET s == task[w].skill
  IN /\ pc[w] = "commit" /\ op[w] \in Terminal
     /\ Commits(w)
     /\ WriteJob(w)
     /\ IF AutoDecides(s, op[w])
        THEN Transition(s, w, "pending_review", AutoTarget(op[w]))
        ELSE UNCHANGED skillVars
     /\ Finish(w)
     /\ UNCHANGED <<due, calls, faults>>

\* The UPDATE finds no row (the job is already terminal, or the lease is not
\* this worker's any more) or a trigger aborts it: the run ends, with False or
\* with a conflict, and the transaction leaves nothing.
Refused(w) ==
  /\ pc[w] = "commit"
  /\ ~Commits(w)
  /\ Finish(w)
  /\ UNCHANGED <<jobVars, skillVars, calls, faults>>

-----------------------------------------------------------------------------
(* Time and failure.                                                       *)

\* next_attempt_at arrives.
BecomeDue(s) ==
  /\ jobState[s] \in Scanning /\ ~due[s]
  /\ due' = [due EXCEPT ![s] = TRUE]
  /\ UNCHANGED <<jobState, attempts, analysis, owner, live, aged, lastEvent,
                 skillVars, workerVars, calls, faults>>

\* The job outlives maximum_job_age_seconds.
GrowOld(s) ==
  /\ jobState[s] \in Scanning /\ ~aged[s]
  /\ aged' = [aged EXCEPT ![s] = TRUE]
  /\ UNCHANGED <<jobState, attempts, analysis, owner, live, due, lastEvent,
                 skillVars, workerVars, calls, faults>>

\* The worker that claimed s last is still in that run.
Attended(s) == \E w \in Workers : owner[s] = w /\ task[w].skill = s

\* lease_expires_at passes; under a worker still at it, that is a fault.
LeaseExpires(s) ==
  /\ live[s]
  /\ Attended(s) => faults < MaxFaults
  /\ faults' = IF Attended(s) THEN faults + 1 ELSE faults
  /\ live' = [live EXCEPT ![s] = FALSE]
  /\ UNCHANGED <<jobState, attempts, analysis, owner, due, aged, lastEvent,
                 skillVars, workerVars, calls>>

\* A worker process stops, at any await of a run (shutdown cancels the task
\* there), and is started again under a fresh id: the leases it leaves name a
\* process that is gone.  A call handed to its thread may still go out.
Crash(w) ==
  /\ pc[w] # "idle"
  /\ faults < MaxFaults
  /\ faults' = faults + 1
  /\ owner' = [s \in Skills |-> IF owner[s] = w THEN Gone ELSE owner[s]]
  /\ \/ UNCHANGED calls
     \/ pc[w] \in {"submit", "poll"} /\ Calling(w)
  /\ Finish(w)
  /\ UNCHANGED <<jobState, attempts, analysis, live, due, aged, lastEvent, skillVars>>

-----------------------------------------------------------------------------
WorkerStep(w) ==
  \/ Submit(w)
  \/ Poll(w)
  \/ Reread(w)
  \/ ReadClock(w)
  \/ RecordProgress(w)
  \/ Complete(w)
  \/ Refused(w)

Next ==
  \/ \E s \in Skills :
       \/ Publish(s)
       \/ \E target \in {"listed", "rejected", "unlisted"} : AdminTransition(s, target)
       \/ BecomeDue(s)
       \/ GrowOld(s)
       \/ LeaseExpires(s)
  \/ \E w \in Workers :
       \/ \E s \in Skills : Claim(w, s)
       \/ WorkerStep(w)
       \/ Raise(w)
       \/ Crash(w)

Spec == Init /\ [][Next]_vars

\* run_worker loops for ever and goes on after any error; leases and retry
\* times are absolute, so they pass.
Fairness ==
  /\ \A s \in Skills : WF_vars(BecomeDue(s)) /\ WF_vars(LeaseExpires(s))
  /\ \A w \in Workers : WF_vars(\E s \in Skills : Claim(w, s)) /\ WF_vars(WorkerStep(w))

FairSpec == Spec /\ Fairness

-----------------------------------------------------------------------------
(* Properties.                                                             *)

WorkerSteps == {"idle", "submit", "poll", "reread", "write", "commit"}

\* Every variable has its type.
TypeOK ==
  /\ jobState  \in [Skills -> JobStates \cup {"none"}]
  /\ attempts  \in [Skills -> Nat]
  /\ analysis  \in [Skills -> Nat]
  /\ owner     \in [Skills -> Workers \cup {Gone, None}]
  /\ live      \in [Skills -> BOOLEAN]
  /\ due       \in [Skills -> BOOLEAN]
  /\ aged      \in [Skills -> BOOLEAN]
  /\ lastEvent \in [Skills -> Events]
  /\ status    \in [Skills -> Statuses]
  /\ tierCD    \in [Skills -> BOOLEAN]
  /\ approvedBy \in [Skills -> Actors \cup {None}]
  /\ audit     \in [Skills -> Seq(AuditRows)]
  /\ pc      \in [Workers -> WorkerSteps]
  /\ task    \in [Workers -> Tasks]
  /\ op      \in [Workers -> Progress \cup Terminal \cup {"none"}]
  /\ fetched \in [Workers -> JobStates \cup {"none"}]
  /\ inTime  \in [Workers -> BOOLEAN]
  /\ calls   \in [Skills -> Seq(Nat)]
  /\ faults  \in 0..MaxFaults

\* A worker writes to a job only in the attempt that is the job's last: once
\* another worker has claimed it, nothing of the slower one gets through.  The
\* code checks owner and lease at two different times and never the attempt.
FencedCommit ==
  [][\A w \in Workers :
       RecordProgress(w) \/ Complete(w) => attempts[task[w].skill] = task[w].attempt]_vars

\* Each provider call was made in an attempt of its own, and in one the budget
\* allows: a job costs at most MaxAttempts calls whatever crashes, lapses or is
\* retried, and no attempt asks the provider twice.
CallBudget ==
  \A s \in Skills :
    /\ Len(calls[s]) <= MaxAttempts
    /\ \A i \in 1..Len(calls[s]) : calls[s][i] <= MaxAttempts
    /\ \A i, j \in 1..Len(calls[s]) : calls[s][i] = calls[s][j] => i = j

\* The budget of attempts is overrun only by runs a fault cut short: the claim
\* that finds it spent closes the job unless it crashes or loses its lease.
AttemptBudget == \A s \in Skills : attempts[s] <= MaxAttempts + 1 + faults

\* What was ever listed has evidence that is not malicious, and what the
\* scanner found malicious is rejected, from the very commit of the verdict.
EvidenceGate ==
  \A s \in Skills :
    /\ status[s] \in {"listed", "unlisted"} => jobState[s] \in {"none"} \cup (Terminal \ {"malicious"})
    /\ jobState[s] = "malicious" => status[s] = "rejected"

\* A scanned skill with Tier C or D actions, or without a clean verdict, was
\* listed by the administrator and by nobody else.
HumanApproval ==
  \A s \in Skills :
    /\ status[s] \in {"listed", "unlisted"}
    /\ jobState[s] # "none"
    /\ tierCD[s] \/ jobState[s] # "clean"
    => approvedBy[s] = Admin

\* Nothing is listed, or stays listed, but what evidence allows, by whom policy
\* allows, however scanner and administrator interleave.
ListedRightly == EvidenceGate /\ HumanApproval

\* A publication that waits for review has a job still being worked on or is
\* shown to the administrator: no verdict, refusal or exhaustion strands it.
NothingStranded ==
  \A s \in Skills :
    status[s] = "pending_review" => jobState[s] \in Scanning \/ s \in ReviewQueue

\* The audit trail replays to the row: each row starts where the one before
\* ended, the last one is the status, and the approver is who listed it.
AuditReplays ==
  \A s \in Skills :
    audit[s] # <<>> =>
      /\ audit[s][Len(audit[s])].new = status[s]
      /\ \A i \in 1..Len(audit[s]) - 1 : audit[s][i + 1].prior = audit[s][i].new
      /\ \A i \in 1..Len(audit[s]) :
           audit[s][i].prior = "pending_review" /\ audit[s][i].new = "listed"
             => approvedBy[s] = audit[s][i].actor

\* The scan event log ends with the state and attempt the job row shows, a
\* retry that wrote back a state it read earlier included.
EventsMatch ==
  \A s \in Skills :
    lastEvent[s] = [state |-> jobState[s], attempt |-> attempts[s]]

\* Both logs, of the status and of the scan, end where the rows are.
LogsAgree == AuditReplays /\ EventsMatch

\* The analysis a worker polls is the one the job has on record, even when the
\* worker's claim is long out of date; only the provider's latest accepted
\* submission is ever on record, and only one.
PollsRecorded ==
  \A w \in Workers :
    pc[w] = "poll" => task[w].analysis # 0 /\ task[w].analysis = analysis[task[w].skill]

\* The triggers never abort a worker's write that its WHERE clause let through:
\* such an abort would leave the lease in place and burn the job's attempts.
GuardsSilent ==
  \A w \in Workers : pc[w] = "commit" /\ Matches(w) => TriggersPass(w)

\* Every scan job reaches a terminal state, through rate limits, outages,
\* uncaught errors, lost leases and crashes.
EventuallySettled ==
  \A s \in Skills : jobState[s] \in Scanning ~> jobState[s] \in Terminal

-----------------------------------------------------------------------------
(* The promise this implements.                                            *)

EvidenceOf(state) ==
  CASE state = "none"                           -> "none"
    [] state \in Scanning                       -> "awaited"
    [] state \in {"manual_review", "exhausted"} -> "inconclusive"
    [] OTHER                                    -> state

ListerOf(s) ==
  IF status[s] \notin {"listed", "unlisted"} THEN "nobody"
  ELSE IF approvedBy[s] = None THEN "author"
  ELSE IF approvedBy[s] = Admin THEN "admin" ELSE "scanner"

Lifecycle ==
  INSTANCE SkillLifecycle WITH
    evidence <- [s \in Skills |-> EvidenceOf(jobState[s])],
    lister   <- [s \in Skills |-> ListerOf(s)]

\* The queue implements the life cycle: every step of it is a step of
\* SkillLifecycle or changes nothing there.
ImplementsLifecycle == Lifecycle!Spec
=============================================================================
