--------------------------- MODULE ScanQueueProofs ---------------------------
(***************************************************************************)
(* What holds of ScanQueue for every set of skills and workers and every   *)
(* attempt budget.                                                         *)
(***************************************************************************)
EXTENDS ScanQueue, FiniteSetTheorems, TLAPS

-----------------------------------------------------------------------------
(* Types.                                                                  *)

\* A worker between runs holds no task; in a run, it holds one.
Busy(w) == task[w].skill \in Skills
TaskOK == \A w \in Workers : pc[w] # "idle" => Busy(w)

\* What has the right type stays so: the part every other proof starts from.
Typed == TypeOK /\ TaskOK

LEMMA FinishTyped ==
  ASSUME Typed, NEW w \in Workers, Finish(w)
  PROVE  /\ pc' \in [Workers -> WorkerSteps]
         /\ task' \in [Workers -> Tasks]
         /\ op' \in [Workers -> Progress \cup Terminal \cup {"none"}]
         /\ fetched' \in [Workers -> JobStates \cup {"none"}]
         /\ inTime' \in [Workers -> BOOLEAN]
         /\ TaskOK'
BY DEF Typed, TypeOK, TaskOK, Busy, Finish, NoTask, Tasks, WorkerSteps

LEMMA DecideTyped ==
  ASSUME Typed, NEW w \in Workers, NEW what \in Progress \cup Terminal,
         pc[w] # "idle", Decide(w, what)
  PROVE  /\ pc' \in [Workers -> WorkerSteps]
         /\ op' \in [Workers -> Progress \cup Terminal \cup {"none"}]
         /\ UNCHANGED <<task, fetched, inTime>>
         /\ TaskOK'
BY DEF Typed, TypeOK, TaskOK, Busy, Decide, WorkerSteps, Progress, Terminal

LEMMA CallingTyped ==
  ASSUME Typed, NEW w \in Workers, pc[w] # "idle", Calling(w)
  PROVE  calls' \in [Skills -> Seq(Nat)]
<1>1. task[w].skill \in Skills /\ task[w].attempt \in Nat
  BY DEF Typed, TypeOK, TaskOK, Busy, Tasks
<1>2. calls \in [Skills -> Seq(Nat)]
  BY DEF Typed, TypeOK
<1>3. Append(calls[task[w].skill], task[w].attempt) \in Seq(Nat)
  BY <1>1, <1>2
<1>4. QED
  BY <1>2, <1>3 DEF Calling

LEMMA WriteJobTyped ==
  ASSUME Typed, NEW w \in Workers, pc[w] = "commit", op[w] # "none", Matches(w), WriteJob(w)
  PROVE  /\ jobState' \in [Skills -> JobStates \cup {"none"}]
         /\ analysis' \in [Skills -> Nat]
         /\ owner' \in [Skills -> Workers \cup {Gone, None}]
         /\ live' \in [Skills -> BOOLEAN]
         /\ lastEvent' \in [Skills -> Events]
         /\ UNCHANGED <<attempts, aged>>
<1>1. task[w].skill \in Skills
  BY DEF Typed, TaskOK, Busy
<1>2. NewState(w) \in JobStates \cup {"none"}
  BY DEF Typed, TypeOK, NewState, Progress, JobStates, Scanning, Terminal
<1>3. NewAnalysis(w) \in Nat
  BY <1>1 DEF Typed, TypeOK, NewAnalysis, Tasks
<1>4. QED
  BY <1>1, <1>2, <1>3 DEF Typed, TypeOK, WriteJob, LogEvent, Events

LEMMA TransitionTyped ==
  ASSUME Typed, NEW s \in Skills, NEW actor \in Actors,
         NEW prior \in Statuses, NEW target \in Statuses,
         Transition(s, actor, prior, target)
  PROVE  /\ status' \in [Skills -> Statuses]
         /\ tierCD' \in [Skills -> BOOLEAN]
         /\ approvedBy' \in [Skills -> Actors \cup {None}]
         /\ audit' \in [Skills -> Seq(AuditRows)]
<1>1. AuditRow(actor, prior, target) \in AuditRows
  BY DEF AuditRow, AuditRows
<1>2. audit \in [Skills -> Seq(AuditRows)]
  BY DEF Typed, TypeOK
<1>3. Append(audit[s], AuditRow(actor, prior, target)) \in Seq(AuditRows)
  BY <1>1, <1>2
<1>4. audit' \in [Skills -> Seq(AuditRows)]
  BY <1>2, <1>3 DEF Transition
<1>5. QED
  BY <1>4 DEF Typed, TypeOK, Transition

\* Publication and the administrator.
LEMMA PublishTyped ==
  ASSUME Typed, NEW s \in Skills, Publish(s)
  PROVE  Typed'
<1>1. PICK tier, scanned \in BOOLEAN, initial \in {"pending_review", "listed"} :
         /\ status' = [status EXCEPT ![s] = initial]
         /\ tierCD' = [tierCD EXCEPT ![s] = tier]
         /\ audit'  = [audit EXCEPT ![s] = <<AuditRow(Author, "absent", initial)>>]
         /\ IF scanned
            THEN /\ jobState' = [jobState EXCEPT ![s] = "pending_submission"]
                 /\ due' = [due EXCEPT ![s] = TRUE]
                 /\ LogEvent(s, "pending_submission", 0)
            ELSE UNCHANGED <<jobState, due, lastEvent>>
  BY DEF Publish
<1>2. <<AuditRow(Author, "absent", initial)>> \in Seq(AuditRows)
  <2>1. AuditRow(Author, "absent", initial) \in AuditRows
    BY DEF AuditRow, AuditRows, Actors, Statuses
  <2>2. QED
    BY <2>1
<1>3. audit' \in [Skills -> Seq(AuditRows)]
  BY <1>1, <1>2 DEF Typed, TypeOK
<1>4. /\ status' \in [Skills -> Statuses]
      /\ tierCD' \in [Skills -> BOOLEAN]
  BY <1>1 DEF Typed, TypeOK, Statuses
<1>5. jobState' \in [Skills -> JobStates \cup {"none"}]
  BY <1>1 DEF Typed, TypeOK, JobStates, Scanning
<1>6. due' \in [Skills -> BOOLEAN]
  BY <1>1 DEF Typed, TypeOK
<1>7. lastEvent' \in [Skills -> Events]
  <2>1. [state |-> "pending_submission", attempt |-> 0] \in Events
    BY DEF Events, JobStates, Scanning
  <2>2. QED
    BY <1>1, <2>1 DEF Typed, TypeOK, LogEvent
<1>8. QED
  BY <1>3, <1>4, <1>5, <1>6, <1>7 DEF Publish, Typed, TypeOK, TaskOK, Busy, workerVars

LEMMA AdminTyped ==
  ASSUME Typed, NEW s \in Skills, NEW target \in {"listed", "rejected", "unlisted"},
         AdminTransition(s, target)
  PROVE  Typed'
<1>1. PriorOf(target) \in Statuses /\ target \in Statuses /\ Admin \in Actors
  BY DEF PriorOf, Actors, Statuses
<1>2. Transition(s, Admin, PriorOf(target), target)
  BY DEF AdminTransition
<1>3. /\ status' \in [Skills -> Statuses]
      /\ tierCD' \in [Skills -> BOOLEAN]
      /\ approvedBy' \in [Skills -> Actors \cup {None}]
      /\ audit' \in [Skills -> Seq(AuditRows)]
  BY <1>1, <1>2, TransitionTyped
<1>4. QED
  BY <1>3 DEF AdminTransition, Typed, TypeOK, TaskOK, Busy, jobVars, workerVars

\* Time.
LEMMA TimeTyped ==
  ASSUME Typed, NEW s \in Skills, BecomeDue(s) \/ GrowOld(s) \/ LeaseExpires(s)
  PROVE  Typed'
<1>1. CASE BecomeDue(s)
  BY <1>1 DEF BecomeDue, Typed, TypeOK, TaskOK, Busy, skillVars, workerVars
<1>2. CASE GrowOld(s)
  BY <1>2 DEF GrowOld, Typed, TypeOK, TaskOK, Busy, skillVars, workerVars
<1>3. CASE LeaseExpires(s)
  <2>1. faults' \in 0..MaxFaults
    BY <1>3, FaultsAssumption DEF LeaseExpires, Typed, TypeOK
  <2>2. QED
    BY <1>3, <2>1 DEF LeaseExpires, Typed, TypeOK, TaskOK, Busy, skillVars, workerVars
<1>4. QED
  BY <1>1, <1>2, <1>3

\* A worker's own steps.
LEMMA ClaimTyped ==
  ASSUME Typed, NEW w \in Workers, NEW s \in Skills, Claim(w, s)
  PROVE  Typed'
<1>1. PICK seenAged \in {FALSE, aged[s]} :
        /\ op' = [op EXCEPT ![w] = IF Expired(s, seenAged) THEN "exhausted" ELSE "none"]
        /\ pc' = [pc EXCEPT ![w] = IF Expired(s, seenAged) THEN "write" ELSE FirstStep(s)]
  BY DEF Claim
<1>2. op' \in [Workers -> Progress \cup Terminal \cup {"none"}]
  BY <1>1 DEF Typed, TypeOK, Terminal
<1>3. pc' \in [Workers -> WorkerSteps]
  BY <1>1 DEF Typed, TypeOK, WorkerSteps, FirstStep
<1>4. task' \in [Workers -> Tasks]
  BY DEF Claim, Typed, TypeOK, Tasks
<1>5. lastEvent' \in [Skills -> Events]
  BY DEF Claim, LogEvent, Typed, TypeOK, Events
<1>6. TaskOK'
  BY <1>1 DEF Claim, Typed, TypeOK, TaskOK, Busy
<1>7. /\ attempts' \in [Skills -> Nat]
      /\ owner' \in [Skills -> Workers \cup {Gone, None}]
      /\ live' \in [Skills -> BOOLEAN]
  BY DEF Claim, Typed, TypeOK
<1>8. QED
  BY <1>2, <1>3, <1>4, <1>5, <1>6, <1>7 DEF Claim, Typed, TypeOK, skillVars

LEMMA RunTyped ==
  ASSUME Typed, NEW w \in Workers,
         Submit(w) \/ Poll(w) \/ Raise(w) \/ Reread(w) \/ ReadClock(w) \/ Refused(w)
  PROVE  Typed'
<1>1. CASE Submit(w) \/ Poll(w)
  <2>1. PICK what \in Progress \cup Terminal : Decide(w, what)
    BY <1>1 DEF Submit, FindNothing, Offer, Poll, Progress, Terminal
  <2>2. pc[w] # "idle"
    BY <1>1 DEF Submit, FindNothing, Offer, Poll
  <2>3. calls' \in [Skills -> Seq(Nat)]
    BY <1>1, <2>2, CallingTyped DEF Submit, FindNothing, Offer, Poll, Typed, TypeOK
  <2>4. QED
    BY <1>1, <2>1, <2>2, <2>3, DecideTyped
       DEF Submit, FindNothing, Offer, Poll, Typed, TypeOK, jobVars, skillVars
<1>2. CASE Raise(w)
  <2>1. calls' \in [Skills -> Seq(Nat)]
    BY <1>2, CallingTyped DEF Raise, Typed, TypeOK
  <2>2. faults' \in 0..MaxFaults
    BY <1>2, FaultsAssumption DEF Raise, Typed, TypeOK
  <2>3. QED
    BY <1>2, <2>1, <2>2, FinishTyped DEF Raise, Typed, TypeOK, jobVars, skillVars
<1>3. CASE Reread(w)
  <2>1. jobState[task[w].skill] \in JobStates \cup {"none"}
    BY <1>3 DEF Reread, Typed, TypeOK, TaskOK, Busy
  <2>2. QED
    BY <1>3, <2>1 DEF Reread, Typed, TypeOK, TaskOK, Busy, jobVars, skillVars, WorkerSteps
<1>4. CASE ReadClock(w)
  <2>1. (owner[task[w].skill] = w /\ live[task[w].skill]) \in BOOLEAN
    OBVIOUS
  <2>2. QED
    BY <1>4, <2>1 DEF ReadClock, Typed, TypeOK, TaskOK, Busy, jobVars, skillVars, WorkerSteps
<1>5. CASE Refused(w)
  BY <1>5, FinishTyped DEF Refused, Typed, TypeOK, jobVars, skillVars
<1>6. QED
  BY <1>1, <1>2, <1>3, <1>4, <1>5

LEMMA CommitTyped ==
  ASSUME Typed, NEW w \in Workers, RecordProgress(w) \/ Complete(w)
  PROVE  Typed'
<1>1. op[w] # "none" /\ pc[w] = "commit" /\ Matches(w) /\ WriteJob(w) /\ Finish(w)
  BY DEF RecordProgress, Complete, Commits, Progress, Terminal
<1>2. task[w].skill \in Skills
  BY <1>1 DEF Typed, TaskOK, Busy
<1>3. CASE RecordProgress(w)
  BY <1>1, <1>2, <1>3, WriteJobTyped, FinishTyped DEF RecordProgress, Typed, TypeOK, skillVars
<1>4. CASE Complete(w)
  <2>1. \/ UNCHANGED skillVars
        \/ Transition(task[w].skill, w, "pending_review", AutoTarget(op[w]))
    BY <1>4 DEF Complete
  <2>2. AutoTarget(op[w]) \in Statuses /\ "pending_review" \in Statuses /\ w \in Actors
    BY DEF AutoTarget, Actors, Statuses
  <2>3. /\ status' \in [Skills -> Statuses]
        /\ tierCD' \in [Skills -> BOOLEAN]
        /\ approvedBy' \in [Skills -> Actors \cup {None}]
        /\ audit' \in [Skills -> Seq(AuditRows)]
    <3>1. CASE UNCHANGED skillVars
      BY <3>1 DEF Typed, TypeOK, skillVars
    <3>2. CASE Transition(task[w].skill, w, "pending_review", AutoTarget(op[w]))
      BY <1>2, <2>2, <3>2, TransitionTyped
    <3>3. QED
      BY <2>1, <3>1, <3>2
  <2>4. QED
    BY <1>1, <1>4, <2>3, WriteJobTyped, FinishTyped DEF Complete, Typed, TypeOK
<1>5. QED
  BY <1>3, <1>4

LEMMA CrashTyped ==
  ASSUME Typed, NEW w \in Workers, Crash(w)
  PROVE  Typed'
<1>1. calls' \in [Skills -> Seq(Nat)]
  BY CallingTyped DEF Crash, Typed, TypeOK
<1>2. faults' \in 0..MaxFaults
  BY FaultsAssumption DEF Crash, Typed, TypeOK
<1>3. owner' \in [Skills -> Workers \cup {Gone, None}]
  BY DEF Crash, Typed, TypeOK
<1>4. QED
  BY <1>1, <1>2, <1>3, FinishTyped DEF Crash, Typed, TypeOK, skillVars

LEMMA NextTyped == Typed /\ [Next]_vars => Typed'
<1> SUFFICES ASSUME Typed, [Next]_vars PROVE Typed'
  OBVIOUS
<1>1. CASE UNCHANGED vars
  BY <1>1 DEF vars, jobVars, skillVars, workerVars, Typed, TypeOK, TaskOK, Busy
<1>2. ASSUME NEW s \in Skills, Publish(s) PROVE Typed'
  BY <1>2, PublishTyped
<1>3. ASSUME NEW s \in Skills, NEW target \in {"listed", "rejected", "unlisted"},
             AdminTransition(s, target)
      PROVE Typed'
  BY <1>3, AdminTyped
<1>4. ASSUME NEW s \in Skills, BecomeDue(s) \/ GrowOld(s) \/ LeaseExpires(s) PROVE Typed'
  BY <1>4, TimeTyped
<1>5. ASSUME NEW w \in Workers, NEW s \in Skills, Claim(w, s) PROVE Typed'
  BY <1>5, ClaimTyped
<1>6. ASSUME NEW w \in Workers, WorkerStep(w) \/ Raise(w) \/ Crash(w) PROVE Typed'
  BY <1>6, RunTyped, CommitTyped, CrashTyped DEF WorkerStep
<1>7. QED
  BY <1>1, <1>2, <1>3, <1>4, <1>5, <1>6 DEF Next

LEMMA InitTyped == Init => Typed
<1> SUFFICES ASSUME Init PROVE Typed
  OBVIOUS
<1>1. TaskOK
  BY DEF Init, TaskOK
<1>2. audit \in [Skills -> Seq(AuditRows)]
  <2>1. <<>> \in Seq(AuditRows)
    OBVIOUS
  <2>2. QED
    BY <2>1 DEF Init
<1>3. lastEvent \in [Skills -> Events] /\ task \in [Workers -> Tasks]
  BY DEF Init, Events, Tasks, NoTask
<1>4. QED
  BY <1>1, <1>2, <1>3, FaultsAssumption DEF Init, Typed, TypeOK, WorkerSteps, Statuses

\* In every behaviour every variable of the queue keeps its type: the state
\* machine of the worker, the rows and the audit trail never hold anything else.
THEOREM TypeCorrect == Spec => []TypeOK
<1>1. Typed => TypeOK
  BY DEF Typed
<1>2. QED
  BY <1>1, InitTyped, NextTyped, PTL DEF Spec

-----------------------------------------------------------------------------
(* Attempts as fencing tokens.  The code never compares attempt numbers: it *)
(* checks the owner's id.  These say why that is enough.                    *)

\* A run holds an attempt the job has reached, of its own; the run that still
\* owns the job holds the last one; the attempts in which the provider was
\* called are behind it, and a run about to call is within the budget.
Reached  == \A w \in Workers : Busy(w) => task[w].attempt \in 1..attempts[task[w].skill]
OwnsLast == \A w \in Workers : Busy(w) /\ owner[task[w].skill] = w
                                 => task[w].attempt = attempts[task[w].skill]
Distinct == \A v, w \in Workers : v # w /\ Busy(v) /\ task[v].skill = task[w].skill
                                    => task[v].attempt # task[w].attempt
Fresh(log, attempt) == \A i \in 1..Len(log) : log[i] # attempt
CallsPast == \A s \in Skills : \A i \in 1..Len(calls[s]) :
               /\ calls[s][i] \in 1..attempts[s] /\ calls[s][i] <= MaxAttempts
               /\ \A j \in 1..Len(calls[s]) : calls[s][i] = calls[s][j] => i = j
FreshCall == \A w \in Workers : pc[w] \in {"submit", "poll"} =>
                                  /\ task[w].attempt <= MaxAttempts
                                  /\ Fresh(calls[task[w].skill], task[w].attempt)

Tokens == Reached /\ OwnsLast /\ Distinct /\ CallsPast /\ FreshCall

\* A call adds its attempt, which is new, to the end of the job's calls.
LEMMA CallTokens ==
  ASSUME Typed, Tokens, NEW w \in Workers, pc[w] \in {"submit", "poll"}, Calling(w),
         attempts' = attempts
  PROVE  /\ CallsPast'
         /\ \A t \in Skills : t # task[w].skill => calls'[t] = calls[t]
         /\ \A n \in Nat : /\ Fresh(calls[task[w].skill], n)
                           /\ n # task[w].attempt
                           => Fresh(calls'[task[w].skill], n)
<1> DEFINE s == task[w].skill
           log == calls[s]
           a == task[w].attempt
<1>1. s \in Skills /\ a \in 1..attempts[s] /\ a <= MaxAttempts /\ Fresh(log, a)
  BY DEF Typed, TaskOK, Busy, Tokens, Reached, FreshCall
<1>2. log \in Seq(Nat) /\ a \in Nat
  BY <1>1 DEF Typed, TypeOK, Tasks
<1>3. /\ calls'[s] = Append(log, a)
      /\ \A t \in Skills : t # s => calls'[t] = calls[t]
  BY <1>1 DEF Calling, Typed, TypeOK
<1>4. PICK n \in Nat : n = Len(log)
  BY <1>2
<1>5. /\ Len(calls'[s]) = n + 1 /\ calls'[s][n + 1] = a
      /\ \A i \in 1..n : calls'[s][i] = log[i]
  BY <1>2, <1>3, <1>4
<1>6. \A i \in 1..(n + 1) : i \in 1..n \/ i = n + 1
  BY <1>4
<1>7. \A i \in 1..n : /\ log[i] \in 1..attempts[s] /\ log[i] <= MaxAttempts /\ log[i] # a
                      /\ \A j \in 1..n : log[i] = log[j] => i = j
  BY <1>1, <1>4 DEF Tokens, CallsPast, Fresh
<1>8. CallsPast'
  <2>1. ASSUME NEW t \in Skills, NEW i \in 1..Len(calls'[t])
        PROVE  /\ calls'[t][i] \in 1..attempts[t] /\ calls'[t][i] <= MaxAttempts
               /\ \A j \in 1..Len(calls'[t]) : calls'[t][i] = calls'[t][j] => i = j
    <3>1. CASE t # s
      BY <1>3, <2>1, <3>1 DEF Tokens, CallsPast
    <3>2. CASE t = s
      BY <1>1, <1>5, <1>6, <1>7, <2>1, <3>2
    <3>3. QED
      BY <3>1, <3>2
  <2>2. QED
    BY <2>1 DEF CallsPast
<1>9. ASSUME NEW m \in Nat, Fresh(log, m), m # a PROVE Fresh(calls'[s], m)
  BY <1>4, <1>5, <1>6, <1>9 DEF Fresh
<1>10. QED
  BY <1>3, <1>8, <1>9

\* Ending a run only forgets its attempt.
LEMMA FinishTokens ==
  ASSUME Typed, Tokens, NEW w \in Workers, Finish(w), pc[w] # "idle",
         attempts' = attempts, calls' = calls \/ (pc[w] \in {"submit", "poll"} /\ Calling(w)),
         \A s \in Skills : owner'[s] = owner[s] \/ owner'[s] \notin Workers
  PROVE  Tokens'
<1>1. \A v \in Workers : v # w => task'[v] = task[v] /\ pc'[v] = pc[v]
  BY DEF Finish, Typed, TypeOK
<1>2. ~Busy(w)' /\ pc'[w] = "idle"
  BY ActorsAssumption DEF Finish, Typed, TypeOK, NoTask, Busy
<1>3. Reached' /\ OwnsLast' /\ Distinct'
  BY <1>1, <1>2 DEF Tokens, Reached, OwnsLast, Distinct, Busy
<1>4. CallsPast'
  BY CallTokens DEF Tokens, CallsPast
<1>5. FreshCall'
  <2>1. SUFFICES ASSUME NEW v \in Workers, pc'[v] \in {"submit", "poll"}
                 PROVE  /\ task'[v].attempt <= MaxAttempts
                        /\ Fresh(calls'[task'[v].skill], task'[v].attempt)
    BY DEF FreshCall
  <2>2. v # w /\ task'[v] = task[v] /\ pc[v] \in {"submit", "poll"}
    BY <1>1, <1>2, <2>1
  <2>3. Busy(v) /\ Busy(w)
    BY <2>2 DEF Typed, TaskOK
  <2>4. task[v].skill = task[w].skill => task[v].attempt # task[w].attempt
    BY <2>2, <2>3 DEF Tokens, Distinct
  <2>5. Fresh(calls[task[v].skill], task[v].attempt) /\ task[v].attempt <= MaxAttempts
    BY <2>2 DEF Tokens, FreshCall
  <2>6. task[v].attempt \in Nat /\ task[v].skill \in Skills
    BY <2>3 DEF Busy, Typed, TypeOK, Tasks
  <2>7. CASE calls' = calls
    BY <2>2, <2>5, <2>7
  <2>8. CASE pc[w] \in {"submit", "poll"} /\ Calling(w)
    BY <2>2, <2>4, <2>5, <2>6, <2>8, CallTokens
  <2>9. QED
    BY <2>7, <2>8
<1>6. QED
  BY <1>3, <1>4, <1>5 DEF Tokens

\* Calling the provider uses the attempt up.
LEMMA DecideTokens ==
  ASSUME Typed, Tokens, NEW w \in Workers, NEW what \in Progress \cup Terminal, Decide(w, what),
         pc[w] # "idle", attempts' = attempts, owner' = owner,
         calls' = calls \/ (pc[w] \in {"submit", "poll"} /\ Calling(w))
  PROVE  Tokens'
<1>1. \A v \in Workers : v # w => pc'[v] = pc[v]
  BY DEF Decide, Typed, TypeOK
<1>2. pc'[w] \in {"reread", "write"} /\ task' = task
  BY DEF Decide, Typed, TypeOK
<1>3. Reached' /\ OwnsLast' /\ Distinct'
  BY <1>2 DEF Tokens, Reached, OwnsLast, Distinct, Busy
<1>4. CallsPast'
  BY CallTokens DEF Tokens, CallsPast
<1>5. FreshCall'
  <2>1. SUFFICES ASSUME NEW v \in Workers, pc'[v] \in {"submit", "poll"}
                 PROVE  /\ task'[v].attempt <= MaxAttempts
                        /\ Fresh(calls'[task'[v].skill], task'[v].attempt)
    BY DEF FreshCall
  <2>2. v # w /\ task'[v] = task[v] /\ pc[v] \in {"submit", "poll"}
    BY <1>1, <1>2, <2>1
  <2>3. Busy(v) /\ Busy(w)
    BY <2>2 DEF Typed, TaskOK
  <2>4. task[v].skill = task[w].skill => task[v].attempt # task[w].attempt
    BY <2>2, <2>3 DEF Tokens, Distinct
  <2>5. Fresh(calls[task[v].skill], task[v].attempt) /\ task[v].attempt <= MaxAttempts
    BY <2>2 DEF Tokens, FreshCall
  <2>6. task[v].attempt \in Nat /\ task[v].skill \in Skills
    BY <2>3 DEF Busy, Typed, TypeOK, Tasks
  <2>7. CASE calls' = calls
    BY <2>2, <2>5, <2>7
  <2>8. CASE pc[w] \in {"submit", "poll"} /\ Calling(w)
    BY <2>2, <2>4, <2>5, <2>6, <2>8, CallTokens
  <2>9. QED
    BY <2>7, <2>8
<1>6. QED
  BY <1>3, <1>4, <1>5 DEF Tokens

\* A claim takes an attempt nobody holds.
LEMMA ClaimTokens ==
  ASSUME Typed, Tokens, NEW w \in Workers, NEW s \in Skills, Claim(w, s)
  PROVE  Tokens'
<1>1. /\ attempts' = [attempts EXCEPT ![s] = @ + 1]
      /\ owner' = [owner EXCEPT ![s] = w]
      /\ task' = [task EXCEPT ![w] = [skill |-> s, attempt |-> attempts[s] + 1,
                                      analysis |-> analysis[s]]]
      /\ calls' = calls
  BY DEF Claim
<1>2. \A t \in Skills : attempts[t] \in Nat /\ attempts'[t] \in Nat /\ attempts'[t] >= attempts[t]
  BY <1>1 DEF Typed, TypeOK
<1>3. /\ task'[w].skill = s /\ task'[w].attempt = attempts[s] + 1
      /\ attempts'[s] = attempts[s] + 1
      /\ \A v \in Workers : v # w => task'[v] = task[v] /\ pc'[v] = pc[v]
  BY <1>1 DEF Claim, Typed, TypeOK
<1>4. Reached'
  <2>1. SUFFICES ASSUME NEW v \in Workers, task'[v].skill \in Skills
                 PROVE  task'[v].attempt \in 1..attempts'[task'[v].skill]
    BY DEF Reached, Busy
  <2>2. CASE v = w
    BY <1>2, <1>3, <2>2
  <2>3. CASE v # w
    <3>1. task'[v] = task[v] /\ task[v].attempt \in 1..attempts[task[v].skill]
      BY <1>3, <2>1, <2>3 DEF Tokens, Reached, Busy
    <3>2. QED
      BY <1>2, <2>1, <3>1
  <2>4. QED
    BY <2>2, <2>3
<1>5. OwnsLast'
  BY <1>1, <1>3 DEF Tokens, OwnsLast, Busy, Typed, TypeOK
<1>6. Distinct'
  <2>1. \A v \in Workers : v # w /\ task[v].skill = s => task[v].attempt # attempts[s] + 1
    BY <1>2 DEF Tokens, Reached, Busy
  <2>2. QED
    BY <1>3, <2>1 DEF Tokens, Distinct, Busy
<1>7. CallsPast'
  <2>1. ASSUME NEW t \in Skills, NEW i \in 1..Len(calls[t])
        PROVE  calls[t][i] \in 1..attempts'[t]
    BY <1>2, <2>1 DEF Tokens, CallsPast
  <2>2. QED
    BY <1>1, <2>1 DEF Tokens, CallsPast
<1>8. FreshCall'
  <2>1. SUFFICES ASSUME NEW v \in Workers, pc'[v] \in {"submit", "poll"}
                 PROVE  /\ task'[v].attempt <= MaxAttempts
                        /\ Fresh(calls'[task'[v].skill], task'[v].attempt)
    BY DEF FreshCall
  <2>2. CASE v # w
    BY <1>1, <1>3, <2>1, <2>2 DEF Tokens, FreshCall
  <2>3. CASE v = w
    <3>1. ~(attempts[s] + 1 > MaxAttempts)
      BY <2>1, <2>3 DEF Claim, Expired, Typed, TypeOK
    <3>2. Fresh(calls[s], attempts[s] + 1)
      BY <1>2 DEF Tokens, CallsPast, Fresh
    <3>3. QED
      BY <1>1, <1>2, <1>3, <2>3, <3>1, <3>2, AttemptsAssumption
  <2>4. QED
    BY <2>2, <2>3
<1>9. QED
  BY <1>4, <1>5, <1>6, <1>7, <1>8 DEF Tokens

\* Steps that neither start, end nor answer a run.
LEMMA QuietTokens ==
  ASSUME Typed, Tokens, UNCHANGED <<attempts, owner, task, calls>>,
         \A w \in Workers : pc'[w] \in {"submit", "poll"} => pc[w] \in {"submit", "poll"}
  PROVE  Tokens'
BY DEF Tokens, Reached, OwnsLast, Distinct, CallsPast, FreshCall, Busy

LEMMA NextTokens == Typed /\ Tokens /\ [Next]_vars => Tokens'
<1> SUFFICES ASSUME Typed, Tokens, [Next]_vars PROVE Tokens'
  OBVIOUS
<1>1. CASE UNCHANGED vars
  BY <1>1, QuietTokens DEF vars, jobVars, workerVars
<1>2. ASSUME NEW s \in Skills,
             \/ Publish(s) \/ BecomeDue(s) \/ GrowOld(s) \/ LeaseExpires(s)
             \/ \E target \in {"listed", "rejected", "unlisted"} : AdminTransition(s, target)
      PROVE Tokens'
  BY <1>2, QuietTokens
     DEF Publish, BecomeDue, GrowOld, LeaseExpires, AdminTransition, workerVars, jobVars
<1>3. ASSUME NEW w \in Workers, NEW s \in Skills, Claim(w, s) PROVE Tokens'
  BY <1>3, ClaimTokens
<1>4. ASSUME NEW w \in Workers, Submit(w) \/ Poll(w) PROVE Tokens'
  <2>1. PICK what \in Progress \cup Terminal : Decide(w, what)
    BY <1>4 DEF Submit, FindNothing, Offer, Poll, Progress, Terminal
  <2>2. /\ pc[w] \in {"submit", "poll"} /\ UNCHANGED jobVars
        /\ UNCHANGED calls \/ Calling(w)
    BY <1>4 DEF Submit, FindNothing, Offer, Poll
  <2>3. QED
    BY <2>1, <2>2, DecideTokens DEF jobVars
<1>5. ASSUME NEW w \in Workers, Reread(w) \/ ReadClock(w) PROVE Tokens'
  <2>1. \A v \in Workers : pc'[v] \in {"submit", "poll"} => pc[v] \in {"submit", "poll"}
    BY <1>5 DEF Reread, ReadClock, Typed, TypeOK
  <2>2. QED
    BY <1>5, <2>1, QuietTokens DEF Reread, ReadClock, jobVars
<1>6. ASSUME NEW w \in Workers, Raise(w) \/ Refused(w) PROVE Tokens'
  BY <1>6, FinishTokens DEF Raise, Refused, jobVars
<1>7. ASSUME NEW w \in Workers, RecordProgress(w) \/ Complete(w) PROVE Tokens'
  <2>1. \A s \in Skills : owner'[s] = owner[s] \/ owner'[s] \notin Workers
    BY <1>7, ActorsAssumption DEF RecordProgress, Complete, WriteJob, Typed, TypeOK
  <2>2. QED
    BY <1>7, <2>1, FinishTokens DEF RecordProgress, Complete, WriteJob
<1>8. ASSUME NEW w \in Workers, Crash(w) PROVE Tokens'
  <2>1. \A s \in Skills : owner'[s] = owner[s] \/ owner'[s] \notin Workers
    BY <1>8, ActorsAssumption DEF Crash, Typed, TypeOK
  <2>2. QED
    BY <1>8, <2>1, FinishTokens DEF Crash
<1>9. QED
  BY <1>1, <1>2, <1>3, <1>4, <1>5, <1>6, <1>7, <1>8 DEF Next, WorkerStep

LEMMA InitTokens == Init => Tokens
BY ActorsAssumption DEF Init, Tokens, Reached, OwnsLast, Distinct, CallsPast, FreshCall, Busy, NoTask

LEMMA SafeTokens == Spec => [](Typed /\ Tokens)
BY InitTyped, NextTyped, InitTokens, NextTokens, PTL DEF Spec

\* No worker ever writes to a job that another has claimed since: the owner and
\* lease checks of the two writers fence every slower run off.
THEOREM CommitsAreFenced == Spec => FencedCommit
<1>1. ASSUME Typed, Tokens, NEW w \in Workers, RecordProgress(w) \/ Complete(w)
      PROVE  attempts[task[w].skill] = task[w].attempt
  <2>1. pc[w] = "commit" /\ owner[task[w].skill] = w
    BY <1>1 DEF RecordProgress, Complete, Commits, Matches, LeaseHeld
  <2>2. QED
    BY <1>1, <2>1 DEF Typed, TaskOK, Tokens, OwnsLast
<1>2. Typed /\ Tokens /\ [Next]_vars =>
        [\A w \in Workers :
           RecordProgress(w) \/ Complete(w) => attempts[task[w].skill] = task[w].attempt]_vars
  BY <1>1
<1>3. QED
  BY <1>2, SafeTokens, PTL DEF Spec, FencedCommit

\* Numbers that differ and stay within a bound are no more than the bound.
LEMMA DistinctWithinBound ==
  ASSUME NEW n \in Nat, NEW log \in Seq(Nat),
         \A i \in 1..Len(log) : log[i] \in 1..n,
         \A i, j \in 1..Len(log) : log[i] = log[j] => i = j
  PROVE  Len(log) <= n
<1>1. PICK k \in Nat : k = Len(log)
  OBVIOUS
<1>2. IsFiniteSet(1..k) /\ Cardinality(1..k) = k /\ IsFiniteSet(1..n) /\ Cardinality(1..n) = n
  BY FS_Interval
<1>3. SUFFICES ASSUME n < k PROVE FALSE
  BY <1>1
<1>4. PICK f : f = [i \in 1..k |-> log[i]]
  OBVIOUS
<1>5. f \in Injection(1..k, 1..n)
  BY <1>1, <1>4 DEF Injection, IsInjective
<1>6. Cardinality(1..k) <= Cardinality(1..n)
  BY <1>2, <1>5, FS_Injection
<1>7. QED
  BY <1>2, <1>3, <1>6

\* No two provider calls of a job are ever made in one attempt, all are in
\* attempts the budget allows, and so a job costs at most MaxAttempts calls.
THEOREM CallsAreBudgeted == Spec => []CallBudget
<1>1. ASSUME Typed, Tokens, NEW s \in Skills
      PROVE  /\ Len(calls[s]) <= MaxAttempts
             /\ \A i \in 1..Len(calls[s]) : calls[s][i] <= MaxAttempts
             /\ \A i, j \in 1..Len(calls[s]) : calls[s][i] = calls[s][j] => i = j
  <2>1. calls[s] \in Seq(Nat) /\ attempts[s] \in Nat
    BY <1>1 DEF Typed, TypeOK
  <2>2. \A i \in 1..Len(calls[s]) :
           /\ calls[s][i] \in 1..attempts[s] /\ calls[s][i] <= MaxAttempts
           /\ \A j \in 1..Len(calls[s]) : calls[s][i] = calls[s][j] => i = j
    BY <1>1 DEF Tokens, CallsPast
  <2>3. \A i \in 1..Len(calls[s]) : calls[s][i] \in 1..MaxAttempts
    BY <2>1, <2>2, AttemptsAssumption
  <2>4. MaxAttempts \in Nat
    BY AttemptsAssumption
  <2>5. Len(calls[s]) <= MaxAttempts
    BY <2>1, <2>2, <2>3, <2>4, DistinctWithinBound
  <2>6. QED
    BY <2>2, <2>5
<1>2. Typed /\ Tokens => CallBudget
  BY <1>1 DEF CallBudget
<1>3. QED
  BY <1>2, SafeTokens, PTL DEF Spec

-----------------------------------------------------------------------------
(* Evidence before visibility.                                             *)

\* A skill not yet published has no job and no approver; while its job is being
\* scanned it can only wait or have been rejected by the administrator.
Waiting ==
  \A s \in Skills :
    /\ status[s] = "absent" => jobState[s] = "none" /\ approvedBy[s] = None
    /\ jobState[s] \in Scanning => status[s] \in {"pending_review", "rejected"}

Evidence == Waiting /\ EvidenceGate /\ HumanApproval

\* Steps that write neither rows.
LEMMA QuietEvidence ==
  ASSUME Evidence, UNCHANGED <<jobState, skillVars>>
  PROVE  Evidence'
BY DEF Evidence, Waiting, EvidenceGate, HumanApproval, skillVars

LEMMA PublishEvidence ==
  ASSUME Typed, Evidence, NEW s \in Skills, Publish(s)
  PROVE  Evidence'
<1>1. PICK tier, scanned \in BOOLEAN, initial \in {"pending_review", "listed"} :
         /\ scanned => initial = "pending_review"
         /\ status' = [status EXCEPT ![s] = initial]
         /\ tierCD' = [tierCD EXCEPT ![s] = tier]
         /\ jobState' = IF scanned THEN [jobState EXCEPT ![s] = "pending_submission"]
                        ELSE jobState
  BY DEF Publish, InitialAllowed
<1>2. status[s] = "absent" /\ jobState[s] = "none" /\ approvedBy' = approvedBy
  BY DEF Publish, Evidence, Waiting
<1>3. jobState'[s] \in {"none", "pending_submission"} /\ status'[s] \in {"pending_review", "listed"}
      /\ (status'[s] = "listed" => jobState'[s] = "none")
  BY <1>1, <1>2 DEF Typed, TypeOK
<1>4. \A t \in Skills : t # s => /\ status'[t] = status[t] /\ jobState'[t] = jobState[t]
                                 /\ tierCD'[t] = tierCD[t]
  BY <1>1 DEF Typed, TypeOK
<1>5. QED
  BY <1>2, <1>3, <1>4 DEF Evidence, Waiting, EvidenceGate, HumanApproval, Scanning, Terminal

LEMMA AdminEvidence ==
  ASSUME Typed, Evidence, NEW s \in Skills, NEW target \in {"listed", "rejected", "unlisted"},
         AdminTransition(s, target)
  PROVE  Evidence'
<1>1. /\ status[s] = PriorOf(target)
      /\ status' = [status EXCEPT ![s] = target]
      /\ tierCD' = tierCD /\ jobState' = jobState
      /\ approvedBy' = IF target = "listed" THEN [approvedBy EXCEPT ![s] = Admin] ELSE approvedBy
      /\ target = "listed" => jobState[s] \in {"none", "clean", "manual_review", "exhausted"}
  BY DEF AdminTransition, Transition, ListingEvidence, jobVars
<1>2. /\ status'[s] = target
      /\ target = "listed" => approvedBy'[s] = Admin
      /\ target # "listed" => approvedBy'[s] = approvedBy[s]
      /\ \A t \in Skills : t # s => status'[t] = status[t] /\ approvedBy'[t] = approvedBy[t]
  BY <1>1 DEF Typed, TypeOK
<1>3. CASE target = "listed"
  BY <1>1, <1>2, <1>3 DEF Evidence, Waiting, EvidenceGate, HumanApproval, Scanning, Terminal, PriorOf
<1>4. CASE target = "rejected"
  BY <1>1, <1>2, <1>4 DEF Evidence, Waiting, EvidenceGate, HumanApproval, Scanning, Terminal, PriorOf
<1>5. CASE target = "unlisted"
  BY <1>1, <1>2, <1>5 DEF Evidence, Waiting, EvidenceGate, HumanApproval, Scanning, Terminal, PriorOf
<1>6. QED
  BY <1>3, <1>4, <1>5

\* What a worker's commit does to the two rows it writes.
LEMMA CommitRows ==
  ASSUME Typed, NEW w \in Workers, RecordProgress(w) \/ Complete(w), NEW s, s = task[w].skill
  PROVE  /\ s \in Skills
         /\ jobState[s] \in Scanning
         /\ JobStep(jobState[s], NewState(w))
         /\ jobState' = [jobState EXCEPT ![s] = NewState(w)]
         /\ op[w] \in Terminal => NewState(w) = op[w]
         /\ op[w] \in Progress => NewState(w) \in Scanning
<1>1. pc[w] = "commit" /\ Commits(w) /\ WriteJob(w)
  BY DEF RecordProgress, Complete
<1>2. s \in Skills
  BY <1>1 DEF Typed, TaskOK, Busy
<1>3. JobStep(jobState[s], NewState(w)) /\ jobState' = [jobState EXCEPT ![s] = NewState(w)]
  BY <1>1 DEF Commits, TriggersPass, RowAllowed, WriteJob
<1>4. jobState[s] \in Scanning
  BY <1>3 DEF JobStep, Scanning
<1>5. op[w] \in Terminal => NewState(w) = op[w]
  BY DEF NewState, Terminal
<1>6. op[w] \in Progress => NewState(w) \in Scanning
  <2>1. op[w] = "retry" => jobState[s] = fetched[w] /\ NewState(w) = fetched[w]
    BY <1>1 DEF Commits, Matches, Expected, NewState
  <2>2. op[w] = "submission" => NewState(w) = "submitted"
    BY DEF NewState
  <2>3. op[w] = "polling" => NewState(w) = "polling"
    BY DEF NewState
  <2>4. QED
    BY <1>4, <2>1, <2>2, <2>3 DEF Progress, Scanning
<1>7. QED
  BY <1>2, <1>3, <1>4, <1>5, <1>6

LEMMA ProgressEvidence ==
  ASSUME Typed, Evidence, NEW w \in Workers, RecordProgress(w)
  PROVE  Evidence'
<1> DEFINE s == task[w].skill
<1>1. /\ s \in Skills
      /\ jobState[s] \in Scanning /\ NewState(w) \in Scanning
      /\ jobState' = [jobState EXCEPT ![s] = NewState(w)]
  BY CommitRows DEF RecordProgress
<1>2. jobState'[s] \in Scanning /\ \A t \in Skills : t # s => jobState'[t] = jobState[t]
  BY <1>1 DEF Typed, TypeOK
<1>3. UNCHANGED skillVars
  BY DEF RecordProgress
<1> HIDE DEF s
<1>4. QED
  BY <1>1, <1>2, <1>3 DEF Evidence, Waiting, EvidenceGate, HumanApproval, Scanning, Terminal, skillVars

LEMMA CompleteEvidence ==
  ASSUME Typed, Evidence, NEW w \in Workers, Complete(w)
  PROVE  Evidence'
<1> DEFINE s == task[w].skill
<1>1. /\ s \in Skills /\ op[w] \in Terminal
      /\ jobState[s] \in Scanning
      /\ jobState' = [jobState EXCEPT ![s] = op[w]]
  BY CommitRows DEF Complete
<1>2. jobState'[s] = op[w] /\ \A t \in Skills : t # s => jobState'[t] = jobState[t]
  BY <1>1 DEF Typed, TypeOK
<1>3. status[s] \in {"pending_review", "rejected"}
  BY <1>1 DEF Evidence, Waiting
<1>4. CASE AutoDecides(s, op[w])
  <2>1. /\ Transition(s, w, "pending_review", AutoTarget(op[w]))
        /\ op[w] \in {"clean", "malicious"} /\ (op[w] = "malicious" \/ ~tierCD[s])
    BY <1>4 DEF Complete, AutoDecides
  <2>2. /\ tierCD' = tierCD
        /\ status'[s] = AutoTarget(op[w])
        /\ \A t \in Skills : t # s => status'[t] = status[t] /\ approvedBy'[t] = approvedBy[t]
    BY <1>1, <2>1 DEF Transition, Typed, TypeOK
  <2> HIDE DEF s
  <2>3. QED
    BY <1>1, <1>2, <2>1, <2>2 DEF Evidence, Waiting, EvidenceGate, HumanApproval, Scanning,
                                  Terminal, AutoTarget
<1>5. CASE ~AutoDecides(s, op[w])
  <2>1. UNCHANGED skillVars
    BY <1>5 DEF Complete
  <2>2. op[w] = "malicious" => status[s] = "rejected"
    BY <1>3, <1>5 DEF AutoDecides
  <2> HIDE DEF s
  <2>3. QED
    BY <1>1, <1>2, <1>3, <2>1, <2>2 DEF Evidence, Waiting, EvidenceGate, HumanApproval, Scanning,
                                        Terminal, skillVars
<1>6. QED
  BY <1>4, <1>5

LEMMA NextEvidence == Typed /\ Evidence /\ [Next]_vars => Evidence'
<1> SUFFICES ASSUME Typed, Evidence, [Next]_vars PROVE Evidence'
  OBVIOUS
<1>1. CASE UNCHANGED vars
  BY <1>1, QuietEvidence DEF vars, jobVars
<1>2. ASSUME NEW s \in Skills, Publish(s) PROVE Evidence'
  BY <1>2, PublishEvidence
<1>3. ASSUME NEW s \in Skills, NEW target \in {"listed", "rejected", "unlisted"},
             AdminTransition(s, target)
      PROVE Evidence'
  BY <1>3, AdminEvidence
<1>4. ASSUME NEW s \in Skills, BecomeDue(s) \/ GrowOld(s) \/ LeaseExpires(s) PROVE Evidence'
  BY <1>4, QuietEvidence DEF BecomeDue, GrowOld, LeaseExpires
<1>5. ASSUME NEW w \in Workers, NEW s \in Skills, Claim(w, s) PROVE Evidence'
  BY <1>5, QuietEvidence DEF Claim
<1>6. ASSUME NEW w \in Workers,
             \/ Submit(w) \/ Poll(w) \/ Raise(w) \/ Reread(w) \/ ReadClock(w)
             \/ Refused(w) \/ Crash(w)
      PROVE Evidence'
  BY <1>6, QuietEvidence
     DEF Submit, FindNothing, Offer, Poll, Raise, Reread, ReadClock, Refused, Crash, jobVars
<1>7. ASSUME NEW w \in Workers, RecordProgress(w) \/ Complete(w) PROVE Evidence'
  BY <1>7, ProgressEvidence, CompleteEvidence
<1>8. QED
  BY <1>1, <1>2, <1>3, <1>4, <1>5, <1>6, <1>7 DEF Next, WorkerStep

LEMMA InitEvidence == Init => Evidence
BY DEF Init, Evidence, Waiting, EvidenceGate, HumanApproval, Scanning

LEMMA SafeEvidence == Spec => [](Typed /\ Evidence)
BY InitTyped, NextTyped, InitEvidence, NextEvidence, PTL DEF Spec

\* No scanned skill is ever listed without a terminal, non-malicious scan, and a
\* malicious verdict rejects its skill in the commit that records it.
THEOREM ListingNeedsEvidence == Spec => []EvidenceGate
BY SafeEvidence, PTL DEF Evidence

\* Tier C and D skills, and skills without a clean verdict, are listed by the
\* administrator only, however workers and administrator interleave.
THEOREM ListingNeedsHuman == Spec => []HumanApproval
BY SafeEvidence, PTL DEF Evidence

\* Both together.
THEOREM ListingIsRight == Spec => []ListedRightly
<1>1. EvidenceGate /\ HumanApproval => ListedRightly
  BY DEF ListedRightly
<1>2. QED
  BY <1>1, ListingNeedsEvidence, ListingNeedsHuman, PTL

\* No publication is stranded: it is being scanned or it is in the queue.
THEOREM ReviewQueueComplete == Spec => []NothingStranded
<1>1. Typed /\ Evidence => NothingStranded
  BY DEF Typed, TypeOK, Evidence, EvidenceGate, NothingStranded, ReviewQueue, JobStates,
         Scanning, Terminal
<1>2. QED
  BY <1>1, SafeEvidence, PTL
-----------------------------------------------------------------------------
(* The attempt budget.                                                     *)

\* The run that found the budget of s spent is still there and its lease good:
\* what it is about to commit cannot be refused.
Closing(s) ==
  /\ jobState[s] \in Scanning /\ live[s]
  /\ \E w \in Workers :
       /\ owner[s] = w /\ task[w].skill = s /\ op[w] = "exhausted"
       /\ pc[w] = "write" \/ (pc[w] = "commit" /\ inTime[w])

\* Only the last attempt can stand one above the budget and the faults, and
\* then the job is closed or being closed.
Overrun ==
  \A s \in Skills :
    \/ attempts[s] <= MaxAttempts + faults
    \/ /\ attempts[s] = MaxAttempts + 1 + faults
       /\ jobState[s] \in Terminal \/ Closing(s)

\* Steps that leave s, and the run closing it, alone.
LEMMA QuietOverrun ==
  ASSUME Typed, Overrun, NEW s \in Skills, attempts'[s] = attempts[s], faults' = faults,
         jobState[s] \in Terminal => jobState'[s] \in Terminal,
         Closing(s) => Closing(s)' \/ jobState'[s] \in Terminal
  PROVE  \/ attempts'[s] <= MaxAttempts + faults'
         \/ /\ attempts'[s] = MaxAttempts + 1 + faults'
            /\ jobState'[s] \in Terminal \/ Closing(s)'
BY DEF Overrun

LEMMA FaultOverrun ==
  ASSUME Typed, Overrun, attempts' = attempts, faults' = faults + 1
  PROVE  Overrun'
<1>1. MaxAttempts \in Nat /\ faults \in Nat /\ \A s \in Skills : attempts[s] \in Nat
  BY AttemptsAssumption DEF Typed, TypeOK
<1>2. \A s \in Skills : attempts[s] <= MaxAttempts + 1 + faults
  BY <1>1 DEF Overrun
<1>3. QED
  BY <1>1, <1>2 DEF Overrun

\* The run closing s is the only one whose write to s would get through.
LEMMA ClosingCommits ==
  ASSUME Typed, NEW w \in Workers, NEW s \in Skills, pc[w] = "commit", inTime[w],
         op[w] = "exhausted", task[w].skill = s, owner[s] = w, jobState[s] \in Scanning
  PROVE  Commits(w)
<1>1. Matches(w)
  <2>1. Expected(w) = Scanning
    BY DEF Expected
  <2>2. QED
    BY <2>1 DEF Matches, LeaseHeld
<1>2. RowAllowed(s, NewState(w), NewAnalysis(w))
  <2>1. NewState(w) = "exhausted"
    BY DEF NewState
  <2>2. NewAnalysis(w) = analysis[s]
    BY DEF NewAnalysis
  <2>3. QED
    BY <2>1, <2>2 DEF RowAllowed, JobStep, JobEvidence, Scanning, Terminal
<1>3. ~AutoDecides(s, op[w])
  BY DEF AutoDecides
<1>4. QED
  BY <1>1, <1>2, <1>3 DEF Commits, TriggersPass

LEMMA ClaimOverrun ==
  ASSUME Typed, Overrun, NEW w \in Workers, NEW s \in Skills, Claim(w, s)
  PROVE  Overrun'
<1>1. attempts' = [attempts EXCEPT ![s] = @ + 1] /\ faults' = faults /\ jobState' = jobState
  BY DEF Claim
<1>2. jobState[s] \in Scanning /\ ~live[s] /\ pc[w] = "idle"
  BY DEF Claim, Claimable
<1>3. attempts[s] <= MaxAttempts + faults
  BY <1>2 DEF Overrun, Closing, Scanning, Terminal
<1>4. attempts[s] \in Nat /\ faults \in Nat /\ MaxAttempts \in Nat
  BY AttemptsAssumption DEF Typed, TypeOK
<1>5. attempts'[s] > MaxAttempts => Closing(s)'
  <2>1. SUFFICES ASSUME attempts'[s] > MaxAttempts PROVE Closing(s)'
    OBVIOUS
  <2>2. \A seenAged : Expired(s, seenAged)
    BY <1>1, <1>4, <2>1 DEF Expired, Typed, TypeOK
  <2>3. op'[w] = "exhausted" /\ pc'[w] = "write"
    BY <2>2 DEF Claim, Typed, TypeOK
  <2>4. task'[w].skill = s /\ owner'[s] = w /\ live'[s]
    BY DEF Claim, Typed, TypeOK
  <2>5. QED
    BY <1>1, <1>2, <2>3, <2>4 DEF Closing
<1>6. \A t \in Skills : t # s /\ Closing(t) => Closing(t)'
  <2>1. SUFFICES ASSUME NEW t \in Skills, t # s, Closing(t) PROVE Closing(t)'
    OBVIOUS
  <2>2. PICK v \in Workers :
          /\ owner[t] = v /\ task[v].skill = t /\ op[v] = "exhausted"
          /\ pc[v] = "write" \/ (pc[v] = "commit" /\ inTime[v])
    BY <2>1 DEF Closing
  <2>3. v # w
    BY <1>2, <2>2
  <2>4. /\ owner'[t] = v /\ task'[v].skill = t /\ op'[v] = op[v] /\ pc'[v] = pc[v]
        /\ inTime'[v] = inTime[v] /\ live'[t] = live[t] /\ jobState'[t] = jobState[t]
    BY <1>1, <2>1, <2>2, <2>3 DEF Claim, Typed, TypeOK
  <2>5. QED
    BY <2>1, <2>2, <2>4 DEF Closing
<1>7. ASSUME NEW t \in Skills
      PROVE  \/ attempts'[t] <= MaxAttempts + faults'
             \/ /\ attempts'[t] = MaxAttempts + 1 + faults'
                /\ jobState'[t] \in Terminal \/ Closing(t)'
  <2>1. CASE t = s
    <3>1. attempts'[s] = attempts[s] + 1
      BY <1>1 DEF Typed, TypeOK
    <3>2. QED
      BY <1>1, <1>3, <1>4, <1>5, <2>1, <3>1
  <2>2. CASE t # s
    BY <1>1, <1>6, <2>2, QuietOverrun DEF Typed, TypeOK
  <2>3. QED
    BY <2>1, <2>2
<1>8. QED
  BY <1>7 DEF Overrun

\* A step of one worker's run, ending it or not, that commits nothing.
LEMMA RunOverrun ==
  ASSUME Typed, Overrun, NEW w \in Workers,
         \/ Submit(w) \/ Poll(w) \/ Reread(w) \/ ReadClock(w) \/ Refused(w)
         \/ Raise(w) /\ pc[w] \in {"submit", "poll"}
  PROVE  Overrun'
<1>1. UNCHANGED jobVars /\ faults' = faults
  BY DEF Submit, FindNothing, Offer, Poll, Raise, Reread, ReadClock, Refused
<1>2. \A v \in Workers : v # w => /\ task'[v] = task[v] /\ op'[v] = op[v] /\ pc'[v] = pc[v]
                                  /\ inTime'[v] = inTime[v]
  BY DEF Submit, FindNothing, Offer, Poll, Raise, Reread, ReadClock, Refused, Decide, Finish,
         Typed, TypeOK
<1>3. ASSUME NEW s \in Skills, Closing(s) PROVE Closing(s)'
  <2>1. PICK v \in Workers :
          /\ owner[s] = v /\ task[v].skill = s /\ op[v] = "exhausted"
          /\ pc[v] = "write" \/ (pc[v] = "commit" /\ inTime[v])
    BY <1>3 DEF Closing
  <2>2. jobState[s] \in Scanning /\ live[s]
    BY <1>3 DEF Closing
  <2>3. CASE v # w
    BY <1>1, <1>2, <2>1, <2>2, <2>3 DEF Closing, jobVars
  <2>4. CASE v = w
    <3>1. ~Refused(w)
      BY <2>1, <2>2, <2>4, ClosingCommits DEF Refused
    <3>2. ReadClock(w)
      BY <2>1, <2>4, <3>1 DEF Submit, FindNothing, Offer, Poll, Reread
    <3>3. pc'[w] = "commit" /\ inTime'[w] /\ op' = op /\ task' = task
      BY <2>1, <2>2, <2>4, <3>2 DEF ReadClock, Typed, TypeOK
    <3>4. QED
      BY <1>1, <2>1, <2>2, <2>4, <3>3 DEF Closing, jobVars
  <2>5. QED
    BY <2>3, <2>4
<1>4. QED
  BY <1>1, <1>3, QuietOverrun DEF Overrun, jobVars

LEMMA CommitOverrun ==
  ASSUME Typed, Overrun, NEW w \in Workers, RecordProgress(w) \/ Complete(w)
  PROVE  Overrun'
<1> DEFINE s == task[w].skill
<1>1. /\ s \in Skills /\ jobState[s] \in Scanning /\ owner[s] = w /\ pc[w] = "commit"
      /\ jobState' = [jobState EXCEPT ![s] = NewState(w)]
      /\ op[w] \in Terminal => NewState(w) = op[w]
  BY CommitRows DEF RecordProgress, Complete, Commits, Matches, LeaseHeld
<1>2. /\ attempts' = attempts /\ faults' = faults
      /\ \A t \in Skills : t # s => /\ jobState'[t] = jobState[t] /\ live'[t] = live[t]
                                    /\ owner'[t] = owner[t]
      /\ \A v \in Workers : v # w => /\ task'[v] = task[v] /\ op'[v] = op[v] /\ pc'[v] = pc[v]
                                     /\ inTime'[v] = inTime[v]
  BY <1>1 DEF RecordProgress, Complete, WriteJob, Finish, Typed, TypeOK
<1>3. Closing(s) => jobState'[s] \in Terminal
  BY <1>1 DEF Closing, Terminal, Typed, TypeOK
<1>4. \A t \in Skills : t # s /\ Closing(t) => Closing(t)'
  BY <1>1, <1>2 DEF Closing
<1>5. \A t \in Skills : jobState[t] \in Terminal => jobState'[t] \in Terminal
  BY <1>1, <1>2 DEF Scanning, Terminal
<1>6. ASSUME NEW t \in Skills
      PROVE  \/ attempts'[t] <= MaxAttempts + faults'
             \/ /\ attempts'[t] = MaxAttempts + 1 + faults'
                /\ jobState'[t] \in Terminal \/ Closing(t)'
  BY <1>2, <1>3, <1>4, <1>5, QuietOverrun
<1>7. QED
  BY <1>6 DEF Overrun

LEMMA OtherOverrun ==
  ASSUME Typed, Evidence, Overrun, NEW s \in Skills,
         \/ Publish(s) \/ BecomeDue(s) \/ GrowOld(s) \/ LeaseExpires(s)
         \/ \E target \in {"listed", "rejected", "unlisted"} : AdminTransition(s, target)
  PROVE  Overrun'
<1>1. CASE LeaseExpires(s) /\ Attended(s)
  BY <1>1, FaultOverrun DEF LeaseExpires
<1>2. CASE LeaseExpires(s) /\ ~Attended(s)
  <2>1. \A t \in Skills : Closing(t) => t # s
    BY <1>2 DEF Closing, Attended
  <2>2. \A t \in Skills : Closing(t) => Closing(t)'
    BY <1>2, <2>1 DEF LeaseExpires, Closing, workerVars, Typed, TypeOK
  <2>3. QED
    BY <1>2, <2>2, QuietOverrun DEF LeaseExpires, Overrun
<1>3. CASE Publish(s)
  <2>1. jobState[s] = "none" /\ \A t \in Skills : t # s => jobState'[t] = jobState[t]
    BY <1>3 DEF Publish, Evidence, Waiting, Typed, TypeOK
  <2>2. UNCHANGED <<attempts, owner, live, workerVars, faults>>
    BY <1>3 DEF Publish
  <2>3. ~Closing(s) /\ jobState[s] \notin Terminal
    BY <2>1 DEF Closing, Scanning, Terminal
  <2>4. \A t \in Skills : t # s /\ Closing(t) => Closing(t)'
    BY <2>1, <2>2 DEF Closing, workerVars
  <2>5. QED
    BY <2>1, <2>2, <2>3, <2>4 DEF Overrun
<1>4. CASE BecomeDue(s) \/ GrowOld(s)
           \/ \E target \in {"listed", "rejected", "unlisted"} : AdminTransition(s, target)
  <2>1. UNCHANGED <<attempts, jobState, owner, live, workerVars, faults>>
    BY <1>4 DEF BecomeDue, GrowOld, AdminTransition, jobVars
  <2>2. QED
    BY <2>1 DEF Overrun, Closing, workerVars
<1>5. QED
  BY <1>1, <1>2, <1>3, <1>4

LEMMA NextOverrun == Typed /\ Evidence /\ Overrun /\ [Next]_vars => Overrun'
<1> SUFFICES ASSUME Typed, Evidence, Overrun, [Next]_vars PROVE Overrun'
  OBVIOUS
<1>1. CASE UNCHANGED vars
  BY <1>1 DEF vars, jobVars, workerVars, Overrun, Closing
<1>2. ASSUME NEW w \in Workers, Crash(w) PROVE Overrun'
  BY <1>2, FaultOverrun DEF Crash
<1>3. ASSUME NEW w \in Workers, Raise(w) PROVE Overrun'
  <2>1. CASE pc[w] \in {"submit", "poll"}
    BY <1>3, <2>1, RunOverrun
  <2>2. CASE pc[w] \notin {"submit", "poll"}
    BY <1>3, <2>2, FaultOverrun DEF Raise, jobVars
  <2>3. QED
    BY <2>1, <2>2
<1>4. QED
  BY <1>1, <1>2, <1>3, OtherOverrun, ClaimOverrun, RunOverrun, CommitOverrun
     DEF Next, WorkerStep

LEMMA InitOverrun == Init => Overrun
<1> SUFFICES ASSUME Init, NEW s \in Skills PROVE attempts[s] <= MaxAttempts + faults
  BY DEF Overrun
<1>1. attempts[s] = 0 /\ faults = 0
  BY DEF Init
<1>2. QED
  BY <1>1, AttemptsAssumption

\* A job's attempts pass its budget by one, and by one more for each crash or
\* lease lost under its worker: the claim that finds the budget spent closes it.
THEOREM AttemptsAreBudgeted == Spec => []AttemptBudget
<1>1. Typed /\ Overrun => AttemptBudget
  <2>1. SUFFICES ASSUME Typed, Overrun, NEW s \in Skills
                 PROVE  attempts[s] <= MaxAttempts + 1 + faults
    BY DEF AttemptBudget
  <2>2. MaxAttempts \in Nat /\ faults \in Nat /\ attempts[s] \in Nat
    BY <2>1, AttemptsAssumption DEF Typed, TypeOK
  <2>3. QED
    BY <2>1, <2>2 DEF Overrun
<1>2. QED
  BY <1>1, SafeEvidence, InitOverrun, NextOverrun, PTL DEF Spec
-----------------------------------------------------------------------------
(* Analyses and guards.                                                    *)

Writing(w) == pc[w] \in {"reread", "write", "commit"}

\* A job has an analysis on record exactly from its submission on, whoever is at
\* it; a worker that wants to write what a poll told it knows that there is one.
Submitted ==
  \A s \in Skills :
    /\ jobState[s] \in {"submitted", "polling", "clean", "malicious"} => analysis[s] # 0
    /\ jobState[s] \in {"none", "pending_submission"} => analysis[s] = 0
Judged ==
  \A w \in Workers :
    Writing(w) => /\ op[w] # "none"
                  /\ op[w] \in {"polling", "clean", "malicious"} => analysis[task[w].skill] # 0

\* What is leased is being scanned.
OwnedScans == \A s \in Skills : owner[s] \in Workers => jobState[s] \in Scanning

Recorded == Submitted /\ PollsRecorded /\ Judged /\ OwnedScans

\* Steps of others than the workers, and waiting.
LEMMA QuietRecorded ==
  ASSUME Recorded, UNCHANGED <<jobState, analysis, owner, pc, task, op>>
  PROVE  Recorded'
BY DEF Recorded, Submitted, PollsRecorded, Judged, OwnedScans, Writing

LEMMA PublishRecorded ==
  ASSUME Typed, Evidence, Recorded, NEW s \in Skills, Publish(s)
  PROVE  Recorded'
<1>1. /\ jobState' = jobState \/ jobState' = [jobState EXCEPT ![s] = "pending_submission"]
      /\ jobState[s] = "none"
      /\ UNCHANGED <<analysis, owner, pc, task, op>>
  BY DEF Publish, Evidence, Waiting, workerVars
<1>2. jobState'[s] \in {"none", "pending_submission"} /\ analysis[s] = 0 /\ owner[s] \notin Workers
  BY <1>1 DEF Recorded, Submitted, OwnedScans, Scanning, Typed, TypeOK
<1>3. \A t \in Skills : t # s => jobState'[t] = jobState[t]
  BY <1>1 DEF Typed, TypeOK
<1>4. QED
  BY <1>1, <1>2, <1>3 DEF Recorded, Submitted, PollsRecorded, Judged, OwnedScans, Writing

\* A claim copies the analysis on record, and polls only where there is one.
LEMMA ClaimRecorded ==
  ASSUME Typed, Recorded, NEW w \in Workers, NEW s \in Skills, Claim(w, s)
  PROVE  Recorded'
<1>1. /\ jobState[s] \in Scanning /\ jobState' = jobState /\ analysis' = analysis
      /\ \A t \in Skills : t # s => owner'[t] = owner[t]
      /\ \A v \in Workers : v # w => pc'[v] = pc[v] /\ task'[v] = task[v] /\ op'[v] = op[v]
      /\ task'[w].skill = s /\ task'[w].analysis = analysis[s]
  BY DEF Claim, Claimable, Typed, TypeOK
<1>2. /\ pc'[w] = "poll" => jobState[s] # "pending_submission"
      /\ Writing(w)' => op'[w] = "exhausted"
  BY DEF Claim, FirstStep, Writing, Typed, TypeOK
<1>3. pc'[w] = "poll" => analysis[s] # 0
  BY <1>1, <1>2 DEF Recorded, Submitted, Scanning
<1>4. Submitted' /\ OwnedScans'
  BY <1>1 DEF Recorded, Submitted, OwnedScans
<1>5. PollsRecorded' /\ Judged'
  <2>1. \A v \in Workers : v # w => (Writing(v)' <=> Writing(v))
    BY <1>1 DEF Writing
  <2>2. QED
    BY <1>1, <1>2, <1>3, <2>1 DEF Recorded, PollsRecorded, Judged
<1>6. QED
  BY <1>4, <1>5 DEF Recorded

\* A run that ends forgets what it knew.
LEMMA FinishRecorded ==
  ASSUME Typed, Recorded, NEW w \in Workers, Finish(w),
         UNCHANGED <<jobState, analysis>>,
         \A s \in Skills : owner'[s] = owner[s] \/ owner'[s] \notin Workers
  PROVE  Recorded'
<1>1. /\ \A v \in Workers : v # w => pc'[v] = pc[v] /\ task'[v] = task[v] /\ op'[v] = op[v]
      /\ pc'[w] = "idle"
  BY DEF Finish, Typed, TypeOK
<1>2. QED
  BY <1>1 DEF Recorded, Submitted, PollsRecorded, Judged, OwnedScans, Writing

LEMMA DecideRecorded ==
  ASSUME Typed, Recorded, NEW w \in Workers, NEW what \in Progress \cup Terminal, Decide(w, what),
         what \in {"polling", "clean", "malicious"} => pc[w] = "poll",
         UNCHANGED <<jobState, analysis, owner>>
  PROVE  Recorded'
<1>1. /\ \A v \in Workers : v # w => pc'[v] = pc[v] /\ op'[v] = op[v]
      /\ task' = task /\ pc'[w] \in {"reread", "write"}
      /\ op'[w] \in {what, "exhausted"}
  BY DEF Decide, Typed, TypeOK
<1>2. op'[w] # "none"
  BY <1>1 DEF Progress, Terminal
<1>3. op'[w] \in {"polling", "clean", "malicious"} => analysis[task[w].skill] # 0
  BY <1>1 DEF Recorded, PollsRecorded
<1>4. QED
  BY <1>1, <1>2, <1>3 DEF Recorded, Submitted, PollsRecorded, Judged, OwnedScans, Writing

\* What lets a write through lets it through every trigger.
LEMMA MatchesPasses ==
  ASSUME Typed, Tokens, Recorded, NEW w \in Workers, pc[w] = "commit", Matches(w)
  PROVE  TriggersPass(w)
<1> DEFINE s == task[w].skill
<1>1. s \in Skills /\ task[w].attempt # 0
  BY DEF Typed, TaskOK, Busy, Tokens, Reached
<1>2. jobState[s] \in Scanning /\ jobState[s] \in Expected(w)
  BY <1>1 DEF Matches, LeaseHeld, Recorded, OwnedScans
<1>3. op[w] \in Progress \cup Terminal
  BY DEF Recorded, Judged, Writing, Typed, TypeOK
<1>4. /\ jobState[s] \in {"submitted", "polling"} => analysis[s] # 0
      /\ jobState[s] = "pending_submission" => analysis[s] = 0
      /\ op[w] \in {"polling", "clean", "malicious"} => analysis[s] # 0
  BY <1>1 DEF Recorded, Submitted, Judged, Writing
<1> HIDE DEF s
<1>5. RowAllowed(s, NewState(w), NewAnalysis(w))
  <2>1. CASE op[w] = "submission"
    <3>1. /\ NewState(w) = "submitted" /\ NewAnalysis(w) = task[w].attempt
          /\ jobState[s] = "pending_submission"
      BY <1>2, <2>1 DEF NewState, NewAnalysis, Expected
    <3>2. QED
      BY <1>1, <1>4, <3>1 DEF RowAllowed, JobStep, JobEvidence
  <2>2. CASE op[w] = "polling"
    <3>1. /\ NewState(w) = "polling" /\ NewAnalysis(w) = analysis[s]
          /\ jobState[s] \in {"submitted", "polling"}
      BY <1>2, <2>2 DEF NewState, NewAnalysis, Expected, s
    <3>2. QED
      BY <1>4, <3>1 DEF RowAllowed, JobStep, JobEvidence
  <2>3. CASE op[w] = "retry"
    <3>1. NewState(w) = jobState[s] /\ NewAnalysis(w) = analysis[s]
      BY <1>2, <2>3 DEF NewState, NewAnalysis, Expected, s
    <3>2. QED
      BY <1>2, <1>4, <3>1 DEF RowAllowed, JobStep, JobEvidence, Scanning
  <2>4. CASE op[w] \in Terminal
    <3>1. NewState(w) = op[w] /\ NewAnalysis(w) = analysis[s]
      BY <2>4 DEF NewState, NewAnalysis, Terminal, s
    <3>2. QED
      BY <1>2, <1>4, <2>4, <3>1 DEF RowAllowed, JobStep, JobEvidence, Scanning, Terminal
  <2>5. QED
    BY <1>3, <2>1, <2>2, <2>3, <2>4 DEF Progress
<1>6. AutoDecides(s, op[w]) => /\ StatusStep(status[s], AutoTarget(op[w]))
                               /\ ListingEvidence(AutoTarget(op[w]), op[w])
  BY DEF AutoDecides, StatusStep, AutoTarget, ListingEvidence
<1>7. QED
  BY <1>5, <1>6 DEF TriggersPass, s

\* A write leaves the analysis on record unless it is the first one.
LEMMA CommitRecorded ==
  ASSUME Typed, Tokens, Recorded, NEW w \in Workers, RecordProgress(w) \/ Complete(w)
  PROVE  Recorded'
<1> DEFINE s == task[w].skill
           a == NewAnalysis(w)
           new == NewState(w)
<1>1. /\ s \in Skills /\ Finish(w) /\ jobState[s] \in Scanning
      /\ JobStep(jobState[s], new)
      /\ jobState' = [jobState EXCEPT ![s] = new]
  BY CommitRows DEF RecordProgress, Complete
<1>2. /\ analysis' = [analysis EXCEPT ![s] = a] /\ owner' = [owner EXCEPT ![s] = None]
      /\ JobEvidence(new, analysis[s], a)
      /\ Expected(w) \subseteq Scanning \cup {fetched[w]}
      /\ jobState[s] \in Expected(w)
  BY DEF RecordProgress, Complete, WriteJob, Commits, TriggersPass, RowAllowed, Matches,
         Expected, Scanning
<1>3. new = "pending_submission" => jobState[s] = "pending_submission" /\ a = analysis[s]
  <2>1. ASSUME new = "pending_submission" PROVE op[w] = "retry"
    <3>1. op[w] \in Progress \cup Terminal
      BY <1>1 DEF RecordProgress, Complete
    <3>2. QED
      BY <2>1, <3>1 DEF NewState, Progress, Terminal
  <2>2. op[w] = "retry" => jobState[s] = fetched[w] /\ new = fetched[w] /\ a = analysis[s]
    BY <1>2 DEF Expected, NewState, NewAnalysis
  <2>3. QED
    BY <2>1, <2>2
<1>4. new # "none"
  BY <1>1 DEF JobStep, Scanning, Terminal
<1>5. /\ \A v \in Workers : v # w => pc'[v] = pc[v] /\ task'[v] = task[v] /\ op'[v] = op[v]
      /\ pc'[w] = "idle"
  BY <1>1 DEF Finish, Typed, TypeOK
<1>6. /\ jobState'[s] = new /\ analysis'[s] = a /\ owner'[s] \notin Workers
      /\ \A t \in Skills : t # s => /\ jobState'[t] = jobState[t] /\ analysis'[t] = analysis[t]
                                    /\ owner'[t] = owner[t]
  BY <1>1, <1>2, ActorsAssumption DEF Typed, TypeOK
<1>7. new \in {"submitted", "polling", "clean", "malicious"} => a # 0
  BY <1>2 DEF JobEvidence
<1>8. analysis[s] # 0 => a = analysis[s]
  BY <1>2 DEF JobEvidence
<1> HIDE DEF s, a, new
<1>9. \A t \in Skills : analysis[t] # 0 => analysis'[t] = analysis[t]
  BY <1>6, <1>8
<1>10. Submitted' /\ OwnedScans'
  BY <1>3, <1>4, <1>6, <1>7 DEF Recorded, Submitted, OwnedScans
<1>11. PollsRecorded' /\ Judged'
  <2>1. \A v \in Workers : v # w /\ pc[v] # "idle" => task[v].skill \in Skills
    BY DEF Typed, TaskOK, Busy
  <2>2. QED
    BY <1>5, <1>9, <2>1 DEF Recorded, PollsRecorded, Judged, Writing
<1>12. QED
  BY <1>10, <1>11 DEF Recorded

LEMMA NextRecorded == Typed /\ Tokens /\ Evidence /\ Recorded /\ [Next]_vars => Recorded'
<1> SUFFICES ASSUME Typed, Tokens, Evidence, Recorded, [Next]_vars PROVE Recorded'
  OBVIOUS
<1>1. CASE UNCHANGED vars
  BY <1>1, QuietRecorded DEF vars, jobVars, workerVars
<1>2. ASSUME NEW s \in Skills,
             \/ BecomeDue(s) \/ GrowOld(s) \/ LeaseExpires(s)
             \/ \E target \in {"listed", "rejected", "unlisted"} : AdminTransition(s, target)
      PROVE  Recorded'
  BY <1>2, QuietRecorded DEF BecomeDue, GrowOld, LeaseExpires, AdminTransition, jobVars, workerVars
<1>3. ASSUME NEW w \in Workers, Submit(w) \/ Poll(w) PROVE Recorded'
  <2>1. PICK what \in Progress \cup Terminal :
          /\ Decide(w, what)
          /\ what \in {"polling", "clean", "malicious"} => pc[w] = "poll"
    BY <1>3 DEF Submit, FindNothing, Offer, Poll, Progress, Terminal
  <2>2. UNCHANGED jobVars
    BY <1>3 DEF Submit, FindNothing, Offer, Poll
  <2>3. QED
    BY <2>1, <2>2, DecideRecorded DEF jobVars
<1>4. ASSUME NEW w \in Workers, Reread(w) \/ ReadClock(w) PROVE Recorded'
  <2>1. /\ UNCHANGED <<jobState, analysis, owner, task, op>> /\ Writing(w)
        /\ pc'[w] # "poll" /\ \A v \in Workers : v # w => pc'[v] = pc[v]
    BY <1>4 DEF Reread, ReadClock, jobVars, Writing, Typed, TypeOK
  <2>2. QED
    BY <2>1 DEF Recorded, Submitted, PollsRecorded, Judged, OwnedScans, Writing
<1>5. ASSUME NEW w \in Workers, Raise(w) \/ Refused(w) \/ Crash(w) PROVE Recorded'
  <2>1. \A s \in Skills : owner'[s] = owner[s] \/ owner'[s] \notin Workers
    BY <1>5, ActorsAssumption DEF Raise, Refused, Crash, jobVars, Typed, TypeOK
  <2>2. QED
    BY <1>5, <2>1, FinishRecorded DEF Raise, Refused, Crash, jobVars
<1>6. QED
  BY <1>1, <1>2, <1>3, <1>4, <1>5, PublishRecorded, ClaimRecorded, CommitRecorded DEF Next, WorkerStep

LEMMA InitRecorded == Init => Recorded
BY ActorsAssumption DEF Init, Recorded, Submitted, PollsRecorded, Judged, OwnedScans, Writing, Scanning

LEMMA SafeRecorded == Spec => [](Typed /\ Tokens /\ Evidence /\ Recorded)
BY InitTyped, NextTyped, InitTokens, NextTokens, InitEvidence, NextEvidence,
   InitRecorded, NextRecorded, PTL DEF Spec

\* A worker polls the analysis its job has on record, however old its claim is:
\* a second identifier never replaces the first.
THEOREM PollsAreRecorded == Spec => []PollsRecorded
BY SafeRecorded, PTL DEF Recorded

\* What the lease and the expected state let a worker write, no trigger aborts.
THEOREM GuardsNeverAbort == Spec => []GuardsSilent
<1>1. Typed /\ Tokens /\ Evidence /\ Recorded => GuardsSilent
  BY MatchesPasses DEF GuardsSilent
<1>2. QED
  BY <1>1, SafeRecorded, PTL

-----------------------------------------------------------------------------
(* The two logs.                                                           *)

\* The scan log ends where the job is; what was never queued was never claimed.
EventLog ==
  /\ EventsMatch
  /\ \A s \in Skills : jobState[s] = "none" => attempts[s] = 0

\* A skill has a trail from its publication on, and one row while it waits.
Trails ==
  /\ AuditReplays
  /\ \A s \in Skills :
       /\ status[s] # "absent" => audit[s] # <<>>
       /\ status[s] = "pending_review" => Len(audit[s]) = 1

LEMMA NextEventLog == Typed /\ Evidence /\ EventLog /\ [Next]_vars => EventLog'
<1> SUFFICES ASSUME Typed, Evidence, EventLog, [Next]_vars PROVE EventLog'
  OBVIOUS
<1>1. ASSUME UNCHANGED <<jobState, attempts, lastEvent>> PROVE EventLog'
  BY <1>1 DEF EventLog, EventsMatch
<1>2. ASSUME NEW s \in Skills, Publish(s) PROVE EventLog'
  <2>1. jobState[s] = "none" /\ attempts[s] = 0 /\ attempts' = attempts
    BY <1>2 DEF Publish, Evidence, Waiting, EventLog
  <2>2. CASE UNCHANGED <<jobState, lastEvent>>
    BY <1>1, <2>1, <2>2
  <2>3. CASE /\ jobState' = [jobState EXCEPT ![s] = "pending_submission"]
             /\ LogEvent(s, "pending_submission", 0)
    BY <2>1, <2>3 DEF EventLog, EventsMatch, LogEvent, Typed, TypeOK
  <2>4. QED
    BY <1>2, <2>2, <2>3 DEF Publish
<1>3. ASSUME NEW w \in Workers, NEW s \in Skills, Claim(w, s) PROVE EventLog'
  <2>1. jobState[s] # "none" /\ jobState' = jobState
    BY <1>3 DEF Claim, Claimable, Scanning
  <2>2. QED
    BY <1>3, <2>1 DEF Claim, LogEvent, EventLog, EventsMatch, Typed, TypeOK
<1>4. ASSUME NEW w \in Workers, RecordProgress(w) \/ Complete(w) PROVE EventLog'
  <2> DEFINE s == task[w].skill
  <2>1. /\ s \in Skills /\ jobState' = [jobState EXCEPT ![s] = NewState(w)]
        /\ JobStep(jobState[s], NewState(w))
    BY <1>4, CommitRows
  <2>2. NewState(w) # "none"
    BY <2>1 DEF JobStep, Scanning, Terminal
  <2>3. LogEvent(s, NewState(w), attempts[s]) /\ attempts' = attempts
    BY <1>4 DEF RecordProgress, Complete, WriteJob
  <2> HIDE DEF s
  <2>4. QED
    BY <2>1, <2>2, <2>3 DEF LogEvent, EventLog, EventsMatch, Typed, TypeOK
<1>5. ASSUME NEW s \in Skills,
             \/ BecomeDue(s) \/ GrowOld(s) \/ LeaseExpires(s)
             \/ \E target \in {"listed", "rejected", "unlisted"} : AdminTransition(s, target)
      PROVE  EventLog'
  BY <1>1, <1>5 DEF BecomeDue, GrowOld, LeaseExpires, AdminTransition, jobVars
<1>6. ASSUME NEW w \in Workers,
             \/ Submit(w) \/ Poll(w) \/ Raise(w) \/ Reread(w) \/ ReadClock(w)
             \/ Refused(w) \/ Crash(w)
      PROVE  EventLog'
  BY <1>1, <1>6 DEF Submit, FindNothing, Offer, Poll, Raise, Reread, ReadClock, Refused, Crash, jobVars
<1>7. QED
  BY <1>1, <1>2, <1>3, <1>4, <1>5, <1>6 DEF Next, WorkerStep, vars, jobVars

\* One more row.
LEMMA TransitionTrails ==
  ASSUME Typed, Trails, NEW s \in Skills, NEW actor \in Actors,
         NEW target \in {"listed", "rejected", "unlisted"},
         status[s] = PriorOf(target), Transition(s, actor, PriorOf(target), target)
  PROVE  Trails'
<1> DEFINE row == AuditRow(actor, PriorOf(target), target)
           n == Len(audit[s])
<1>1. /\ audit \in [Skills -> Seq(AuditRows)] /\ status \in [Skills -> Statuses]
      /\ approvedBy \in [Skills -> Actors \cup {None}]
  BY DEF Typed, TypeOK
<1>2. /\ audit'[s] = Append(audit[s], row) /\ status'[s] = target
      /\ \A t \in Skills : t # s => /\ audit'[t] = audit[t] /\ status'[t] = status[t]
                                    /\ approvedBy'[t] = approvedBy[t]
      /\ approvedBy'[s] = IF target = "listed" THEN actor ELSE approvedBy[s]
  BY <1>1 DEF Transition
<1>3. /\ n \in Nat /\ n > 0 /\ Len(audit'[s]) = n + 1
      /\ audit'[s][n + 1] = row /\ \A i \in 1..n : audit'[s][i] = audit[s][i]
      /\ audit[s] # <<>> /\ audit'[s] # <<>>
  <2>1. status[s] # "absent"
    BY DEF PriorOf
  <2>2. audit[s] # <<>> /\ audit[s] \in Seq(AuditRows)
    BY <1>1, <2>1 DEF Trails
  <2>3. QED
    BY <1>2, <2>2
<1>4. row.prior = status[s] /\ row.new = target /\ row.actor = actor
  BY DEF AuditRow
<1>5. audit[s][n].new = status[s]
  BY <1>3 DEF Trails, AuditReplays
<1>6. target = "listed" => n = 1 /\ audit[s][1].new = "pending_review"
  <2>1. target = "listed" => status[s] = "pending_review"
    BY DEF PriorOf
  <2>2. QED
    BY <1>5, <2>1 DEF Trails
<1> HIDE DEF row, n
<1>7. \A i \in 1..n : audit'[s][i + 1].prior = audit'[s][i].new
  <2>1. SUFFICES ASSUME NEW i \in 1..n PROVE audit'[s][i + 1].prior = audit'[s][i].new
    OBVIOUS
  <2>2. CASE i = n
    BY <1>3, <1>4, <1>5, <2>2
  <2>3. CASE i # n
    <3>1. i \in 1..n - 1 /\ i + 1 \in 1..n
      BY <1>3, <2>3
    <3>2. audit[s][i + 1].prior = audit[s][i].new
      BY <1>3, <3>1 DEF Trails, AuditReplays, n
    <3>3. QED
      BY <1>3, <3>1, <3>2
  <2>4. QED
    BY <2>2, <2>3
<1>8. \A i \in 1..n + 1 : audit'[s][i].prior = "pending_review" /\ audit'[s][i].new = "listed"
                            => approvedBy'[s] = audit'[s][i].actor
  <2>1. SUFFICES ASSUME NEW i \in 1..n + 1,
                        audit'[s][i].prior = "pending_review", audit'[s][i].new = "listed"
                 PROVE  approvedBy'[s] = audit'[s][i].actor
    OBVIOUS
  <2>2. CASE i = n + 1
    BY <1>2, <1>3, <1>4, <2>1, <2>2
  <2>3. CASE i # n + 1
    <3>1. i \in 1..n /\ audit'[s][i] = audit[s][i]
      BY <1>3, <2>3
    <3>2. target # "listed"
      BY <1>6, <2>1, <3>1
    <3>3. approvedBy[s] = audit[s][i].actor
      BY <1>3, <2>1, <3>1 DEF Trails, AuditReplays, n
    <3>4. QED
      BY <1>2, <3>1, <3>2, <3>3
  <2>4. QED
    BY <2>2, <2>3
<1>9. QED
  <2>1. ASSUME NEW t \in Skills
        PROVE  /\ audit'[t] # <<>> =>
                    /\ audit'[t][Len(audit'[t])].new = status'[t]
                    /\ \A i \in 1..Len(audit'[t]) - 1 : audit'[t][i + 1].prior = audit'[t][i].new
                    /\ \A i \in 1..Len(audit'[t]) :
                         audit'[t][i].prior = "pending_review" /\ audit'[t][i].new = "listed"
                           => approvedBy'[t] = audit'[t][i].actor
               /\ status'[t] # "absent" => audit'[t] # <<>>
               /\ status'[t] = "pending_review" => Len(audit'[t]) = 1
    <3>1. CASE t = s
      <4>1. Len(audit'[s]) - 1 = n
        BY <1>3
      <4>2. QED
        BY <1>2, <1>3, <1>4, <1>7, <1>8, <3>1, <4>1
    <3>2. CASE t # s
      BY <1>2, <3>2 DEF Trails, AuditReplays
    <3>3. QED
      BY <3>1, <3>2
  <2>2. QED
    BY <2>1 DEF Trails, AuditReplays

LEMMA PublishTrails ==
  ASSUME Typed, Trails, NEW s \in Skills, Publish(s)
  PROVE  Trails'
<1>1. PICK initial \in {"pending_review", "listed"} :
        /\ status' = [status EXCEPT ![s] = initial]
        /\ audit'  = [audit EXCEPT ![s] = <<AuditRow(Author, "absent", initial)>>]
  BY DEF Publish
<1>2. approvedBy' = approvedBy
  BY DEF Publish
<1>3. /\ audit'[s] = <<AuditRow(Author, "absent", initial)>> /\ status'[s] = initial
      /\ \A t \in Skills : t # s => audit'[t] = audit[t] /\ status'[t] = status[t]
  BY <1>1 DEF Typed, TypeOK
<1>4. Len(audit'[s]) = 1 /\ audit'[s][1].new = initial /\ audit'[s][1].prior = "absent"
      /\ audit'[s] # <<>>
  BY <1>3 DEF AuditRow
<1>5. ASSUME NEW t \in Skills
      PROVE  /\ audit'[t] # <<>> =>
                  /\ audit'[t][Len(audit'[t])].new = status'[t]
                  /\ \A i \in 1..Len(audit'[t]) - 1 : audit'[t][i + 1].prior = audit'[t][i].new
                  /\ \A i \in 1..Len(audit'[t]) :
                       audit'[t][i].prior = "pending_review" /\ audit'[t][i].new = "listed"
                         => approvedBy'[t] = audit'[t][i].actor
             /\ status'[t] # "absent" => audit'[t] # <<>>
             /\ status'[t] = "pending_review" => Len(audit'[t]) = 1
  <2>1. CASE t = s
    <3>1. \A i \in 1..1 : audit'[s][i].prior = "absent"
      BY <1>4
    <3>2. 1..(1 - 1) = {}
      OBVIOUS
    <3>3. status'[s] = initial
      BY <1>3
    <3>4. QED
      BY <1>4, <2>1, <3>1, <3>2, <3>3
  <2>2. CASE t # s
    BY <1>2, <1>3, <2>2 DEF Trails, AuditReplays
  <2>3. QED
    BY <2>1, <2>2
<1>6. QED
  BY <1>5 DEF Trails, AuditReplays

LEMMA NextTrails == Typed /\ Trails /\ [Next]_vars => Trails'
<1> SUFFICES ASSUME Typed, Trails, [Next]_vars PROVE Trails'
  OBVIOUS
<1>1. ASSUME UNCHANGED skillVars PROVE Trails'
  BY <1>1 DEF skillVars, Trails, AuditReplays
<1>2. ASSUME NEW s \in Skills, NEW target \in {"listed", "rejected", "unlisted"},
             AdminTransition(s, target)
      PROVE  Trails'
  BY <1>2, TransitionTrails DEF AdminTransition, Actors
<1>3. ASSUME NEW w \in Workers, Complete(w) PROVE Trails'
  <2>1. CASE AutoDecides(task[w].skill, op[w])
    <3>1. /\ Transition(task[w].skill, w, "pending_review", AutoTarget(op[w]))
          /\ status[task[w].skill] = "pending_review" /\ task[w].skill \in Skills
      BY <1>3, <2>1, CommitRows DEF Complete, AutoDecides
    <3>2. /\ AutoTarget(op[w]) \in {"listed", "rejected", "unlisted"} /\ w \in Actors
          /\ PriorOf(AutoTarget(op[w])) = "pending_review"
      BY DEF AutoTarget, PriorOf, Actors
    <3>3. QED
      BY <3>1, <3>2, TransitionTrails
  <2>2. CASE ~AutoDecides(task[w].skill, op[w])
    BY <1>1, <1>3, <2>2 DEF Complete
  <2>3. QED
    BY <2>1, <2>2
<1>4. ASSUME NEW s \in Skills,
             \/ BecomeDue(s) \/ GrowOld(s) \/ LeaseExpires(s) \/ \E w \in Workers : Claim(w, s)
      PROVE  Trails'
  BY <1>1, <1>4 DEF BecomeDue, GrowOld, LeaseExpires, Claim
<1>5. ASSUME NEW w \in Workers,
             \/ Submit(w) \/ Poll(w) \/ Raise(w) \/ Reread(w) \/ ReadClock(w)
             \/ RecordProgress(w) \/ Refused(w) \/ Crash(w)
      PROVE  Trails'
  BY <1>1, <1>5
     DEF Submit, FindNothing, Offer, Poll, Raise, Reread, ReadClock, RecordProgress, Refused,
         Crash
<1>6. QED
  BY <1>1, <1>2, <1>3, <1>4, <1>5, PublishTrails DEF Next, WorkerStep, vars

LEMMA InitLogs == Init => EventLog /\ Trails
<1> SUFFICES ASSUME Init PROVE EventLog /\ Trails
  OBVIOUS
<1>1. EventLog
  BY DEF Init, EventLog, EventsMatch
<1>2. Trails
  BY DEF Init, Trails, AuditReplays
<1>3. QED
  BY <1>1, <1>2

\* The audit trail replays to the skill's row and the scan log ends where its
\* job is, however workers and administrator interleave.
THEOREM LogsStayTrue == Spec => []LogsAgree
<1>1. EventLog /\ Trails => LogsAgree
  BY DEF EventLog, Trails, LogsAgree
<1>2. QED
  BY <1>1, SafeEvidence, InitLogs, NextEventLog, NextTrails, PTL DEF Spec

-----------------------------------------------------------------------------
(* The queue implements the life cycle.                                    *)

EvidenceMap == [s \in Skills |-> EvidenceOf(jobState[s])]
ListerMap   == [s \in Skills |-> ListerOf(s)]

LEMMA EvidenceValues ==
  /\ EvidenceOf("none") = "none"
  /\ \A x \in Scanning : EvidenceOf(x) = "awaited"
  /\ EvidenceOf("clean") = "clean"
  /\ EvidenceOf("malicious") = "malicious"
  /\ EvidenceOf("manual_review") = "inconclusive"
  /\ EvidenceOf("exhausted") = "inconclusive"
<1>1. EvidenceOf("none") = "none" /\ \A x \in Scanning : EvidenceOf(x) = "awaited"
  BY DEF EvidenceOf, Scanning
<1>2. EvidenceOf("clean") = "clean" /\ EvidenceOf("malicious") = "malicious"
  BY DEF EvidenceOf, Scanning
<1>3. EvidenceOf("manual_review") = "inconclusive" /\ EvidenceOf("exhausted") = "inconclusive"
  BY DEF EvidenceOf, Scanning
<1>4. QED
  BY <1>1, <1>2, <1>3

\* Steps that move a job between scanning states, or move nothing, stutter.
LEMMA Stutters ==
  ASSUME UNCHANGED skillVars,
         \A s \in Skills : EvidenceOf(jobState'[s]) = EvidenceOf(jobState[s])
  PROVE  UNCHANGED Lifecycle!vars
BY DEF Lifecycle!vars, skillVars, ListerOf

LEMMA MapPublish ==
  ASSUME Typed, Evidence, NEW s \in Skills, Publish(s)
  PROVE  Lifecycle!Publish(s)
<1>1. PICK tier, scanned \in BOOLEAN, initial \in {"pending_review", "listed"} :
         /\ InitialAllowed(initial, tier, scanned)
         /\ status' = [status EXCEPT ![s] = initial]
         /\ tierCD' = [tierCD EXCEPT ![s] = tier]
         /\ IF scanned THEN jobState' = [jobState EXCEPT ![s] = "pending_submission"]
            ELSE jobState' = jobState
  BY DEF Publish
<1>2. /\ status[s] = "absent" /\ jobState[s] = "none"
      /\ approvedBy[s] = None /\ approvedBy' = approvedBy
  BY DEF Publish, Evidence, Waiting
<1>3. \A t \in Skills : t # s => status'[t] = status[t] /\ jobState'[t] = jobState[t]
  BY <1>1 DEF Typed, TypeOK
<1>4. tierCD'[s] = tier /\ status'[s] = initial
  BY <1>1 DEF Typed, TypeOK
<1>5. \A t \in Skills : t # s => ListerOf(t)' = ListerOf(t)
  BY <1>2, <1>3 DEF ListerOf
<1>6. CASE initial = "pending_review"
  <2>1. ListerMap' = ListerMap
    BY <1>2, <1>4, <1>5, <1>6 DEF ListerMap, ListerOf
  <2>2. PICK e \in {"none", "awaited"} : EvidenceOf(jobState'[s]) = e
    BY <1>1, <1>2, EvidenceValues DEF Scanning, Typed, TypeOK
  <2>3. EvidenceMap' = [EvidenceMap EXCEPT ![s] = e]
    BY <1>3, <2>2 DEF EvidenceMap
  <2>4. QED
    BY <1>1, <1>2, <1>6, <2>1, <2>3 DEF Lifecycle!Publish, EvidenceMap, ListerMap
<1>7. CASE initial = "listed"
  <2>1. ~tier /\ ~scanned
    BY <1>1, <1>7 DEF InitialAllowed
  <2>2. EvidenceMap' = EvidenceMap
    BY <1>1, <2>1 DEF EvidenceMap
  <2>3. ListerOf(s)' = "author"
    BY <1>2, <1>4, <1>7 DEF ListerOf
  <2>4. ListerMap' = [ListerMap EXCEPT ![s] = "author"]
    BY <1>5, <2>3 DEF ListerMap
  <2>5. QED
    BY <1>1, <1>2, <1>4, <1>7, <2>1, <2>2, <2>4 DEF Lifecycle!Publish, EvidenceMap, ListerMap
<1>8. QED
  BY <1>6, <1>7

LEMMA MapAdmin ==
  ASSUME Typed, NEW s \in Skills, NEW target \in {"listed", "rejected", "unlisted"},
         AdminTransition(s, target)
  PROVE  Lifecycle!Approve(s) \/ Lifecycle!Reject(s) \/ Lifecycle!Unlist(s)
<1>1. /\ status[s] = PriorOf(target)
      /\ status' = [status EXCEPT ![s] = target]
      /\ tierCD' = tierCD /\ EvidenceMap' = EvidenceMap
      /\ approvedBy' = IF target = "listed" THEN [approvedBy EXCEPT ![s] = Admin] ELSE approvedBy
      /\ target = "listed" => jobState[s] \in {"none", "clean", "manual_review", "exhausted"}
  BY DEF AdminTransition, Transition, ListingEvidence, jobVars, EvidenceMap
<1>2. /\ status'[s] = target
      /\ target = "listed" => approvedBy'[s] = Admin
      /\ \A t \in Skills : t # s => status'[t] = status[t] /\ approvedBy'[t] = approvedBy[t]
  BY <1>1 DEF Typed, TypeOK
<1>3. \A t \in Skills : t # s => ListerOf(t)' = ListerOf(t)
  BY <1>2 DEF ListerOf
<1>4. CASE target = "listed"
  <2>1. ListerOf(s)' = "admin"
    BY <1>2, <1>4, ActorsAssumption DEF ListerOf
  <2>2. ListerMap' = [ListerMap EXCEPT ![s] = "admin"]
    BY <1>3, <2>1 DEF ListerMap
  <2>3. EvidenceMap[s] \in {"none", "clean", "inconclusive"}
    BY <1>1, <1>4, EvidenceValues DEF EvidenceMap
  <2>4. Lifecycle!Approve(s)
    BY <1>1, <1>4, <2>2, <2>3 DEF Lifecycle!Approve, PriorOf, EvidenceMap, ListerMap
  <2>5. QED
    BY <2>4
<1>5. CASE target = "rejected"
  <2>1. ListerMap' = ListerMap
    BY <1>1, <1>2, <1>3, <1>5 DEF ListerMap, ListerOf, PriorOf
  <2>2. Lifecycle!Reject(s)
    BY <1>1, <1>5, <2>1 DEF Lifecycle!Reject, PriorOf, EvidenceMap, ListerMap
  <2>3. QED
    BY <2>2
<1>6. CASE target = "unlisted"
  <2>1. ListerMap' = ListerMap
    BY <1>1, <1>2, <1>3, <1>6 DEF ListerMap, ListerOf, PriorOf
  <2>2. Lifecycle!Unlist(s)
    BY <1>1, <1>6, <2>1 DEF Lifecycle!Unlist, PriorOf, EvidenceMap, ListerMap
  <2>3. QED
    BY <2>2
<1>7. QED
  BY <1>4, <1>5, <1>6

LEMMA MapProgress ==
  ASSUME Typed, NEW w \in Workers, RecordProgress(w)
  PROVE  UNCHANGED Lifecycle!vars
<1> DEFINE s == task[w].skill
<1>1. /\ s \in Skills /\ jobState[s] \in Scanning /\ NewState(w) \in Scanning
      /\ jobState' = [jobState EXCEPT ![s] = NewState(w)]
  BY CommitRows DEF RecordProgress
<1>2. \A t \in Skills : EvidenceOf(jobState'[t]) = EvidenceOf(jobState[t])
  BY <1>1, EvidenceValues DEF Typed, TypeOK
<1>3. UNCHANGED skillVars
  BY DEF RecordProgress
<1>4. QED
  BY <1>2, <1>3, Stutters

LEMMA MapComplete ==
  ASSUME Typed, Evidence, NEW w \in Workers, Complete(w)
  PROVE  \E s \in Skills : \E v \in Lifecycle!Final : Lifecycle!Verdict(s, v)
<1>0. PICK s \in Skills : s = task[w].skill
  BY CommitRows
<1>e. PICK v : v = EvidenceOf(op[w])
  OBVIOUS
<1>1. /\ op[w] \in Terminal /\ jobState[s] \in Scanning
      /\ jobState' = [jobState EXCEPT ![s] = op[w]]
  BY <1>0, CommitRows DEF Complete
<1>2. /\ v \in Lifecycle!Final
      /\ v = "clean" <=> op[w] = "clean"
      /\ v = "malicious" <=> op[w] = "malicious"
  BY <1>1, <1>e, EvidenceValues DEF Lifecycle!Final, Terminal
<1>3. EvidenceMap[s] = "awaited" /\ EvidenceMap' = [EvidenceMap EXCEPT ![s] = v]
  BY <1>1, <1>e, EvidenceValues DEF EvidenceMap, Typed, TypeOK
<1>4. status[s] \in {"pending_review", "rejected"}
  BY <1>1 DEF Evidence, Waiting
<1>5. CASE AutoDecides(s, op[w])
  <2>1. /\ Transition(s, w, "pending_review", AutoTarget(op[w]))
        /\ status[s] = "pending_review"
        /\ op[w] \in {"clean", "malicious"} /\ (op[w] = "malicious" \/ ~tierCD[s])
    BY <1>0, <1>5 DEF Complete, AutoDecides
  <2>2. /\ tierCD' = tierCD /\ status' = [status EXCEPT ![s] = AutoTarget(op[w])]
        /\ status'[s] = AutoTarget(op[w])
        /\ AutoTarget(op[w]) = "listed" => approvedBy'[s] = w
        /\ \A t \in Skills : t # s => status'[t] = status[t] /\ approvedBy'[t] = approvedBy[t]
    BY <1>1, <2>1 DEF Transition, Typed, TypeOK
  <2>3. \A t \in Skills : t # s => ListerOf(t)' = ListerOf(t)
    BY <2>2 DEF ListerOf
  <2>4. CASE op[w] = "clean"
    <3>1. ListerOf(s)' = "scanner"
      BY <2>2, <2>4, ActorsAssumption DEF AutoTarget, ListerOf
    <3>2. ListerMap' = [ListerMap EXCEPT ![s] = "scanner"]
      BY <2>3, <3>1 DEF ListerMap
    <3>3. Lifecycle!Verdict(s, v)
      BY <1>2, <1>3, <2>1, <2>2, <2>4, <3>2
         DEF Lifecycle!Verdict, AutoTarget, EvidenceMap, ListerMap
    <3>4. QED
      BY <1>1, <1>2, <3>3
  <2>5. CASE op[w] = "malicious"
    <3>1. ListerMap' = ListerMap
      BY <2>1, <2>2, <2>3, <2>5 DEF ListerMap, ListerOf, AutoTarget
    <3>2. Lifecycle!Verdict(s, v)
      BY <1>2, <1>3, <2>1, <2>2, <2>5, <3>1
         DEF Lifecycle!Verdict, AutoTarget, EvidenceMap, ListerMap
    <3>3. QED
      BY <1>1, <1>2, <3>2
  <2>6. QED
    BY <2>1, <2>4, <2>5
<1>6. CASE ~AutoDecides(s, op[w])
  <2>1. UNCHANGED skillVars
    BY <1>0, <1>6 DEF Complete
  <2>2. ~(status[s] = "pending_review" /\ v = "clean" /\ ~tierCD[s])
        /\ ~(status[s] = "pending_review" /\ v = "malicious")
    BY <1>2, <1>6 DEF AutoDecides
  <2>3. ListerMap' = ListerMap
    BY <2>1 DEF ListerMap, ListerOf, skillVars
  <2>4. Lifecycle!Verdict(s, v)
    BY <1>3, <2>1, <2>2, <2>3 DEF Lifecycle!Verdict, EvidenceMap, ListerMap, skillVars
  <2>5. QED
    BY <1>1, <1>2, <2>4
<1>7. QED
  BY <1>5, <1>6

LEMMA MapNext == Typed /\ Evidence /\ [Next]_vars => [Lifecycle!Next]_(Lifecycle!vars)
<1> SUFFICES ASSUME Typed, Evidence, [Next]_vars
             PROVE  Lifecycle!Next \/ UNCHANGED Lifecycle!vars
  OBVIOUS
<1>1. CASE UNCHANGED vars
  BY <1>1, Stutters DEF vars, jobVars
<1>2. ASSUME NEW s \in Skills, Publish(s) PROVE Lifecycle!Next
  BY <1>2, MapPublish DEF Lifecycle!Next
<1>3. ASSUME NEW s \in Skills, NEW target \in {"listed", "rejected", "unlisted"},
             AdminTransition(s, target)
      PROVE  Lifecycle!Next
  BY <1>3, MapAdmin DEF Lifecycle!Next
<1>4. ASSUME NEW w \in Workers, Complete(w) PROVE Lifecycle!Next
  BY <1>4, MapComplete DEF Lifecycle!Next
<1>5. ASSUME NEW w \in Workers, RecordProgress(w) PROVE UNCHANGED Lifecycle!vars
  BY <1>5, MapProgress
<1>6. ASSUME NEW s \in Skills,
             \/ BecomeDue(s) \/ GrowOld(s) \/ LeaseExpires(s)
             \/ \E w \in Workers : Claim(w, s)
      PROVE  UNCHANGED Lifecycle!vars
  BY <1>6, Stutters DEF BecomeDue, GrowOld, LeaseExpires, Claim
<1>7. ASSUME NEW w \in Workers,
             \/ Submit(w) \/ Poll(w) \/ Raise(w) \/ Reread(w) \/ ReadClock(w)
             \/ Refused(w) \/ Crash(w)
      PROVE  UNCHANGED Lifecycle!vars
  BY <1>7, Stutters
     DEF Submit, FindNothing, Offer, Poll, Raise, Reread, ReadClock, Refused, Crash, jobVars
<1>8. QED
  BY <1>1, <1>2, <1>3, <1>4, <1>5, <1>6, <1>7 DEF Next, WorkerStep

LEMMA MapInit == Init => Lifecycle!Init
BY EvidenceValues DEF Init, Lifecycle!Init, ListerOf

\* Seen through the evidence and lister it records, every behaviour of the
\* queue is a behaviour of SkillLifecycle: the verdict and the decision it
\* forces are one step, and no other step decides without the administrator.
THEOREM QueueImplementsLifecycle == Spec => ImplementsLifecycle
BY MapInit, MapNext, SafeEvidence, PTL DEF Spec, ImplementsLifecycle, Lifecycle!Spec
=============================================================================
