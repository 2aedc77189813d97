----------------------------- MODULE ScanTiming -----------------------------
(***************************************************************************)
(* The times of the scan queue: the lease, the length of a provider call,  *)
(* the pauses the worker takes and those the provider asks for, the idle   *)
(* sleep of the worker loop and the lifetime of a job, on one clock, for   *)
(* one job and the workers of several hub processes.                       *)
(*                                                                         *)
(* One tick is one second.  A transaction takes no time here: ScanQueue is *)
(* about what happens in between.  The states "submitted" and "polling",   *)
(* which the worker treats alike, are one.                                 *)
(***************************************************************************)
EXTENDS Requests, FiniteSets

CONSTANTS
  Workers,
  Leases,                             \* the leases hubs are configured with
  MaxAttempts, MaxAge,                \* ScanWorkerPolicy
  InitialBackoff, MaxBackoff, Jitter,
  RetryCap,        \* the longest Retry-After that is kept, 300 in the code
  RetryDefault,    \* the pause when it cannot be read, 60 in the code
  RetryAfter,      \* what the provider may ask for
  Restart,         \* bound: seconds until a hub that went down is up again
  MaxCrashes,      \* bound: hubs that go down
  Horizon          \* bound: the end of the clock

Nobody == "nobody"
Gone == "gone"     \* the name of a hub that went down

\* Some hub runs, and worker ids are random.
ASSUME WorkersAssumption == Workers # {} /\ {Nobody, Gone} \cap Workers = {}

\* What load_from_env and ScanWorkerPolicy let through.
ASSUME PolicyAssumption ==
  /\ Leases \cup {MaxAttempts, MaxAge, InitialBackoff, MaxBackoff} \subseteq Nat \ {0}
  /\ InitialBackoff <= MaxBackoff
  /\ Jitter \in 0..MaxBackoff

ASSUME TimesAssumption ==
  /\ RetryCap \in Nat \ {0}
  /\ RetryDefault \in 1..RetryCap
  /\ RetryAfter \subseteq Nat
  /\ {Restart, MaxCrashes, Horizon} \subseteq Nat

VARIABLES
  leaseSeconds,  \* of this deployment
  now,
  job,      \* ScanJobModel: state, next_attempt_at, lease and attempts
  worker,   \* each worker: asleep or in a call, until when, with which job record
  notBefore,\* history: when the last answer allows the next call
  crashes

vars == <<leaseSeconds, now, job, worker, notBefore, crashes>>

Unreadable == -1   \* for a header that cannot be read
Most(m, n) == IF m >= n THEN m ELSE n

Asleep(until) == [at |-> "asleep", until |-> until, attempt |-> 0]

Init ==
  /\ leaseSeconds \in Leases
  /\ now = 0
  /\ job = [state |-> "pending_submission", due |-> 0, owner |-> Nobody, lease |-> 0, attempts |-> 0]
  /\ worker = [w \in Workers |-> Asleep(0)]
  /\ notBefore = 0
  /\ crashes = 0

-----------------------------------------------------------------------------
(* The pauses.                                                             *)

Base(n) == Least(InitialBackoff * 2^Least(n - 1, 30), MaxBackoff)

Delays(n) == {Least(Base(n) + jitter, MaxBackoff) : jitter \in 0..Jitter}

\* _retry_after_seconds
RetrySeconds(asked) ==
  IF asked = Unreadable THEN RetryDefault ELSE Least(Most(asked, 1), RetryCap)

\* Mutant: the cap of the worker's own pauses holds for the provider's, too.
BoundedAlways(delay, cap) == Least(Most(delay, 1), MaxBackoff)

\* _retry
Bounded(delay, cap) == Least(Most(delay, 1), cap)

-----------------------------------------------------------------------------
(* The provider's answers.                                                 *)

\* _raise_provider_status, and what is read from a response that is no error.
ErrorOf(code) ==
  CASE code \in {401, 403} -> "authentication"
    [] code = 429          -> "rate_limit"
    [] code >= 500         -> "temporary"
    [] code \in 400..499 \ {401, 403, 429} -> "provider"
    [] OTHER               -> "none"

Codes == {200, 401, 404, 429, 503}

\* A response, a request that timed out or was cut off, or an exception that no
\* handler of the worker catches.
Outcomes ==
  {ErrorOf(code) : code \in Codes \ {200}} \cup {"temporary", "raised", "accepted", "verdict", "unusable"}

-----------------------------------------------------------------------------
(* The worker.                                                             *)

Open == job.state # "closed"

\* Mutant: a job is claimed when it is due, whoever holds it.
ClaimableHeld == Open /\ job.due <= now

Claimable == Open /\ job.due <= now /\ (job.owner = Nobody \/ job.lease <= now)

\* Mutant: the age of a job is never looked at.
ExpiredByAttempts(attempts) == attempts > MaxAttempts

\* Mutant: one attempt too many.
ExpiredLate(attempts) == attempts > MaxAttempts + 1 \/ now > MaxAge

Expired(attempts) == attempts > MaxAttempts \/ now > MaxAge

Awake(w) == worker[w].at = "asleep" /\ worker[w].until <= now

\* claim_due finds nothing, and the loop sleeps for a second.
FindNothing(w) ==
  /\ Awake(w)
  /\ ~Claimable
  /\ worker' = [worker EXCEPT ![w] = Asleep(now + 1)]
  /\ UNCHANGED <<leaseSeconds, now, job, notBefore, crashes>>

\* claim_due and what comes before the call: a job that is too old is closed.
Claim(w) ==
  /\ Awake(w)
  /\ Claimable
  /\ LET claimed == [job EXCEPT !.owner = w, !.lease = now + leaseSeconds, !.attempts = @ + 1]
     IN \/ /\ Expired(claimed.attempts)
           /\ job' = [claimed EXCEPT !.state = "closed", !.owner = Nobody]
           /\ worker' = [worker EXCEPT ![w] = Asleep(now)]
        \/ /\ ~Expired(claimed.attempts)
           /\ job' = claimed
           /\ \E length \in Lengths(RequestTimeout) :
                worker' = [worker EXCEPT ![w] = [at |-> "calling", until |-> now + length,
                                                 attempt |-> claimed.attempts]]
  /\ UNCHANGED <<leaseSeconds, now, notBefore, crashes>>

Answered(w) == worker[w].at = "calling" /\ worker[w].until <= now

LeaseHeld(w) == job.owner = w /\ job.lease > now

\* complete.  Without the lease nothing is written: a job that is still open makes
\* it a conflict, for which the loop sleeps, and one that is closed already does not.
Close(w) ==
  IF LeaseHeld(w)
  THEN /\ job' = [job EXCEPT !.state = "closed", !.owner = Nobody]
       /\ worker' = [worker EXCEPT ![w] = Asleep(now)]
  ELSE /\ UNCHANGED job
       /\ worker' = [worker EXCEPT ![w] = Asleep(IF Open THEN now + 1 ELSE now)]

\* _record_progress: a conflict if the lease is gone, for which the loop sleeps.
Postpone(w, state, delay) ==
  IF LeaseHeld(w)
  THEN /\ job' = [job EXCEPT !.state = state, !.due = now + delay, !.owner = Nobody]
       /\ worker' = [worker EXCEPT ![w] = Asleep(now)]
  ELSE /\ UNCHANGED job
       /\ worker' = [worker EXCEPT ![w] = Asleep(now + 1)]

Retry(w, delay, cap) ==
  IF worker[w].attempt >= MaxAttempts THEN Close(w) ELSE Postpone(w, job.state, Bounded(delay, cap))

\* The call for the job's state ends.
Answer(w, outcome, asked) ==
  /\ Answered(w)
  /\ LET n == worker[w].attempt
     IN \/ /\ outcome = "accepted"    \* submitted, or not done yet
           /\ \E delay \in Delays(n) : Postpone(w, "submitted", delay)
           /\ notBefore' = now + Base(n)
        \/ /\ outcome = "verdict" /\ job.state # "pending_submission"
           /\ Close(w) /\ UNCHANGED notBefore
        \/ /\ outcome \in {"provider", "unusable"}
           /\ Close(w) /\ UNCHANGED notBefore
        \/ /\ outcome = "rate_limit"
           /\ Retry(w, RetrySeconds(asked), RetryCap)
           /\ notBefore' = now + (IF asked = Unreadable THEN 1 ELSE Least(asked, RetryCap))
        \/ /\ outcome = "authentication"
           /\ Retry(w, MaxBackoff, MaxBackoff)
           /\ notBefore' = now + MaxBackoff
        \/ /\ outcome = "temporary"
           /\ \E delay \in Delays(n) : Retry(w, delay, MaxBackoff)
           /\ notBefore' = now + Base(n)
        \/ /\ outcome = "raised"
           /\ worker' = [worker EXCEPT ![w] = Asleep(now + 1)]
           /\ UNCHANGED <<job, notBefore>>
  /\ UNCHANGED <<leaseSeconds, now, crashes>>

\* The hub of a worker goes down, and comes back with a worker of another name.
Crash(w) ==
  /\ crashes < MaxCrashes
  /\ crashes' = crashes + 1
  /\ worker' = [worker EXCEPT ![w] = Asleep(now + Restart)]
  /\ job' = [job EXCEPT !.owner = IF @ = w THEN Gone ELSE @]
  /\ UNCHANGED <<leaseSeconds, now, notBefore>>

\* Nobody who is awake waits.
Tick ==
  /\ now < Horizon
  /\ \A w \in Workers : worker[w].until > now
  /\ now' = now + 1
  /\ UNCHANGED <<leaseSeconds, job, worker, notBefore, crashes>>

Next ==
  \/ \E w \in Workers : FindNothing(w) \/ Claim(w) \/ Crash(w)
  \/ \E w \in Workers, outcome \in Outcomes, asked \in RetryAfter \cup {Unreadable} :
       /\ asked # Unreadable => outcome = "rate_limit"
       /\ Answer(w, outcome, asked)
  \/ Tick

Spec == Init /\ [][Next]_vars

-----------------------------------------------------------------------------
(* Properties.                                                             *)

TypeOK ==
  /\ leaseSeconds \in Leases
  /\ now \in 0..Horizon /\ notBefore \in Nat /\ crashes \in 0..MaxCrashes
  /\ job \in [state : {"pending_submission", "submitted", "closed"}, due : Nat,
              owner : Workers \cup {Nobody, Gone}, lease : Nat, attempts : Nat]
  /\ worker \in [Workers -> [at : {"asleep", "calling"}, until : Nat, attempt : 0..MaxAttempts]]

\* The lease outlasts any call: what no configuration check asks for.
LeaseCovers == leaseSeconds > RequestTimeout + Overrun

Calling == {w \in Workers : worker[w].at = "calling"}

\* If it does, the provider is never asked about a job by two workers at once, and
\* whoever has an answer still holds the lease, so that none is thrown away.
NoOverlap == LeaseCovers => \A w, v \in Calling : w = v /\ LeaseHeld(w)

\* If it does, no worker calls the provider before the time the last answer asked
\* for: the growing pause, the longest one after a refused key, or Retry-After as
\* far as it is kept, whoever got that answer and whatever went down since.
PausesKept ==
  [][LeaseCovers => \A w \in Workers :
       worker[w].at = "asleep" /\ worker'[w].at = "calling" => now >= notBefore]_vars

\* However short the lease, a job is closed soon after its maximum age: one call
\* and one pause, or one lease, later, and what the hubs were down.
LastChance ==
  MaxAge + Most(RequestTimeout + Overrun + Most(MaxBackoff, RetryCap), leaseSeconds)
    + MaxCrashes * Restart

ClosedInTime == Open => now <= LastChance
=============================================================================
