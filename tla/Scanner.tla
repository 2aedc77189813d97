------------------------------ MODULE Scanner ------------------------------
(***************************************************************************)
(* One synchronous scan by the provider client: upload, then poll with     *)
(* growing pauses until there is a verdict or the wait is used up, while   *)
(* the provider's engines report in their own time.                        *)
(*                                                                         *)
(* Time is counted in ticks of the client's clock.  What ScanTiming also   *)
(* has is called the client's here, so that one module can speak of both.  *)
(***************************************************************************)
EXTENDS Requests, FiniteSets

CONSTANTS
  Engines,         \* the provider's engines
  MaxWait,         \* max_wait_seconds
  InitialPause,    \* initial_backoff_seconds
  MaxPause         \* max_backoff_seconds

ASSUME EnginesAssumption == IsFiniteSet(Engines)
ASSUME WaitAssumption ==
  /\ {MaxWait, InitialPause, MaxPause} \subseteq Nat \ {0}
  /\ InitialPause <= MaxPause

VARIABLES
  votes,    \* the provider: what each engine has reported
  analysis, \* the provider: "unknown", "running", "completed"
  stage,    \* the request under way: "ready" for the first, "done" after the last
  timeout,  \* the timeout it was given
  left,     \* ticks to the deadline
  backoff,  \* the pause after the next poll
  polls,    \* history: polls started
  result    \* ScanResult.status

providerVars == <<votes, analysis>>
clientVars == <<providerVars, stage, timeout, left, backoff, polls, result>>

Inconclusive == {"undetected", "failure", "timeout", "confirmed-timeout", "type-unsupported"}
Reports == {"malicious", "suspicious", "harmless"} \cup Inconclusive
Results == {"none", "skipped", "pending_manual_review", "malicious", "clean"}

ClientInit ==
  /\ votes = [e \in Engines |-> "none"]
  /\ analysis = "unknown"
  /\ stage = "ready"
  /\ timeout = 0
  /\ left = MaxWait
  /\ backoff = InitialPause
  /\ polls = 0
  /\ result = "none"

-----------------------------------------------------------------------------
(* The provider.                                                           *)

Report(e, report) ==
  /\ analysis = "running"
  /\ votes[e] = "none"
  /\ votes' = [votes EXCEPT ![e] = report]
  /\ UNCHANGED <<analysis, stage, timeout, left, backoff, polls, result>>

Finish ==
  /\ analysis = "running"
  /\ analysis' = "completed"
  /\ UNCHANGED <<votes, stage, timeout, left, backoff, polls, result>>

-----------------------------------------------------------------------------
(* What a completed analysis says.                                         *)

Count(report) == Cardinality({e \in Engines : votes[e] = report})

\* Mutant: one of the outcomes that are no verdict is forgotten.
UndecidedShort ==
  Count("undetected") + Count("failure") + Count("timeout") + Count("type-unsupported")

Undecided ==
  Count("undetected") + Count("failure") + Count("timeout")
    + Count("confirmed-timeout") + Count("type-unsupported")

Verdict ==
  CASE Count("malicious") > 0 -> "malicious"
    [] Count("malicious") = 0 /\ Count("suspicious") = 0 /\ Count("harmless") > Undecided -> "clean"
    [] OTHER -> "pending_manual_review"

-----------------------------------------------------------------------------
(* The client.                                                             *)

\* Mutant: each request has a deadline of its own.
RemainingAnew(d) == MaxWait - d

\* What is left to the deadline when a request took d ticks.
Remaining(d) == left - d

Over(remaining) == remaining <= 0

\* Mutant: every request gets the whole timeout.
TimeoutForAny(remaining) == RequestTimeout

TimeoutFor(remaining) == Least(RequestTimeout, remaining)

Conclude(status) ==
  /\ stage' = "done"
  /\ result' = status
  /\ UNCHANGED <<timeout, backoff, polls>>

\* A request is sent while there is time.
Ask(request, remaining) ==
  /\ stage' = request
  /\ timeout' = TimeoutFor(remaining)
  /\ polls' = IF request = "poll" THEN Least(polls + 1, MaxWait + 1) ELSE polls
  /\ UNCHANGED result

\* scan: no key, nothing to send or too much of it, or the upload.
Scan ==
  /\ stage = "ready"
  /\ \/ \E status \in {"skipped", "pending_manual_review"} : Conclude(status)
     \/ Ask("upload", left) /\ UNCHANGED backoff
  /\ UNCHANGED <<providerVars, left>>

\* The request under way took d ticks.
Took(d) ==
  /\ d \in Lengths(timeout)
  /\ left' = Remaining(d)

\* The upload is answered with an analysis identifier, and the first poll follows.
Uploaded(d) ==
  /\ stage = "upload"
  /\ Took(d)
  /\ analysis' = "running"
  /\ IF Over(left') THEN Conclude("pending_manual_review")
                    ELSE Ask("poll", left') /\ UNCHANGED backoff
  /\ UNCHANGED votes

\* Mutant: the pause does not grow.
GrownNever == backoff

Grown == Least(2 * backoff, MaxPause)

\* Queued or in progress: a pause within the deadline, and the next poll.
Queued(d) ==
  /\ stage = "poll"
  /\ analysis = "running"
  /\ d \in Lengths(timeout)
  /\ LET remaining == Remaining(d)
         after     == remaining - Least(backoff, remaining)
     IN IF Over(remaining) THEN left' = remaining /\ Conclude("pending_manual_review")
        ELSE /\ left' = after
             /\ IF Over(after) THEN Conclude("pending_manual_review")
                               ELSE Ask("poll", after) /\ backoff' = Grown
  /\ UNCHANGED providerVars

Completed(d) ==
  /\ stage = "poll"
  /\ analysis = "completed"
  /\ Took(d)
  /\ Conclude(Verdict)
  /\ UNCHANGED providerVars

\* Any other answer, or none: an HTTP error, a timeout, a reply that breaks the
\* contract.  A failed upload may have reached the provider all the same.
Failed(d) ==
  /\ stage \in {"upload", "poll"}
  /\ Took(d)
  /\ Conclude("pending_manual_review")
  /\ \/ analysis' = analysis
     \/ stage = "upload" /\ analysis' = "running"
  /\ UNCHANGED votes

ClientStep ==
  \/ Scan
  \/ \E d \in Lengths(timeout) :
       Uploaded(d) \/ Queued(d) \/ Completed(d) \/ Failed(d)

ClientNext ==
  \/ ClientStep
  \/ \E e \in Engines, report \in Reports : Report(e, report)
  \/ Finish

ClientSpec == ClientInit /\ [][ClientNext]_clientVars

\* A request ends, with an answer or a timeout, and a pause ends; nothing is
\* asked of the provider.
FairSpec == ClientSpec /\ WF_clientVars(ClientStep)

-----------------------------------------------------------------------------
(* Properties.                                                             *)

\* Every variable has its type.
ClientTypeOK ==
  /\ votes    \in [Engines -> Reports \cup {"none"}]
  /\ analysis \in {"unknown", "running", "completed"}
  /\ stage    \in {"ready", "upload", "poll", "done"}
  /\ timeout  \in Nat
  /\ left     \in Int
  /\ backoff  \in InitialPause..MaxPause
  /\ polls    \in 0..(MaxWait + 1)
  /\ result   \in Results

\* A scan is clean only if, of all engines that reported anything, most said
\* harmless and none said otherwise than harmless or nothing in particular.
CleanIsMajority ==
  LET Said(reports) == {e \in Engines : votes[e] \in reports}
  IN result = "clean" =>
       /\ Said({"malicious", "suspicious"}) = {}
       /\ 2 * Cardinality(Said({"harmless"})) > Cardinality(Said(Reports))

\* However slow the provider, a scan holds its caller for the wait and one
\* request's overrun, no longer: no request or pause starts past the deadline.
WaitBounded == left >= -Overrun

\* For the n-th poll: the pauses before it, if none was cut short, and the one after it.
Schedule(n) ==
  LET At[k \in 1..n] ==
        IF k = 1 THEN [spent |-> 0, next |-> InitialPause]
        ELSE [spent |-> At[k - 1].spent + At[k - 1].next,
              next  |-> Least(2 * At[k - 1].next, MaxPause)]
  IN At[n]

\* The provider is not asked more often than the growing pauses allow.
PollsSpaced ==
  stage = "poll" => MaxWait - left >= Schedule(polls).spent

\* Every scan ends, also when the provider keeps saying that it is not done.
ScanEnds == <>(stage = "done")
=============================================================================
