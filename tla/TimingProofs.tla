---------------------------- MODULE TimingProofs ----------------------------
(***************************************************************************)
(* What holds of ScanTiming, for every set of workers and all times, and   *)
(* of Scanner, for every finite set of engines and all times.              *)
(*                                                                         *)
(* The two share how long a request lasts.                                 *)
(***************************************************************************)
EXTENDS ScanTiming, Scanner, FiniteSetTheorems, TLAPS

-----------------------------------------------------------------------------
(* The times of the queue.                                                 *)

\* What job and each worker are.
Jobs == [state : {"pending_submission", "submitted", "closed"}, due : Nat,
         owner : Workers \cup {Nobody, Gone}, lease : Nat, attempts : Nat]
Doings == [at : {"asleep", "calling"}, until : Nat, attempt : 0..MaxAttempts]

\* The longest call, what may follow it before the job is looked at again, and
\* the bound of ClosedInTime for the crashes there were.
Longest == RequestTimeout + Overrun
Slack == Most(Longest + Most(MaxBackoff, RetryCap), leaseSeconds)
Limit == MaxAge + Slack + crashes * Restart

\* A call is in an attempt of the budget; nobody who is awake waits; nobody holds
\* a closed job.
Asked == \A w \in Workers : worker[w].at = "calling" => worker[w].attempt \in 1..MaxAttempts
Awaited == \A w \in Workers : now <= worker[w].until
ClosedFree == Open \/ job.owner = Nobody

\* A lease that outlasts any call is still there when the call ends.
Covered ==
  LeaseCovers => \A w \in Calling : job.owner = w /\ worker[w].until < job.lease

\* The pause the last answer asked for is in the database until it is over.
Paused ==
  LeaseCovers /\ Open => IF job.owner = Nobody THEN notBefore <= job.due ELSE notBefore <= now

\* While the job is open, everything that will move it on does so in time.
Timely ==
  Open =>
    /\ IF job.owner = Nobody THEN job.due <= Limit ELSE job.due <= now /\ job.lease <= Limit
    /\ \A w \in Workers : worker[w].until <= Limit
    /\ \A w \in Calling : worker[w].until <= MaxAge + Longest


TimingInv == TypeOK /\ Asked /\ Awaited /\ ClosedFree /\ Covered /\ Paused /\ Timely

-----------------------------------------------------------------------------
(* The numbers.                                                            *)

LEMMA ConstantTypes ==
  /\ RequestTimeout \in Nat /\ Overrun \in Nat /\ MaxAge \in Nat /\ Restart \in Nat
  /\ MaxAttempts \in Nat /\ InitialBackoff \in Nat /\ MaxBackoff \in Nat /\ RetryCap \in Nat
  /\ MaxCrashes \in Nat /\ Horizon \in Nat /\ Jitter \in Nat
  /\ MaxAttempts >= 1 /\ MaxBackoff >= 1 /\ InitialBackoff >= 1 /\ RetryCap >= 1
  /\ Longest \in Nat
  /\ Leases \subseteq Nat
BY PolicyAssumption, RequestsAssumption, TimesAssumption, SMT DEF Longest

LEMMA PowerType == ASSUME NEW k \in Nat PROVE 2^k \in Nat
<1>1. IsFiniteSet(1..k) /\ Cardinality(1..k) = k
  BY FS_Interval, SMT
<1>2. IsFiniteSet(SUBSET (1..k)) /\ Cardinality(SUBSET (1..k)) = 2^k
  BY <1>1, FS_SUBSET
<1> QED
  BY <1>2, FS_CardinalityType

LEMMA BaseBounded ==
  ASSUME NEW n \in 1..MaxAttempts
  PROVE  Base(n) \in Nat /\ Base(n) <= MaxBackoff
<1> DEFINE power == 2^Least(n - 1, 30)
<1>1. Least(n - 1, 30) \in Nat
  BY ConstantTypes, SMT DEF Least
<1>2. power \in Nat
  BY <1>1, PowerType
<1>3. Base(n) = Least(InitialBackoff * power, MaxBackoff)
  BY DEF Base
<1> HIDE DEF power
<1>4. InitialBackoff * power \in Nat
  BY <1>2, ConstantTypes, SMT
<1> DEFINE product == InitialBackoff * power
<1>5. Base(n) = Least(product, MaxBackoff) /\ product \in Nat
  BY <1>3, <1>4
<1> HIDE DEF product
<1> QED
  BY <1>5, ConstantTypes, SMT DEF Least

LEMMA DelayBounded ==
  ASSUME NEW n \in 1..MaxAttempts, NEW delay \in Delays(n)
  PROVE  delay \in Nat /\ Base(n) <= delay /\ delay <= MaxBackoff
<1>1. PICK jitter \in 0..Jitter : delay = Least(Base(n) + jitter, MaxBackoff)
  BY DEF Delays
<1> QED
  BY <1>1, BaseBounded, ConstantTypes, SMT DEF Least

LEMMA RetryBounded ==
  ASSUME NEW asked \in RetryAfter \cup {Unreadable}
  PROVE  LET seconds == IF asked = Unreadable THEN 1 ELSE Least(asked, RetryCap)
         IN /\ RetrySeconds(asked) \in Nat /\ RetrySeconds(asked) <= RetryCap
            /\ seconds \in Nat /\ seconds <= RetrySeconds(asked)
<1>1. CASE asked = Unreadable
  <2>1. RetryDefault \in 1..RetryCap
    BY TimesAssumption
  <2> QED
    BY <1>1, <2>1, ConstantTypes, SMT DEF RetrySeconds
<1>2. CASE asked # Unreadable
  <2>1. asked \in Nat
    BY <1>2, TimesAssumption
  <2> QED
    BY <1>2, <2>1, ConstantTypes, SMT DEF RetrySeconds, Least, Most
<1> QED
  BY <1>1, <1>2

LEMMA BoundedBounded ==
  ASSUME NEW cap \in Nat, cap >= 1, NEW delay \in 0..cap
  PROVE  Bounded(delay, cap) \in 0..cap /\ delay <= Bounded(delay, cap)
BY SMT DEF Bounded, Least, Most

LEMMA LimitFacts ==
  ASSUME leaseSeconds \in Leases, crashes \in 0..MaxCrashes
  PROVE  /\ Limit \in Nat
         /\ MaxAge + leaseSeconds <= Limit
         /\ MaxAge + Longest + Most(MaxBackoff, RetryCap) <= Limit
         /\ MaxAge + Longest + 1 <= Limit
         /\ Limit <= LastChance
<1>1. leaseSeconds \in Nat
  BY ConstantTypes
<1> DEFINE down == crashes * Restart
           pause == Most(MaxBackoff, RetryCap)
<1>2. down \in Nat /\ down <= MaxCrashes * Restart /\ MaxCrashes * Restart \in Nat
  <2>1. \A a, b, r \in Nat : a <= b => a * r <= b * r /\ a * r \in Nat /\ b * r \in Nat
    OBVIOUS
  <2>2. crashes \in Nat /\ crashes <= MaxCrashes
    BY ConstantTypes, SMT
  <2> QED
    BY <2>1, <2>2, ConstantTypes
<1>3. pause \in Nat /\ pause >= 1
  BY ConstantTypes, SMT DEF Most
<1>4. Slack \in Nat /\ Longest + pause <= Slack /\ leaseSeconds <= Slack
  BY <1>1, <1>3, ConstantTypes, SMT DEF Slack, Most
<1>5. Limit = MaxAge + Slack + down
  BY DEF Limit
<1>6. LastChance = MaxAge + Slack + MaxCrashes * Restart
  BY DEF LastChance, Slack, Longest
<1> DEFINE most == MaxCrashes * Restart
<1>7. most \in Nat /\ down <= most /\ LastChance = MaxAge + Slack + most
  BY <1>2, <1>6
<1> HIDE DEF down, pause, most
<1>8. /\ Limit \in Nat
      /\ MaxAge + leaseSeconds <= Limit
      /\ MaxAge + Longest + pause <= Limit
      /\ MaxAge + Longest + 1 <= Limit
      /\ Limit <= LastChance
  BY <1>1, <1>2, <1>3, <1>4, <1>5, <1>7, ConstantTypes, SMT
<1> QED
  BY <1>8 DEF pause

-----------------------------------------------------------------------------
LEMMA TimingInit == Init => TimingInv
<1> SUFFICES ASSUME Init PROVE TimingInv
  OBVIOUS
<1>1. /\ leaseSeconds \in Leases /\ crashes \in 0..MaxCrashes
      /\ crashes = 0 /\ now = 0 /\ notBefore = 0
  BY ConstantTypes, SMT DEF Init
<1>2. /\ job.state = "pending_submission" /\ job.due = 0 /\ job.owner = Nobody
      /\ \A w \in Workers : worker[w] = Asleep(0)
  BY DEF Init
<1>3. TypeOK
  <2>1. worker \in [Workers -> Doings]
    BY ConstantTypes, SMT DEF Init, Asleep, Doings
  <2>2. job \in [state : {"pending_submission", "submitted", "closed"}, due : Nat,
                 owner : Workers \cup {Nobody, Gone}, lease : Nat, attempts : Nat]
    BY SMT DEF Init
  <2> QED
    BY <1>1, <2>1, <2>2, ConstantTypes, SMT DEF TypeOK, Doings
<1>4. Calling = {}
  BY <1>2 DEF Calling, Asleep
<1>5. Asked /\ Covered
  BY <1>4 DEF Asked, Covered, Calling
<1>6. Awaited
  BY <1>1, <1>2, SMT DEF Awaited, Asleep
<1>7. ClosedFree /\ Paused
  BY <1>1, <1>2, SMT DEF ClosedFree, Paused, Open
<1>8. Timely
  BY <1>1, <1>2, <1>4, LimitFacts, SMT DEF Timely, Asleep
<1> QED
  BY <1>3, <1>5, <1>6, <1>7, <1>8 DEF TimingInv

LEMMA SleepTyped ==
  ASSUME TypeOK, NEW w \in Workers, NEW until \in Nat,
         worker' = [worker EXCEPT ![w] = Asleep(until)]
  PROVE  /\ worker' \in [Workers -> Doings]
         /\ worker'[w].at = "asleep" /\ worker'[w].until = until
         /\ \A v \in Workers \ {w} : worker'[v] = worker[v]
         /\ Calling' = Calling \ {w}
<1>1. Asleep(until) \in Doings
  BY ConstantTypes, SMT DEF Asleep, Doings
<1>2. worker \in [Workers -> Doings]
  BY DEF TypeOK, Doings
<1>3. worker' \in [Workers -> Doings]
  BY <1>1, <1>2
<1>4. worker'[w] = Asleep(until) /\ \A v \in Workers \ {w} : worker'[v] = worker[v]
  BY <1>2
<1>5. worker'[w].at = "asleep" /\ worker'[w].until = until
  BY <1>4 DEF Asleep
<1>6. Calling' = Calling \ {w}
  BY <1>4, <1>5 DEF Calling
<1> QED
  BY <1>3, <1>4, <1>5, <1>6

LEMMA WorkerNames == \A w \in Workers : w # Nobody /\ w # Gone /\ Nobody # Gone
BY WorkersAssumption DEF Nobody, Gone

LEMMA FindNothingKeeps ==
  ASSUME TimingInv, NEW w \in Workers, FindNothing(w) PROVE TimingInv'
<1>1. /\ worker' = [worker EXCEPT ![w] = Asleep(now + 1)]
      /\ leaseSeconds' = leaseSeconds /\ now' = now /\ job' = job
      /\ notBefore' = notBefore /\ crashes' = crashes
      /\ worker[w].at = "asleep" /\ ~Claimable
  BY DEF FindNothing, Awake
<1>2. now \in Nat /\ TypeOK /\ job.due \in Nat /\ job.lease \in Nat
  BY ConstantTypes, SMT DEF TimingInv, TypeOK, Doings
<1>3. /\ worker' \in [Workers -> Doings]
      /\ worker'[w].at = "asleep" /\ worker'[w].until = now + 1
      /\ \A v \in Workers \ {w} : worker'[v] = worker[v]
      /\ Calling' = Calling \ {w}
  <2>1. now + 1 \in Nat
    BY <1>2
  <2> QED
    BY <1>1, <1>2, <2>1, SleepTyped
<1>4. Limit' = Limit /\ LeaseCovers' = LeaseCovers /\ Open' = Open
  BY <1>1 DEF Limit, Slack, LeaseCovers, Open
<1>5. TypeOK'
  BY <1>1, <1>2, <1>3 DEF TypeOK, Doings
<1>6. Asked'
  BY <1>3 DEF TimingInv, Asked
<1>7. Awaited'
  BY <1>1, <1>2, <1>3, SMT DEF TimingInv, Awaited
<1>8. ClosedFree' /\ Paused'
  BY <1>1, <1>4 DEF TimingInv, ClosedFree, Paused
<1>9. Covered'
  BY <1>1, <1>3, <1>4 DEF TimingInv, Covered, Calling
<1>10. Timely'
  <2> SUFFICES ASSUME Open PROVE
         /\ IF job.owner = Nobody THEN job.due <= Limit ELSE job.due <= now /\ job.lease <= Limit
         /\ \A v \in Workers : worker'[v].until <= Limit
         /\ \A v \in Calling' : worker'[v].until <= MaxAge + Longest
    BY <1>1, <1>4 DEF Timely
  <2>1. /\ IF job.owner = Nobody THEN job.due <= Limit ELSE job.due <= now /\ job.lease <= Limit
        /\ \A v \in Workers : worker[v].until <= Limit
        /\ \A v \in Calling : worker[v].until <= MaxAge + Longest
    BY DEF TimingInv, Timely
  <2>2. Limit \in Nat
    BY <1>2, LimitFacts DEF TypeOK, Doings
  <2>3. now + 1 <= Limit
    BY <1>1, <1>2, <2>1, <2>2, SMT DEF Claimable
  <2> QED
    BY <1>3, <2>1, <2>3 DEF Calling
<1> QED
  BY <1>5, <1>6, <1>7, <1>8, <1>9, <1>10 DEF TimingInv

LEMMA NobodyCalls ==
  ASSUME TimingInv, LeaseCovers, Claimable PROVE Calling = {}
<1> SUFFICES ASSUME NEW v \in Calling PROVE FALSE
  OBVIOUS
<1>1. v \in Workers /\ job.owner = v /\ worker[v].until < job.lease /\ now <= worker[v].until
  BY DEF TimingInv, Covered, Awaited, Calling
<1>2. v # Nobody
  BY <1>1, WorkerNames
<1>3. job.lease <= now
  BY <1>1, <1>2 DEF Claimable
<1>4. now \in Nat /\ job.lease \in Nat /\ worker[v].until \in Nat
  BY <1>1, ConstantTypes, SMT DEF TimingInv, TypeOK, Doings
<1> QED
  BY <1>1, <1>3, <1>4

LEMMA ClaimInTime ==
  ASSUME TimingInv, LeaseCovers, Claimable PROVE notBefore <= now
<1>1. now \in Nat /\ job.due \in Nat /\ notBefore \in Nat
  BY ConstantTypes, SMT DEF TimingInv, TypeOK, Doings
<1>2. IF job.owner = Nobody THEN notBefore <= job.due ELSE notBefore <= now
  BY DEF TimingInv, Paused, Claimable
<1>3. job.due <= now
  BY DEF Claimable
<1> QED
  BY <1>1, <1>2, <1>3

\* How the updates of job keep what it is.
LEMMA JobUpdated ==
  ASSUME NEW j \in Jobs,
         NEW state \in {"pending_submission", "submitted", "closed"}, NEW due \in Nat,
         NEW owner \in Workers \cup {Nobody, Gone}, NEW lease \in Nat, NEW attempts \in Nat
  PROVE  /\ [j EXCEPT !.owner = owner, !.lease = lease, !.attempts = attempts] \in Jobs
         /\ [j EXCEPT !.state = state, !.owner = owner] \in Jobs
         /\ [j EXCEPT !.state = state, !.due = due, !.owner = owner] \in Jobs
         /\ [j EXCEPT !.owner = owner] \in Jobs
BY DEF Jobs

LEMMA ClaimKeeps ==
  ASSUME TimingInv, NEW w \in Workers, Claim(w) PROVE TimingInv'
<1> DEFINE claimed == [job EXCEPT !.owner = w, !.lease = now + leaseSeconds, !.attempts = @ + 1]
<1>1. /\ leaseSeconds' = leaseSeconds /\ now' = now /\ notBefore' = notBefore /\ crashes' = crashes
      /\ worker[w].at = "asleep" /\ worker[w].until <= now /\ Claimable /\ Open /\ job.due <= now
  BY DEF Claim, Awake, Claimable
<1>2. \/ /\ Expired(claimed.attempts)
         /\ job' = [claimed EXCEPT !.state = "closed", !.owner = Nobody]
         /\ worker' = [worker EXCEPT ![w] = Asleep(now)]
      \/ /\ ~Expired(claimed.attempts)
         /\ job' = claimed
         /\ \E length \in Lengths(RequestTimeout) :
              worker' = [worker EXCEPT ![w] = [at |-> "calling", until |-> now + length,
                                               attempt |-> claimed.attempts]]
  BY DEF Claim
<1>3. now \in Nat /\ TypeOK /\ leaseSeconds \in Nat /\ job.due \in Nat /\ job.attempts \in Nat
  BY ConstantTypes, SMT DEF TimingInv, TypeOK, Doings
<1>4. Limit' = Limit /\ LeaseCovers' = LeaseCovers
  BY <1>1 DEF Limit, Slack, LeaseCovers
<1>5. /\ job \in Jobs
      /\ worker \in [Workers -> Doings]
  BY <1>3 DEF TypeOK, Doings, Jobs
<1>6. /\ claimed.owner = w /\ claimed.lease = now + leaseSeconds
      /\ claimed.attempts = job.attempts + 1
      /\ claimed.due = job.due /\ claimed.state = job.state
      /\ claimed \in Jobs
  <2> DEFINE lease == now + leaseSeconds
             attempts == job.attempts + 1
  <2>1. lease \in Nat /\ attempts \in Nat
    BY <1>3
  <2>2. claimed = [job EXCEPT !.owner = w, !.lease = lease, !.attempts = attempts]
    OBVIOUS
  <2> HIDE DEF claimed, lease, attempts
  <2>3. claimed \in Jobs
    BY <1>5, <2>1, <2>2, JobUpdated
  <2>4. /\ claimed.owner = w /\ claimed.lease = lease /\ claimed.attempts = attempts
        /\ claimed.due = job.due /\ claimed.state = job.state
    BY <1>5, <2>2 DEF Jobs
  <2> QED
    BY <2>3, <2>4 DEF lease, attempts
<1>7. w # Nobody
  BY WorkerNames
<1> HIDE DEF claimed
<1>8. CASE /\ job' = [claimed EXCEPT !.state = "closed", !.owner = Nobody]
           /\ worker' = [worker EXCEPT ![w] = Asleep(now)]
  <2>1. /\ worker' \in [Workers -> Doings]
        /\ worker'[w].at = "asleep" /\ worker'[w].until = now
        /\ \A v \in Workers \ {w} : worker'[v] = worker[v]
        /\ Calling' = Calling \ {w}
    BY <1>3, <1>8, SleepTyped
  <2>2. /\ job'.state = "closed" /\ job'.owner = Nobody
        /\ job' \in Jobs
    <3>1. job' \in Jobs
      BY <1>6, <1>8, JobUpdated
    <3> QED
      BY <1>6, <1>8, <3>1 DEF Jobs
  <2>3. TypeOK'
    BY <1>1, <1>3, <2>1, <2>2 DEF TypeOK, Doings, Jobs
  <2>4. Asked'
    BY <2>1 DEF TimingInv, Asked
  <2>5. Awaited'
    BY <1>1, <1>3, <2>1, SMT DEF TimingInv, Awaited
  <2>6. ~Open'
    BY <2>2 DEF Open
  <2>7. ClosedFree' /\ Paused' /\ Timely'
    BY <2>2, <2>6 DEF ClosedFree, Paused, Timely
  <2>8. Covered'
    BY <1>1, <1>4, <2>1, NobodyCalls DEF Covered
  <2> QED
    BY <2>3, <2>4, <2>5, <2>7, <2>8 DEF TimingInv
<1>9. CASE /\ ~Expired(claimed.attempts)
           /\ job' = claimed
           /\ \E length \in Lengths(RequestTimeout) :
                worker' = [worker EXCEPT ![w] = [at |-> "calling", until |-> now + length,
                                                 attempt |-> claimed.attempts]]
  <2>1. PICK length \in Lengths(RequestTimeout) :
          worker' = [worker EXCEPT ![w] = [at |-> "calling", until |-> now + length,
                                           attempt |-> claimed.attempts]]
    BY <1>9
  <2> DEFINE until == now + length
  <2>2. length \in Nat /\ length <= Longest
    BY <2>1, ConstantTypes, SMT DEF Longest, Lengths
  <2>3. until \in Nat /\ now <= until /\ until <= now + Longest
    BY <1>3, <2>2, ConstantTypes, SMT
  <2>4. claimed.attempts \in 1..MaxAttempts /\ now <= MaxAge
    BY <1>3, <1>6, <1>9, ConstantTypes, SMT DEF Expired
  <2>5. worker' = [worker EXCEPT ![w] = [at |-> "calling", until |-> until,
                                         attempt |-> claimed.attempts]]
    BY <2>1
  <2> HIDE DEF until
  <2>6. /\ worker'[w].at = "calling" /\ worker'[w].until = until
        /\ worker'[w].attempt = claimed.attempts
        /\ \A v \in Workers \ {w} : worker'[v] = worker[v]
    BY <1>5, <2>5
  <2>7. worker' \in [Workers -> Doings]
    <3>1. [at |-> "calling", until |-> until, attempt |-> claimed.attempts]
             \in Doings
      BY <2>3, <2>4, ConstantTypes, SMT DEF Doings
    <3> QED
      BY <1>5, <2>5, <3>1
  <2>8. Calling' = Calling \cup {w}
    BY <2>6 DEF Calling
  <2>9. TypeOK'
    BY <1>1, <1>3, <1>6, <1>9, <2>7 DEF TypeOK, Doings, Jobs
  <2>10. Asked'
    BY <2>4, <2>6 DEF TimingInv, Asked
  <2>11. Awaited'
    BY <1>1, <1>3, <2>3, <2>6, SMT DEF TimingInv, Awaited
  <2>12. Open' /\ job'.owner = w /\ job'.lease = now + leaseSeconds /\ job'.due = job.due
    BY <1>1, <1>6, <1>9 DEF Open
  <2>13. ClosedFree'
    BY <2>12 DEF ClosedFree
  <2>14. Paused'
    BY <1>1, <1>4, <1>7, <2>12, ClaimInTime DEF Paused
  <2>15. Covered'
    <3> SUFFICES ASSUME LeaseCovers, NEW v \in Calling'
                 PROVE  job'.owner = v /\ worker'[v].until < job'.lease
      BY <1>4 DEF Covered
    <3>1. v = w
      BY <1>1, <2>8, NobodyCalls
    <3>2. Longest < leaseSeconds
      BY <1>3, ConstantTypes, SMT DEF LeaseCovers, Longest
    <3> QED
      BY <1>3, <2>3, <2>6, <2>12, <3>1, <3>2, ConstantTypes, SMT
  <2>16. Timely'
    <3>1. /\ Limit \in Nat /\ MaxAge + leaseSeconds <= Limit /\ MaxAge + Longest + 1 <= Limit
      BY <1>3, LimitFacts DEF TypeOK, Doings
    <3>2. /\ \A v \in Workers : worker[v].until <= Limit
          /\ \A v \in Calling : worker[v].until <= MaxAge + Longest
      BY <1>1 DEF TimingInv, Timely
    <3>3. until <= MaxAge + Longest /\ until <= Limit /\ now + leaseSeconds <= Limit
      BY <1>3, <2>3, <2>4, <3>1, ConstantTypes, SMT
    <3>4. \A v \in Workers : worker'[v].until <= Limit
      BY <2>6, <3>2, <3>3
    <3>5. \A v \in Calling' : worker'[v].until <= MaxAge + Longest
      BY <2>6, <2>8, <3>2, <3>3 DEF Calling
    <3> QED
      BY <1>1, <1>4, <1>7, <2>12, <3>3, <3>4, <3>5 DEF Timely
  <2> QED
    BY <2>9, <2>10, <2>11, <2>13, <2>14, <2>15, <2>16 DEF TimingInv
<1> QED
  BY <1>2, <1>8, <1>9

\* Whoever has an answer waited no longer than the call.
LEMMA AnswerNow ==
  ASSUME TimingInv, NEW w \in Workers, Answered(w)
  PROVE  /\ now \in Nat /\ worker[w].until = now /\ w \in Calling
         /\ worker[w].attempt \in 1..MaxAttempts
         /\ LeaseCovers => LeaseHeld(w)
         /\ Open => now <= MaxAge + Longest
         /\ LeaseHeld(w) => Open
<1>1. now \in Nat /\ worker[w].until \in Nat /\ job.lease \in Nat
  BY ConstantTypes, SMT DEF TimingInv, TypeOK, Doings
<1>2. worker[w].until <= now /\ w \in Calling
  BY DEF Answered, Calling
<1>3. now <= worker[w].until
  BY DEF TimingInv, Awaited
<1>4. worker[w].until = now
  BY <1>1, <1>2, <1>3
<1>5. worker[w].attempt \in 1..MaxAttempts
  BY <1>2 DEF TimingInv, Asked, Calling
<1>6. LeaseCovers => LeaseHeld(w)
  BY <1>1, <1>2, <1>4, SMT DEF TimingInv, Covered, LeaseHeld
<1>7. Open => now <= MaxAge + Longest
  BY <1>2, <1>4 DEF TimingInv, Timely
<1>8. LeaseHeld(w) => Open
  BY WorkerNames DEF LeaseHeld, TimingInv, ClosedFree
<1> QED
  BY <1>1, <1>2, <1>4, <1>5, <1>6, <1>7, <1>8

\* What every answer leaves alone.
LEMMA AnswerFrame ==
  ASSUME UNCHANGED <<leaseSeconds, now, crashes>>
  PROVE  /\ leaseSeconds' = leaseSeconds /\ now' = now /\ crashes' = crashes
         /\ Limit' = Limit /\ LeaseCovers' = LeaseCovers
BY DEF Limit, Slack, LeaseCovers

LEMMA CloseKeeps ==
  ASSUME TimingInv, NEW w \in Workers, Answered(w), Close(w), notBefore' \in Nat,
         UNCHANGED <<leaseSeconds, now, crashes>>
  PROVE  TimingInv'
<1>1. /\ leaseSeconds' = leaseSeconds /\ now' = now /\ crashes' = crashes
      /\ Limit' = Limit /\ LeaseCovers' = LeaseCovers
  BY AnswerFrame
<1>2. /\ now \in Nat /\ worker[w].until = now /\ w \in Calling
      /\ LeaseCovers => LeaseHeld(w)
      /\ Open => now <= MaxAge + Longest
  BY AnswerNow
<1>3. TypeOK /\ job \in Jobs
  BY DEF TimingInv, TypeOK, Doings, Jobs
<1>4. /\ worker' \in [Workers -> Doings]
      /\ worker'[w].at = "asleep" /\ worker'[w].until \in {now, now + 1}
      /\ \A v \in Workers \ {w} : worker'[v] = worker[v]
      /\ Calling' = Calling \ {w}
  <2>1. PICK until \in {now, now + 1} : worker' = [worker EXCEPT ![w] = Asleep(until)]
    BY DEF Close
  <2>2. until \in Nat
    BY <1>2, <2>1
  <2> QED
    BY <1>3, <2>1, <2>2, SleepTyped
<1>5. \/ LeaseHeld(w) /\ job' = [job EXCEPT !.state = "closed", !.owner = Nobody]
      \/ ~LeaseHeld(w) /\ job' = job
  BY DEF Close
<1>6. job' \in Jobs /\ (LeaseHeld(w) => job'.state = "closed" /\ job'.owner = Nobody)
  <2>1. job' \in Jobs
    <3>1. [job EXCEPT !.state = "closed", !.owner = Nobody] \in Jobs
      <4>1. "closed" \in {"pending_submission", "submitted", "closed"}
            /\ Nobody \in Workers \cup {Nobody, Gone} /\ job \in Jobs
        BY <1>3
      <4> QED
        BY <4>1, JobUpdated
    <3> QED
      BY <1>3, <1>5, <3>1
  <2> QED
    BY <1>3, <1>5, <2>1 DEF Jobs
<1>7. TypeOK'
  BY <1>1, <1>3, <1>4, <1>6 DEF TypeOK, Doings, Jobs
<1>8. Asked'
  BY <1>4 DEF TimingInv, Asked
<1>9. Awaited'
  <2>1. now <= worker'[w].until
    BY <1>2, <1>4
  <2> QED
    BY <1>1, <1>4, <2>1 DEF TimingInv, Awaited
<1>10. ClosedFree'
  BY <1>5, <1>6 DEF TimingInv, ClosedFree, Open
<1>11. Covered'
  BY <1>1, <1>2, <1>4 DEF TimingInv, Covered, LeaseHeld
<1>12. Paused'
  BY <1>1, <1>2, <1>6 DEF Paused, Open
<1>13. Timely'
  <2> SUFFICES ASSUME Open'
               PROVE  /\ IF job'.owner = Nobody THEN job'.due <= Limit
                                                ELSE job'.due <= now /\ job'.lease <= Limit
                      /\ \A v \in Workers : worker'[v].until <= Limit
                      /\ \A v \in Calling' : worker'[v].until <= MaxAge + Longest
    BY <1>1 DEF Timely
  <2>1. job' = job /\ Open
    BY <1>5, <1>6 DEF Open
  <2>2. /\ IF job.owner = Nobody THEN job.due <= Limit ELSE job.due <= now /\ job.lease <= Limit
        /\ \A v \in Workers : worker[v].until <= Limit
        /\ \A v \in Calling : worker[v].until <= MaxAge + Longest
    BY <2>1 DEF TimingInv, Timely
  <2>3. worker'[w].until <= Limit
    <3>1. Limit \in Nat /\ MaxAge + Longest + 1 <= Limit
      BY <1>3, LimitFacts DEF TypeOK
    <3>2. worker'[w].until <= MaxAge + Longest + 1 /\ worker'[w].until \in Nat
      BY <1>2, <1>4, <2>1, ConstantTypes
    <3> QED
      BY <3>1, <3>2, ConstantTypes
  <2>4. \A v \in Workers : worker'[v].until <= Limit
    BY <1>4, <2>2, <2>3
  <2>5. \A v \in Calling' : worker'[v].until <= MaxAge + Longest
    BY <1>4, <2>2 DEF Calling
  <2> QED
    BY <2>1, <2>2, <2>4, <2>5
<1> QED
  BY <1>7, <1>8, <1>9, <1>10, <1>11, <1>12, <1>13 DEF TimingInv

LEMMA PostponeKeeps ==
  ASSUME TimingInv, NEW w \in Workers, Answered(w),
         NEW state, state = "submitted" \/ state = job.state,
         NEW delay \in 0..Most(MaxBackoff, RetryCap), Postpone(w, state, delay),
         notBefore' \in Nat, notBefore' <= now + delay,
         UNCHANGED <<leaseSeconds, now, crashes>>
  PROVE  TimingInv'
<1>1. /\ leaseSeconds' = leaseSeconds /\ now' = now /\ crashes' = crashes
      /\ Limit' = Limit /\ LeaseCovers' = LeaseCovers
  BY AnswerFrame
<1>2. /\ now \in Nat /\ worker[w].until = now /\ w \in Calling
      /\ LeaseCovers => LeaseHeld(w)
      /\ Open => now <= MaxAge + Longest
      /\ LeaseHeld(w) => Open
  BY AnswerNow
<1>3. TypeOK /\ job \in Jobs /\ leaseSeconds \in Leases /\ crashes \in 0..MaxCrashes
  BY DEF TimingInv, TypeOK, Doings, Jobs
<1>4. \/ /\ LeaseHeld(w)
         /\ job' = [job EXCEPT !.state = state, !.due = now + delay, !.owner = Nobody]
         /\ worker' = [worker EXCEPT ![w] = Asleep(now)]
      \/ /\ ~LeaseHeld(w) /\ job' = job
         /\ worker' = [worker EXCEPT ![w] = Asleep(now + 1)]
  BY DEF Postpone
<1>5. Most(MaxBackoff, RetryCap) \in Nat /\ delay \in Nat /\ delay <= Most(MaxBackoff, RetryCap)
      /\ now + delay \in Nat
  BY <1>2, ConstantTypes, SMT DEF Most
<1>6. /\ Limit \in Nat
      /\ MaxAge + Longest + Most(MaxBackoff, RetryCap) <= Limit
      /\ MaxAge + Longest + 1 <= Limit
  BY <1>3, LimitFacts
<1>7. PICK until \in {now, now + 1} : worker' = [worker EXCEPT ![w] = Asleep(until)]
  BY <1>4
<1>8. /\ worker' \in [Workers -> Doings]
      /\ worker'[w].at = "asleep" /\ worker'[w].until = until
      /\ \A v \in Workers \ {w} : worker'[v] = worker[v]
      /\ Calling' = Calling \ {w}
  <2>1. until \in Nat
    BY <1>2, <1>7
  <2> QED
    BY <1>3, <1>7, <2>1, SleepTyped
<1>9. /\ job' \in Jobs
      /\ LeaseHeld(w) => job'.state = state /\ job'.due = now + delay /\ job'.owner = Nobody
  <2>1. state \in {"pending_submission", "submitted", "closed"}
    BY <1>3 DEF Jobs
  <2> DEFINE due == now + delay
  <2>2. due \in Nat
    BY <1>5
  <2>3. \/ LeaseHeld(w) /\ job' = [job EXCEPT !.state = state, !.due = due, !.owner = Nobody]
        \/ ~LeaseHeld(w) /\ job' = job
    BY <1>4
  <2> HIDE DEF due
  <2>5. job' \in Jobs
    <3>1. [job EXCEPT !.state = state, !.due = due, !.owner = Nobody] \in Jobs
      <4>1. Nobody \in Workers \cup {Nobody, Gone} /\ job \in Jobs
        BY <1>3
      <4> QED
        BY <2>1, <2>2, <4>1, JobUpdated
    <3> QED
      BY <1>3, <2>3, <3>1
  <2>4. LeaseHeld(w) => job'.state = state /\ job'.due = due /\ job'.owner = Nobody
    BY <1>3, <2>3 DEF Jobs
  <2> QED
    BY <2>4, <2>5 DEF due
<1>10. TypeOK'
  BY <1>1, <1>3, <1>8, <1>9 DEF TypeOK, Doings, Jobs
<1>11. Asked'
  BY <1>8 DEF TimingInv, Asked
<1>12. Awaited'
  <2>1. now <= until
    BY <1>2, <1>7
  <2> QED
    BY <1>1, <1>8, <2>1 DEF TimingInv, Awaited
<1>13. ClosedFree'
  BY <1>4, <1>9 DEF TimingInv, ClosedFree, Open
<1>14. Covered'
  BY <1>1, <1>2, <1>8 DEF TimingInv, Covered, LeaseHeld
<1>15. Paused'
  BY <1>1, <1>2, <1>9 DEF Paused
<1>16. Timely'
  <2> SUFFICES ASSUME Open'
               PROVE  /\ IF job'.owner = Nobody THEN job'.due <= Limit
                                                ELSE job'.due <= now /\ job'.lease <= Limit
                      /\ \A v \in Workers : worker'[v].until <= Limit
                      /\ \A v \in Calling' : worker'[v].until <= MaxAge + Longest
    BY <1>1 DEF Timely
  <2>1. Open
    BY <1>2, <1>4 DEF Open
  <2>2. /\ IF job.owner = Nobody THEN job.due <= Limit ELSE job.due <= now /\ job.lease <= Limit
        /\ \A v \in Workers : worker[v].until <= Limit
        /\ \A v \in Calling : worker[v].until <= MaxAge + Longest
    BY <2>1 DEF TimingInv, Timely
  <2>3. until <= Limit
    <3>1. now <= MaxAge + Longest /\ (until = now \/ until = now + 1)
      BY <1>2, <1>7, <2>1
    <3> QED
      BY <1>2, <1>6, <3>1, ConstantTypes, SMT
  <2>4. now + delay <= Limit
    <3>1. now <= MaxAge + Longest
      BY <1>2, <2>1
    <3> QED
      BY <1>2, <1>5, <1>6, <3>1, ConstantTypes, SMT
  <2>5. CASE LeaseHeld(w)
    BY <1>8, <1>9, <2>2, <2>3, <2>4, <2>5 DEF Calling
  <2>6. CASE ~LeaseHeld(w)
    <3>1. job' = job
      BY <1>4, <2>6
    <3> QED
      BY <1>8, <2>2, <2>3, <3>1 DEF Calling
  <2> QED
    BY <2>5, <2>6
<1> QED
  BY <1>10, <1>11, <1>12, <1>13, <1>14, <1>15, <1>16 DEF TimingInv

LEMMA RetryKeeps ==
  ASSUME TimingInv, NEW w \in Workers, Answered(w),
         NEW cap \in {MaxBackoff, RetryCap}, NEW delay \in 0..cap, Retry(w, delay, cap),
         notBefore' \in Nat, notBefore' <= now + delay,
         UNCHANGED <<leaseSeconds, now, crashes>>
  PROVE  TimingInv'
<1>1. CASE Close(w)
  BY <1>1, CloseKeeps
<1>2. CASE Postpone(w, job.state, Bounded(delay, cap))
  <2>1. cap \in Nat /\ cap >= 1
    BY ConstantTypes
  <2>2. Bounded(delay, cap) \in 0..cap /\ delay <= Bounded(delay, cap)
    BY <2>1, BoundedBounded
  <2> DEFINE bounded == Bounded(delay, cap)
  <2>3. bounded \in 0..cap /\ delay <= bounded /\ Postpone(w, job.state, bounded)
    BY <1>2, <2>2
  <2> HIDE DEF bounded
  <2>4. bounded \in 0..Most(MaxBackoff, RetryCap)
    BY <2>1, <2>3, ConstantTypes, SMT DEF Most
  <2>5. notBefore' <= now + bounded
    <3>1. now \in Nat
      BY AnswerNow
    <3> QED
      BY <2>1, <2>3, <3>1, SMT
  <2> QED
    BY <2>3, <2>4, <2>5, PostponeKeeps
<1> QED
  BY <1>1, <1>2 DEF Retry

LEMMA RaisedKeeps ==
  ASSUME TimingInv, NEW w \in Workers, Answered(w),
         worker' = [worker EXCEPT ![w] = Asleep(now + 1)],
         job' = job, notBefore' = notBefore, UNCHANGED <<leaseSeconds, now, crashes>>
  PROVE  TimingInv'
<1>1. /\ leaseSeconds' = leaseSeconds /\ now' = now /\ crashes' = crashes
      /\ Limit' = Limit /\ LeaseCovers' = LeaseCovers /\ Open' = Open
  BY AnswerFrame DEF Open
<1>2. now \in Nat /\ (Open => now <= MaxAge + Longest)
  BY AnswerNow
<1>3. TypeOK /\ leaseSeconds \in Leases /\ crashes \in 0..MaxCrashes
  BY DEF TimingInv, TypeOK, Doings
<1>4. /\ worker' \in [Workers -> Doings]
      /\ worker'[w].at = "asleep" /\ worker'[w].until = now + 1
      /\ \A v \in Workers \ {w} : worker'[v] = worker[v]
      /\ Calling' = Calling \ {w}
  <2>1. now + 1 \in Nat
    BY <1>2
  <2> QED
    BY <1>3, <2>1, SleepTyped
<1>5. TypeOK'
  BY <1>1, <1>3, <1>4 DEF TypeOK, Doings
<1>6. Asked'
  BY <1>4 DEF TimingInv, Asked
<1>7. Awaited'
  BY <1>1, <1>2, <1>4, SMT DEF TimingInv, Awaited
<1>8. ClosedFree' /\ Paused'
  BY <1>1 DEF TimingInv, ClosedFree, Paused
<1>9. Covered'
  BY <1>1, <1>4 DEF TimingInv, Covered, Calling
<1>10. Timely'
  <2> SUFFICES ASSUME Open PROVE
         /\ IF job.owner = Nobody THEN job.due <= Limit ELSE job.due <= now /\ job.lease <= Limit
         /\ \A v \in Workers : worker'[v].until <= Limit
         /\ \A v \in Calling' : worker'[v].until <= MaxAge + Longest
    BY <1>1 DEF Timely
  <2>1. /\ IF job.owner = Nobody THEN job.due <= Limit ELSE job.due <= now /\ job.lease <= Limit
        /\ \A v \in Workers : worker[v].until <= Limit
        /\ \A v \in Calling : worker[v].until <= MaxAge + Longest
    BY DEF TimingInv, Timely
  <2>2. Limit \in Nat /\ MaxAge + Longest + 1 <= Limit
    BY <1>3, LimitFacts
  <2>3. now + 1 <= Limit
    BY <1>2, <2>2, ConstantTypes, SMT
  <2> QED
    BY <1>4, <2>1, <2>3 DEF Calling
<1> QED
  BY <1>5, <1>6, <1>7, <1>8, <1>9, <1>10 DEF TimingInv

LEMMA AnswerKeeps ==
  ASSUME TimingInv, NEW w \in Workers, NEW outcome \in Outcomes,
         NEW asked \in RetryAfter \cup {Unreadable},
         Answer(w, outcome, asked)
  PROVE  TimingInv'
<1> DEFINE n == worker[w].attempt
           seconds == IF asked = Unreadable THEN 1 ELSE Least(asked, RetryCap)
<1>1. Answered(w) /\ UNCHANGED <<leaseSeconds, now, crashes>>
  BY DEF Answer
<1>2. now \in Nat /\ n \in 1..MaxAttempts /\ notBefore \in Nat
  <2>1. notBefore \in Nat
    BY DEF TimingInv, TypeOK, Doings
  <2> QED
    BY <1>1, <2>1, AnswerNow
<1>3. \/ \E delay \in Delays(n) : Postpone(w, "submitted", delay) /\ notBefore' = now + Base(n)
      \/ Close(w) /\ notBefore' = notBefore
      \/ Retry(w, RetrySeconds(asked), RetryCap) /\ notBefore' = now + seconds
      \/ Retry(w, MaxBackoff, MaxBackoff) /\ notBefore' = now + MaxBackoff
      \/ \E delay \in Delays(n) : Retry(w, delay, MaxBackoff) /\ notBefore' = now + Base(n)
      \/ worker' = [worker EXCEPT ![w] = Asleep(now + 1)] /\ job' = job /\ notBefore' = notBefore
  BY DEF Answer
<1>4. /\ Base(n) \in Nat
      /\ \A delay \in Delays(n) : delay \in Nat /\ Base(n) <= delay /\ delay <= MaxBackoff
  BY <1>2, BaseBounded, DelayBounded
<1>5. /\ RetrySeconds(asked) \in Nat /\ RetrySeconds(asked) <= RetryCap
      /\ seconds \in Nat /\ seconds <= RetrySeconds(asked)
  BY RetryBounded
<1> DEFINE base == Base(n)
           kept == RetrySeconds(asked)
<1>6. /\ base \in Nat
      /\ \A delay \in Delays(n) : delay \in Nat /\ base <= delay /\ delay <= MaxBackoff
  BY <1>4
<1>7. kept \in Nat /\ kept <= RetryCap /\ seconds \in Nat /\ seconds <= kept
  BY <1>5
<1> HIDE DEF n, seconds, base, kept
<1>8. ASSUME NEW delay \in Delays(n), Postpone(w, "submitted", delay), notBefore' = now + base
      PROVE  TimingInv'
  <2>1. delay \in Nat /\ base <= delay /\ delay <= MaxBackoff
    BY <1>6
  <2>2. delay \in 0..Most(MaxBackoff, RetryCap)
    BY <2>1, ConstantTypes, SMT DEF Most
  <2>3. notBefore' \in Nat /\ notBefore' <= now + delay
    BY <1>2, <1>6, <1>8, <2>1, SMT
  <2> QED
    BY <1>1, <1>8, <2>2, <2>3, PostponeKeeps
<1>9. ASSUME Close(w), notBefore' = notBefore PROVE TimingInv'
  BY <1>1, <1>2, <1>9, CloseKeeps
<1>10. ASSUME Retry(w, kept, RetryCap), notBefore' = now + seconds PROVE TimingInv'
  <2>1. kept \in 0..RetryCap /\ notBefore' \in Nat /\ notBefore' <= now + kept
    BY <1>2, <1>7, <1>10, ConstantTypes, SMT
  <2> QED
    BY <1>1, <1>10, <2>1, RetryKeeps
<1>11. ASSUME Retry(w, MaxBackoff, MaxBackoff), notBefore' = now + MaxBackoff PROVE TimingInv'
  <2>1. MaxBackoff \in 0..MaxBackoff /\ notBefore' \in Nat /\ notBefore' <= now + MaxBackoff
    BY <1>2, <1>11, ConstantTypes, SMT
  <2> QED
    BY <1>1, <1>11, <2>1, RetryKeeps
<1>12. ASSUME NEW delay \in Delays(n), Retry(w, delay, MaxBackoff), notBefore' = now + base
       PROVE  TimingInv'
  <2>1. delay \in Nat /\ base <= delay /\ delay <= MaxBackoff
    BY <1>6
  <2>2. delay \in 0..MaxBackoff /\ notBefore' \in Nat /\ notBefore' <= now + delay
    BY <1>2, <1>6, <1>12, <2>1, ConstantTypes, SMT
  <2> QED
    BY <1>1, <1>12, <2>2, RetryKeeps
<1>13. ASSUME worker' = [worker EXCEPT ![w] = Asleep(now + 1)], job' = job, notBefore' = notBefore
       PROVE  TimingInv'
  BY <1>1, <1>13, RaisedKeeps
<1> QED
  BY <1>3, <1>8, <1>9, <1>10, <1>11, <1>12, <1>13 DEF base, kept

LEMMA CrashKeeps ==
  ASSUME TimingInv, NEW w \in Workers, Crash(w) PROVE TimingInv'
<1>1. /\ leaseSeconds' = leaseSeconds /\ now' = now /\ notBefore' = notBefore
      /\ crashes < MaxCrashes /\ crashes' = crashes + 1
      /\ worker' = [worker EXCEPT ![w] = Asleep(now + Restart)]
      /\ job' = [job EXCEPT !.owner = IF @ = w THEN Gone ELSE @]
  BY DEF Crash
<1>2. /\ TypeOK /\ job \in Jobs /\ leaseSeconds \in Leases /\ now \in Nat
      /\ crashes \in Nat /\ crashes \in 0..MaxCrashes /\ crashes' \in 0..MaxCrashes
  <2>1. /\ TypeOK /\ job \in Jobs /\ leaseSeconds \in Leases
        /\ now \in 0..Horizon /\ crashes \in 0..MaxCrashes
    BY DEF TimingInv, TypeOK, Doings, Jobs
  <2> QED
    BY <1>1, <2>1, ConstantTypes, SMT
<1>3. /\ worker' \in [Workers -> Doings]
      /\ worker'[w].at = "asleep" /\ worker'[w].until = now + Restart
      /\ \A v \in Workers \ {w} : worker'[v] = worker[v]
      /\ Calling' = Calling \ {w}
  <2> DEFINE until == now + Restart
  <2>1. until \in Nat /\ worker' = [worker EXCEPT ![w] = Asleep(until)]
    BY <1>1, <1>2, ConstantTypes
  <2> HIDE DEF until
  <2>2. /\ worker' \in [Workers -> Doings]
        /\ worker'[w].at = "asleep" /\ worker'[w].until = until
        /\ \A v \in Workers \ {w} : worker'[v] = worker[v]
        /\ Calling' = Calling \ {w}
    BY <1>2, <2>1, SleepTyped
  <2> QED
    BY <2>2 DEF until
<1>4. /\ job' \in Jobs /\ job'.state = job.state /\ job'.due = job.due /\ job'.lease = job.lease
      /\ job'.owner = IF job.owner = w THEN Gone ELSE job.owner
  <2> DEFINE owner == IF job.owner = w THEN Gone ELSE job.owner
  <2>1. owner \in Workers \cup {Nobody, Gone} /\ job' = [job EXCEPT !.owner = owner]
    BY <1>1, <1>2 DEF Jobs
  <2> HIDE DEF owner
  <2>2. job' \in Jobs
    BY <1>2, <2>1, JobUpdated
  <2>3. /\ job'.state = job.state /\ job'.due = job.due
        /\ job'.lease = job.lease /\ job'.owner = owner
    BY <1>2, <2>1 DEF Jobs
  <2> QED
    BY <2>2, <2>3 DEF owner
<1>5. Open' = Open /\ LeaseCovers' = LeaseCovers
  BY <1>1, <1>4 DEF Open, LeaseCovers
<1>6. (job'.owner = Nobody) = (job.owner = Nobody)
  BY <1>4, WorkerNames
<1>7. Limit \in Nat /\ Limit' = Limit + Restart
  <2>1. Limit \in Nat /\ Slack' = Slack
    BY <1>1, <1>2, LimitFacts DEF Slack
  <2>2. \A a, r \in Nat : (a + 1) * r = a * r + r /\ a * r \in Nat
    OBVIOUS
  <2>3. (crashes + 1) * Restart = crashes * Restart + Restart /\ crashes * Restart \in Nat
    BY <1>2, <2>2, ConstantTypes
  <2> DEFINE down == crashes * Restart
             base == MaxAge + Slack
  <2>4. Slack \in Nat
    BY <1>2, ConstantTypes, SMT DEF Slack, Most
  <2>5. Limit' = base + (down + Restart) /\ Limit = base + down /\ base \in Nat /\ down \in Nat
    BY <1>1, <2>1, <2>3, <2>4, ConstantTypes DEF Limit
  <2> HIDE DEF down, base
  <2> QED
    BY <2>1, <2>5, ConstantTypes, SMT
<1>8. TypeOK'
  <2>1. now \in 0..Horizon /\ notBefore \in Nat
    BY <1>2 DEF TypeOK, Doings
  <2> QED
    BY <1>1, <1>2, <1>3, <1>4, <2>1 DEF TypeOK, Doings, Jobs
<1>9. Asked'
  BY <1>3 DEF TimingInv, Asked
<1>10. Awaited'
  <2>1. now <= now + Restart
    BY <1>2, ConstantTypes
  <2> QED
    BY <1>1, <1>3, <2>1 DEF TimingInv, Awaited
<1>11. ClosedFree'
  BY <1>5, <1>6 DEF TimingInv, ClosedFree
<1>12. Covered'
  BY <1>3, <1>4, <1>5 DEF TimingInv, Covered, Calling
<1>13. Paused'
  BY <1>1, <1>4, <1>5, <1>6 DEF TimingInv, Paused
<1>14. Timely'
  <2> SUFFICES ASSUME Open PROVE
         /\ IF job'.owner = Nobody THEN job'.due <= Limit'
                                   ELSE job'.due <= now /\ job'.lease <= Limit'
         /\ \A v \in Workers : worker'[v].until <= Limit'
         /\ \A v \in Calling' : worker'[v].until <= MaxAge + Longest
    BY <1>1, <1>5 DEF Timely
  <2>1. /\ IF job.owner = Nobody THEN job.due <= Limit ELSE job.due <= now /\ job.lease <= Limit
        /\ \A v \in Workers : worker[v].until <= Limit
        /\ \A v \in Calling : worker[v].until <= MaxAge + Longest
    BY DEF TimingInv, Timely
  <2>2. \A t \in Nat : t <= Limit => t <= Limit'
    BY <1>7, ConstantTypes, SMT
  <2>3. job.due \in Nat /\ job.lease \in Nat /\ \A v \in Workers : worker[v].until \in Nat
    BY <1>2 DEF Jobs, TypeOK, Doings
  <2>4. IF job'.owner = Nobody THEN job'.due <= Limit'
                               ELSE job'.due <= now /\ job'.lease <= Limit'
    BY <1>4, <1>6, <2>1, <2>2, <2>3
  <2>5. now + Restart <= Limit'
    <3>1. now <= worker[w].until /\ worker[w].until <= Limit
      BY <2>1 DEF TimingInv, Awaited
    <3> QED
      BY <1>2, <1>7, <2>3, <3>1, ConstantTypes, SMT
  <2>6. \A v \in Workers : worker'[v].until <= Limit'
    BY <1>3, <2>1, <2>2, <2>3, <2>5
  <2>7. \A v \in Calling' : worker'[v].until <= MaxAge + Longest
    BY <1>3, <2>1 DEF Calling
  <2> QED
    BY <2>4, <2>6, <2>7
<1> QED
  BY <1>8, <1>9, <1>10, <1>11, <1>12, <1>13, <1>14 DEF TimingInv

LEMMA TickKeeps == ASSUME TimingInv, Tick PROVE TimingInv'
<1>1. /\ now < Horizon /\ now' = now + 1 /\ \A w \in Workers : worker[w].until > now
      /\ leaseSeconds' = leaseSeconds /\ job' = job /\ worker' = worker
      /\ notBefore' = notBefore /\ crashes' = crashes
  BY DEF Tick
<1>2. /\ TypeOK /\ now \in Nat /\ now' \in 0..Horizon /\ job.due \in Nat /\ notBefore \in Nat
      /\ \A w \in Workers : worker[w].until \in Nat
  <2>1. TypeOK /\ now \in 0..Horizon /\ job.due \in Nat /\ notBefore \in Nat
        /\ \A w \in Workers : worker[w].until \in Nat
    BY DEF TimingInv, TypeOK, Doings
  <2> QED
    BY <1>1, <2>1, ConstantTypes, SMT
<1>3. /\ Limit' = Limit /\ LeaseCovers' = LeaseCovers /\ Open' = Open /\ Calling' = Calling
  BY <1>1 DEF Limit, Slack, LeaseCovers, Open, Calling
<1>4. TypeOK'
  BY <1>1, <1>2 DEF TypeOK, Doings
<1>5. Asked' /\ ClosedFree' /\ Covered'
  BY <1>1, <1>3 DEF TimingInv, Asked, ClosedFree, Covered
<1>6. Awaited'
  BY <1>1, <1>2, SMT DEF Awaited
<1>7. \A t \in Nat : t <= now => t <= now'
  BY <1>1, <1>2, SMT
<1>8. Paused'
  BY <1>1, <1>2, <1>3, <1>7 DEF TimingInv, Paused
<1>9. Timely'
  BY <1>1, <1>2, <1>3, <1>7 DEF TimingInv, Timely
<1> QED
  BY <1>4, <1>5, <1>6, <1>8, <1>9 DEF TimingInv

LEMMA StutterKeeps == ASSUME TimingInv, UNCHANGED vars PROVE TimingInv'
<1>1. /\ leaseSeconds' = leaseSeconds /\ now' = now /\ job' = job /\ worker' = worker
      /\ notBefore' = notBefore /\ crashes' = crashes
  BY DEF vars
<1>2. Open' = Open /\ Calling' = Calling /\ Limit' = Limit /\ LeaseCovers' = LeaseCovers
  BY <1>1 DEF Open, Calling, Limit, Slack, LeaseCovers
<1> QED
  BY <1>1, <1>2
  DEF TimingInv, TypeOK, Doings, Asked, Awaited, ClosedFree, Covered, Paused, Timely

LEMMA NextKeeps == ASSUME TimingInv, [Next]_vars PROVE TimingInv'
<1>1. ASSUME NEW w \in Workers, FindNothing(w) PROVE TimingInv'
  BY <1>1, FindNothingKeeps
<1>2. ASSUME NEW w \in Workers, Claim(w) PROVE TimingInv'
  BY <1>2, ClaimKeeps
<1>3. ASSUME NEW w \in Workers, Crash(w) PROVE TimingInv'
  BY <1>3, CrashKeeps
<1>4. ASSUME NEW w \in Workers, NEW outcome \in Outcomes,
             NEW asked \in RetryAfter \cup {Unreadable},
             Answer(w, outcome, asked)
      PROVE  TimingInv'
  BY <1>4, AnswerKeeps
<1>5. ASSUME Tick PROVE TimingInv'
  BY <1>5, TickKeeps
<1>6. ASSUME UNCHANGED vars PROVE TimingInv'
  BY <1>6, StutterKeeps
<1> QED
  BY <1>1, <1>2, <1>3, <1>4, <1>5, <1>6 DEF Next

\* The invariant the properties follow from.
THEOREM TimingInvariant == Spec => []TimingInv
BY TimingInit, NextKeeps, PTL DEF Spec

\* Every variable has its type (ScanJobModel, ScanWorkerPolicy, the worker loop).
THEOREM TypeCorrect == Spec => []TypeOK
<1>1. TimingInv => TypeOK
  BY DEF TimingInv
<1> QED
  BY <1>1, TimingInvariant, PTL

\* Where the lease outlasts any call, the provider is never asked about a job by
\* two workers at once (ScanWorker.run_once, claim_due), for any number of them.
THEOREM NoTwoCalls == Spec => []NoOverlap
<1>1. ASSUME TimingInv PROVE NoOverlap
  <2> SUFFICES ASSUME LeaseCovers, NEW w \in Calling, NEW v \in Calling
               PROVE  w = v /\ LeaseHeld(w)
    BY DEF NoOverlap
  <2>1. job.owner = w /\ job.owner = v /\ worker[w].until < job.lease /\ w \in Workers
    BY <1>1 DEF TimingInv, Covered, Calling
  <2>2. now <= worker[w].until
    BY <1>1, <2>1 DEF TimingInv, Awaited
  <2>3. now \in Nat /\ job.lease \in Nat /\ worker[w].until \in Nat
    BY <1>1, <2>1, ConstantTypes, SMT DEF TimingInv, TypeOK, Doings
  <2> QED
    BY <2>1, <2>2, <2>3 DEF LeaseHeld
<1> QED
  BY <1>1, TimingInvariant, PTL

\* Where it does, no call comes before the time the last answer asked for
\* (ScanWorker._retry, _record_progress), whoever went down since.
THEOREM PausesAreKept == Spec => PausesKept
<1> DEFINE Kept == LeaseCovers => \A w \in Workers :
                     worker[w].at = "asleep" /\ worker'[w].at = "calling" => now >= notBefore
<1>1. ASSUME TimingInv, [Next]_vars PROVE Kept
  <2> SUFFICES ASSUME LeaseCovers, NEW w \in Workers,
                      worker[w].at = "asleep", worker'[w].at = "calling"
               PROVE  now >= notBefore
    OBVIOUS
  <2>1. worker \in [Workers -> Doings]
    BY <1>1 DEF TimingInv, TypeOK, Doings
  <2>2. ASSUME NEW v \in Workers, NEW until, worker' = [worker EXCEPT ![v] = Asleep(until)]
        PROVE  FALSE
    BY <2>1, <2>2 DEF Asleep
  <2>3. ASSUME NEW v \in Workers, FindNothing(v) \/ Crash(v) PROVE FALSE
    BY <2>2, <2>3 DEF FindNothing, Crash
  <2>4. ASSUME NEW v \in Workers, NEW outcome \in Outcomes,
               NEW asked \in RetryAfter \cup {Unreadable},
               Answer(v, outcome, asked)
        PROVE  FALSE
    <3>1. \E until : worker' = [worker EXCEPT ![v] = Asleep(until)]
      BY <2>4 DEF Answer, Retry, Postpone, Close
    <3> QED
      BY <2>2, <3>1
  <2>5. ASSUME NEW v \in Workers, Claim(v) PROVE now >= notBefore
    <3>1. Claimable
      BY <2>5 DEF Claim
    <3>2. notBefore <= now
      BY <1>1, <3>1, ClaimInTime
    <3>3. now \in Nat /\ notBefore \in Nat
      BY <1>1, ConstantTypes, SMT DEF TimingInv, TypeOK, Doings
    <3> QED
      BY <3>2, <3>3
  <2>6. ASSUME worker' = worker PROVE FALSE
    BY <2>6
  <2> QED
    BY <1>1, <2>3, <2>4, <2>5, <2>6 DEF Next, Tick, vars
<1> QED
  BY <1>1, TimingInvariant, PTL DEF Spec, PausesKept

\* However short the lease, a job is closed one call and one pause, or one lease,
\* after its maximum age (ScanWorker._expired) and what the hubs were down.
THEOREM ClosesInTime == Spec => []ClosedInTime
<1>1. ASSUME TimingInv PROVE ClosedInTime
  <2> SUFFICES ASSUME Open PROVE now <= LastChance
    BY DEF ClosedInTime
  <2>1. PICK w \in Workers : TRUE
    BY WorkersAssumption
  <2>2. now <= worker[w].until /\ worker[w].until <= Limit
    BY <1>1 DEF TimingInv, Awaited, Timely
  <2>3. Limit \in Nat /\ Limit <= LastChance
    BY <1>1, LimitFacts DEF TimingInv, TypeOK, Doings
  <2>4. now \in Nat /\ worker[w].until \in Nat
    BY <1>1, ConstantTypes, SMT DEF TimingInv, TypeOK, Doings
  <2>5. LastChance \in Int
    <3>1. leaseSeconds \in Nat
      BY <1>1, ConstantTypes DEF TimingInv, TypeOK, Doings
    <3>2. \A a, r \in Nat : a * r \in Nat
      OBVIOUS
    <3>3. MaxCrashes * Restart \in Nat
      BY <3>2, ConstantTypes
    <3> DEFINE down == MaxCrashes * Restart
    <3>4. LastChance = MaxAge + Slack + down /\ down \in Nat
      BY <3>3 DEF LastChance, Slack, Longest
    <3> HIDE DEF down
    <3>5. Slack \in Nat
      BY <3>1, ConstantTypes, SMT DEF Slack, Most
    <3> QED
      BY <3>4, <3>5, ConstantTypes
  <2> QED
    BY <2>2, <2>3, <2>4, <2>5
<1> QED
  BY <1>1, TimingInvariant, PTL

-----------------------------------------------------------------------------
(* The provider client.                                                    *)

\* A request under way was sent before the deadline and will, by its timeout,
\* be over at the deadline.
ClientTimed ==
  /\ stage = "ready" => left = MaxWait
  /\ stage \in {"upload", "poll"} => timeout <= left

ClientInv == ClientTypeOK /\ ClientTimed /\ WaitBounded

-----------------------------------------------------------------------------
(* The client's time.                                                      *)

LEMMA ClientConstants ==
  /\ MaxWait \in Nat \ {0} /\ InitialPause \in Nat \ {0} /\ MaxPause \in Nat \ {0}
  /\ RequestTimeout \in Nat \ {0} /\ Overrun \in Nat
  /\ InitialPause <= MaxPause
BY RequestsAssumption, WaitAssumption

LEMMA InitClient ==
  ClientInit => ClientInv
BY ClientConstants
DEF ClientInit, ClientInv, ClientTypeOK, ClientTimed,
    WaitBounded, Results

\* Sending a request with what time is left.
LEMMA ClientAsks ==
  ASSUME ClientTypeOK,
         NEW request \in {"upload", "poll"}, NEW remaining \in Int, ~Over(remaining),
         Ask(request, remaining)
  PROVE  /\ stage' = request /\ timeout' \in Nat /\ timeout' <= remaining
         /\ polls' \in 0..(MaxWait + 1) /\ result' = result
BY ClientConstants
DEF ClientTypeOK, Ask, Over, TimeoutFor,
    Least

LEMMA VerdictTyped == Verdict \in Results
BY DEF Verdict, Results

\* Every step of the client keeps its types and its time.
LEMMA ScanKeeps ==
  ClientInv /\ Scan => ClientInv'
<1> SUFFICES ASSUME ClientInv, Scan PROVE ClientInv'
  OBVIOUS
<1> USE ClientConstants DEF ClientInv, ClientTypeOK, ClientTimed, WaitBounded
<1>1. CASE \E status \in {"skipped", "pending_manual_review"} : Conclude(status)
  BY <1>1 DEF Scan, Conclude, Results, providerVars
<1>2. CASE Ask("upload", left) /\ UNCHANGED backoff
  <2>1. stage = "ready" /\ left = MaxWait /\ ~Over(left)
    BY DEF Scan, Over
  <2>2. stage' = "upload" /\ timeout' \in Nat /\ timeout' <= left
        /\ polls' \in 0..(MaxWait + 1) /\ result' = result
    BY <1>2, <2>1, ClientAsks
  <2> QED  BY <1>2, <2>2 DEF Scan, providerVars
<1> QED  BY <1>1, <1>2 DEF Scan

LEMMA UploadedKeeps ==
  ASSUME ClientInv, NEW d \in Int, Uploaded(d)
  PROVE  ClientInv'
<1> USE ClientConstants DEF ClientInv, ClientTypeOK, ClientTimed, WaitBounded
<1>1. left' \in Int /\ left' >= -Overrun
  BY DEF Uploaded, Took, Lengths, Remaining
<1>2. CASE Over(left')
  BY <1>1, <1>2 DEF Uploaded, Conclude, Results
<1>3. CASE ~Over(left')
  <2>1. Ask("poll", left') /\ UNCHANGED backoff
    BY <1>3 DEF Uploaded
  <2>2. stage' = "poll" /\ timeout' \in Nat /\ timeout' <= left'
        /\ polls' \in 0..(MaxWait + 1) /\ result' = result
    BY <1>1, <1>3, <2>1, ClientAsks
  <2> QED  BY <1>1, <2>1, <2>2 DEF Uploaded
<1> QED  BY <1>2, <1>3

LEMMA QueuedKeeps ==
  ASSUME ClientInv, NEW d \in Int, Queued(d)
  PROVE  ClientInv'
<1> USE ClientConstants DEF ClientInv, ClientTypeOK, ClientTimed, WaitBounded
<1> DEFINE remaining == Remaining(d)
           after     == remaining - Least(backoff, remaining)
<1>1. /\ remaining \in Int /\ remaining >= -Overrun
      /\ after \in Int /\ (~Over(remaining) => after >= 0)
  BY DEF Queued, Over, Least, Remaining, Lengths
<1>2. stage = "poll" /\ UNCHANGED providerVars
  BY DEF Queued
<1>3. CASE Over(remaining)
  <2>1. left' = remaining /\ Conclude("pending_manual_review")
    BY <1>3 DEF Queued
  <2> QED  BY <1>1, <1>2, <2>1 DEF Conclude, Results, providerVars
<1>4. CASE ~Over(remaining) /\ Over(after)
  <2>1. left' = after /\ Conclude("pending_manual_review")
    BY <1>4 DEF Queued
  <2> QED  BY <1>1, <1>2, <1>4, <2>1 DEF Conclude, Results, providerVars
<1>5. CASE ~Over(remaining) /\ ~Over(after)
  <2>1. left' = after /\ Ask("poll", after) /\ backoff' = Grown
    BY <1>5 DEF Queued
  <2>2. stage' = "poll" /\ timeout' \in Nat /\ timeout' <= after
        /\ polls' \in 0..(MaxWait + 1) /\ result' = result
    <3> HIDE DEF after
    <3> QED  BY <1>1, <1>5, <2>1, ClientAsks
  <2>3. backoff' \in InitialPause..MaxPause
    BY <2>1 DEF Grown, Least
  <2> QED  BY <1>1, <1>2, <1>5, <2>1, <2>2, <2>3 DEF providerVars
<1> QED  BY <1>3, <1>4, <1>5

LEMMA LastKeeps ==
  ASSUME ClientInv, NEW d \in Int, Completed(d) \/ Failed(d)
  PROVE  ClientInv'
BY VerdictTyped, ClientConstants
DEF ClientInv, ClientTypeOK, ClientTimed, WaitBounded,
    Completed, Failed, Took, Lengths, Remaining, Conclude,
    Results, providerVars

LEMMA ClientKeeps ==
  ClientInv /\ [ClientNext]_clientVars => ClientInv'
<1> SUFFICES ASSUME ClientInv, [ClientNext]_clientVars PROVE ClientInv'
  OBVIOUS
<1>1. CASE ClientStep
  <2>1. \A d \in Lengths(timeout) : d \in Int
    BY ClientConstants DEF ClientInv, ClientTypeOK, Lengths
  <2> QED  BY <1>1, <2>1, ScanKeeps, UploadedKeeps, QueuedKeeps, LastKeeps DEF ClientStep
<1>2. CASE \E e \in Engines, report \in Reports : Report(e, report)
  BY <1>2 DEF Report, ClientInv, ClientTypeOK, ClientTimed, WaitBounded
<1>3. CASE Finish
  BY <1>3 DEF Finish, ClientInv, ClientTypeOK, ClientTimed, WaitBounded
<1>4. CASE UNCHANGED clientVars
  BY <1>4
  DEF clientVars, providerVars, ClientInv, ClientTypeOK, ClientTimed,
      WaitBounded
<1> QED  BY <1>1, <1>2, <1>3, <1>4 DEF ClientNext

LEMMA ClientInvariant == ClientSpec => []ClientInv
<1>1. ClientInit => ClientInv
  BY InitClient
<1>2. ClientInv /\ [ClientNext]_clientVars => ClientInv'
  BY ClientKeeps
<1> QED  BY <1>1, <1>2, PTL DEF ClientSpec

\* Every variable has its type (types of VirusTotalScanner.scan's state).
THEOREM ClientTypeCorrect == ClientSpec => []ClientTypeOK
<1>1. ClientInv => ClientTypeOK
  BY DEF ClientInv
<1> QED  BY <1>1, ClientInvariant, PTL

\* scan never holds its caller past the wait and one request's overrun.
THEOREM WaitIsBounded == ClientSpec => []WaitBounded
<1>1. ClientInv => WaitBounded
  BY DEF ClientInv
<1> QED  BY <1>1, ClientInvariant, PTL

-----------------------------------------------------------------------------
(* The verdict.                                                            *)

Voted(report) == {e \in Engines : votes[e] = report}

Majority ==
  LET Said(reports) == {e \in Engines : votes[e] \in reports}
  IN /\ Said({"malicious", "suspicious"}) = {}
     /\ 2 * Cardinality(Said({"harmless"})) > Cardinality(Said(Reports))

\* A clean verdict was made of votes that no longer change.
CleanFixed == result = "clean" => stage = "done" /\ analysis = "completed" /\ Majority

\* Two finite sets together have at most the elements of both.
LEMMA UnionCount ==
  ASSUME NEW S, NEW T, IsFiniteSet(S), IsFiniteSet(T)
  PROVE  /\ IsFiniteSet(S \cup T)
         /\ Cardinality(S) \in Nat /\ Cardinality(T) \in Nat
         /\ Cardinality(S \cup T) \in Nat
         /\ Cardinality(S \cup T) <= Cardinality(S) + Cardinality(T)
<1>1. IsFiniteSet(S \cap T)
  BY FS_Subset
<1>2. Cardinality(S \cup T) = Cardinality(S) + Cardinality(T) - Cardinality(S \cap T)
      /\ IsFiniteSet(S \cup T)
  BY FS_Union
<1> QED  BY <1>1, <1>2, FS_CardinalityType

\* The counts of _completed_verdict leave no engine out.
LEMMA VerdictIsMajority ==
  ASSUME Verdict = "clean"
  PROVE  Majority
<1> DEFINE undecided == Voted("undetected") \cup Voted("failure") \cup Voted("timeout")
                          \cup Voted("confirmed-timeout") \cup Voted("type-unsupported")
<1>1. \A r : /\ IsFiniteSet(Voted(r)) /\ Cardinality(Voted(r)) = Count(r)
             /\ Count(r) \in Nat
  <2> TAKE r
  <2>1. IsFiniteSet(Voted(r))
    <3>1. IsFiniteSet(Engines)
      BY EnginesAssumption
    <3> QED  BY <3>1, FS_Subset DEF Voted
  <2>2. Cardinality(Voted(r)) = Count(r)
    BY DEF Voted, Count
  <2> QED  BY <2>1, <2>2, FS_CardinalityType
<1>2. /\ Count("malicious") = 0 /\ Count("suspicious") = 0
      /\ Count("harmless") > Undecided
  BY DEF Verdict
<1>3. Voted("malicious") = {} /\ Voted("suspicious") = {}
  BY <1>1, <1>2, FS_EmptySet
<1>4. /\ IsFiniteSet(undecided) /\ Cardinality(undecided) \in Nat
      /\ Cardinality(undecided) <= Undecided
  <2> DEFINE two   == Voted("undetected") \cup Voted("failure")
             three == two \cup Voted("timeout")
             four  == three \cup Voted("confirmed-timeout")
  <2>1. IsFiniteSet(two) /\ Cardinality(two) \in Nat
        /\ Cardinality(two) <= Count("undetected") + Count("failure")
    BY <1>1, UnionCount
  <2>2. IsFiniteSet(three) /\ Cardinality(three) \in Nat
        /\ Cardinality(three) <= Cardinality(two) + Count("timeout")
    BY <1>1, <2>1, UnionCount
  <2>3. IsFiniteSet(four) /\ Cardinality(four) \in Nat
        /\ Cardinality(four) <= Cardinality(three) + Count("confirmed-timeout")
    BY <1>1, <2>2, UnionCount
  <2>4. IsFiniteSet(undecided) /\ Cardinality(undecided) \in Nat
        /\ Cardinality(undecided) <= Cardinality(four) + Count("type-unsupported")
    BY <1>1, <2>3, UnionCount
  <2> HIDE DEF two, three, four, undecided
  <2> QED  BY <1>1, <2>1, <2>2, <2>3, <2>4 DEF Undecided
<1>5. {e \in Engines : votes[e] \in Reports} = Voted("harmless") \cup undecided
  BY <1>3 DEF Voted, Reports, Inconclusive
<1>6. Cardinality(Voted("harmless") \cup undecided) \in Nat
      /\ Cardinality(Voted("harmless") \cup undecided)
           <= Count("harmless") + Cardinality(undecided)
  <2> HIDE DEF undecided
  <2> QED  BY <1>1, <1>4, UnionCount
<1>7. Undecided \in Nat
  BY <1>1 DEF Undecided
<1>8. {e \in Engines : votes[e] \in {"malicious", "suspicious"}} = {}
  BY <1>3 DEF Voted
<1>9. {e \in Engines : votes[e] \in {"harmless"}} = Voted("harmless")
  BY DEF Voted
<1>10. 2 * Cardinality(Voted("harmless")) > Cardinality(Voted("harmless") \cup undecided)
  <2> HIDE DEF undecided
  <2> QED  BY <1>1, <1>2, <1>4, <1>6, <1>7
<1> HIDE DEF undecided
<1> QED  BY <1>5, <1>8, <1>9, <1>10 DEF Majority

LEMMA CleanStep ==
  CleanFixed /\ [ClientNext]_clientVars => CleanFixed'
<1> SUFFICES ASSUME CleanFixed, [ClientNext]_clientVars PROVE CleanFixed'
  OBVIOUS
<1>1. ASSUME result' # "clean" PROVE CleanFixed'
  BY <1>1 DEF CleanFixed
<1>2. ASSUME NEW request, NEW remaining, stage # "done", Ask(request, remaining)
      PROVE  CleanFixed'
  BY <1>1, <1>2 DEF Ask, CleanFixed
<1>3. CASE Scan
  BY <1>1, <1>2, <1>3 DEF Scan, Conclude
<1>4. ASSUME NEW d, Uploaded(d) PROVE CleanFixed'
  BY <1>1, <1>2, <1>4 DEF Uploaded, Conclude
<1>5. ASSUME NEW d, Queued(d) PROVE CleanFixed'
  <2>1. stage # "done"
    BY <1>5 DEF Queued
  <2>2. Conclude("pending_manual_review") \/ \E after : Ask("poll", after)
    BY <1>5 DEF Queued
  <2> QED  BY <1>1, <1>2, <2>1, <2>2 DEF Conclude
<1>6. ASSUME NEW d, Completed(d) PROVE CleanFixed'
  <2>1. /\ votes' = votes /\ analysis' = analysis /\ analysis = "completed"
        /\ stage' = "done" /\ result' = Verdict
    BY <1>6 DEF Completed, Conclude, providerVars
  <2>2. CASE Verdict = "clean"
    BY <2>1, <2>2, VerdictIsMajority DEF CleanFixed, Majority
  <2> QED  BY <1>1, <2>1, <2>2
<1>7. ASSUME NEW d, Failed(d) PROVE CleanFixed'
  BY <1>1, <1>7 DEF Failed, Conclude
<1>8. ASSUME NEW e, NEW report, Report(e, report) PROVE CleanFixed'
  BY <1>8 DEF Report, CleanFixed
<1>9. CASE Finish
  BY <1>9 DEF Finish, CleanFixed
<1>10. CASE UNCHANGED clientVars
  BY <1>10 DEF clientVars, providerVars, CleanFixed, Majority
<1> QED  BY <1>3, <1>4, <1>5, <1>6, <1>7, <1>8, <1>9, <1>10 DEF ClientNext, ClientStep

\* A clean verdict is that of a harmless majority of the engines that reported
\* (_completed_verdict), and stays it: no vote comes after the analysis is done.
THEOREM CleanIsMajorityHolds == ClientSpec => []CleanIsMajority
<1>1. ClientInit => CleanFixed
  BY DEF ClientInit, CleanFixed
<1>2. CleanFixed => CleanIsMajority
  BY DEF CleanFixed, Majority, CleanIsMajority
<1>3. CleanFixed /\ [ClientNext]_clientVars => CleanFixed'
  BY CleanStep
<1> QED  BY <1>1, <1>2, <1>3, PTL DEF ClientSpec

-----------------------------------------------------------------------------
(* The pace of the polls.  What the schedule says of the n-th poll is kept *)
(* for the polls so far, one entry more with each.                         *)

First == [spent |-> 0, next |-> InitialPause]
Following(entry) ==
  [spent |-> entry.spent + entry.next, next |-> Least(2 * entry.next, MaxPause)]

IsSchedule(f, n) ==
  f = [k \in 1..n |-> IF k = 1 THEN First ELSE Following(f[k - 1])]

LEMMA ScheduleIsOne ==
  ASSUME NEW n, \E f : IsSchedule(f, n)
  PROVE  \E f : IsSchedule(f, n) /\ Schedule(n) = f[n]
<1> DEFINE chosen == CHOOSE f : IsSchedule(f, n)
<1>1. Schedule(n) = chosen[n]
  BY DEF Schedule, IsSchedule, First, Following
<1>2. IsSchedule(chosen, n)
  OBVIOUS
<1> QED  BY <1>1, <1>2

LEMMA FirstSchedule ==
  /\ \E f : IsSchedule(f, 1)
  /\ \A f : IsSchedule(f, 1) => f[1] = First
<1> DEFINE one == [k \in 1..1 |-> First]
<1>1. \A k \in 1..1 : k = 1
  OBVIOUS
<1>2. one = [k \in 1..1 |-> IF k = 1 THEN First ELSE Following(one[k - 1])]
  BY <1>1
<1>3. IsSchedule(one, 1)
  <2> HIDE DEF one
  <2> QED  BY <1>2 DEF IsSchedule
<1>4. ASSUME NEW f, IsSchedule(f, 1) PROVE f[1] = First
  <2>1. 1 \in 1..1
    OBVIOUS
  <2> QED  BY <1>4, <2>1 DEF IsSchedule
<1> QED  BY <1>3, <1>4

LEMMA ScheduleGrows ==
  ASSUME NEW n \in Nat, n >= 1
  PROVE  /\ (\E f : IsSchedule(f, n)) => \E f : IsSchedule(f, n + 1)
         /\ \A g : IsSchedule(g, n + 1) =>
              \E f : IsSchedule(f, n) /\ g[n + 1] = Following(f[n])
<1>1. ASSUME NEW f, IsSchedule(f, n) PROVE \E g : IsSchedule(g, n + 1)
  <2> DEFINE g == [k \in 1..(n + 1) |-> IF k = n + 1 THEN Following(f[n]) ELSE f[k]]
  <2>1. \A k \in 1..n : k \in 1..(n + 1) /\ k # n + 1
    OBVIOUS
  <2>2. \A k \in 1..n : g[k] = f[k]
    BY <2>1
  <2>3. ASSUME NEW k \in 1..(n + 1)
        PROVE  g[k] = IF k = 1 THEN First ELSE Following(g[k - 1])
    <3>1. CASE k = n + 1
      <4>1. k # 1 /\ k - 1 = n /\ n \in 1..n
        BY <3>1
      <4>2. g[k] = Following(f[n]) /\ g[n] = f[n]
        BY <2>2, <3>1, <4>1
      <4> HIDE DEF g
      <4> QED  BY <4>1, <4>2
    <3>2. CASE k # n + 1
      <4>1. k \in 1..n /\ (k # 1 => k - 1 \in 1..n)
        BY <2>3, <3>2
      <4>2. f[k] = IF k = 1 THEN First ELSE Following(f[k - 1])
        BY <1>1, <4>1 DEF IsSchedule
      <4> HIDE DEF g
      <4> QED  BY <2>2, <4>1, <4>2
    <3> QED  BY <3>1, <3>2
  <2>4. g = [k \in 1..(n + 1) |-> g[k]]
    OBVIOUS
  <2> HIDE DEF g
  <2>5. g = [k \in 1..(n + 1) |-> IF k = 1 THEN First ELSE Following(g[k - 1])]
    BY <2>3, <2>4
  <2> QED  BY <2>5 DEF IsSchedule
<1>2. ASSUME NEW g, IsSchedule(g, n + 1)
      PROVE  \E f : IsSchedule(f, n) /\ g[n + 1] = Following(f[n])
  <2> DEFINE f == [k \in 1..n |-> g[k]]
  <2>1. \A k \in 1..(n + 1) : g[k] = IF k = 1 THEN First ELSE Following(g[k - 1])
    BY <1>2 DEF IsSchedule
  <2>2. \A k \in 1..n : f[k] = g[k] /\ k \in 1..(n + 1) /\ (k # 1 => k - 1 \in 1..n)
    OBVIOUS
  <2>3. n + 1 \in 1..(n + 1) /\ n + 1 # 1 /\ (n + 1) - 1 = n /\ n \in 1..n
    OBVIOUS
  <2>4. f = [k \in 1..n |-> f[k]]
    OBVIOUS
  <2> HIDE DEF f
  <2>5. \A k \in 1..n : f[k] = IF k = 1 THEN First ELSE Following(f[k - 1])
    BY <2>1, <2>2
  <2>6. f = [k \in 1..n |-> IF k = 1 THEN First ELSE Following(f[k - 1])]
    BY <2>4, <2>5
  <2>7. g[n + 1] = Following(g[n]) /\ g[n] = f[n]
    BY <2>1, <2>2, <2>3
  <2> QED  BY <2>6, <2>7 DEF IsSchedule
<1> QED  BY <1>1, <1>2

\* The pauses so far are over, and the next one is the one of the schedule.
Paced ==
  stage = "poll" =>
    /\ polls \in Nat /\ polls >= 1 /\ polls - 1 <= MaxWait - left /\ left >= 1
    /\ \E f : IsSchedule(f, polls)
    /\ \A f : IsSchedule(f, polls) =>
         f[polls].next = backoff /\ f[polls].spent \in Nat /\ f[polls].spent <= MaxWait - left

\* Before the first poll, none was started.
Unpolled ==
  stage \in {"ready", "upload"} => polls = 0 /\ backoff = InitialPause /\ left <= MaxWait

PaceInv == ClientInv /\ Paced /\ Unpolled

LEMMA UploadedPaced ==
  ASSUME PaceInv, NEW d \in Int, Uploaded(d)
  PROVE  Paced' /\ Unpolled'
<1>1. stage = "upload" /\ d >= 0 /\ left' = left - d
  BY ClientConstants DEF Uploaded, Took, Lengths, Remaining
<1>2. /\ left \in Int /\ left <= MaxWait /\ polls = 0 /\ backoff = InitialPause
      /\ MaxWait \in Nat /\ MaxWait >= 1
  BY <1>1, ClientConstants DEF PaceInv, ClientInv, ClientTypeOK, Unpolled
<1>3. CASE Over(left')
  BY <1>3 DEF Uploaded, Conclude, Paced, Unpolled
<1>4. CASE ~Over(left')
  <2>1. Ask("poll", left') /\ backoff' = backoff
    BY <1>4 DEF Uploaded
  <2>2. stage' = "poll" /\ polls' = 1
    BY <1>2, <2>1 DEF Ask, Least
  <2>3. left' >= 1 /\ 0 <= MaxWait - left'
    BY <1>1, <1>2, <1>4 DEF Over
  <2>4. /\ \E f : IsSchedule(f, polls')
        /\ \A f : IsSchedule(f, polls') => f[polls'] = First
    BY <2>2, FirstSchedule
  <2>5. First.next = backoff' /\ First.spent = 0
    BY <1>2, <2>1 DEF First
  <2> QED  BY <2>2, <2>3, <2>4, <2>5 DEF Paced, Unpolled
<1> QED  BY <1>3, <1>4

LEMMA QueuedPaced ==
  ASSUME PaceInv, NEW d \in Int, Queued(d)
  PROVE  Paced' /\ Unpolled'
<1> DEFINE remaining == Remaining(d)
           after     == remaining - Least(backoff, remaining)
<1>1. stage = "poll" /\ d \in Lengths(timeout)
  BY DEF Queued
<1>2. /\ left \in Int /\ timeout \in Nat /\ backoff \in Nat /\ backoff >= 1
      /\ MaxWait \in Nat /\ Overrun \in Nat
  BY ClientConstants DEF PaceInv, ClientInv, ClientTypeOK
<1>3. CASE Conclude("pending_manual_review")
  BY <1>3 DEF Conclude, Paced, Unpolled
<1>4. CASE ~Over(remaining) /\ ~Over(after)
  <2>1. left' = after /\ Ask("poll", after) /\ backoff' = Grown
    BY <1>4 DEF Queued
  <2>2. left' \in Int /\ left' >= 1 /\ left' <= left - backoff
    BY <1>1, <1>2, <1>4, <2>1 DEF Over, Remaining, Least, Lengths
  <2>3. /\ polls \in Nat /\ polls >= 1 /\ polls - 1 <= MaxWait - left /\ left >= 1
        /\ \E f : IsSchedule(f, polls)
        /\ \A f : IsSchedule(f, polls) =>
             f[polls].next = backoff /\ f[polls].spent \in Nat /\ f[polls].spent <= MaxWait - left
    BY <1>1 DEF PaceInv, Paced
  <2>4. stage' = "poll" /\ polls' = polls + 1
    BY <1>2, <2>1, <2>3 DEF Ask, Least
  <2>5. polls' \in Nat /\ polls' >= 1 /\ polls' - 1 <= MaxWait - left'
    <3>1. polls \in Nat /\ polls >= 1 /\ polls - 1 <= MaxWait - left
      BY <2>3
    <3>2. \A l, m, p, r, w \in Int :
            p - 1 <= w - l /\ m <= l - r /\ r >= 1 => (p + 1) - 1 <= w - m
      OBVIOUS
    <3>3. polls - 1 <= MaxWait - left /\ left' <= left - backoff /\ backoff >= 1
      BY <1>2, <2>2, <3>1
    <3>4. polls \in Int /\ left \in Int /\ left' \in Int /\ MaxWait \in Int /\ backoff \in Int
      BY <1>2, <2>2, <3>1
    <3>5. (polls + 1) - 1 <= MaxWait - left'
      BY <3>2, <3>3, <3>4
    <3> QED  BY <2>4, <3>1, <3>5
  <2>6. \E f : IsSchedule(f, polls')
    BY <2>3, <2>4, ScheduleGrows
  <2>7. \A g : IsSchedule(g, polls') =>
              \E f : IsSchedule(f, polls) /\ g[polls'] = Following(f[polls])
    BY <2>3, <2>4, ScheduleGrows
  <2>8. ASSUME NEW g, IsSchedule(g, polls')
        PROVE  /\ g[polls'].next = backoff' /\ g[polls'].spent \in Nat
               /\ g[polls'].spent <= MaxWait - left'
    <3>1. PICK f : IsSchedule(f, polls) /\ g[polls'] = Following(f[polls])
      BY <2>7, <2>8
    <3>2. f[polls].next = backoff /\ f[polls].spent \in Nat /\ f[polls].spent <= MaxWait - left
      BY <2>3, <3>1
    <3>3. /\ g[polls'].spent = f[polls].spent + backoff
          /\ g[polls'].next = Least(2 * backoff, MaxPause)
      BY <3>1, <3>2 DEF Following
    <3>4. ASSUME NEW u \in Nat, u <= MaxWait - left
          PROVE  u + backoff \in Nat /\ u + backoff <= MaxWait - left'
      <4>1. \A k, l, m, r, w \in Int : k <= w - l /\ m <= l - r => k + r <= w - m
        OBVIOUS
      <4>2. u \in Int /\ left \in Int /\ left' \in Int /\ backoff \in Int /\ MaxWait \in Int
        BY <1>2, <2>2
      <4>3. u <= MaxWait - left /\ left' <= left - backoff
        BY <2>2, <3>4
      <4>4. u + backoff <= MaxWait - left'
        BY <4>1, <4>2, <4>3
      <4>5. \A k, r \in Nat : k + r \in Nat
        OBVIOUS
      <4>6. u + backoff \in Nat
        BY <1>2, <4>5
      <4> QED  BY <4>4, <4>6
    <3>5. f[polls].spent + backoff \in Nat /\ f[polls].spent + backoff <= MaxWait - left'
      BY <3>2, <3>4
    <3> QED  BY <2>1, <3>3, <3>5 DEF Grown
  <2> QED  BY <2>2, <2>4, <2>5, <2>6, <2>8 DEF Paced, Unpolled
<1> QED  BY <1>3, <1>4 DEF Queued

LEMMA PaceStep ==
  PaceInv /\ [ClientNext]_clientVars => PaceInv'
<1> SUFFICES ASSUME PaceInv, [ClientNext]_clientVars PROVE Paced' /\ Unpolled'
  BY ClientKeeps DEF PaceInv
<1>1. \A d \in Lengths(timeout) : d \in Int
  BY ClientConstants DEF PaceInv, ClientInv, ClientTypeOK, Lengths
<1>2. CASE Scan
  BY <1>2, ClientConstants
  DEF Scan, Conclude, Ask, Paced, Unpolled,
      PaceInv, ClientInv, ClientTimed, ClientTypeOK, providerVars
<1>3. ASSUME NEW d \in Lengths(timeout), Completed(d) \/ Failed(d)
      PROVE  Paced' /\ Unpolled'
  BY <1>3 DEF Completed, Failed, Conclude, Paced, Unpolled
<1>4. CASE \/ \E e \in Engines, report \in Reports : Report(e, report)
           \/ Finish
           \/ UNCHANGED clientVars
  <2>1. stage' = stage /\ left' = left /\ backoff' = backoff /\ polls' = polls
    BY <1>4 DEF Report, Finish, clientVars
  <2> QED  BY <2>1 DEF PaceInv, Paced, Unpolled
<1> QED
  BY <1>1, <1>2, <1>3, <1>4, UploadedPaced, QueuedPaced DEF ClientNext, ClientStep

\* The polls keep to the growing pauses (VirusTotalScanner._poll), however long
\* the requests take.
THEOREM PollsAreSpaced == ClientSpec => []PollsSpaced
<1>1. ClientInit => PaceInv
  BY InitClient, ClientConstants DEF ClientInit, PaceInv, Paced, Unpolled
<1>2. ASSUME PaceInv PROVE PollsSpaced
  <2> SUFFICES ASSUME stage = "poll" PROVE MaxWait - left >= Schedule(polls).spent
    BY DEF PollsSpaced
  <2>1. PICK f : IsSchedule(f, polls) /\ Schedule(polls) = f[polls]
    BY <1>2, ScheduleIsOne DEF PaceInv, Paced
  <2>2. f[polls].spent \in Nat /\ f[polls].spent <= MaxWait - left
    BY <1>2, <2>1 DEF PaceInv, Paced
  <2>3. left \in Int /\ MaxWait \in Nat
    BY <1>2, ClientConstants DEF PaceInv, ClientInv, ClientTypeOK
  <2> QED  BY <2>1, <2>2, <2>3
<1>3. PaceInv /\ [ClientNext]_clientVars => PaceInv'
  BY PaceStep
<1> QED  BY <1>1, <1>2, <1>3, PTL DEF ClientSpec

\* The bound that Ask sets to the count of polls is never reached.
Uncapped == polls <= MaxWait

LEMMA UncappedStep == PaceInv /\ Uncapped /\ [ClientNext]_clientVars => Uncapped'
<1> SUFFICES ASSUME PaceInv, Uncapped, [ClientNext]_clientVars PROVE Uncapped'
  OBVIOUS
<1>1. PaceInv'
  BY PaceStep
<1>2. CASE stage' = "poll"
  <2>1. polls' \in Nat /\ left' \in Int /\ polls' - 1 <= MaxWait - left' /\ left' >= 1
    BY <1>1, <1>2 DEF PaceInv, ClientInv, ClientTypeOK, Paced
  <2>2. \A p, w, l \in Int : p - 1 <= w - l /\ l >= 1 => p <= w
    OBVIOUS
  <2>3. polls' \in Int /\ left' \in Int /\ MaxWait \in Int
    BY <2>1, ClientConstants
  <2>4. polls' <= MaxWait
    BY ONLY <2>1, <2>2, <2>3
  <2> QED  BY <2>4 DEF Uncapped
<1>3. CASE stage' # "poll"
  <2>1. polls' = polls
    BY <1>3 DEF ClientNext, ClientStep, Scan, Uploaded, Queued, Completed, Failed, Conclude, Ask,
                Report, Finish, clientVars
  <2> QED  BY <2>1 DEF Uncapped
<1> QED  BY <1>2, <1>3

\* Every poll is counted: a pause takes a tick, so there are no more than the
\* wait has, and the count that VirusTotalScanner._poll's pauses are compared with is
\* the true one.
THEOREM PollsAreCounted == ClientSpec => []Uncapped
<1>1. ClientInit => PaceInv /\ Uncapped
  BY InitClient, ClientConstants DEF ClientInit, PaceInv, Paced, Unpolled, Uncapped
<1>2. PaceInv /\ Uncapped /\ [ClientNext]_clientVars => PaceInv' /\ Uncapped'
  BY PaceStep, UncappedStep
<1> QED  BY <1>1, <1>2, PTL DEF ClientSpec
=============================================================================
