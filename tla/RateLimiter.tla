---------------------------- MODULE RateLimiter ----------------------------
(***************************************************************************)
(* Every call to Gmail and Calendar of one process: withGoogleApiRetry     *)
(* (src/core/api-retry.ts) admits each attempt through one token bucket    *)
(* with a serial queue, a rolling minute budget and a shared cooldown,     *)
(* feeds its pace from the answers and retries after a backoff.  A batch   *)
(* of calls runs in the worker pool of mapWithConcurrency under one abort  *)
(* signal; other calls of the process share the limiter without a signal.  *)
(*                                                                         *)
(* Times are kept as ages and remaining times, so that time itself needs   *)
(* no bound.  Quota is counted in units: Unit of them are one              *)
(* messages.get, the limiter's token.                                      *)
(***************************************************************************)
EXTENDS Integers, Sequences, FiniteSets, SequencesExt

CONSTANTS
  Batch,       \* the calls of mapWithConcurrency, in order
  Solo,        \* calls without a signal
  weight,      \* quota units of a call
  maxAttempts, \* RetryOptions.maxAttempts of a call
  Limit,       \* concurrency of the pool
  Unit,        \* quota units of a token
  Budget,      \* minuteBudget
  Burst,       \* burstCapacity
  Window,      \* ticks of the rolling minute
  Fastest,     \* fastestIntervalMs, also where the pacer starts
  Slowest,     \* ceilingIntervalMs
  Recovery,    \* units of clean answers for one step of recovery
  BaseDelay, MaxDelay,  \* backoff, in ticks
  RetryAfter,  \* values of a Retry-After header, in ticks
  MaxFaults,   \* bound: answers that fail
  NoHeader

Call == Range(Batch) \cup Solo
Larger(a, b)  == IF a > b THEN a ELSE b
Smaller(a, b) == IF a < b THEN a ELSE b

ASSUME CallAssumption ==
  /\ Batch \in Seq(Range(Batch)) /\ IsInjective(Batch) /\ Range(Batch) \cap Solo = {}
  /\ Call # {} /\ IsFiniteSet(Call)
  /\ weight \in [Call -> 1..Budget] /\ maxAttempts \in [Call -> Nat \ {0}]
ASSUME PaceAssumption ==
  /\ {Limit, Unit, Budget, Window, Fastest, Recovery} \subseteq Nat \ {0}
  /\ Slowest \in Nat /\ Burst \in Nat
  /\ Slowest >= Fastest /\ Burst >= Unit /\ Budget >= Unit
  /\ \A i \in Fastest..Slowest : Unit % i = 0
ASSUME DelayAssumption ==
  /\ {BaseDelay, MaxDelay, MaxFaults} \subseteq Nat
  /\ RetryAfter \subseteq Nat /\ NoHeader \notin RetryAfter

VARIABLES
  interval,    \* intervalMs: ticks per token
  tokens,      \* in quota units, negative when a heavy call is repaid
  updated,     \* ticks since tokensUpdatedAt
  streak,      \* consecutiveSuccesses
  cooldown,    \* cooldownUntil - now
  recent,      \* recentAdmissions, oldest first
  queue,       \* the promise chain of acquire
  stage,       \* where each call is
  timer,       \* ticks until its sleep ends
  attempt,     \* failed attempts of withApiRetry
  pace,        \* admittedRate of its present attempt
  next,        \* nextIndex of the pool
  dead,        \* workers whose call was rejected
  aborted,     \* the batch's signal
  faults,
  wave,        \* observer: whether a call was admitted since the last slowdown
  spent,       \* observer: units admitted since a slowdown with a cooldown
  clear        \* observer: ticks since then outside of cooldowns

bucket == <<interval, tokens, updated, streak, cooldown, recent>>
pool   == <<next, dead>>
seen   == <<wave, spent, clear>>
vars == <<interval, tokens, updated, streak, cooldown, recent, queue, stage,
          timer, attempt, pace, next, dead, aborted, faults, wave, spent, clear>>

Heaviest == CHOOSE w \in Range(weight) : \A v \in Range(weight) : v <= w

\* Ages beyond the horizon make no difference: the bucket is full by then.
\* Nor does how long a cooldown is over if it ended before the last refill.
Horizon == Slowest * ((Burst + Heaviest) \div Unit - 1)

\* A call is of the present wave or a past one, or the pace has recovered since
\* it was admitted.
Waves == {"past", "present", "across"}

Stages == {"new", "queued", "asleep", "sent", "backoff", "done", "failed"}

\* The types of the limiter and of the calls.
TypeOK ==
  /\ interval \in Fastest..Slowest
  /\ tokens \in (Unit - Budget)..Burst /\ updated \in 0..Horizon
  /\ streak \in 0..(Recovery - 1) /\ cooldown \in (-Horizon)..Window
  /\ recent \in Seq([age : 0..(Window - 1), weight : 1..Budget])
  /\ queue \in Seq(Call) /\ IsInjective(queue)
  /\ stage \in [Call -> Stages] /\ timer \in [Call -> Nat]
  /\ attempt \in [Call -> Nat] /\ pace \in [Call -> Fastest..Slowest]
  /\ next \in 1..(Len(Batch) + 1) /\ dead \in 0..Limit
  /\ aborted \in BOOLEAN /\ faults \in 0..MaxFaults
  /\ wave \in [Call -> Waves] /\ spent \in Nat /\ clear \in 0..Horizon

Init ==
  /\ interval = Fastest /\ tokens = Burst /\ updated = 0 /\ streak = 0
  /\ cooldown = 0 /\ recent = <<>> /\ queue = <<>>
  /\ stage = [c \in Call |-> "new"] /\ timer = [c \in Call |-> 0]
  /\ attempt = [c \in Call |-> 0] /\ pace = [c \in Call |-> Fastest]
  /\ next = 1 /\ dead = 0 /\ aborted = FALSE /\ faults = 0
  /\ wave = [c \in Call |-> "past"] /\ spent = 0 /\ clear = Horizon

-----------------------------------------------------------------------------
(* The bucket.                                                             *)

\* Mutant: the time of a cooldown is credited once it is over.
RefillsInCooldown == Smaller(Burst, tokens + (updated * Unit) \div interval)

Refilled ==
  LET credited == IF cooldown > 0 THEN 0 ELSE Smaller(updated, -cooldown) IN
  Smaller(Burst, tokens + (credited * Unit) \div interval)

\* tokensUpdatedAt moves only when something was credited.
RefilledAt == IF cooldown >= 0 \/ updated = 0 THEN updated ELSE 0

\* The admissions without those at the front that have left the window.
InWindow(s) ==
  LET kept == {k \in 1..Len(s) : s[k].age < Window /\ \A j \in 1..(k - 1) : s[j].age >= Window}
  IN IF kept = {} THEN <<>> ELSE SubSeq(s, CHOOSE k \in kept : TRUE, Len(s))

Used(s) == FoldLeft(LAMBDA sum, e : sum + e.weight, 0, s)

\* Mutant: the last admission that has to leave the window is not waited for.
BudgetWaitEarly(s, w) ==
  LET fits == {k \in 1..Len(s) : Used(SubSeq(s, k + 1, Len(s))) + w <= Budget}
      k == CHOOSE k \in fits : \A j \in fits : k <= j
  IN IF Used(s) + w <= Budget \/ k = 1 THEN 0 ELSE Window - s[k - 1].age

\* How long the oldest admissions must still leave the window for w to fit.
BudgetWait(s, w) ==
  LET fits == {k \in 1..Len(s) : Used(SubSeq(s, k + 1, Len(s))) + w <= Budget}
      k == CHOOSE k \in fits : \A j \in fits : k <= j
  IN IF Used(s) + w <= Budget THEN 0 ELSE Window - s[k].age

\* One token admits a call of any weight; a lighter one needs its weight.
PaceWait(w) ==
  LET short == Smaller(w, Unit) - Refilled IN
  IF short <= 0 THEN 0 ELSE (short * interval + Unit - 1) \div Unit

Wait(c) == Larger(cooldown, Larger(PaceWait(weight[c]),
                                   BudgetWait(recent, weight[c])))

-----------------------------------------------------------------------------
(* The pool and the retry loop.                                            *)

Signalled(c) == aborted /\ c \in Range(Batch)

InPool == {c \in Range(Batch) : stage[c] \notin {"new", "done", "failed"}}

Enqueue(c) == /\ queue' = Append(queue, c)
              /\ stage' = [stage EXCEPT ![c] = "queued"]

\* A call is rejected: its worker ends, the others go on with the rest.
Rejected(c) == /\ stage' = [stage EXCEPT ![c] = "failed"]
               /\ dead' = IF c \in Range(Batch) THEN dead + 1 ELSE dead
               /\ timer' = [timer EXCEPT ![c] = 0]

\* Mutant: a worker takes the next item although its own was rejected.
CanStartAgain == next <= Len(Batch) /\ Cardinality(InPool) < Limit

\* A worker is free and an item is left.
CanStart == next <= Len(Batch) /\ Cardinality(InPool) + dead < Limit

StartNext ==
  /\ CanStart
  /\ next' = next + 1
  /\ LET c == Batch[next] IN
       IF aborted THEN Rejected(c) /\ UNCHANGED queue
       ELSE Enqueue(c) /\ UNCHANGED <<dead, timer>>
  /\ UNCHANGED <<bucket, attempt, pace, aborted, faults, seen>>

StartSolo(c) ==
  /\ c \in Solo /\ stage[c] = "new"
  /\ Enqueue(c)
  /\ UNCHANGED <<bucket, timer, attempt, pace, pool, aborted, faults, seen>>

\* The head of the queue looks whether it may go, again after each sleep.
Admit(c) ==
  /\ queue # <<>> /\ c = Head(queue)
  /\ stage[c] = "queued" \/ (stage[c] = "asleep" /\ timer[c] = 0)
  /\ ~Signalled(c) /\ Wait(c) <= 0
  /\ queue' = Tail(queue)
  /\ recent' = Append(recent, [age |-> 0, weight |-> weight[c]])
  /\ tokens' = Refilled - weight[c] /\ updated' = RefilledAt
  /\ stage' = [stage EXCEPT ![c] = "sent"]
  /\ pace' = [pace EXCEPT ![c] = interval]
  /\ wave' = [wave EXCEPT ![c] = "present"]
  /\ spent' = IF clear < Horizon THEN spent + weight[c] ELSE 0
  /\ UNCHANGED <<interval, streak, cooldown, timer, attempt, pool, aborted,
                 faults, clear>>

Sleep(c) ==
  /\ queue # <<>> /\ c = Head(queue)
  /\ stage[c] = "queued" \/ (stage[c] = "asleep" /\ timer[c] = 0)
  /\ ~Signalled(c) /\ Wait(c) > 0
  /\ tokens' = Refilled /\ updated' = RefilledAt
  /\ stage' = [stage EXCEPT ![c] = "asleep"]
  /\ timer' = [timer EXCEPT ![c] = Wait(c)]
  /\ UNCHANGED <<interval, streak, cooldown, recent, queue, attempt, pace,
                 pool, aborted, faults, seen>>

\* Mutant: the rejection of an admission is not caught, the chain ends there.
BreaksTheQueue(c) ==
  /\ queue # <<>> /\ c = Head(queue) /\ Signalled(c) /\ stage[c] # "failed"
  /\ Rejected(c)
  /\ UNCHANGED <<bucket, queue, attempt, pace, next, aborted, faults, seen>>

\* An aborted call leaves the queue when its turn has come.
LeaveQueue(c) ==
  /\ queue # <<>> /\ c = Head(queue) /\ Signalled(c)
  /\ queue' = Tail(queue)
  /\ Rejected(c)
  /\ UNCHANGED <<bucket, attempt, pace, next, aborted, faults, seen>>

\* The backoff is over: the next attempt queues up again.
Retry(c) ==
  /\ stage[c] = "backoff" /\ timer[c] = 0 /\ ~Signalled(c)
  /\ Enqueue(c)
  /\ UNCHANGED <<bucket, timer, attempt, pace, pool, aborted, faults, seen>>

Abort == /\ ~aborted /\ Batch # <<>> /\ aborted' = TRUE
         /\ UNCHANGED <<bucket, queue, stage, timer, attempt, pace, pool,
                        faults, seen>>

AbortBackoff(c) ==
  /\ stage[c] = "backoff" /\ Signalled(c)
  /\ Rejected(c)
  /\ UNCHANGED <<bucket, queue, attempt, pace, next, aborted, faults, seen>>

-----------------------------------------------------------------------------
(* Answers.                                                                *)

\* reportSuccess: 0.85 of the interval, here one step of it.  A request that does
\* not look at the signal is answered after an abort too.
Succeed(c) ==
  /\ stage[c] = "sent"
  /\ stage' = [stage EXCEPT ![c] = "done"]
  /\ LET total == streak + weight[c]
         steps == total \div Recovery IN
       IF cooldown > 0 THEN UNCHANGED <<interval, tokens, updated, streak, wave>>
       ELSE /\ streak' = total % Recovery
            /\ IF steps = 0 THEN UNCHANGED <<interval, tokens, updated, wave>>
               ELSE /\ interval' = Larger(Fastest, interval - steps)
                    /\ tokens' = Refilled /\ updated' = RefilledAt
                    /\ wave' = IF interval' = interval THEN wave
                               ELSE [d \in Call |-> "across"]
  /\ UNCHANGED <<cooldown, recent, queue, timer, attempt, pace, pool, aborted,
                 faults, spent, clear>>

Capped(ra) == IF ra = NoHeader THEN 0 ELSE Smaller(ra, MaxDelay)

\* pauseForQuotaWindow: hold the queue, keep the pace and at least one token.
Pause(ms) ==
  /\ streak' = IF ms > 0 THEN 0 ELSE streak
  /\ IF ms = 0 \/ cooldown > 0 THEN UNCHANGED <<tokens, cooldown, spent, clear>>
     ELSE /\ cooldown' = Smaller(ms, Window)
          /\ tokens' = Larger(tokens, Unit)
          /\ IF tokens' = tokens THEN UNCHANGED <<spent, clear>>
             ELSE spent' = 0 /\ clear' = Horizon
  /\ UNCHANGED <<interval, updated, wave>>

\* reportQuotaPressure: halve the rate, drop the burst.
Slow(ms) ==
  IF ms > 0 /\ cooldown > 0
  THEN UNCHANGED <<interval, tokens, updated, streak, cooldown, seen>>
  ELSE /\ interval' = Smaller(2 * interval, Slowest)
       /\ tokens' = Unit /\ updated' = RefilledAt /\ streak' = 0
       /\ cooldown' = IF ms > 0 THEN Smaller(ms, Window) ELSE cooldown
       /\ wave' = [c \in Call |-> IF wave[c] = "across" THEN "across" ELSE "past"]
       /\ spent' = 0 /\ clear' = 0

\* Mutant: every failure of a wave slows down.
PressureEachTime(c, ms) == Slow(ms)

\* reportQuotaPressureForAttempt: one slowdown per wave.
Pressure(c, ms) ==
  IF pace[c] >= interval THEN Slow(ms)
  ELSE /\ cooldown' = IF ms > Larger(0, cooldown) THEN Smaller(ms, Window)
                      ELSE cooldown
       /\ UNCHANGED <<interval, tokens, updated, streak, seen>>

Disturb == /\ streak' = 0
           /\ UNCHANGED <<interval, tokens, updated, cooldown, seen>>

\* The catch of withApiRetry after a retryable failure.
BackOff(c, ra) ==
  /\ attempt' = [attempt EXCEPT ![c] = @ + 1]
  /\ IF attempt[c] + 1 >= maxAttempts[c] THEN Rejected(c)
     ELSE /\ stage' = [stage EXCEPT ![c] = "backoff"]
          /\ timer' = [timer EXCEPT ![c] =
               IF ra = NoHeader
               THEN Smaller(BaseDelay * 2 ^ attempt[c], MaxDelay)
               ELSE Capped(ra)]
          /\ UNCHANGED dead

Fault(c) == /\ stage[c] = "sent" /\ faults < MaxFaults
            /\ faults' = faults + 1

\* Only the first attempt of a logical request reports pressure.
QuotaError(c, perMinute, ra) ==
  /\ Fault(c)
  /\ IF attempt[c] > 0 THEN UNCHANGED <<interval, tokens, updated, streak,
                                        cooldown, seen>>
     ELSE IF perMinute THEN Pause(IF ra = NoHeader THEN Window ELSE Capped(ra))
     ELSE Pressure(c, Capped(ra))
  /\ BackOff(c, ra)
  /\ UNCHANGED <<recent, queue, pace, next, aborted>>

\* A 5xx answer or a broken connection: retried, but no quota pressure.
Outage(c, ra) ==
  /\ Fault(c)
  /\ Disturb /\ BackOff(c, ra)
  /\ UNCHANGED <<recent, queue, pace, next, aborted>>

\* Any other status, or the abort of a request under way: rejected.
Refuse(c) ==
  /\ stage[c] = "sent"
  /\ \/ Signalled(c) /\ UNCHANGED faults
     \/ Fault(c)
  /\ Disturb
  /\ attempt' = [attempt EXCEPT ![c] = @ + 1]
  /\ Rejected(c)
  /\ UNCHANGED <<recent, queue, pace, next, aborted>>

-----------------------------------------------------------------------------
\* A call whose promise or timer has fired: JavaScript runs it first.
Due(c) ==
  /\ \/ queue # <<>> /\ c = Head(queue)
     \/ stage[c] = "backoff"
  /\ stage[c] = "queued" \/ timer[c] = 0 \/ Signalled(c)

Tick ==
  /\ ~CanStart /\ ~\E c \in Call : Due(c)
  /\ recent' = InWindow([i \in DOMAIN recent |->
                           [recent[i] EXCEPT !.age = @ + 1]])
  /\ updated' = Smaller(updated + 1, Horizon)
  /\ cooldown' = Larger(cooldown - 1, -updated')
  /\ timer' = [c \in Call |-> Larger(timer[c] - 1, 0)]
  /\ clear' = IF cooldown > 0 THEN clear ELSE Smaller(clear + 1, Horizon)
  /\ spent' = IF clear' = Horizon THEN 0 ELSE spent
  /\ UNCHANGED <<interval, tokens, streak, queue, stage, attempt, pace, pool,
                 aborted, faults, wave>>

Step(c) ==
  \/ Admit(c) \/ Sleep(c) \/ LeaveQueue(c)
  \/ Retry(c) \/ AbortBackoff(c)

Answer(c) ==
  \/ Succeed(c) \/ Refuse(c)
  \/ \E ra \in RetryAfter \cup {NoHeader} :
       \/ Outage(c, ra)
       \/ \E perMinute \in BOOLEAN : QuotaError(c, perMinute, ra)

Next ==
  \/ StartNext \/ Abort \/ Tick
  \/ \E c \in Call : StartSolo(c) \/ Step(c) \/ Answer(c)

Spec == Init /\ [][Next]_vars

\* Time passes, promises continue, requests end (GMAIL_READ_TIMEOUT_MS) and
\* the pool's workers run; nobody need abort or start a further call.
Fairness ==
  /\ WF_vars(Tick) /\ WF_vars(StartNext)
  /\ WF_vars(\E c \in Call : Step(c)) /\ WF_vars(\E c \in Call : Answer(c))

FairSpec == Spec /\ Fairness

-----------------------------------------------------------------------------
\* Never more calls of the batch are under way than the pool has live workers,
\* and what it has not reached yet is untouched.
PoolOK ==
  /\ Cardinality(InPool) + dead <= Limit
  /\ \A k \in next..Len(Batch) : stage[Batch[k]] = "new"

\* The calls that wait for their admission are those in the queue, and only the
\* first of them has looked at the bucket and sleeps.
QueueOK ==
  \A c \in Call :
    /\ c \in Range(queue) <=> stage[c] \in {"queued", "asleep"}
    /\ stage[c] = "asleep" => c = Head(queue)

\* Whatever is answered, refused or aborted in whatever order, the pool keeps
\* its limit and each waiting call its one place in the queue
\* (concurrency.ts:14, api-retry.ts:321).
LimiterOK == TypeOK /\ PoolOK /\ QueueOK

\* Google sees no more than the minute budget in any rolling minute, whatever
\* is retried, refused or aborted (api-retry.ts:331).
BudgetKept == Used(recent) <= Budget

\* A slowdown takes the burst away: until time enough has passed, a call is
\* admitted only within the one token left and what was earned outside of
\* cooldowns (the regression described at api-retry.ts:291).
NoBurstAfterSlowdown ==
  [][\A c \in Call :
       clear < Horizon /\ stage[c] # "sent" /\ stage'[c] = "sent" =>
         spent + Smaller(weight[c], Unit) <= Unit + (clear * Unit) \div Fastest]_vars

\* The failures of calls admitted at one pace are one pressure wave: a call
\* admitted before the last slowdown does not slow the others down again, unless
\* the pace had recovered while it was in flight (api-retry.ts:351).
OneSlowdownPerWave ==
  [][interval' > interval =>
       \E c \in Call : wave[c] # "past" /\ stage[c] = "sent" /\ stage'[c] # "sent"]_vars

\* Every call that queued up ends, answered, rejected or aborted: no failure
\* or abort blocks the queue behind it.
CallsEnd == []<>(\A c \in Call : stage[c] \in {"new", "done", "failed"})

=============================================================================
