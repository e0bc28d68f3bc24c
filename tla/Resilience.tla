----------------------------- MODULE Resilience -----------------------------
(***************************************************************************)
(* The policies around calls of external services: fetch-policy-stack.ts     *)
(* with its rate limiter, retry, circuit breakers, bulkheads and fallback,    *)
(* and the circuit breaker of the database with the repository behind it.     *)
(*                                                                         *)
(* The policies are those of the library cockatiel, as the code configures    *)
(* them: retry and breaker handle every exception, the breaker opens on        *)
(* consecutive failures, the queue of a bulkhead has no limit, and a timeout   *)
(* is cooperative: it interrupts nothing, but ends the retries. A bulkhead     *)
(* throws at a call whose timeout has fired, before it counts the call, so     *)
(* that such a call does not hand the turn on when it was its own.             *)
(*                                                                         *)
(* executeWithFallback puts no policy around the function it is given: here    *)
(* its caller passes the execute of getPolicy, the only way to use both.       *)
(***************************************************************************)
EXTENDS TokenBucket, Sequences, SequencesExt, FiniteSets

CONSTANTS
    Calls, None,
    Database,              \* the target of the repository's calls
    Plans,                 \* what the calls may be: functions to Jobs
    Threshold,             \* circuitBreakerThreshold
    HalfOpenAfter,         \* circuitBreakerHalfOpenAfterMs, in ticks
    MaxAttempts,           \* retryMaxAttempts: retries after the first attempt
    MaxConcurrent,         \* bulkheadMaxConcurrentPerDomain
    MaxDomains             \* circuitBreakerMaxDomains

Targets == Domains \cup {Database}
Queries == {"findByHash", "save", "saveBatch", "updateStatus"}
Jobs == [target : Domains, does : {"resilientFetch", "executeWithFallback"}]
        \cup [target : {Database}, does : Queries]

ASSUME ResilienceConfig ==
    /\ Threshold \in Nat \ {0} /\ HalfOpenAfter \in Nat /\ MaxAttempts \in Nat
    /\ MaxConcurrent \in Nat \ {0} /\ MaxDomains \in Nat \ {0}
    /\ Plans \subseteq [Calls -> Jobs]
    /\ Database \notin Domains \cup Calls /\ None \notin Calls \cup {Database}

VARIABLES
    job,           \* what a call is to do
    step,          \* how far it is
    holds,         \* the breaker of its policy
    mode,          \* the state of the breaker when it let the attempt in
    test,          \* the probe whose end a call waits for
    retries,
    aborted,       \* the timeout has fired
    result,        \* what the caller gets
    breaker,       \* the breakers: the database's, and those that calls have created
    entry,         \* the breaker the registry has for a domain
    registry,      \* the domains it has one for, least recently used first
    bulkheads,     \* the domains that have a bulkhead
    active,        \* a bulkhead's count of the calls in it
    queue,         \* the calls that wait for it
    cached,        \* the domains the fallback has an answer for
    row,           \* the row of the URL the repository is asked about
    failed         \* ghost: failed attempts at a target so far, up to Threshold

callVars == <<job, step, holds, mode, test, retries, aborted, result>>
bulkVars == <<bulkheads, active, queue>>
vars == <<callVars, breaker, entry, registry, bulkVars, cached, row, failed, bucketVars>>

Breakers == Calls \cup {Database}
Results == {"none", "ok", "err", "thrown", "BrokenCircuit", "cancelled",
            "stale", "rate_limited", "DuplicateKey", "QueryFailed"}
NewBreaker(t) == [of |-> t, state |-> "closed", failures |-> 0, openFor |-> 0]

TypeOK ==
    /\ job \in Plans
    /\ step \in [Calls -> {"idle", "entering", "waiting", "called", "queued",
                           "running", "ended"}]
    /\ holds \in [Calls -> Breakers \cup {None}]
    /\ mode \in [Calls -> {"closed", "probe"}]
    /\ test \in [Calls -> Calls \cup {None}]
    /\ retries \in [Calls -> 0 .. MaxAttempts]
    /\ aborted \in [Calls -> BOOLEAN]
    /\ result \in [Calls -> Results]
    /\ breaker \in [Breakers -> [of : Targets, state : {"closed", "open", "halfOpen"},
                                 failures : 0 .. Threshold, openFor : 0 .. HalfOpenAfter]]
    /\ entry \in [Domains -> Calls \cup {None}]
    /\ registry \in Seq(Domains) /\ Len(registry) <= MaxDomains
    /\ bulkheads \subseteq Domains
    /\ active \in [Domains -> 0 .. MaxConcurrent]
    /\ queue \in [Domains -> Seq(Calls)]
    /\ cached \subseteq Domains
    /\ row \in {"absent", "pending", "fetched"}
    /\ failed \in [Targets -> 0 .. Threshold]

Init ==
    /\ job \in Plans
    /\ step = [c \in Calls |-> "idle"]
    /\ holds = [c \in Calls |-> None]
    /\ mode = [c \in Calls |-> "closed"]
    /\ test = [c \in Calls |-> None]
    /\ retries = [c \in Calls |-> 0]
    /\ aborted = [c \in Calls |-> FALSE]
    /\ result = [c \in Calls |-> "none"]
    /\ breaker = [b \in Breakers |->
                     NewBreaker(IF b = Database THEN Database ELSE job[b].target)]
    /\ entry = [d \in Domains |-> None]
    /\ registry = <<>>
    /\ bulkheads = {}
    /\ active = [d \in Domains |-> 0]
    /\ queue = [d \in Domains |-> <<>>]
    /\ cached = {}
    /\ row \in {"absent", "pending"}
    /\ failed = [t \in Targets |-> 0]
    /\ BucketInit

Target(c) == job[c].target
Running(d) == {c \in Calls : Target(c) = d /\ step[c] = "running"}

Put(f, c, x) == [f EXCEPT ![c] = x]

\* Mutant: the cached answer is served for what the service throws only.
AnswerOfThrown(c, r) ==
    IF job[c].does = "executeWithFallback" /\ r = "thrown" /\ Target(c) \in cached
    THEN "stale" ELSE r

\* executeWithFallback serves its last answer on any failure.
Answer(c, r) ==
    IF job[c].does = "executeWithFallback" /\ r # "ok" /\ Target(c) \in cached
    THEN "stale" ELSE r

\* What a call that has failed for good, or has its answer, gives to its caller: the
\* fallback keeps the answer of a success. The policy and its timer are gone.
Ends(c, r) ==
    /\ holds' = Put(holds, c, None)
    /\ mode' = Put(mode, c, "closed")
    /\ retries' = Put(retries, c, 0)
    /\ aborted' = Put(aborted, c, FALSE)
    /\ result' = Put(result, c, Answer(c, r))
    /\ cached' = IF job[c].does = "executeWithFallback" /\ r = "ok"
                 THEN cached \cup {Target(c)} ELSE cached

Retried(c) == Target(c) # Database /\ ~aborted[c] /\ retries[c] < MaxAttempts

\* The retry policy: another attempt after a delay, or the failure is the call's.
FailsWith(c, r, steps) ==
    IF Retried(c)
    THEN /\ step' = Put(steps, c, "entering") /\ retries' = Put(retries, c, retries[c] + 1)
         /\ mode' = Put(mode, c, "closed")
         /\ UNCHANGED <<holds, aborted, result, cached>>
    ELSE step' = Put(steps, c, "ended") /\ Ends(c, r)

--------------------------------------------------------------------------
(* The registry of breakers (get).                                         *)

\* Mutant: one breaker serves every domain.
GetBreakerShared(c) ==
    /\ holds' = Put(holds, c, Database)
    /\ UNCHANGED <<entry, registry>>

\* Mutant: the registry never evicts.
GetBreakerUnbounded(c) ==
    LET d == Target(c)
        known == entry[d] # None
    IN
    /\ registry' = Append(Remove(registry, d), d)
    /\ entry' = [entry EXCEPT ![d] = IF known THEN @ ELSE c]
    /\ holds' = Put(holds, c, IF known THEN entry[d] ELSE c)

GetBreaker(c) ==
    LET d == Target(c)
        known == entry[d] # None
        full == Len(registry) >= MaxDomains
        place == CHOOSE i \in 1 .. Len(registry) : registry[i] = d
        kept == IF known THEN RemoveAt(registry, place)
                ELSE IF full THEN Tail(registry) ELSE registry
    IN
    /\ registry' = Append(kept, d)
    /\ entry' = [x \in Domains |-> IF x = d THEN IF known THEN entry[d] ELSE c
                                  ELSE IF x \in ToSet(kept) THEN entry[x] ELSE None]
    /\ holds' = Put(holds, c, IF known THEN entry[d] ELSE c)

\* Mutant: the bulkhead of a domain goes with its breaker.
GetBulkheadAnew(d) ==
    LET known == d \in bulkheads /\ entry[d] # None IN
    /\ bulkheads' = bulkheads \cup {d}
    /\ active' = IF known THEN active ELSE [active EXCEPT ![d] = 0]
    /\ queue' = IF known THEN queue ELSE [queue EXCEPT ![d] = <<>>]

\* The registry of bulkheads (get) makes one for a domain it does not know, and keeps it.
GetBulkhead(d) ==
    LET known == d \in bulkheads IN
    /\ bulkheads' = bulkheads \cup {d}
    /\ active' = IF known THEN active ELSE [active EXCEPT ![d] = 0]
    /\ queue' = IF known THEN queue ELSE [queue EXCEPT ![d] = <<>>]

GetPolicy(c) ==
    IF Target(c) = Database
    THEN holds' = Put(holds, c, Database) /\ UNCHANGED <<entry, registry, bulkVars>>
    ELSE GetBreaker(c) /\ GetBulkhead(Target(c))

\* resilientFetch asks the rate limiter once, before the policies.
Start(c) ==
    /\ step[c] = "idle"
    /\ \/ /\ job[c].does = "resilientFetch" /\ TryAcquire(Target(c), FALSE)
          /\ step' = Put(step, c, "ended") /\ result' = Put(result, c, "rate_limited")
          /\ UNCHANGED <<holds, entry, registry, bulkVars>>
       \/ /\ IF job[c].does = "resilientFetch" THEN TryAcquire(Target(c), TRUE)
             ELSE UNCHANGED bucketVars
          /\ GetPolicy(c)
          /\ step' = Put(step, c, "entering") /\ UNCHANGED result
    /\ UNCHANGED <<job, mode, test, retries, aborted, breaker, cached, row, failed>>

--------------------------------------------------------------------------
(* An attempt enters the breaker, at once or after its delay, then the bulkhead. *)

\* The breaker lets the attempt in: that of a domain calls the bulkhead.
Pass(c, m) ==
    /\ mode' = Put(mode, c, m)
    /\ step' = Put(step, c, IF Target(c) = Database THEN "running" ELSE "called")
    /\ UNCHANGED <<holds, retries, aborted, result, cached>>

Probing(b) == {c \in Calls : /\ holds[c] = b /\ mode[c] = "probe"
                             /\ step[c] \in {"called", "queued", "running"}}

\* While half-open, later attempts wait for the end of the newest probe.
Enter(c) ==
    LET b == holds[c]
        state == breaker[b].state
        due == breaker[b].openFor >= HalfOpenAfter
    IN
    /\ step[c] = "entering"
    /\ \/ state = "closed" /\ Pass(c, "closed") /\ UNCHANGED <<test, breaker>>
       \/ /\ state = "open" /\ due
          /\ Pass(c, "probe")
          /\ breaker' = [breaker EXCEPT ![b].state = "halfOpen"] /\ UNCHANGED test
       \/ /\ state = "open" /\ ~due
          /\ FailsWith(c, "BrokenCircuit", step) /\ UNCHANGED <<test, breaker>>
       \/ /\ state = "halfOpen"
          /\ \E p \in Probing(b) : test' = Put(test, c, p)
          /\ step' = Put(step, c, "waiting")
          /\ UNCHANGED <<holds, mode, retries, aborted, result, cached, breaker>>
    /\ UNCHANGED <<job, entry, registry, bulkVars, row, failed, bucketVars>>

\* The bulkhead has a slot for the call, or keeps it at the end of its queue.
Occupy(c) ==
    LET d == Target(c) IN
    /\ step[c] = "called" /\ ~aborted[c]
    /\ \/ /\ active[d] < MaxConcurrent
          /\ active' = [active EXCEPT ![d] = @ + 1]
          /\ step' = Put(step, c, "running") /\ UNCHANGED queue
       \/ /\ active[d] >= MaxConcurrent
          /\ queue' = [queue EXCEPT ![d] = Append(@, c)]
          /\ step' = Put(step, c, "queued") /\ UNCHANGED active
    /\ UNCHANGED <<job, holds, mode, test, retries, aborted, result, breaker, entry,
                   registry, bulkheads, cached, row, failed, bucketVars>>

--------------------------------------------------------------------------
(* The end of an attempt.                                                   *)

\* Mutant: any success closes the circuit.
AfterAnySuccess(r, m, success) ==
    IF success THEN [r EXCEPT !.failures = 0, !.state = "closed"]
    ELSE LET n == Least(Threshold, r.failures + 1) IN
         IF r.state # "open" /\ (m = "probe" \/ n = Threshold)
         THEN [r EXCEPT !.failures = n, !.state = "open", !.openFor = 0]
         ELSE [r EXCEPT !.failures = n]

\* A success ends a row of failures, and that of a probe closes a circuit that is
\* still half-open; a failure opens one that is not open, a probe's at once.
After(r, m, success) ==
    IF success
    THEN [r EXCEPT !.failures = 0,
                   !.state = IF m = "probe" /\ @ = "halfOpen" THEN "closed" ELSE @]
    ELSE LET n == Least(Threshold, r.failures + 1) IN
         IF r.state # "open" /\ (m = "probe" \/ n = Threshold)
         THEN [r EXCEPT !.failures = n, !.state = "open", !.openFor = 0]
         ELSE [r EXCEPT !.failures = n]

\* Mutant: a probe that may be retried wakes nobody.
WokenAtLast(c) ==
    [x \in Calls |-> IF step[x] = "waiting" /\ test[x] = c /\ ~Retried(c)
                     THEN "entering" ELSE step[x]]

\* The calls that wait for this probe enter the breaker again.
Woken(c) ==
    [x \in Calls |-> IF step[x] = "waiting" /\ test[x] = c THEN "entering" ELSE step[x]]

\* The slot of a call is free again, and the first of the queue is called.
Dequeued(c) ==
    LET waiting == queue[Target(c)] IN
    [x \in Calls |-> IF waiting # <<>> /\ x = Head(waiting) THEN "called" ELSE Woken(c)[x]]

Vacate(c) ==
    LET d == Target(c) IN
    /\ active' = [active EXCEPT ![d] = @ - 1]
    /\ queue' = [queue EXCEPT ![d] = IF @ = <<>> THEN @ ELSE Tail(@)]
    /\ UNCHANGED bulkheads

\* What the end of an attempt means to the breaker, and to the call.
Settle(c, success, r, steps) ==
    /\ breaker' = [breaker EXCEPT ![holds[c]] = After(@, mode[c], success)]
    /\ failed' = IF success THEN failed
                 ELSE [failed EXCEPT ![Target(c)] = Least(Threshold, @ + 1)]
    /\ test' = [x \in Calls |-> IF test[x] = c THEN None ELSE test[x]]
    /\ IF success
       THEN step' = Put(steps, c, "ended") /\ Ends(c, r)
       ELSE FailsWith(c, r, steps)
    /\ UNCHANGED <<job, entry, registry, bucketVars>>

\* The bulkhead throws at a call that has been aborted, in its queue or before, and
\* calls nobody else.
Cancelled(c) ==
    /\ step[c] = "called" /\ aborted[c]
    /\ Settle(c, FALSE, "cancelled", Woken(c))
    /\ UNCHANGED <<bulkVars, row>>

\* httpFetch never throws: it answers with an error result, a success to the policies.
Fetched(c) ==
    /\ step[c] = "running" /\ Target(c) # Database
    /\ \/ Settle(c, TRUE, "ok", Dequeued(c))
       \/ job[c].does = "resilientFetch" /\ Settle(c, TRUE, "err", Dequeued(c))
       \/ job[c].does = "executeWithFallback" /\ Settle(c, FALSE, "thrown", Dequeued(c))
    /\ Vacate(c) /\ UNCHANGED row

Written(c) ==
    CASE job[c].does \in {"save", "saveBatch"} -> IF row = "absent" THEN "pending" ELSE row
      [] job[c].does = "updateStatus" -> IF row = "absent" THEN row ELSE "fetched"
      [] OTHER -> row

\* Mutant: the unique index is reported for batches instead.
DuplicateOfBatch(c) == job[c].does = "saveBatch" /\ row # "absent"

Duplicate(c) == job[c].does = "save" /\ row # "absent"

\* A query whose answer is lost fails, whatever it has done. A duplicate is an error of
\* save, and an error result is thrown so that the breaker sees it.
Queried(c) ==
    /\ step[c] = "running" /\ Target(c) = Database
    /\ \/ Duplicate(c) /\ Settle(c, FALSE, "DuplicateKey", Woken(c)) /\ UNCHANGED row
       \/ /\ ~Duplicate(c)
          /\ Settle(c, TRUE, "ok", Woken(c)) /\ row' = Written(c)
       \/ Settle(c, FALSE, "QueryFailed", Woken(c)) /\ row' \in {row, Written(c)}
    /\ UNCHANGED bulkVars

\* A timer does not fire between a call of the bulkhead and what the bulkhead makes of it.
Timeout(c) ==
    /\ step[c] \notin {"idle", "called", "ended"} /\ Target(c) # Database /\ ~aborted[c]
    /\ aborted' = Put(aborted, c, TRUE)
    /\ UNCHANGED <<job, step, holds, mode, test, retries, result, breaker, entry,
                   registry, bulkVars, cached, row, failed, bucketVars>>

Tick ==
    /\ BucketTick
    /\ breaker' = [b \in Breakers |->
          IF breaker[b].state = "open"
          THEN [breaker[b] EXCEPT !.openFor = Least(HalfOpenAfter, @ + 1)] ELSE breaker[b]]
    /\ UNCHANGED <<callVars, entry, registry, bulkVars, cached, row, failed>>

Progress(c) ==
    \/ Enter(c) \/ Occupy(c) \/ Cancelled(c) \/ Fetched(c) \/ Queried(c)

Next == Tick \/ \E c \in Calls : Start(c) \/ Progress(c) \/ Timeout(c)

\* Callbacks and timers are served, and what a policy calls ends: a fetch within its
\* own timeout, a query within the pool's.
Spec == Init /\ [][Next]_vars /\ \A c \in Calls : WF_vars(Progress(c))

--------------------------------------------------------------------------
\* What a bulkhead counts are the calls that run: no more than maxConcurrent of a domain do
\* at a time, whether they come in directly, from the queue, as retries or as probes, also
\* when the domain's breaker has been evicted and made anew.
BulkheadBound ==
    \A d \in Domains :
        active[d] = Cardinality(Running(d)) /\ Cardinality(Running(d)) <= MaxConcurrent

\* The bucket that is refilled only when it is looked at holds what one that is
\* refilled all the time would hold, so that no pause lets a burst through.
LazyRefillExact == \A d \in Domains : Refilled(d) = steady[d]

\* A circuit is not closed, and a call is turned away from it, only after as many
\* failures at its own target as the threshold: no domain suffers from another one, and
\* a domain whose breaker was evicted begins anew.
OpenedByOwnFailures ==
    /\ \A b \in Breakers : breaker[b].state # "closed" => failed[breaker[b].of] = Threshold
    /\ \A c \in Calls : result[c] = "BrokenCircuit" => failed[Target(c)] = Threshold

\* A circuit that has opened is closed by the success of a probe only, never by a late
\* answer to a call that was let in before.
ClosedByProbe ==
    [][\A b \in Breakers :
          breaker[b].state # "closed" /\ breaker'[b].state = "closed" =>
              \E c \in Probing(b) : step[c] = "running" /\ step'[c] = "ended"]_vars

\* Another call of the domain is timed out in the bulkhead's queue.
LostTurn(c) ==
    \E x \in Calls \ {c} : Target(x) = Target(c) /\ step[x] = "queued" /\ aborted[x]

\* Every call that has started ends: neither those that wait for a probe nor the probe
\* that waits for the bulkhead wait for each other, and retries run out. A call that is
\* timed out in the queue is thrown at when its turn comes and nobody is called instead:
\* then those behind it may stay, and those that wait for a probe there.
CallsEnd ==
    \A c \in Calls : (step[c] # "idle" ~> step[c] = "ended") \/ <>LostTurn(c)

\* The caller of the fallback is left without an answer only if its domain has never
\* answered before.
FallbackServes ==
    [][\A c \in Calls :
          /\ job[c].does = "executeWithFallback" /\ Target(c) \in cached
          /\ step[c] # "ended" /\ step'[c] = "ended"
          => result'[c] \in {"ok", "stale"}]_vars

\* After a save the row is there, if it was inserted now or was a duplicate; two saves of
\* one URL are never both told that they inserted it.
SavesAgree ==
    LET Saves(r) == {c \in Calls : job[c].does = "save" /\ result[c] \in r} IN
    /\ Saves({"ok", "DuplicateKey"}) # {} => row # "absent"
    /\ Cardinality(Saves({"ok"})) <= 1
===========================================================================
