-------------------------- MODULE ResilienceProofs --------------------------
(***************************************************************************)
(* Proofs about Resilience, for every number of calls, every plan and every   *)
(* value of the policies' options.                                           *)
(***************************************************************************)
EXTENDS Resilience, FiniteSetTheorems, TLAPS

States == [of : Targets, state : {"closed", "open", "halfOpen"}, failures : Nat, openFor : Nat]

Steps == {"idle", "entering", "waiting", "called", "queued", "running", "ended"}
Active == {"entering", "waiting", "called", "queued", "running"}

\* The types the arguments below rest on.
Shape ==
    /\ job \in [Calls -> Jobs]
    /\ step \in [Calls -> Steps]
    /\ holds \in [Calls -> Breakers \cup {None}]
    /\ mode \in [Calls -> {"closed", "probe"}]
    /\ result \in [Calls -> Results]
    /\ breaker \in [Breakers -> States]
    /\ entry \in [Domains -> Calls \cup {None}]
    /\ failed \in [Targets -> 0 .. Threshold]

\* A breaker belongs to the target of the call that made it, and is used and
\* registered for that target only.
Owned ==
    /\ \A b \in Breakers : breaker[b].of = IF b = Database THEN Database ELSE job[b].target
    /\ \A c \in Calls : holds[c] # None => breaker[holds[c]].of = job[c].target
    /\ \A d \in Domains : entry[d] # None => breaker[entry[d]].of = d
    /\ \A c \in Calls : step[c] \in Active => holds[c] # None

\* What a breaker has counted has happened at its target, and a probe is let through
\* only where the circuit has opened.
Counted ==
    /\ \A b \in Breakers : breaker[b].failures <= failed[breaker[b].of]
    /\ \A c \in Calls : mode[c] = "probe" => failed[job[c].target] = Threshold
    /\ OpenedByOwnFailures

IInv == Shape /\ Owned /\ Counted

\* The queue of a bulkhead holds each of its waiting calls once, and nothing else.
Queued ==
    /\ queue \in [Domains -> Seq(Calls)]
    /\ \A d \in Domains : \A i \in 1 .. Len(queue[d]) :
          step[queue[d][i]] = "queued" /\ job[queue[d][i]].target = d
    /\ \A d \in Domains : \A i, j \in 1 .. Len(queue[d]) :
          queue[d][i] = queue[d][j] => i = j

\* A bulkhead counts the calls that run, and none is made anew while it has calls.
Occupied ==
    /\ bulkheads \subseteq Domains
    /\ active \in [Domains -> 0 .. MaxConcurrent]
    /\ \A d \in Domains : IsFiniteSet(Running(d)) /\ active[d] = Cardinality(Running(d))
    /\ \A c \in Calls : step[c] \in Active /\ Target(c) \in Domains => Target(c) \in bulkheads
    /\ \A c \in Calls : step[c] = "called" => Target(c) \in Domains

LEMMA Facts ==
    /\ Threshold \in Nat /\ 0 <= Threshold /\ HalfOpenAfter \in Nat
    /\ Calls \subseteq Breakers /\ Database \in Breakers /\ None \notin Breakers
    /\ Database \notin Calls
    /\ \A j \in Jobs : j.target \in Targets
    /\ Domains \subseteq Targets /\ Database \in Targets
BY ResilienceConfig DEF Breakers, Targets, Jobs

LEMMA Initially == Init => IInv
<1> SUFFICES ASSUME Init PROVE IInv
    OBVIOUS
<1>1. job \in [Calls -> Jobs]
    BY ResilienceConfig DEF Init
<1>2. Shape
  <2>1. \A b \in Breakers : (IF b = Database THEN Database ELSE job[b].target) \in Targets
      BY <1>1, Facts DEF Breakers
  <2>2. \A t \in Targets : NewBreaker(t) \in States
      BY DEF NewBreaker, States
  <2>3. breaker \in [Breakers -> States]
      BY <2>1, <2>2, Zenon DEF Init
  <2>4. failed \in [Targets -> 0 .. Threshold]
      BY Facts DEF Init
  <2>5. /\ step = [c \in Calls |-> "idle"] /\ mode = [c \in Calls |-> "closed"]
        /\ result = [c \in Calls |-> "none"] /\ holds = [c \in Calls |-> None]
        /\ entry = [d \in Domains |-> None]
      BY DEF Init
  <2>6. holds \in [Calls -> Breakers \cup {None}] /\ entry \in [Domains -> Calls \cup {None}]
      BY <2>5
  <2> QED
      BY <1>1, <2>3, <2>4, <2>5, <2>6 DEF Shape, Results, Steps
<1>3. \A b \in Breakers : /\ breaker[b].of = IF b = Database THEN Database ELSE job[b].target
                          /\ breaker[b].state = "closed" /\ breaker[b].failures = 0
    BY DEF Init, NewBreaker
<1>4. Owned
    BY <1>3 DEF Init, Owned, Active
<1>5. Counted
  <2>1. \A b \in Breakers : breaker[b].of \in Targets
      BY <1>2 DEF Shape, States
  <2> QED
      BY <1>2, <1>3, <2>1, Facts DEF Init, Counted, OpenedByOwnFailures, Shape
<1> QED
    BY <1>2, <1>4, <1>5 DEF IInv

--------------------------------------------------------------------------
(* The parts of the actions.                                               *)

\* What the end of an attempt makes of a breaker.
LEMMA AfterFacts ==
    ASSUME NEW r \in States, NEW m, NEW success \in BOOLEAN,
           r.failures <= Threshold
    PROVE  /\ After(r, m, success) \in States
           /\ After(r, m, success).of = r.of
           /\ success => After(r, m, success).failures <= r.failures
           /\ ~success => After(r, m, success).failures = Least(Threshold, r.failures + 1)
           /\ success /\ r.state = "closed" => After(r, m, success).state = "closed"
           /\ ~success /\ r.state = "closed" /\ After(r, m, success).state # "closed" =>
                  m = "probe" \/ r.failures + 1 >= Threshold
<1>1. CASE success
  <2> DEFINE s == IF m = "probe" /\ r.state = "halfOpen" THEN "closed" ELSE r.state
  <2>1. After(r, m, success) = [r EXCEPT !.failures = 0, !.state = s]
      BY <1>1 DEF After
  <2>2. s \in {"closed", "open", "halfOpen"} /\ (r.state = "closed" => s = "closed")
      BY DEF States
  <2> HIDE DEF s
  <2>3. After(r, m, success) = [of |-> r.of, state |-> s, failures |-> 0, openFor |-> r.openFor]
      BY <2>1 DEF States
  <2>4. /\ After(r, m, success) \in States /\ After(r, m, success).of = r.of
        /\ After(r, m, success).state = s
      BY <2>2, <2>3 DEF States
  <2>5. After(r, m, success).failures <= r.failures
      BY <2>3 DEF States
  <2> QED
      BY <1>1, <2>2, <2>4, <2>5
<1>2. CASE ~success
  <2> DEFINE n == Least(Threshold, r.failures + 1)
  <2>1. n \in Nat /\ (n = Threshold => r.failures + 1 >= Threshold)
      BY ResilienceConfig DEF Least, States
  <2>2. CASE r.state # "open" /\ (m = "probe" \/ n = Threshold)
    <3>1. After(r, m, success) = [r EXCEPT !.failures = n, !.state = "open", !.openFor = 0]
        BY <1>2, <2>2 DEF After
    <3> HIDE DEF n
    <3>2. After(r, m, success) = [of |-> r.of, state |-> "open", failures |-> n, openFor |-> 0]
        BY <3>1 DEF States
    <3> QED
        BY <1>2, <2>1, <2>2, <3>2 DEF n, States
  <2>3. CASE ~(r.state # "open" /\ (m = "probe" \/ n = Threshold))
    <3>1. After(r, m, success) = [r EXCEPT !.failures = n]
        BY <1>2, <2>3 DEF After
    <3> HIDE DEF n
    <3>2. /\ After(r, m, success) \in States /\ After(r, m, success).of = r.of
          /\ After(r, m, success).failures = n /\ After(r, m, success).state = r.state
        BY <2>1, <3>1 DEF States
    <3> QED
        BY <1>2, <2>1, <3>2 DEF n
  <2> QED
      BY <2>2, <2>3
<1> QED
    BY <1>1, <1>2
\* The caller's part: the call tries again or is over.
Moved(c, steps, r) ==
    /\ step' \in [Calls -> Steps] /\ holds' \in [Calls -> Breakers \cup {None}]
    /\ mode' \in [Calls -> {"closed", "probe"}] /\ result' \in [Calls -> Results]
    /\ \A x \in Calls \ {c} : /\ step'[x] = steps[x] /\ holds'[x] = holds[x]
                              /\ mode'[x] = mode[x] /\ result'[x] = result[x]
    /\ mode'[c] = "closed"
    /\ \/ step'[c] = "entering" /\ holds'[c] = holds[c] /\ result'[c] = result[c]
       \/ step'[c] = "ended" /\ holds'[c] = None /\ result'[c] = Answer(c, r)

LEMMA AnswerFacts ==
    ASSUME NEW c, NEW r \in Results
    PROVE  Answer(c, r) \in Results /\ (Answer(c, r) \in {r, "stale"})
BY DEF Answer, Results

LEMMA EndsMoves ==
    ASSUME Shape, NEW c \in Calls, NEW r \in Results, NEW steps \in [Calls -> Steps],
           step' = Put(steps, c, "ended"), Ends(c, r)
    PROVE  Moved(c, steps, r)
<1>1. /\ holds' = [holds EXCEPT ![c] = None] /\ mode' = [mode EXCEPT ![c] = "closed"]
      /\ result' = [result EXCEPT ![c] = Answer(c, r)]
      /\ step' = [steps EXCEPT ![c] = "ended"]
    BY DEF Ends, Put
<1>2. Answer(c, r) \in Results
    BY AnswerFacts
<1> QED
    BY <1>1, <1>2 DEF Moved, Shape, Steps

LEMMA FailureMoves ==
    ASSUME Shape, NEW c \in Calls, NEW r \in Results, NEW steps \in [Calls -> Steps],
           FailsWith(c, r, steps)
    PROVE  Moved(c, steps, r)
<1>1. CASE Retried(c)
    BY <1>1 DEF FailsWith, Put, Moved, Shape, Steps
<1>2. CASE ~Retried(c)
    BY <1>2, EndsMoves DEF FailsWith
<1> QED
    BY <1>1, <1>2

\* What the end of an attempt does to the other calls.
Follows(steps) ==
    /\ steps \in [Calls -> Steps]
    /\ \A x \in Calls : \/ steps[x] = step[x]
                        \/ steps[x] = "entering" /\ step[x] = "waiting"
                        \/ steps[x] = "called" /\ step[x] = "queued"

LEMMA WokenFollows ==
    ASSUME Shape, NEW c \in Calls
    PROVE  Follows(Woken(c)) /\ \A x \in Calls : Woken(c)[x] = "called" => step[x] = "called"
<1>1. "entering" \in Steps
    BY DEF Steps
<1> QED
    BY <1>1 DEF Follows, Woken, Shape

LEMMA DequeuedFollows ==
    ASSUME Shape, Queued, NEW c \in Calls, Target(c) \in Domains
    PROVE  Follows(Dequeued(c))
<1> DEFINE q == queue[Target(c)]
<1>1. Follows(Woken(c))
    BY WokenFollows
<1>2. q \in Seq(Calls) /\ (q # <<>> => Head(q) \in Calls /\ step[Head(q)] = "queued")
  <2>1. q \in Seq(Calls)
      BY DEF Queued
  <2>2. q # <<>> => Head(q) = q[1] /\ 1 \in 1 .. Len(q)
      BY <2>1
  <2> QED
      BY <2>1, <2>2 DEF Queued
<1> HIDE DEF q
<1>3. Dequeued(c) = [x \in Calls |-> IF q # <<>> /\ x = Head(q) THEN "called" ELSE Woken(c)[x]]
    BY DEF Dequeued, q
<1>4. "called" \in Steps
    BY DEF Steps
<1> QED
    BY <1>1, <1>2, <1>3, <1>4 DEF Follows

LEMMA SettleMoves ==
    ASSUME Shape, NEW c \in Calls, NEW success \in BOOLEAN, NEW r \in Results,
           NEW steps \in [Calls -> Steps], Settle(c, success, r, steps)
    PROVE  Moved(c, steps, r)
<1>1. CASE success
    BY <1>1, EndsMoves DEF Settle
<1>2. CASE ~success
    BY <1>2, FailureMoves DEF Settle
<1> QED
    BY <1>1, <1>2

\* How an attempt ends.
LEMMA AttemptEnds ==
    ASSUME Shape, Queued, NEW c \in Calls, Cancelled(c) \/ Fetched(c) \/ Queried(c)
    PROVE  /\ step[c] \in {"called", "running"} /\ step[c] \in Active
           /\ \E success \in BOOLEAN, r \in Results \ {"BrokenCircuit"}, steps \in [Calls -> Steps] :
                  Follows(steps) /\ Settle(c, success, r, steps) /\ (success => step[c] = "running")
<1>1. Follows(Woken(c)) /\ Woken(c) \in [Calls -> Steps]
    BY WokenFollows DEF Follows
<1>2. {"cancelled", "ok", "err", "thrown", "DuplicateKey", "QueryFailed"} \subseteq Results \ {"BrokenCircuit"}
    BY DEF Results
<1>3. CASE Cancelled(c)
    BY <1>1, <1>2, <1>3 DEF Cancelled, Active
<1>4. CASE Fetched(c)
  <2>1. Target(c) \in Domains
      BY <1>4 DEF Fetched, Shape, Jobs, Target
  <2>2. Follows(Dequeued(c)) /\ Dequeued(c) \in [Calls -> Steps]
      BY <2>1, DequeuedFollows DEF Follows
  <2> QED
      BY <1>2, <1>4, <2>2 DEF Fetched, Active
<1>5. CASE Queried(c)
    BY <1>1, <1>2, <1>5 DEF Queried, Active
<1> QED
    BY <1>3, <1>4, <1>5

\* The end of an attempt: the failure counted by the breaker has happened at its
\* target, so that a circuit that opens has seen as many as the threshold.
LEMMA Settles ==
    ASSUME IInv, NEW c \in Calls, step[c] \in Active, NEW success \in BOOLEAN,
           NEW r \in Results \ {"BrokenCircuit"}, NEW steps \in [Calls -> Steps],
           Follows(steps), Settle(c, success, r, steps)
    PROVE  IInv'
<1> DEFINE b == holds[c]
           t == job[c].target
<1>1. Shape /\ Owned /\ Counted
    BY DEF IInv
<1>2. b \in Breakers /\ breaker[b].of = t /\ t \in Targets
    BY <1>1, Facts DEF Shape, Owned, Active
<1>3. /\ breaker' = [breaker EXCEPT ![b] = After(breaker[b], mode[c], success)]
      /\ failed' = IF success THEN failed
                   ELSE [failed EXCEPT ![t] = Least(Threshold, failed[t] + 1)]
      /\ UNCHANGED <<job, entry>>
    BY DEF Settle, Target
<1>4. Moved(c, steps, r)
    BY <1>1, SettleMoves
<1>5. /\ breaker[b] \in States /\ breaker[b].failures \in Nat
      /\ breaker[b].failures <= failed[t] /\ failed[t] \in 0 .. Threshold
      /\ breaker[b].failures <= Threshold
    BY <1>1, <1>2, Facts DEF Shape, Counted, States
<1>6. failed' \in [Targets -> 0 .. Threshold] /\ \A u \in Targets : failed[u] <= failed'[u]
  <2>1. Least(Threshold, failed[t] + 1) \in 0 .. Threshold
        /\ failed[t] <= Least(Threshold, failed[t] + 1)
      BY <1>5, Facts DEF Least
  <2>2. CASE success
      BY <1>1, <1>3, <2>2, Facts DEF Shape
  <2>3. CASE ~success
      BY <1>1, <1>2, <1>3, <2>1, <2>3, Facts DEF Shape
  <2> QED
      BY <2>2, <2>3
<1>7. Shape'
  <2>1. breaker' \in [Breakers -> States]
      BY <1>1, <1>2, <1>3, <1>5, AfterFacts DEF Shape
  <2> QED
      BY <1>1, <1>3, <1>4, <1>6, <2>1 DEF Shape, Moved
<1>8. \A a \in Breakers : breaker'[a].of = breaker[a].of
    BY <1>1, <1>2, <1>3, <1>5, AfterFacts DEF Shape
<1>9. Owned'
  <2>1. \A a \in Breakers :
            breaker'[a].of = IF a = Database THEN Database ELSE job'[a].target
      BY <1>1, <1>3, <1>8 DEF Owned
  <2>2. \A x \in Calls : holds'[x] # None => breaker'[holds'[x]].of = job'[x].target
      BY <1>1, <1>2, <1>3, <1>4, <1>8 DEF Owned, Moved, Shape
  <2>3. \A d \in Domains : entry'[d] # None => breaker'[entry'[d]].of = d
      BY <1>1, <1>3, <1>8, Facts DEF Owned, Shape
  <2>4. \A x \in Calls : step'[x] \in Active => holds'[x] # None
    <3>1. holds[c] # None
        BY <1>2, Facts
    <3>2. \A x \in Calls : steps[x] \in Active => step[x] \in Active
        BY DEF Follows, Active
    <3> QED
        BY <1>1, <1>4, <3>1, <3>2 DEF Owned, Moved, Active
  <2> QED
      BY <2>1, <2>2, <2>3, <2>4 DEF Owned
<1>10. \A a \in Breakers : breaker'[a].failures <= failed'[breaker'[a].of]
  <2> TAKE a \in Breakers
  <2>1. breaker[a].of \in Targets /\ breaker[a].failures \in Nat
        /\ breaker[a].failures <= failed[breaker[a].of]
      BY <1>1 DEF Shape, States, Counted
  <2>2. failed[breaker[a].of] <= failed'[breaker[a].of]
        /\ failed[breaker[a].of] \in Nat /\ failed'[breaker[a].of] \in Nat
      BY <1>1, <1>6, <2>1, Facts DEF Shape
  <2>3. CASE a # b \/ success
    <3>1. breaker'[a].failures <= breaker[a].failures /\ breaker'[a].failures \in Nat
        BY <1>1, <1>2, <1>3, <1>5, <1>7, <2>1, <2>3, AfterFacts DEF Shape, States
    <3> QED
        BY <1>8, <2>1, <2>2, <3>1
  <2>4. CASE a = b /\ ~success
    <3>1. breaker'[a].failures = Least(Threshold, breaker[b].failures + 1)
        BY <1>1, <1>2, <1>3, <1>5, <2>4, AfterFacts DEF Shape
    <3>2. failed'[t] = Least(Threshold, failed[t] + 1)
        BY <1>1, <1>2, <1>3, <2>4 DEF Shape
    <3> QED
        BY <1>2, <1>5, <1>8, <2>4, <3>1, <3>2, Facts DEF Least
  <2> QED
      BY <2>3, <2>4
<1>11. \A x \in Calls : mode'[x] = "probe" => failed'[job'[x].target] = Threshold
  <2> TAKE x \in Calls
  <2>1. job[x].target \in Targets
      BY <1>1, Facts DEF Shape
  <2>2. mode'[x] = "probe" => mode[x] = "probe"
      BY <1>4 DEF Moved
  <2> QED
      BY <1>1, <1>3, <1>6, <2>1, <2>2, Facts DEF Counted, Shape
<1>12. \A a \in Breakers : breaker'[a].state # "closed" => failed'[breaker'[a].of] = Threshold
  <2> SUFFICES ASSUME NEW a \in Breakers, breaker'[a].state # "closed"
               PROVE  failed'[breaker[a].of] = Threshold
      BY <1>8
  <2>1. breaker[a].of \in Targets
      BY <1>1 DEF Shape, States
  <2>2. CASE breaker[a].state # "closed"
    <3>1. failed[breaker[a].of] = Threshold
        BY <1>1, <2>2 DEF Counted, OpenedByOwnFailures
    <3> QED
        BY <1>6, <2>1, <3>1, Facts
  <2>3. CASE breaker[a].state = "closed"
    <3>1. a = b
        BY <1>1, <1>3, <2>3 DEF Shape
    <3>2. breaker'[b] = After(breaker[b], mode[c], success)
        BY <1>1, <1>2, <1>3 DEF Shape
    <3>3. ~success /\ (mode[c] = "probe" \/ breaker[b].failures + 1 >= Threshold)
        BY <1>5, <2>3, <3>1, <3>2, AfterFacts
    <3>4. failed'[t] = Least(Threshold, failed[t] + 1)
        BY <1>1, <1>2, <1>3, <3>3 DEF Shape
    <3>5. CASE mode[c] = "probe"
        BY <1>1, <1>2, <3>1, <3>4, <3>5, Facts DEF Counted, Least
    <3>6. CASE breaker[b].failures + 1 >= Threshold
        BY <1>2, <1>5, <3>1, <3>4, <3>6, Facts DEF Least
    <3> QED
        BY <3>3, <3>5, <3>6
  <2> QED
      BY <2>2, <2>3
<1>13. \A x \in Calls : result'[x] = "BrokenCircuit" => failed'[Target(x)'] = Threshold
  <2> TAKE x \in Calls
  <2>1. result'[x] = "BrokenCircuit" => result[x] = "BrokenCircuit"
      BY <1>4, AnswerFacts DEF Moved
  <2>2. job[x].target \in Targets
      BY <1>1, Facts DEF Shape
  <2> QED
      BY <1>1, <1>3, <1>6, <2>1, <2>2, Facts DEF Counted, OpenedByOwnFailures, Target, Shape
<1> QED
    BY <1>7, <1>9, <1>10, <1>11, <1>12, <1>13 DEF IInv, Counted, OpenedByOwnFailures
\* A step that counts nothing keeps what has been counted.
LEMMA CountsNothing ==
    ASSUME IInv, Shape', UNCHANGED <<job, failed>>,
           \A b \in Breakers : /\ breaker'[b].of = breaker[b].of
                               /\ breaker'[b].failures = breaker[b].failures
                               /\ breaker[b].state = "closed" => breaker'[b].state = "closed",
           \A c \in Calls : holds'[c] # None => breaker[holds'[c]].of = job[c].target,
           \A d \in Domains : entry'[d] # None => breaker[entry'[d]].of = d,
           \A c \in Calls : step'[c] \in Active => holds'[c] # None,
           \A c \in Calls : mode'[c] = "probe" => failed[job[c].target] = Threshold,
           \A c \in Calls : result'[c] = "BrokenCircuit" => failed[job[c].target] = Threshold
    PROVE  IInv'
<1>1. /\ \A c \in Calls : holds'[c] # None => holds'[c] \in Breakers
      /\ \A d \in Domains : entry'[d] # None => entry'[d] \in Breakers
    BY Facts DEF Shape
<1>2. Owned'
  <2>1. \A b \in Breakers :
            breaker'[b].of = IF b = Database THEN Database ELSE job'[b].target
      BY DEF IInv, Owned
  <2>2. \A c \in Calls : holds'[c] # None => breaker'[holds'[c]].of = job'[c].target
      BY <1>1
  <2>3. \A d \in Domains : entry'[d] # None => breaker'[entry'[d]].of = d
      BY <1>1
  <2> QED
      BY <2>1, <2>2, <2>3 DEF Owned
<1>3. Counted'
  <2>1. \A b \in Breakers : breaker'[b].failures <= failed'[breaker'[b].of]
      BY DEF IInv, Counted
  <2>2. \A b \in Breakers : breaker'[b].state # "closed" => failed'[breaker'[b].of] = Threshold
      BY DEF IInv, Counted, OpenedByOwnFailures
  <2> QED
      BY <2>1, <2>2 DEF Counted, OpenedByOwnFailures, Target
<1> QED
    BY <1>2, <1>3 DEF IInv

LEMMA Registers ==
    ASSUME IInv, NEW c \in Calls, Target(c) \in Domains, GetBreaker(c)
    PROVE  /\ entry' \in [Domains -> Calls \cup {None}]
           /\ \A d \in Domains : entry'[d] # None => breaker[entry'[d]].of = d
           /\ \E e \in Calls : holds' = [holds EXCEPT ![c] = e] /\ breaker[e].of = job[c].target
<1> DEFINE d == Target(c)
           e == IF entry[d] # None THEN entry[d] ELSE c
<1>1. Shape /\ Owned
    BY DEF IInv
<1>2. e \in Calls /\ breaker[e].of = d
  <2>1. breaker[c].of = d
      BY <1>1, Facts DEF Owned, Target
  <2> QED
      BY <1>1, <2>1 DEF Shape, Owned
<1>3. holds' = [holds EXCEPT ![c] = e]
    BY DEF GetBreaker, Put
<1>4. /\ entry' = [x \in Domains |-> entry'[x]]
      /\ \A x \in Domains : entry'[x] \in {e, entry[x], None} /\ (x # d => entry'[x] # e \/ entry'[x] = entry[x])
  <2>1. PICK kept : entry' = [x \in Domains |->
              IF x = d THEN IF entry[d] # None THEN entry[d] ELSE c
              ELSE IF x \in ToSet(kept) THEN entry[x] ELSE None]
      BY Zenon DEF GetBreaker
  <2> QED
      BY <1>1, <1>2, <2>1, Facts DEF Shape
<1>5. entry' \in [Domains -> Calls \cup {None}]
    BY <1>1, <1>2, <1>4 DEF Shape
<1>6. \A x \in Domains : entry'[x] # None => breaker[entry'[x]].of = x
    BY <1>1, <1>2, <1>4 DEF Owned
<1> QED
    BY <1>2, <1>3, <1>5, <1>6 DEF Target

LEMMA Starts ==
    ASSUME IInv, NEW c \in Calls, Start(c)
    PROVE  IInv'
<1>1. Shape /\ Owned /\ Counted
    BY DEF IInv
<1>2. UNCHANGED <<job, mode, breaker, failed>>
    BY DEF Start
<1>3. CASE step' = Put(step, c, "ended") /\ result' = Put(result, c, "rate_limited")
           /\ UNCHANGED <<holds, entry, registry>>
  <2>1. Shape'
      BY <1>1, <1>2, <1>3 DEF Shape, Put, Steps, Results
  <2>2. \A x \in Calls : /\ step'[x] \in Active => step[x] \in Active
                         /\ result'[x] = "BrokenCircuit" => result[x] = "BrokenCircuit"
      BY <1>1, <1>3 DEF Shape, Put, Active
  <2> QED
      BY <1>1, <1>2, <1>3, <2>1, <2>2, CountsNothing
         DEF Owned, Counted, OpenedByOwnFailures, Target
<1>4. CASE /\ step' = Put(step, c, "entering") /\ UNCHANGED result
           /\ GetPolicy(c)
  <2>1. /\ entry' \in [Domains -> Calls \cup {None}]
        /\ \A d \in Domains : entry'[d] # None => breaker[entry'[d]].of = d
        /\ \E e \in Breakers : holds' = [holds EXCEPT ![c] = e] /\ breaker[e].of = job[c].target
    <3>1. CASE Target(c) = Database
        BY <1>1, <1>4, <3>1, Facts DEF GetPolicy, Shape, Owned, Target, Put
    <3>2. CASE Target(c) # Database
      <4>1. Target(c) \in Domains
          BY <1>1, <3>2 DEF Shape, Jobs, Target
      <4> QED
          BY <1>4, <3>2, <4>1, Registers, Facts DEF GetPolicy
    <3> QED
        BY <3>1, <3>2
  <2>2. PICK e \in Breakers : holds' = [holds EXCEPT ![c] = e] /\ breaker[e].of = job[c].target
      BY <2>1
  <2>3. Shape'
      BY <1>1, <1>2, <1>4, <2>1, <2>2 DEF Shape, Put, Steps
  <2>4. e # None
      BY Facts
  <2>5. \A x \in Calls : holds'[x] # None => breaker[holds'[x]].of = job[x].target
      BY <1>1, <2>2 DEF Shape, Owned
  <2>6. \A x \in Calls : step'[x] \in Active => holds'[x] # None
      BY <1>1, <1>4, <2>2, <2>4 DEF Shape, Owned, Put
  <2> QED
      BY <1>1, <1>2, <1>4, <2>1, <2>3, <2>5, <2>6, CountsNothing
         DEF Counted, OpenedByOwnFailures, Target
<1> QED
    BY <1>3, <1>4 DEF Start

LEMMA Enters ==
    ASSUME IInv, NEW c \in Calls, Enter(c)
    PROVE  IInv'
<1> DEFINE b == holds[c]
<1>1. Shape /\ Owned /\ Counted
    BY DEF IInv
<1>2. b \in Breakers /\ breaker[b].of = job[c].target
    BY <1>1, Facts DEF Shape, Owned, Active, Enter
<1>3. step[c] = "entering" /\ UNCHANGED <<job, entry, failed>>
    BY DEF Enter
<1>4. ASSUME NEW m \in {"closed", "probe"}, Pass(c, m)
      PROVE  /\ mode' = [mode EXCEPT ![c] = m] /\ UNCHANGED <<holds, result>>
             /\ \E s \in {"running", "called"} : step' = [step EXCEPT ![c] = s]
    BY <1>4 DEF Pass, Put
<1>5. CASE breaker[b].state = "closed" /\ Pass(c, "closed") /\ UNCHANGED <<test, breaker>>
  <2>1. PICK s \in {"running", "called"} : step' = [step EXCEPT ![c] = s]
      BY <1>4, <1>5
  <2>2. mode' = [mode EXCEPT ![c] = "closed"] /\ UNCHANGED <<holds, result, breaker>>
      BY <1>4, <1>5
  <2>3. Shape'
      BY <1>1, <1>3, <2>1, <2>2 DEF Shape, Steps
  <2>4. \A x \in Calls : /\ step'[x] \in Active => step[x] \in Active
                         /\ mode'[x] = "probe" => mode[x] = "probe"
      BY <1>1, <1>3, <2>1, <2>2 DEF Shape, Active
  <2> QED
      BY <1>1, <1>3, <2>2, <2>3, <2>4, CountsNothing
         DEF Owned, Counted, OpenedByOwnFailures, Target
<1>6. CASE /\ breaker[b].state = "open" /\ Pass(c, "probe")
           /\ breaker' = [breaker EXCEPT ![b].state = "halfOpen"]
  <2>1. PICK s \in {"running", "called"} : step' = [step EXCEPT ![c] = s]
      BY <1>4, <1>6
  <2>2. mode' = [mode EXCEPT ![c] = "probe"] /\ UNCHANGED <<holds, result>>
      BY <1>4, <1>6
  <2>3. breaker' \in [Breakers -> States]
      BY <1>1, <1>2, <1>6 DEF Shape, States
  <2>4. Shape'
      BY <1>1, <1>3, <2>1, <2>2, <2>3 DEF Shape, Steps
  <2>5. \A x \in Calls : step'[x] \in Active => step[x] \in Active
      BY <1>1, <1>3, <2>1 DEF Shape, Active
  <2>6. failed[job[c].target] = Threshold
      BY <1>1, <1>2, <1>6 DEF Counted, OpenedByOwnFailures
  <2>7. \A x \in Calls : mode'[x] = "probe" => failed[job[x].target] = Threshold
      BY <1>1, <2>2, <2>6 DEF Shape, Counted
  <2>8. \A a \in Breakers : /\ breaker'[a].of = breaker[a].of
                            /\ breaker'[a].failures = breaker[a].failures
                            /\ breaker[a].state = "closed" => breaker'[a].state = "closed"
      BY <1>1, <1>2, <1>6 DEF Shape, States
  <2> QED
      BY <1>1, <1>3, <2>2, <2>4, <2>5, <2>7, <2>8, CountsNothing
         DEF Owned, Counted, OpenedByOwnFailures, Target
<1>7. CASE /\ breaker[b].state = "open"
           /\ FailsWith(c, "BrokenCircuit", step) /\ UNCHANGED breaker
  <2>1. Moved(c, step, "BrokenCircuit")
      BY <1>1, <1>7, FailureMoves DEF Shape, Results
  <2>2. Shape'
      BY <1>1, <1>3, <1>7, <2>1 DEF Shape, Moved
  <2>3. failed[job[c].target] = Threshold
      BY <1>1, <1>2, <1>7 DEF Counted, OpenedByOwnFailures
  <2>4. \A x \in Calls : holds'[x] # None => holds'[x] = holds[x]
      BY <2>1 DEF Moved
  <2>5. \A x \in Calls : step'[x] \in Active => holds'[x] # None
      BY <1>1, <1>3, <2>1 DEF Moved, Owned, Active
  <2>6. \A x \in Calls : mode'[x] = "probe" => mode[x] = "probe"
      BY <2>1 DEF Moved
  <2>7. \A x \in Calls : result'[x] = "BrokenCircuit" => x = c \/ result[x] = "BrokenCircuit"
      BY <2>1 DEF Moved
  <2> QED
      BY <1>1, <1>3, <1>7, <2>2, <2>3, <2>4, <2>5, <2>6, <2>7, CountsNothing
         DEF Owned, Counted, OpenedByOwnFailures, Target
<1>8. CASE step' = Put(step, c, "waiting") /\ UNCHANGED <<holds, mode, result, breaker>>
  <2>1. Shape'
      BY <1>1, <1>3, <1>8 DEF Shape, Put, Steps
  <2>2. \A x \in Calls : step'[x] \in Active => step[x] \in Active
      BY <1>1, <1>3, <1>8 DEF Shape, Put, Active
  <2> QED
      BY <1>1, <1>3, <1>8, <2>1, <2>2, CountsNothing
         DEF Owned, Counted, OpenedByOwnFailures, Target
<1> QED
    BY <1>5, <1>6, <1>7, <1>8 DEF Enter
LEMMA Invariance == IInv /\ Queued /\ [Next]_vars => IInv'
<1> SUFFICES ASSUME IInv, Queued, [Next]_vars PROVE IInv'
    OBVIOUS
<1>1. Shape /\ Owned /\ Counted
    BY DEF IInv
<1>2. ASSUME NEW c \in Calls, Occupy(c) PROVE IInv'
  <2>1. /\ step[c] = "called" /\ \E s \in {"running", "queued"} : step' = [step EXCEPT ![c] = s]
        /\ UNCHANGED <<job, holds, mode, result, breaker, entry, failed>>
      BY <1>2 DEF Occupy, Put
  <2>2. Shape'
      BY <1>1, <2>1 DEF Shape, Steps
  <2>3. \A x \in Calls : step'[x] \in Active => step[x] \in Active
      BY <1>1, <2>1 DEF Shape, Active
  <2> QED
      BY <1>1, <2>1, <2>2, <2>3, CountsNothing DEF Owned, Counted, OpenedByOwnFailures, Target
<1>3. ASSUME NEW c \in Calls, Cancelled(c) \/ Fetched(c) \/ Queried(c) PROVE IInv'
    BY <1>1, <1>3, AttemptEnds, Settles
<1>6. ASSUME NEW c \in Calls, Timeout(c) PROVE IInv'
  <2>1. UNCHANGED <<job, step, holds, mode, result, breaker, entry, failed>>
      BY <1>6 DEF Timeout
  <2> QED
      BY <2>1, <1>1 DEF IInv, Shape, Owned, Counted, OpenedByOwnFailures, Target
<1>7. CASE Tick
  <2>1. UNCHANGED <<job, step, holds, mode, result, entry, failed>>
      BY <1>7 DEF Tick, callVars
  <2>2. \A b \in Breakers : /\ breaker'[b] \in States /\ breaker'[b].of = breaker[b].of
                            /\ breaker'[b].failures = breaker[b].failures
                            /\ breaker'[b].state = breaker[b].state
    <3> TAKE b \in Breakers
    <3>1. breaker[b] \in States
        BY <1>1 DEF Shape
    <3>2. Least(HalfOpenAfter, breaker[b].openFor + 1) \in Nat
        BY <3>1, Facts DEF Least, States
    <3>3. breaker'[b] = IF breaker[b].state = "open"
              THEN [breaker[b] EXCEPT !.openFor = Least(HalfOpenAfter, breaker[b].openFor + 1)]
              ELSE breaker[b]
        BY <1>7 DEF Tick
    <3>4. CASE breaker[b].state = "open"
        BY <3>1, <3>2, <3>3, <3>4 DEF States
    <3>5. CASE breaker[b].state # "open"
        BY <3>1, <3>3, <3>5
    <3> QED
        BY <3>4, <3>5
  <2>3. breaker' \in [Breakers -> States]
      BY <1>7, <2>2 DEF Tick
  <2>4. Shape'
      BY <1>1, <2>1, <2>3 DEF Shape
  <2> QED
      BY <1>1, <2>1, <2>2, <2>4, CountsNothing DEF Owned, Counted, OpenedByOwnFailures, Target
<1>8. CASE UNCHANGED vars
    BY <1>8, <1>1 DEF vars, callVars, IInv, Shape, Owned, Counted, OpenedByOwnFailures, Target
<1> QED
    BY <1>2, <1>3, <1>6, <1>7, <1>8, Starts, Enters DEF Next, Progress

--------------------------------------------------------------------------
(* The bulkheads.                                                           *)

LEMMA BulkheadsInit == Init => Queued /\ Occupied
<1> SUFFICES ASSUME Init PROVE Queued /\ Occupied
    OBVIOUS
<1>1. /\ queue = [d \in Domains |-> <<>>] /\ active = [d \in Domains |-> 0]
      /\ bulkheads = {} /\ step = [c \in Calls |-> "idle"]
    BY DEF Init
<1>2. \A d \in Domains : queue[d] = <<>> /\ Running(d) = {}
    BY <1>1 DEF Running
<1>3. Queued
    BY <1>1, <1>2 DEF Queued
<1>4. \A d \in Domains : IsFiniteSet(Running(d)) /\ active[d] = Cardinality(Running(d))
    BY <1>1, <1>2, FS_EmptySet
<1> QED
    BY <1>1, <1>3, <1>4, ResilienceConfig DEF Occupied, Active

\* A step that leaves the bulkheads alone starts and stops no call of a domain and takes
\* none out of a queue.
LEMMA LeavesBulkheads ==
    ASSUME Shape, Queued, Occupied, UNCHANGED <<job, bulkVars>>,
           \A x \in Calls :
              /\ Target(x) \in Domains => (step'[x] = "running" <=> step[x] = "running")
              /\ step[x] = "queued" => step'[x] = "queued"
              /\ step'[x] \in Active => step[x] \in Active
              /\ step'[x] = "called" => Target(x) \in Domains
    PROVE  Queued' /\ Occupied'
<1>1. UNCHANGED <<bulkheads, active, queue>> /\ \A x \in Calls : Target(x)' = Target(x)
    BY DEF bulkVars, Target
<1>2. \A d \in Domains : Running(d)' = Running(d)
    BY <1>1 DEF Running
<1>3. Queued'
  <2>1. \A d \in Domains : \A i \in 1 .. Len(queue[d]) : queue[d][i] \in Calls
      BY DEF Queued
  <2> QED
      BY <1>1, <2>1 DEF Queued
<1>4. Occupied'
    BY <1>1, <1>2 DEF Occupied
<1> QED
    BY <1>3, <1>4

\* A call that gets its policy makes a bulkhead where there is none.
LEMMA StartsBulkheads ==
    ASSUME Shape, Queued, Occupied, NEW c \in Calls, Start(c)
    PROVE  Queued' /\ Occupied'
<1>1. /\ UNCHANGED job /\ step[c] = "idle" /\ \A x \in Calls : Target(x)' = Target(x)
      /\ \E to \in {"ended", "entering"} : step' = [step EXCEPT ![c] = to]
    BY DEF Start, Put, Target
<1>2. PICK to \in {"ended", "entering"} : step' = [step EXCEPT ![c] = to]
    BY <1>1
<1>3. \A x \in Calls : (step'[x] = "running" <=> step[x] = "running")
                        /\ (step[x] = "queued" => step'[x] = "queued")
                        /\ (step'[x] = "called" => step[x] = "called")
    BY <1>1, <1>2 DEF Shape
<1>4. CASE UNCHANGED bulkVars /\ (to = "ended" \/ Target(c) \notin Domains)
  <2>1. \A d \in Domains : Running(d)' = Running(d)
      BY <1>1, <1>3 DEF Running
  <2>2. UNCHANGED <<bulkheads, active, queue>>
      BY <1>4 DEF bulkVars
  <2>3. Queued'
    <3>1. \A d \in Domains : \A i \in 1 .. Len(queue[d]) : queue[d][i] \in Calls
        BY DEF Queued
    <3> QED
        BY <1>1, <1>3, <2>2, <3>1 DEF Queued
  <2>4. \A x \in Calls : step'[x] \in Active /\ Target(x) \in Domains => step[x] \in Active
      BY <1>2, <1>4 DEF Shape, Active
  <2> QED
      BY <1>1, <1>3, <2>1, <2>2, <2>3, <2>4 DEF Occupied
<1>5. CASE Target(c) \in Domains /\ GetBulkhead(Target(c))
  <2> DEFINE d == Target(c)
  <2>1. /\ bulkheads' = bulkheads \cup {d}
        /\ d \in bulkheads => UNCHANGED <<active, queue>>
        /\ d \notin bulkheads => /\ active' = [active EXCEPT ![d] = 0]
                                /\ queue' = [queue EXCEPT ![d] = <<>>]
      BY <1>5 DEF GetBulkhead
  <2> HIDE DEF d
  <2>2. d \in Domains
      BY <1>5 DEF d
  <2>3. \A e \in Domains : Running(e)' = Running(e)
      BY <1>1, <1>3 DEF Running
  <2>4. CASE d \in bulkheads
    <3>1. Queued'
      <4>1. \A e \in Domains : \A i \in 1 .. Len(queue[e]) : queue[e][i] \in Calls
          BY DEF Queued
      <4> QED
          BY <1>1, <1>3, <2>1, <2>4, <4>1 DEF Queued
    <3>2. \A x \in Calls : step'[x] \in Active /\ Target(x)' \in Domains => Target(x)' \in bulkheads'
        BY <1>1, <1>2, <2>1 DEF Shape, Occupied, d
    <3> QED
        BY <1>1, <1>3, <2>1, <2>2, <2>3, <2>4, <3>1, <3>2 DEF Occupied
  <2>5. CASE d \notin bulkheads
    <3>1. Running(d) = {}
        BY <2>2, <2>5 DEF Occupied, Running, Active
    <3>2. \A e \in Domains : e # d => active'[e] = active[e] /\ queue'[e] = queue[e]
        BY <2>1, <2>5 DEF Occupied, Queued
    <3>3. /\ active' \in [Domains -> 0 .. MaxConcurrent] /\ active'[d] = 0
          /\ queue' \in [Domains -> Seq(Calls)] /\ queue'[d] = <<>>
      <4>1. active \in [Domains -> 0 .. MaxConcurrent] /\ 0 \in 0 .. MaxConcurrent
          BY ResilienceConfig DEF Occupied
      <4>2. queue \in [Domains -> Seq(Calls)] /\ <<>> \in Seq(Calls)
          BY DEF Queued
      <4>3. active' \in [Domains -> 0 .. MaxConcurrent] /\ active'[d] = 0
          BY <2>1, <2>2, <2>5, <4>1
      <4>4. queue' \in [Domains -> Seq(Calls)] /\ queue'[d] = <<>>
          BY <2>1, <2>2, <2>5, <4>2, Zenon
      <4> QED
          BY <4>3, <4>4
    <3>4. \A e \in Domains : IsFiniteSet(Running(e)') /\ active'[e] = Cardinality(Running(e)')
        BY <2>3, <3>1, <3>2, <3>3, FS_EmptySet DEF Occupied
    <3>5. \A x \in Calls : step'[x] \in Active /\ Target(x)' \in Domains => Target(x)' \in bulkheads'
        BY <1>1, <1>2, <2>1 DEF Shape, Occupied, d
    <3>6. Queued'
      <4>1. ASSUME NEW e \in Domains, NEW i \in 1 .. Len(queue'[e])
            PROVE  /\ step'[queue'[e][i]] = "queued" /\ job'[queue'[e][i]].target = e
                   /\ \A j \in 1 .. Len(queue'[e]) : queue'[e][i] = queue'[e][j] => i = j
        <5>1. e # d /\ queue'[e] = queue[e]
            BY <3>2, <3>3, <4>1
        <5>2. queue[e][i] \in Calls
            BY <4>1, <5>1 DEF Queued
        <5> QED
            BY <1>1, <1>3, <4>1, <5>1, <5>2 DEF Queued
      <4> QED
          BY <3>3, <4>1 DEF Queued
    <3> QED
        BY <1>1, <1>3, <2>1, <2>2, <3>3, <3>4, <3>5, <3>6 DEF Occupied
  <2> QED
      BY <2>4, <2>5
<1> QED
  <2>1. Target(c) = Database => Target(c) \notin Domains
      BY ResilienceConfig
  <2>2. Target(c) # Database => Target(c) \in Domains
      BY DEF Shape, Jobs, Target
  <2>3. CASE step' = Put(step, c, "ended") /\ UNCHANGED bulkVars
    <3>1. to = "ended"
        BY <1>2, <2>3 DEF Put, Shape
    <3> QED
        BY <1>4, <2>3, <3>1
  <2>4. CASE GetPolicy(c)
      BY <1>4, <1>5, <2>1, <2>2, <2>4 DEF GetPolicy
  <2> QED
      BY <2>3, <2>4 DEF Start

LEMMA OccupiesBulkheads ==
    ASSUME Shape, Queued, Occupied, NEW c \in Calls, Occupy(c)
    PROVE  Queued' /\ Occupied'
<1> PICK d \in Domains : d = Target(c)
    BY DEF Occupy, Occupied
<1>1. /\ step[c] = "called" /\ UNCHANGED <<job, bulkheads>>
      /\ \A x \in Calls : Target(x)' = Target(x)
    BY DEF Occupy, Occupied, Target
<1>2. CASE /\ active[d] < MaxConcurrent /\ active' = [active EXCEPT ![d] = active[d] + 1]
           /\ step' = Put(step, c, "running") /\ UNCHANGED queue
  <2>1. step' = [step EXCEPT ![c] = "running"]
      BY <1>2 DEF Put
  <2>2. /\ c \in Calls /\ Target(c) = d /\ c \notin Running(d)
        /\ Running(d)' = Running(d) \cup {c}
        /\ \A e \in Domains : e # d => Running(e)' = Running(e)
      BY <1>1, <2>1 DEF Running, Shape
  <2>3. /\ IsFiniteSet(Running(d)') /\ Cardinality(Running(d)') = Cardinality(Running(d)) + 1
      BY <1>1, <2>2, FS_AddElement DEF Occupied
  <2>4. /\ active' \in [Domains -> 0 .. MaxConcurrent] /\ active'[d] = active[d] + 1
        /\ \A e \in Domains : e # d => active'[e] = active[e]
      BY <1>1, <1>2, ResilienceConfig DEF Occupied
  <2>5. \A e \in Domains : IsFiniteSet(Running(e)') /\ active'[e] = Cardinality(Running(e)')
    <3> TAKE e \in Domains
    <3>1. IsFiniteSet(Running(e)) /\ active[e] = Cardinality(Running(e))
        BY DEF Occupied
    <3>2. CASE e = d
        BY <2>3, <2>4, <3>1, <3>2
    <3>3. CASE e # d
        BY <2>2, <2>4, <3>1, <3>3
    <3> QED
        BY <3>2, <3>3
  <2>6. \A x \in Calls : /\ step'[x] \in Active => step[x] \in Active
                         /\ step'[x] = "called" => step[x] = "called"
      BY <1>1, <2>1 DEF Shape, Active
  <2>7. Queued'
    <3>1. \A e \in Domains : \A i \in 1 .. Len(queue[e]) :
              queue[e][i] \in Calls /\ step'[queue[e][i]] = step[queue[e][i]]
        BY <1>1, <2>1 DEF Queued, Shape
    <3> QED
        BY <1>1, <1>2, <3>1 DEF Queued
  <2> QED
      BY <1>1, <2>4, <2>5, <2>6, <2>7 DEF Occupied
<1>3. CASE /\ queue' = [queue EXCEPT ![d] = Append(queue[d], c)]
           /\ step' = Put(step, c, "queued") /\ UNCHANGED active
  <2>1. step' = [step EXCEPT ![c] = "queued"]
      BY <1>3 DEF Put
  <2>2. \A e \in Domains : Running(e)' = Running(e)
      BY <1>1, <2>1 DEF Running, Shape
  <2>3. \A x \in Calls : /\ step'[x] \in Active => step[x] \in Active
                         /\ step'[x] = "called" => step[x] = "called"
      BY <1>1, <2>1 DEF Shape, Active
  <2>4. Occupied'
      BY <1>1, <1>3, <2>2, <2>3 DEF Occupied
  <2>5. queue \in [Domains -> Seq(Calls)] /\ queue[d] \in Seq(Calls)
      BY <1>1 DEF Queued
  <2>6. /\ queue' \in [Domains -> Seq(Calls)] /\ queue'[d] = Append(queue[d], c)
        /\ \A e \in Domains : e # d => queue'[e] = queue[e]
      BY <1>1, <1>3, <2>5
  <2>7. /\ Len(queue'[d]) = Len(queue[d]) + 1 /\ queue'[d][Len(queue[d]) + 1] = c
        /\ \A i \in 1 .. Len(queue[d]) : queue'[d][i] = queue[d][i]
        /\ Len(queue[d]) \in Nat
      BY <2>5, <2>6
  <2>8. \A e \in Domains : \A i \in 1 .. Len(queue[e]) :
            queue[e][i] \in Calls /\ queue[e][i] # c /\ step'[queue[e][i]] = "queued"
      BY <1>1, <2>1 DEF Queued, Shape
  <2>9. ASSUME NEW e \in Domains, NEW i \in 1 .. Len(queue'[e])
        PROVE  /\ step'[queue'[e][i]] = "queued" /\ job'[queue'[e][i]].target = e
               /\ \A j \in 1 .. Len(queue'[e]) : queue'[e][i] = queue'[e][j] => i = j
    <3>1. CASE e # d
        BY <1>1, <2>6, <2>8, <2>9, <3>1 DEF Queued
    <3>2. CASE e = d
      <4>1. i \in 1 .. Len(queue[d]) \/ i = Len(queue[d]) + 1
          BY <2>7, <2>9, <3>2
      <4>2. step'[c] = "queued" /\ Target(c)' = d
          BY <1>1, <2>1 DEF Shape
      <4>3. step'[queue'[e][i]] = "queued" /\ job'[queue'[e][i]].target = e
        <5>1. CASE i \in 1 .. Len(queue[d])
          <6>1. /\ queue'[d][i] = queue[d][i] /\ queue[d][i] \in Calls
                /\ step'[queue[d][i]] = "queued"
              BY <1>1, <2>7, <2>8, <5>1
          <6>2. job[queue[d][i]].target = d
              BY <1>1, <5>1 DEF Queued
          <6> QED
              BY <1>1, <3>2, <6>1, <6>2
        <5>2. CASE i = Len(queue[d]) + 1
            BY <1>1, <2>7, <3>2, <4>2, <5>2 DEF Target
        <5> QED
            BY <4>1, <5>1, <5>2
      <4>4. ASSUME NEW j \in 1 .. Len(queue'[e]), queue'[e][i] = queue'[e][j] PROVE i = j
        <5>1. j \in 1 .. Len(queue[d]) \/ j = Len(queue[d]) + 1
            BY <2>7, <3>2, <4>4
        <5>2. CASE i \in 1 .. Len(queue[d]) /\ j \in 1 .. Len(queue[d])
            BY <1>1, <2>7, <3>2, <4>4, <5>2 DEF Queued
        <5>3. CASE i \in 1 .. Len(queue[d]) /\ j = Len(queue[d]) + 1
            BY <1>1, <2>7, <2>8, <3>2, <4>4, <5>3
        <5>4. CASE i = Len(queue[d]) + 1 /\ j \in 1 .. Len(queue[d])
            BY <1>1, <2>7, <2>8, <3>2, <4>4, <5>4
        <5> QED
            BY <4>1, <5>1, <5>2, <5>3, <5>4
      <4> QED
          BY <4>3, <4>4
    <3> QED
        BY <3>1, <3>2
  <2>10. Queued'
      BY <2>6, <2>9 DEF Queued
  <2> QED
      BY <2>4, <2>10
<1> QED
    BY <1>2, <1>3 DEF Occupy

\* A call that ends frees its slot, and the first of the queue leaves it.
LEMMA VacatesBulkheads ==
    ASSUME Shape, Queued, Occupied, NEW c \in Calls, Fetched(c)
    PROVE  Queued' /\ Occupied'
<1> PICK d \in Domains : d = Target(c)
    BY DEF Fetched, Shape, Jobs, Target
<1> DEFINE q == queue[d]
<1>1. /\ step[c] = "running" /\ UNCHANGED <<job, bulkheads>>
      /\ \A x \in Calls : Target(x)' = Target(x)
      /\ active' = [active EXCEPT ![d] = active[d] - 1]
      /\ queue' = [queue EXCEPT ![d] = IF q = <<>> THEN q ELSE Tail(q)]
    BY DEF Fetched, Vacate, Settle, Shape, Jobs, Target
<1>2. \E to \in {"entering", "ended"} : step' = [Dequeued(c) EXCEPT ![c] = to]
    BY DEF Fetched, Settle, FailsWith, Put
<1>3. /\ Woken(c) \in [Calls -> Steps]
      /\ \A x \in Calls : \/ Woken(c)[x] = step[x]
                          \/ Woken(c)[x] = "entering" /\ step[x] = "waiting"
    BY WokenFollows DEF Woken, Follows
<1>4. Dequeued(c) = [x \in Calls |-> IF q # <<>> /\ x = Head(q) THEN "called" ELSE Woken(c)[x]]
    BY DEF Dequeued
<1> HIDE DEF q
<1>5. /\ queue \in [Domains -> Seq(Calls)] /\ q \in Seq(Calls) /\ Len(q) \in Nat /\ q = queue[d]
    BY <1>1 DEF Queued, q
<1>6. \A i \in 1 .. Len(q) : q[i] \in Calls /\ step[q[i]] = "queued" /\ job[q[i]].target = d
    BY <1>1, <1>5 DEF Queued
<1>7. q # <<>> => /\ Head(q) = q[1] /\ 1 \in 1 .. Len(q)
                  /\ Len(Tail(q)) = Len(q) - 1 /\ Tail(q) \in Seq(Calls)
                  /\ \A i \in 1 .. Len(Tail(q)) : Tail(q)[i] = q[i + 1]
    BY <1>5
<1>8. PICK to \in {"entering", "ended"} : step' = [Dequeued(c) EXCEPT ![c] = to]
    BY <1>2
<1>9. \A x \in Calls : x # c => \/ step'[x] = step[x]
                                \/ step'[x] = "entering" /\ step[x] = "waiting"
                                \/ step'[x] = "called" /\ step[x] = "queued"
    BY <1>3, <1>4, <1>6, <1>7, <1>8
<1>10. step'[c] = to
    BY <1>4, <1>8
<1>11. /\ Running(d)' = Running(d) \ {c} /\ c \in Running(d)
       /\ \A e \in Domains : e # d => Running(e)' = Running(e)
    BY <1>1, <1>9, <1>10 DEF Running
<1>12. /\ IsFiniteSet(Running(d)') /\ Cardinality(Running(d)') = Cardinality(Running(d)) - 1
       /\ Cardinality(Running(d)') \in Nat
    BY <1>1, <1>11, FS_RemoveElement, FS_CardinalityType DEF Occupied
<1>13. /\ active' \in [Domains -> 0 .. MaxConcurrent] /\ active'[d] = active[d] - 1
       /\ \A e \in Domains : e # d => active'[e] = active[e]
  <2>1. active[d] = Cardinality(Running(d)) /\ active[d] \in 0 .. MaxConcurrent
        /\ active \in [Domains -> 0 .. MaxConcurrent]
      BY <1>1 DEF Occupied
  <2>2. Cardinality(Running(d)) \in Nat
      BY <1>1, FS_CardinalityType DEF Occupied
  <2>3. active[d] - 1 \in 0 .. MaxConcurrent
      BY <1>12, <2>1, <2>2, ResilienceConfig
  <2> QED
      BY <1>1, <2>1, <2>3
<1>14. Occupied'
  <2>1. \A e \in Domains : IsFiniteSet(Running(e)') /\ active'[e] = Cardinality(Running(e)')
    <3> TAKE e \in Domains
    <3>1. IsFiniteSet(Running(e)) /\ active[e] = Cardinality(Running(e))
        BY DEF Occupied
    <3>2. CASE e = d
        BY <1>12, <1>13, <3>1, <3>2
    <3>3. CASE e # d
        BY <1>11, <1>13, <3>1, <3>3
    <3> QED
        BY <3>2, <3>3
  <2>2. \A x \in Calls : step'[x] \in Active => step[x] \in Active
      BY <1>1, <1>9, <1>10 DEF Active
  <2>3. ASSUME NEW x \in Calls, step'[x] = "called" PROVE Target(x) \in Domains
    <3>1. x # c /\ (step[x] = "called" \/ (q # <<>> /\ x = Head(q)))
        BY <1>3, <1>4, <1>8, <1>10, <2>3
    <3> QED
      <4>1. step[x] = "called" => Target(x) \in Domains
          BY DEF Occupied
      <4>2. q # <<>> /\ x = Head(q) => job[x].target = d
          BY <1>6, <1>7
      <4> QED
          BY <1>1, <3>1, <4>1, <4>2 DEF Target
  <2> QED
      BY <1>1, <1>13, <2>1, <2>2, <2>3 DEF Occupied
<1>15. queue' \in [Domains -> Seq(Calls)] /\ \A e \in Domains : e # d => queue'[e] = queue[e]
    BY <1>1, <1>5, <1>7
<1>16. \A x \in Calls : step[x] = "queued" /\ ~(q # <<>> /\ x = Head(q)) => step'[x] = "queued"
    BY <1>1, <1>3, <1>4, <1>8
<1>17. ASSUME NEW e \in Domains, NEW i \in 1 .. Len(queue'[e])
       PROVE  /\ step'[queue'[e][i]] = "queued" /\ job'[queue'[e][i]].target = e
              /\ \A j \in 1 .. Len(queue'[e]) : queue'[e][i] = queue'[e][j] => i = j
  <2>1. CASE e # d
    <3>1. queue'[e] = queue[e] /\ queue[e][i] \in Calls
        BY <1>15, <1>17, <2>1 DEF Queued
    <3>2. /\ step[queue[e][i]] = "queued" /\ job[queue[e][i]].target = e
          /\ \A j \in 1 .. Len(queue[e]) : queue[e][i] = queue[e][j] => i = j
        BY <1>17, <3>1 DEF Queued
    <3>3. ~(q # <<>> /\ queue[e][i] = Head(q))
        BY <1>6, <1>7, <2>1, <3>2
    <3> QED
        BY <1>1, <1>16, <3>1, <3>2, <3>3
  <2>2. CASE e = d
    <3>1. queue'[d] = Tail(q) /\ q # <<>>
      <4>1. q = <<>> => queue'[d] = <<>>
          BY <1>1, <1>5
      <4>2. q # <<>> => queue'[d] = Tail(q)
          BY <1>1, <1>5
      <4> QED
          BY <1>17, <2>2, <4>1, <4>2
    <3>2. \A j \in 1 .. Len(queue'[e]) : queue'[e][j] = q[j + 1] /\ j + 1 \in 1 .. Len(q) /\ j + 1 # 1
        BY <1>5, <1>7, <2>2, <3>1
    <3>3. \A j, k \in 1 .. Len(q) : q[j] = q[k] => j = k
        BY <1>1, <1>5 DEF Queued
    <3>4. q[i + 1] # Head(q)
        BY <1>7, <1>17, <3>1, <3>2, <3>3
    <3>5. step'[q[i + 1]] = "queued" /\ job'[q[i + 1]].target = d
        BY <1>1, <1>6, <1>16, <1>17, <3>2, <3>4
    <3>6. ASSUME NEW j \in 1 .. Len(queue'[e]), queue'[e][i] = queue'[e][j] PROVE i = j
      <4>1. i + 1 = j + 1
          BY <1>17, <3>2, <3>3, <3>6
      <4>2. i \in Int /\ j \in Int
          OBVIOUS
      <4> QED
          BY <4>1, <4>2
    <3> QED
        BY <1>17, <2>2, <3>2, <3>5, <3>6
  <2> QED
      BY <2>1, <2>2
<1>18. Queued'
    BY <1>15, <1>17 DEF Queued
<1> QED
    BY <1>14, <1>18

LEMMA BulkheadsStep == IInv /\ Queued /\ Occupied /\ [Next]_vars => Queued' /\ Occupied'
<1> SUFFICES ASSUME Shape, Queued, Occupied, [Next]_vars PROVE Queued' /\ Occupied'
    BY DEF IInv
<1>1. Database \notin Domains
    BY ResilienceConfig
<1>2. ASSUME NEW c \in Calls, NEW r \in Results, NEW steps \in [Calls -> Steps],
             step[c] \in Active, Target(c) \in Domains => step[c] # "running",
             step[c] # "queued", Moved(c, steps, r),
             \A x \in Calls : steps[x] = step[x] \/ (steps[x] = "entering" /\ step[x] = "waiting"),
             UNCHANGED <<job, bulkVars>>
      PROVE  Queued' /\ Occupied'
  <2>1. \A x \in Calls : x # c =>
            step'[x] = step[x] \/ (step'[x] = "entering" /\ step[x] = "waiting")
      BY <1>2 DEF Moved
  <2>2. step'[c] \in {"entering", "ended"}
      BY <1>2 DEF Moved
  <2> QED
      BY <1>2, <2>1, <2>2, LeavesBulkheads DEF Active, Occupied
<1>3. ASSUME NEW c \in Calls, NEW success \in BOOLEAN, NEW r \in Results,
             Settle(c, success, r, Woken(c)), step[c] \in {"called", "running"},
             Target(c) \in Domains => step[c] # "running", UNCHANGED bulkVars
      PROVE  Queued' /\ Occupied'
  <2>1. /\ Woken(c) \in [Calls -> Steps]
        /\ \A x \in Calls : Woken(c)[x] = step[x] \/ (Woken(c)[x] = "entering" /\ step[x] = "waiting")
      BY WokenFollows DEF Woken, Follows
  <2>2. UNCHANGED job
      BY <1>3 DEF Settle
  <2> QED
      BY <1>2, <1>3, <2>1, <2>2, SettleMoves DEF Active
<1>4. ASSUME NEW c \in Calls, Cancelled(c) PROVE Queued' /\ Occupied'
    BY <1>3, <1>4 DEF Cancelled, Results
<1>5. ASSUME NEW c \in Calls, Queried(c) PROVE Queued' /\ Occupied'
  <2>1. \E success \in BOOLEAN, r \in Results : Settle(c, success, r, Woken(c))
      BY <1>5 DEF Queried, Results
  <2> QED
      BY <1>1, <1>3, <1>5, <2>1 DEF Queried
<1>6. ASSUME NEW c \in Calls, Enter(c) PROVE Queued' /\ Occupied'
  <2>1. step[c] = "entering" /\ UNCHANGED <<job, bulkVars>>
      BY <1>6 DEF Enter
  <2>2. CASE FailsWith(c, "BrokenCircuit", step)
    <3>1. Moved(c, step, "BrokenCircuit")
        BY <2>2, FailureMoves DEF Shape, Results
    <3> QED
        BY <1>2, <2>1, <3>1 DEF Shape, Results, Active
  <2>3. ASSUME NEW to \in {"running", "called", "waiting"}, step' = [step EXCEPT ![c] = to],
               Target(c) \in Domains => to # "running",
               to = "called" => Target(c) \in Domains
        PROVE  Queued' /\ Occupied'
      BY <2>1, <2>3, LeavesBulkheads DEF Shape, Active, Occupied
  <2>4. CASE \E m : Pass(c, m)
    <3>1. Target(c) # Database => Target(c) \in Domains
        BY DEF Shape, Jobs, Target
    <3> QED
        BY <1>1, <2>3, <2>4, <3>1 DEF Pass, Put
  <2>5. CASE step' = Put(step, c, "waiting")
      BY <2>3, <2>5 DEF Put
  <2> QED
      BY <1>6, <2>2, <2>4, <2>5 DEF Enter
<1>7. ASSUME NEW c \in Calls, Occupy(c) PROVE Queued' /\ Occupied'
    BY <1>7, OccupiesBulkheads
<1>8. ASSUME NEW c \in Calls, Timeout(c) PROVE Queued' /\ Occupied'
    BY <1>8, LeavesBulkheads DEF Timeout, Occupied
<1>9. CASE Tick \/ UNCHANGED vars
    BY <1>9, LeavesBulkheads DEF Tick, vars, callVars, Occupied
<1> QED
    BY <1>4, <1>5, <1>6, <1>7, <1>8, <1>9, StartsBulkheads, VacatesBulkheads DEF Next, Progress

\* A bulkhead counts exactly the calls that run (bulkhead-registry.ts:33-40), and no domain
\* ever has more of them than maxConcurrent, for any number of calls, plans, retries,
\* probes, aborted calls and evicted breakers: none is made anew while it counts any.
THEOREM BulkheadHolds == Spec => []BulkheadBound
<1>1. Occupied => BulkheadBound
  <2> SUFFICES ASSUME Occupied, NEW d \in Domains
               PROVE  /\ active[d] = Cardinality(Running(d))
                      /\ Cardinality(Running(d)) <= MaxConcurrent
      BY DEF BulkheadBound
  <2>1. active[d] = Cardinality(Running(d)) /\ active[d] \in 0 .. MaxConcurrent
      BY DEF Occupied
  <2> QED
      BY <2>1, ResilienceConfig
<1> QED
    BY <1>1, Initially, Invariance, BulkheadsInit, BulkheadsStep, PTL DEF Spec

--------------------------------------------------------------------------
(* The circuits.                                                            *)

\* A circuit opens, and turns a call away, only after as many failures at its own target
\* as the threshold (circuit-breaker-registry.ts:59-89): whatever calls are made, fail,
\* are retried or aborted, and whichever breakers are evicted.
THEOREM OpensByOwnFailures == Spec => []OpenedByOwnFailures
<1>1. IInv => OpenedByOwnFailures
    BY DEF IInv, Counted
<1> QED
    BY <1>1, Initially, Invariance, BulkheadsInit, BulkheadsStep, PTL DEF Spec

--------------------------------------------------------------------------
(* Action properties.                                                      *)

\* An open circuit is closed by nothing but the success of a probe that it let
\* through (circuit-breaker-registry.ts:59-74, database's circuit-breaker.ts:39-55).
THEOREM ProbesClose == Spec => ClosedByProbe
<1>1. IInv /\ Queued /\ [Next]_vars =>
        [\A b \in Breakers :
          breaker[b].state # "closed" /\ breaker'[b].state = "closed" =>
              \E c \in Probing(b) : step[c] = "running" /\ step'[c] = "ended"]_vars
  <2> SUFFICES ASSUME IInv, Queued, Next, NEW b \in Breakers,
                      breaker[b].state # "closed", breaker'[b].state = "closed"
               PROVE  \E c \in Probing(b) : step[c] = "running" /\ step'[c] = "ended"
      OBVIOUS
  <2>1. Shape
      BY DEF IInv
  <2>2. ASSUME NEW c \in Calls, NEW success \in BOOLEAN, NEW r, NEW steps,
               Settle(c, success, r, steps), holds[c] \in Breakers
        PROVE  success /\ holds[c] = b /\ mode[c] = "probe"
    <3>1. breaker' = [breaker EXCEPT ![holds[c]] = After(breaker[holds[c]], mode[c], success)]
        BY <2>2 DEF Settle
    <3>2. holds[c] = b
        BY <2>1, <2>2, <3>1 DEF Shape
    <3>3. breaker'[b] = After(breaker[b], mode[c], success)
        BY <2>1, <3>1, <3>2 DEF Shape
    <3>4. breaker[b] \in States
        BY <2>1 DEF Shape
    <3>5. CASE ~success
      <4>1. breaker'[b].state \in {"open", breaker[b].state}
          BY <3>3, <3>4, <3>5 DEF After, States
      <4> QED
          BY <4>1
    <3>6. CASE success /\ mode[c] # "probe"
      <4>1. breaker'[b].state = breaker[b].state
          BY <3>3, <3>4, <3>6 DEF After, States
      <4> QED
          BY <4>1
    <3> QED
        BY <3>2, <3>5, <3>6
  <2>3. ASSUME NEW c \in Calls, step[c] \in Active PROVE holds[c] \in Breakers
      BY <2>1, <2>3 DEF IInv, Owned, Shape
  <2>4. ASSUME NEW c \in Calls, Cancelled(c) \/ Fetched(c) \/ Queried(c)
        PROVE  \E x \in Probing(b) : step[x] = "running" /\ step'[x] = "ended"
    <3>1. PICK success \in BOOLEAN, r \in Results, steps \in [Calls -> Steps] :
              Settle(c, success, r, steps) /\ (success => step[c] = "running")
        BY <2>1, <2>4, AttemptEnds
    <3>2. step[c] \in Active
        BY <2>1, <2>4, AttemptEnds
    <3>3. success /\ holds[c] = b /\ mode[c] = "probe"
        BY <2>2, <2>3, <3>1, <3>2
    <3>4. step'[c] = "ended"
        BY <3>1, <3>3 DEF Settle, Put
    <3> QED
        BY <3>1, <3>3, <3>4 DEF Probing
  <2>9. ASSUME NEW c \in Calls, Start(c) \/ Occupy(c) \/ Timeout(c) PROVE FALSE
      BY <2>9 DEF Start, Occupy, Timeout
  <2>10. ASSUME NEW c \in Calls, Enter(c) PROVE FALSE
    <3>1. UNCHANGED breaker \/ breaker' = [breaker EXCEPT ![holds[c]].state = "halfOpen"]
        BY <2>10 DEF Enter
    <3> QED
        BY <2>1, <3>1 DEF Shape, States
  <2>11. CASE Tick
    <3>1. breaker'[b] = IF breaker[b].state = "open"
              THEN [breaker[b] EXCEPT !.openFor = Least(HalfOpenAfter, breaker[b].openFor + 1)]
              ELSE breaker[b]
        BY <2>11 DEF Tick
    <3>2. breaker[b] \in States
        BY <2>1 DEF Shape
    <3> QED
        BY <3>1, <3>2 DEF States
  <2> QED
      BY <2>4, <2>9, <2>10, <2>11 DEF Next, Progress
<1> QED
    BY <1>1, Initially, Invariance, BulkheadsInit, BulkheadsStep, PTL DEF Spec, ClosedByProbe

\* Once executeWithFallback has had an answer of a domain, no caller of it goes without
\* one (fallback-handler.ts:30-75), whatever the policies make of the call.
THEOREM FallbackAnswers == Spec => FallbackServes
<1>1. IInv /\ Queued /\ [Next]_vars =>
        [\A c \in Calls :
          /\ job[c].does = "executeWithFallback" /\ Target(c) \in cached
          /\ step[c] # "ended" /\ step'[c] = "ended"
          => result'[c] \in {"ok", "stale"}]_vars
  <2> SUFFICES ASSUME IInv, Queued, Next, NEW c \in Calls,
                      job[c].does = "executeWithFallback", Target(c) \in cached,
                      step[c] # "ended", step'[c] = "ended"
               PROVE  result'[c] \in {"ok", "stale"}
      OBVIOUS
  <2>1. Shape
      BY DEF IInv
  <2>2. \A r \in Results : Answer(c, r) \in {"ok", "stale"}
      BY DEF Answer
  <2>3. ASSUME NEW x \in Calls, NEW r \in Results, NEW steps \in [Calls -> Steps],
               steps[c] # "ended", Moved(x, steps, r)
        PROVE  result'[c] \in {"ok", "stale"}
      BY <2>2, <2>3 DEF Moved
  <2>4. ASSUME NEW x \in Calls, Cancelled(x) \/ Fetched(x) \/ Queried(x)
        PROVE  result'[c] \in {"ok", "stale"}
    <3>1. PICK success \in BOOLEAN, r \in Results, steps \in [Calls -> Steps] :
              Follows(steps) /\ Settle(x, success, r, steps)
        BY <2>1, <2>4, AttemptEnds
    <3>2. Moved(x, steps, r) /\ steps[c] # "ended"
        BY <2>1, <3>1, SettleMoves DEF Follows
    <3> QED
        BY <2>3, <3>2
  <2>5. ASSUME NEW x \in Calls, Start(x) PROVE FALSE
    <3>1. CASE job[x].does = "resilientFetch" /\ step' = Put(step, x, "ended")
        BY <2>1, <3>1 DEF Put, Shape
    <3>2. CASE step' = Put(step, x, "entering")
        BY <2>1, <3>2 DEF Put, Shape
    <3> QED
        BY <2>5, <3>1, <3>2 DEF Start
  <2>6. ASSUME NEW x \in Calls, Enter(x) PROVE result'[c] \in {"ok", "stale"}
    <3>1. CASE \E m \in {"closed", "probe"} : Pass(x, m)
        BY <2>1, <3>1 DEF Pass, Put, Shape
    <3>2. CASE FailsWith(x, "BrokenCircuit", step)
      <4>1. Moved(x, step, "BrokenCircuit")
          BY <2>1, <3>2, FailureMoves DEF Shape, Results
      <4> QED
          BY <2>1, <2>3, <4>1 DEF Shape, Results
    <3>3. CASE step' = Put(step, x, "waiting")
        BY <2>1, <3>3 DEF Put, Shape
    <3> QED
        BY <2>6, <3>1, <3>2, <3>3 DEF Enter
  <2>7. ASSUME NEW x \in Calls, Occupy(x) \/ Timeout(x) PROVE FALSE
    <3>1. CASE \E s \in {"running", "queued"} : step' = [step EXCEPT ![x] = s]
        BY <2>1, <3>1 DEF Shape
    <3> QED
        BY <2>7, <3>1 DEF Occupy, Timeout, Put
  <2>9. CASE Tick
      BY <2>9 DEF Tick, callVars
  <2> QED
      BY <2>4, <2>5, <2>6, <2>7, <2>9 DEF Next, Progress
<1> QED
    BY <1>1, Initially, Invariance, BulkheadsInit, BulkheadsStep, PTL DEF Spec, FallbackServes

--------------------------------------------------------------------------
(* The rate limiter.                                                        *)

\* Besides the exactness itself, that no bucket holds more than it can.
Buckets ==
    /\ tokens \in [Domains -> 0 .. Full] /\ elapsed \in [Domains -> Nat]
    /\ steady \in [Domains -> 0 .. Full]
    /\ LazyRefillExact

LEMMA FullIsNat == Full \in Nat /\ TokenTicks \in Nat
BY BucketConfig DEF Full

\* Refilling a bucket when it is looked at, with what the time since the last look brings
\* and a cap, comes to the same as refilling it all the time (token-bucket.ts:47-79).
THEOREM RefillExact == Spec => []LazyRefillExact
<1>1. Init => Buckets
    BY FullIsNat DEF Init, BucketInit, Buckets, LazyRefillExact, Refilled, Least
<1>2. Buckets /\ [Next]_vars => Buckets'
  <2> SUFFICES ASSUME Buckets, [Next]_vars PROVE Buckets'
      OBVIOUS
  <2>1. ASSUME NEW x, NEW allowed \in BOOLEAN, TryAcquire(x, allowed) PROVE Buckets'
    <3> DEFINE cost == IF allowed THEN TokenTicks ELSE 0
    <3>1. /\ tokens' = [tokens EXCEPT ![x] = Refilled(x) - cost]
          /\ elapsed' = [elapsed EXCEPT ![x] = 0]
          /\ steady' = [steady EXCEPT ![x] = steady[x] - cost]
        BY <2>1 DEF TryAcquire
    <3>2. \A d \in Domains : Refilled(d) \in 0 .. Full /\ steady[d] = Refilled(d)
        BY FullIsNat DEF Buckets, LazyRefillExact, Refilled, Least
    <3>3. cost \in Nat /\ (x \in Domains => cost <= Refilled(x))
      <4>1. CASE allowed
          BY <2>1, <4>1, FullIsNat DEF TryAcquire
      <4>2. CASE ~allowed
          BY <3>2, <4>2, FullIsNat
      <4> QED
          BY <4>1, <4>2
    <3> HIDE DEF cost
    <3>4. /\ tokens' \in [Domains -> 0 .. Full] /\ elapsed' \in [Domains -> Nat]
          /\ steady' \in [Domains -> 0 .. Full]
      <4>1. x \in Domains => Refilled(x) - cost \in 0 .. Full /\ steady[x] - cost \in 0 .. Full
          BY <3>2, <3>3, FullIsNat
      <4>2. /\ tokens \in [Domains -> 0 .. Full] /\ elapsed \in [Domains -> Nat]
            /\ steady \in [Domains -> 0 .. Full]
          BY DEF Buckets
      <4>3. tokens' \in [Domains -> 0 .. Full]
          BY <3>1, <4>1, <4>2, Zenon
      <4>4. elapsed' \in [Domains -> Nat]
          BY <3>1, <4>2
      <4>5. steady' \in [Domains -> 0 .. Full]
          BY <3>1, <4>1, <4>2, Zenon
      <4> QED
          BY <4>3, <4>4, <4>5
    <3>5. ASSUME NEW d \in Domains PROVE Least(Full, tokens'[d] + elapsed'[d]) = steady'[d]
      <4>1. CASE d = x
          BY <3>1, <3>2, <3>3, <4>1, FullIsNat DEF Buckets, Least
      <4>2. CASE d # x
          BY <3>1, <3>2, <4>2 DEF Buckets, Refilled
      <4> QED
          BY <4>1, <4>2
    <3> QED
        BY <3>4, <3>5 DEF Buckets, LazyRefillExact, Refilled
  <2>2. CASE BucketTick
      BY <2>2, FullIsNat DEF BucketTick, Buckets, LazyRefillExact, Refilled, Least
  <2>3. CASE UNCHANGED bucketVars
      BY <2>3 DEF bucketVars, Buckets, LazyRefillExact, Refilled
  <2>4. ASSUME NEW c \in Calls, Start(c) PROVE Buckets'
      BY <2>1, <2>3, <2>4 DEF Start
  <2>5. ASSUME NEW c \in Calls, Progress(c) PROVE UNCHANGED bucketVars
      BY <2>5 DEF Progress, Enter, Occupy, Cancelled, Fetched, Queried, Settle
  <2> QED
      BY <2>2, <2>3, <2>4, <2>5 DEF Next, Tick, Timeout, vars
<1>3. Buckets => LazyRefillExact
    BY DEF Buckets
<1> QED
    BY <1>1, <1>2, <1>3, PTL DEF Spec


--------------------------------------------------------------------------
(* Types.                                                                   *)

\* The types that Shape leaves out.
Typed ==
    /\ job \in Plans
    /\ test \in [Calls -> Calls \cup {None}]
    /\ retries \in [Calls -> 0 .. MaxAttempts]
    /\ aborted \in [Calls -> BOOLEAN]
    /\ \A b \in Breakers : breaker[b].openFor <= HalfOpenAfter
    /\ registry \in Seq(Domains) /\ Len(registry) <= MaxDomains
    /\ cached \subseteq Domains
    /\ row \in {"absent", "pending", "fetched"}

\* The registry's order lists every domain it has a breaker for.
Listed == \A d \in Domains : entry[d] # None => d \in ToSet(registry)

\* Taking out one entry of a sequence that has it.
LEMMA RemoveOne ==
    ASSUME NEW S, NEW s \in Seq(S), NEW i \in 1 .. Len(s)
    PROVE  RemoveAt(s, i) \in Seq(S) /\ Len(RemoveAt(s, i)) = Len(s) - 1
<1> DEFINE before == SubSeq(s, 1, i - 1)
           after == SubSeq(s, i + 1, Len(s))
<1>1. /\ before \in Seq(S) /\ Len(before) = i - 1
      /\ after \in Seq(S) /\ Len(after) = Len(s) - i
      /\ Len(s) \in Nat /\ i \in Nat
    OBVIOUS
<1>2. RemoveAt(s, i) = before \o after
    BY Zenon DEF RemoveAt
<1> HIDE DEF before, after
<1>3. \A u, v \in Seq(S) : u \o v \in Seq(S) /\ Len(u \o v) = Len(u) + Len(v)
    OBVIOUS
<1>4. before \o after \in Seq(S) /\ Len(before \o after) = Len(before) + Len(after)
    BY <1>1, <1>3, Zenon
<1>5. Len(before) + Len(after) = Len(s) - 1
    BY <1>1
<1> QED
    BY <1>2, <1>4, <1>5, Zenon

\* The registry never has more breakers than it may, and lists what it has.
LEMMA RegistryBound ==
    ASSUME Shape, Typed, Listed, NEW c \in Calls, Target(c) \in Domains, GetBreaker(c)
    PROVE  registry' \in Seq(Domains) /\ Len(registry') <= MaxDomains /\ Listed'
<1> DEFINE d == Target(c)
           known == entry[d] # None
           place == CHOOSE i \in 1 .. Len(registry) : registry[i] = d
           kept == IF known THEN RemoveAt(registry, place)
                   ELSE IF Len(registry) >= MaxDomains THEN Tail(registry) ELSE registry
<1>1. registry \in Seq(Domains) /\ Len(registry) \in Nat /\ MaxDomains \in Nat \ {0}
    BY ResilienceConfig DEF Typed
<1>2. kept \in Seq(Domains) /\ Len(kept) < MaxDomains
  <2>1. CASE known
    <3>1. \E i \in 1 .. Len(registry) : registry[i] = d
        BY <1>1, <2>1 DEF Listed, ToSet
    <3>2. place \in 1 .. Len(registry)
        BY <3>1
    <3> HIDE DEF place
    <3>3. RemoveAt(registry, place) \in Seq(Domains) /\ Len(RemoveAt(registry, place)) = Len(registry) - 1
        BY <1>1, <3>2, RemoveOne
    <3> QED
        BY <1>1, <2>1, <3>3 DEF Typed
  <2>2. CASE ~known /\ Len(registry) >= MaxDomains
      BY <1>1, <2>2 DEF Typed
  <2>3. CASE ~known /\ Len(registry) < MaxDomains
      BY <1>1, <2>3
  <2> QED
      BY <1>1, <2>1, <2>2, <2>3
<1>3. /\ registry' = Append(kept, d)
      /\ \A x \in Domains : x # d /\ entry'[x] # None => x \in ToSet(kept)
    BY Zenon DEF GetBreaker
<1> HIDE DEF kept, known
<1>4. /\ registry' \in Seq(Domains) /\ Len(registry') = Len(kept) + 1
      /\ registry'[Len(kept) + 1] = d /\ \A i \in 1 .. Len(kept) : registry'[i] = kept[i]
    BY <1>2, <1>3
<1>5. Len(registry') <= MaxDomains
    BY <1>1, <1>2, <1>4
<1>6. d \in ToSet(registry') /\ \A x \in ToSet(kept) : x \in ToSet(registry')
    BY <1>2, <1>4 DEF ToSet
<1> QED
    BY <1>3, <1>4, <1>5, <1>6 DEF Listed

LEMMA EndsTyped ==
    ASSUME Shape, Typed, NEW c \in Calls, NEW r, Ends(c, r)
    PROVE  /\ retries' \in [Calls -> 0 .. MaxAttempts] /\ aborted' \in [Calls -> BOOLEAN]
           /\ cached' \subseteq Domains
<1>1. MaxAttempts \in Nat
    BY ResilienceConfig
<1>2. retries' \in [Calls -> 0 .. MaxAttempts] /\ aborted' \in [Calls -> BOOLEAN]
    BY <1>1 DEF Ends, Put, Typed
<1>3. job[c].does = "executeWithFallback" => Target(c) \in Domains
    BY DEF Shape, Jobs, Queries, Target
<1>4. cached' \subseteq Domains
    BY <1>3 DEF Ends, Typed
<1> QED
    BY <1>2, <1>4

LEMMA FailureTyped ==
    ASSUME Shape, Typed, NEW c \in Calls, NEW r, NEW steps, FailsWith(c, r, steps)
    PROVE  /\ retries' \in [Calls -> 0 .. MaxAttempts] /\ aborted' \in [Calls -> BOOLEAN]
           /\ cached' \subseteq Domains
<1>1. MaxAttempts \in Nat
    BY ResilienceConfig
<1>2. CASE Retried(c)
  <2>1. retries[c] + 1 \in 0 .. MaxAttempts
      BY <1>1, <1>2 DEF Retried, Typed
  <2> QED
      BY <1>2, <2>1 DEF FailsWith, Put, Typed
<1>3. CASE ~Retried(c)
    BY <1>3, EndsTyped DEF FailsWith
<1> QED
    BY <1>2, <1>3

LEMMA BreakerTyped ==
    ASSUME NEW r \in States, r.openFor <= HalfOpenAfter, NEW m, NEW success
    PROVE  After(r, m, success).openFor <= HalfOpenAfter
BY ResilienceConfig DEF States, After

\* The end of an attempt keeps the types.
LEMMA SettlesTyped ==
    ASSUME IInv, Typed, Listed, NEW c \in Calls, step[c] \in Active, NEW success \in BOOLEAN,
           NEW r \in Results, NEW steps, Settle(c, success, r, steps),
           row' \in {"absent", "pending", "fetched"}
    PROVE  Typed' /\ Listed'
<1>1. Shape /\ holds[c] \in Breakers
    BY DEF IInv, Owned, Shape
<1>2. /\ retries' \in [Calls -> 0 .. MaxAttempts] /\ aborted' \in [Calls -> BOOLEAN]
      /\ cached' \subseteq Domains
  <2>1. CASE success
      BY <1>1, <2>1, EndsTyped DEF Settle
  <2>2. CASE ~success
      BY <1>1, <2>2, FailureTyped DEF Settle
  <2> QED
      BY <2>1, <2>2
<1>3. \A b \in Breakers : breaker'[b].openFor <= HalfOpenAfter
  <2>1. breaker' = [breaker EXCEPT ![holds[c]] = After(breaker[holds[c]], mode[c], success)]
      BY DEF Settle
  <2>2. After(breaker[holds[c]], mode[c], success).openFor <= HalfOpenAfter
      BY <1>1, BreakerTyped DEF Shape, Typed
  <2> QED
      BY <1>1, <2>1, <2>2 DEF Shape, Typed
<1>4. test' \in [Calls -> Calls \cup {None}] /\ UNCHANGED <<job, entry, registry>>
    BY DEF Settle, Typed
<1> QED
    BY <1>2, <1>3, <1>4 DEF Typed, Listed

LEMMA EntersTyped ==
    ASSUME IInv, Typed, Listed, NEW c \in Calls, Enter(c)
    PROVE  Typed' /\ Listed'
<1> DEFINE b == holds[c]
<1>1. Shape /\ b \in Breakers /\ step[c] = "entering"
    BY DEF IInv, Owned, Shape, Active, Enter
<1>2. UNCHANGED <<job, entry, registry, row>> /\ Listed'
    BY DEF Enter, Listed
<1>3. ASSUME NEW m, Pass(c, m) PROVE UNCHANGED <<retries, aborted, cached>>
    BY <1>3 DEF Pass
<1>4. CASE Pass(c, "closed") /\ UNCHANGED <<test, breaker>>
    BY <1>2, <1>3, <1>4 DEF Typed
<1>5. CASE /\ Pass(c, "probe") /\ UNCHANGED test
           /\ breaker' = [breaker EXCEPT ![b].state = "halfOpen"]
  <2>1. \A a \in Breakers : breaker'[a].openFor = breaker[a].openFor
      BY <1>1, <1>5 DEF Shape, States
  <2> QED
      BY <1>2, <1>3, <1>5, <2>1 DEF Typed
<1>6. CASE FailsWith(c, "BrokenCircuit", step) /\ UNCHANGED <<test, breaker>>
    BY <1>1, <1>2, <1>6, FailureTyped DEF Typed
<1>7. CASE /\ \E p \in Probing(b) : test' = Put(test, c, p)
           /\ UNCHANGED <<retries, aborted, cached, breaker>>
  <2>1. test' \in [Calls -> Calls \cup {None}]
      BY <1>7 DEF Probing, Put, Typed
  <2> QED
      BY <1>2, <1>7, <2>1 DEF Typed
<1> QED
    BY <1>4, <1>5, <1>6, <1>7 DEF Enter

LEMMA TypesStep ==
    ASSUME IInv, Queued, Typed, Listed, [Next]_vars
    PROVE  Typed' /\ Listed'
<1>1. Shape
    BY DEF IInv
<1>2. ASSUME NEW c \in Calls, Start(c) PROVE Typed' /\ Listed'
  <2>1. UNCHANGED <<job, test, retries, aborted, breaker, cached, row>>
      BY <1>2 DEF Start
  <2>2. registry' \in Seq(Domains) /\ Len(registry') <= MaxDomains /\ Listed'
    <3>1. CASE UNCHANGED <<entry, registry>>
        BY <3>1 DEF Typed, Listed
    <3>2. CASE GetBreaker(c) /\ Target(c) # Database
      <4>1. Target(c) \in Domains
          BY <1>1, <3>2 DEF Shape, Jobs, Target
      <4> QED
          BY <1>1, <3>2, <4>1, RegistryBound
    <3> QED
        BY <1>2, <3>1, <3>2 DEF Start, GetPolicy
  <2> QED
      BY <2>1, <2>2 DEF Typed
<1>3. ASSUME NEW c \in Calls, Cancelled(c) \/ Fetched(c) \/ Queried(c) PROVE Typed' /\ Listed'
  <2>1. row' \in {"absent", "pending", "fetched"}
      BY <1>3 DEF Cancelled, Fetched, Queried, Written, Typed
  <2> QED
      BY <1>1, <1>3, <2>1, AttemptEnds, SettlesTyped
<1>4. ASSUME NEW c \in Calls, Occupy(c) PROVE Typed' /\ Listed'
    BY <1>4 DEF Occupy, Typed, Listed
<1>5. ASSUME NEW c \in Calls, Timeout(c) PROVE Typed' /\ Listed'
    BY <1>5 DEF Timeout, Put, Typed, Listed
<1>6. CASE Tick
  <2>1. UNCHANGED <<job, test, retries, aborted, entry, registry, cached, row>>
      BY <1>6 DEF Tick, callVars
  <2>2. ASSUME NEW b \in Breakers PROVE breaker'[b].openFor <= HalfOpenAfter
    <3>1. /\ breaker[b] \in States /\ breaker[b].openFor <= HalfOpenAfter
          /\ breaker'[b] = IF breaker[b].state = "open"
               THEN [breaker[b] EXCEPT !.openFor = Least(HalfOpenAfter, breaker[b].openFor + 1)]
               ELSE breaker[b]
        BY <1>1, <1>6 DEF Tick, Shape, Typed
    <3>2. Least(HalfOpenAfter, breaker[b].openFor + 1) <= HalfOpenAfter
        BY <3>1, Facts DEF Least, States
    <3> QED
        BY <3>1, <3>2 DEF States
  <2> QED
      BY <2>1, <2>2 DEF Typed, Listed
<1>7. CASE UNCHANGED vars
    BY <1>7 DEF vars, callVars, Typed, Listed
<1> QED
    BY <1>2, <1>3, <1>4, <1>5, <1>6, <1>7, EntersTyped DEF Next, Progress

LEMMA TypesInit == Init => Typed /\ Listed
<1> SUFFICES ASSUME Init PROVE Typed /\ Listed
    OBVIOUS
<1>1. \A b \in Breakers : breaker[b].openFor = 0
    BY DEF Init, NewBreaker
<1>2. registry \in Seq(Domains) /\ Len(registry) = 0
    BY DEF Init
<1>3. Typed
    BY <1>1, <1>2, ResilienceConfig DEF Init, Typed
<1> QED
    BY <1>3 DEF Init, Listed

\* Every variable keeps its type: in particular the registry never has more than
\* circuitBreakerMaxDomains breakers (circuit-breaker-registry.ts:44-57), no call retries
\* more than retryMaxAttempts times, and a queue has calls in it only.
THEOREM TypeCorrect == Spec => []TypeOK
<1>1. IInv /\ Queued /\ Occupied /\ Typed => TypeOK
  <2> SUFFICES ASSUME IInv, Queued, Occupied, Typed PROVE TypeOK
      OBVIOUS
  <2>1. Shape
      BY DEF IInv
  <2>2. ASSUME NEW b \in Breakers
        PROVE  breaker[b] \in [of : Targets, state : {"closed", "open", "halfOpen"},
                               failures : 0 .. Threshold, openFor : 0 .. HalfOpenAfter]
    <3>1. breaker[b] \in States /\ breaker[b].openFor <= HalfOpenAfter
        BY <2>1 DEF Shape, Typed
    <3>2. breaker[b].failures <= failed[breaker[b].of] /\ failed[breaker[b].of] \in 0 .. Threshold
        BY <2>1, <3>1 DEF IInv, Counted, Shape, States
    <3>3. breaker[b].failures \in 0 .. Threshold /\ breaker[b].openFor \in 0 .. HalfOpenAfter
        BY <3>1, <3>2, Facts DEF States
    <3> QED
        BY <3>1, <3>3 DEF States
  <2>3. breaker \in [Breakers -> [of : Targets, state : {"closed", "open", "halfOpen"},
                               failures : 0 .. Threshold, openFor : 0 .. HalfOpenAfter]]
      BY <2>1, <2>2 DEF Shape
  <2> QED
      BY <2>1, <2>3 DEF TypeOK, Typed, Shape, Steps, Queued, Occupied
<1> QED
    BY <1>1, Initially, Invariance, BulkheadsInit, BulkheadsStep, TypesInit, TypesStep, PTL DEF Spec

--------------------------------------------------------------------------
(* The repository.                                                          *)

Saved(c, results) == job[c].does = "save" /\ result[c] \in results

\* A save that was told of the row finds it there, and one at most inserted it.
Inserted ==
    /\ row \in {"absent", "pending", "fetched"}
    /\ \A c \in Calls : Saved(c, {"ok", "DuplicateKey"}) => row # "absent"
    /\ \A c, d \in Calls : Saved(c, {"ok"}) /\ Saved(d, {"ok"}) => c = d

\* What a step other than the end of a query does to the answers of saves.
LEMMA NoQueryInserts ==
    ASSUME Inserted, UNCHANGED job, row' # "absent" \/ row' = row,
           row' \in {"absent", "pending", "fetched"},
           \A c \in Calls : job[c].does = "save" /\ result'[c] \in {"ok", "DuplicateKey"}
                            => result'[c] = result[c]
    PROVE  Inserted'
BY DEF Inserted, Saved

LEMMA InsertedStep ==
    ASSUME IInv, Queued, Inserted, [Next]_vars
    PROVE  Inserted'
<1>1. Shape
    BY DEF IInv
<1>2. ASSUME NEW c \in Calls, NEW success \in BOOLEAN, NEW r \in Results,
             NEW steps \in [Calls -> Steps], Settle(c, success, r, steps)
      PROVE  /\ UNCHANGED job
             /\ \A x \in Calls : x # c => result'[x] = result[x]
             /\ job[c].does = "save" => result'[c] \in {result[c], r}
             /\ result'[c] \in {result[c], r, "stale"}
  <2>2. Moved(c, steps, r)
      BY <1>1, <1>2, SettleMoves
  <2>3. job[c].does = "save" => Answer(c, r) = r
      BY DEF Answer
  <2> QED
      BY <1>2, <2>2, <2>3, AnswerFacts DEF Moved, Settle
<1>3. ASSUME NEW c \in Calls, Queried(c) PROVE Inserted'
  <2> Woken(c) \in [Calls -> Steps]
      BY <1>1, WokenFollows DEF Follows
  <2>1. CASE Duplicate(c) /\ Settle(c, FALSE, "DuplicateKey", Woken(c)) /\ UNCHANGED row
    <3>1. row # "absent" /\ job[c].does = "save"
        BY <2>1 DEF Duplicate
    <3>2. \A x \in Calls : job[x].does = "save" /\ result'[x] = "ok" => result[x] = "ok"
        BY <1>2, <2>1, <3>1 DEF Results
    <3> QED
        BY <1>2, <2>1, <3>1, <3>2 DEF Inserted, Saved, Results
  <2>2. CASE ~Duplicate(c) /\ Settle(c, TRUE, "ok", Woken(c)) /\ row' = Written(c)
    <3>1. UNCHANGED job /\ \A x \in Calls : x # c => result'[x] = result[x]
        BY <1>2, <2>2 DEF Results
    <3>2. row' \in {"absent", "pending", "fetched"} /\ (row # "absent" => row' # "absent")
        BY <2>2 DEF Written, Inserted
    <3>3. CASE job[c].does = "save"
      <4>1. row = "absent" /\ row' # "absent"
          BY <2>2, <3>3 DEF Duplicate, Written
      <4>2. \A x \in Calls : x # c => ~Saved(x, {"ok", "DuplicateKey"})'
          BY <3>1, <4>1 DEF Inserted, Saved
      <4>3. \A x \in Calls : Saved(x, {"ok"})' => x = c
          BY <4>2 DEF Saved
      <4> QED
          BY <3>2, <4>1, <4>3 DEF Inserted
    <3>4. CASE job[c].does # "save"
        BY <3>1, <3>2, <3>4, NoQueryInserts
    <3> QED
        BY <3>3, <3>4
  <2>3. CASE Settle(c, FALSE, "QueryFailed", Woken(c)) /\ row' \in {row, Written(c)}
    <3>1. row' \in {"absent", "pending", "fetched"} /\ (row # "absent" => row' # "absent")
        BY <2>3 DEF Written, Inserted
    <3>2. \A x \in Calls : job[x].does = "save" /\ result'[x] \in {"ok", "DuplicateKey"}
                           => result'[x] = result[x]
        BY <1>2, <2>3 DEF Results
    <3> QED
        BY <1>2, <2>3, <3>1, <3>2, NoQueryInserts DEF Results, Inserted
  <2> QED
      BY <1>3, <2>1, <2>2, <2>3 DEF Queried
<1>4. ASSUME NEW c \in Calls, Cancelled(c) PROVE Inserted'
  <2>1. Settle(c, FALSE, "cancelled", Woken(c)) /\ UNCHANGED row /\ "cancelled" \in Results
      BY <1>4 DEF Cancelled, Results
  <2>2. Woken(c) \in [Calls -> Steps]
      BY <1>1, WokenFollows DEF Follows
  <2> QED
      BY <1>2, <2>1, <2>2, NoQueryInserts DEF Inserted
<1>5. ASSUME NEW c \in Calls, Fetched(c) PROVE Inserted'
  <2>1. UNCHANGED row /\ job[c].does # "save"
      BY <1>1, <1>5 DEF Fetched, Shape, Jobs, Target
  <2>2. \E success \in BOOLEAN, r \in Results, steps \in [Calls -> Steps] : Settle(c, success, r, steps)
      BY <1>1, <1>5, AttemptEnds
  <2> QED
      BY <1>2, <2>1, <2>2, NoQueryInserts DEF Inserted
<1>6. ASSUME NEW c \in Calls, Enter(c) PROVE Inserted'
  <2>1. UNCHANGED <<job, row>>
      BY <1>6 DEF Enter
  <2>2. CASE UNCHANGED result
      BY <2>1, <2>2, NoQueryInserts DEF Inserted
  <2>3. CASE FailsWith(c, "BrokenCircuit", step)
    <3>1. Moved(c, step, "BrokenCircuit")
        BY <1>1, <2>3, FailureMoves DEF Shape, Results
    <3>2. \A x \in Calls : result'[x] \in {"ok", "DuplicateKey"} => result'[x] = result[x]
        BY <3>1, AnswerFacts DEF Moved, Results
    <3> QED
        BY <2>1, <3>2, NoQueryInserts DEF Inserted
  <2> QED
      BY <1>6, <2>2, <2>3 DEF Enter, Pass
<1>7. ASSUME NEW c \in Calls, Start(c) PROVE Inserted'
  <2>1. UNCHANGED <<job, row>>
      BY <1>7 DEF Start
  <2>2. \A x \in Calls : result'[x] \in {"ok", "DuplicateKey"} => result'[x] = result[x]
      BY <1>1, <1>7 DEF Start, Put, Shape
  <2> QED
      BY <2>1, <2>2, NoQueryInserts DEF Inserted
<1>8. ASSUME NEW c \in Calls, Occupy(c) \/ Timeout(c) PROVE Inserted'
    BY <1>8 DEF Occupy, Timeout, Inserted, Saved
<1>9. CASE Tick \/ UNCHANGED vars
    BY <1>9 DEF Tick, vars, callVars, Inserted, Saved
<1> QED
    BY <1>3, <1>4, <1>5, <1>6, <1>7, <1>8, <1>9 DEF Next, Progress

\* After a save that was told that it inserted the row or that the row was there
\* (drizzle-crawl-url-repository.ts behind circuit-breaker.ts) it is, and two saves of one
\* URL are never both told that they inserted it, whatever answers are lost and whenever
\* the circuit opens.
THEOREM SavesAgreed == Spec => []SavesAgree
<1>1. Init => Inserted
    BY DEF Init, Inserted, Saved
<1>2. Inserted => SavesAgree
  <2> DEFINE Saves(r) == {c \in Calls : job[c].does = "save" /\ result[c] \in r}
  <2> SUFFICES ASSUME Inserted
               PROVE  /\ Saves({"ok", "DuplicateKey"}) # {} => row # "absent"
                      /\ Cardinality(Saves({"ok"})) <= 1
      BY DEF SavesAgree
  <2>1. Saves({"ok", "DuplicateKey"}) # {} => row # "absent"
      BY DEF Inserted, Saved
  <2>2. Saves({"ok"}) = {} \/ \E c \in Calls : Saves({"ok"}) = {c}
      BY DEF Inserted, Saved
  <2> HIDE DEF Saves
  <2>3. Cardinality({}) = 0 /\ \A c : Cardinality({c}) = 1
      BY FS_EmptySet, FS_Singleton
  <2>4. Cardinality(Saves({"ok"})) \in {0, 1}
      BY <2>2, <2>3
  <2> QED
      BY <2>1, <2>4
<1> QED
    BY <1>1, <1>2, Initially, Invariance, BulkheadsInit, BulkheadsStep, InsertedStep, PTL DEF Spec
=============================================================================
