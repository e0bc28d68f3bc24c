---------------------------- MODULE CrawlProofs -----------------------------
(***************************************************************************)
(* Proofs about CrawlSystem for every site, every set of workers and every   *)
(* bound: its states are well typed, no link is lost, and it keeps the       *)
(* promise of the module Crawl.                                            *)
(***************************************************************************)
EXTENDS CrawlSystem, FiniteSetTheorems, TLAPS

Busy == {"fetching", "enqueuing", "resolved", "rejected"}

\* A job that may still run has attempts and stalls left.
CountsLeft ==
    \A u \in Urls : place[u] \notin DonePlaces =>
        attempts[u] < MaxAttempts /\ stalls[u] <= MaxStalls

\* A poll loop that is not settled has no verdict, and room for one more failure
\* and one more empty poll.
PollOpen ==
    poll # "settled" =>
        verdict = "none" /\ failures < MaxConsecutiveFailures /\ emptyPollCount <= 1

\* A worker has a job while it is busy, and an active job a lock.
JobsAndLocks ==
    /\ \A w \in Workers : stage[w] \in Busy <=> job[w] # NoJob
    /\ \A u \in Urls : place[u] = "active" => lock[u] \in Workers

\* Until the crawl is disturbed, a busy worker holds the lock of its job, and
\* the seeds are known as soon as anything is.
CalmWorkers ==
    calm => /\ ~Cancelled
            /\ ~paused
            /\ \A w \in Workers : job[w] # NoJob => Holds(w, job[w])
            /\ Known = {} \/ Seeds \subseteq Known

\* The counts say that the crawl is complete, or have said so.
SaysComplete ==
    \/ verdict = "completed"
    \/ poll = "answered" /\ ~answer.pending /\ answer.done

\* Then, until the crawl is disturbed, it is complete.
CalmVerdict ==
    calm /\ SaysComplete => Outstanding = {} /\ Known # {}

IInv ==
    /\ TypeOK
    /\ CountsLeft
    /\ PollOpen
    /\ JobsAndLocks
    /\ NoLinkLost
    /\ CalmWorkers
    /\ CalmVerdict

--------------------------------------------------------------------------
(* Facts about data.                                                       *)

\* A power of two is a number: the size of a set of subsets.
LEMMA PowerOfTwo == ASSUME NEW n \in Nat PROVE 2 ^ n \in Nat
<1> DEFINE S == 1 .. n
<1>1. IsFiniteSet(S) /\ Cardinality(S) = n
  BY FS_Interval
<1>2. IsFiniteSet(SUBSET S) /\ Cardinality(SUBSET S) = 2 ^ Cardinality(S)
  BY <1>1, FS_SUBSET
<1> QED
  BY <1>1, <1>2, FS_CardinalityType

\* A known job is either outstanding or done.
LEMMA KnownSplit == ASSUME QueueTypeOK PROVE Known = Outstanding \cup Done
BY DEF QueueTypeOK, Known, Outstanding, Done, PendingPlaces, DonePlaces

\* What discoverLinks returns are URLs.
LEMMA LinksAreUrls == Links \in [Urls -> SUBSET Urls]
<1>1. ASSUME NEW u \in Urls, NEW href \in Hrefs[u]
      PROVE  Absolute[Base(u), href] \in Urls \cup {NoUrl}
  <2>1. Base(u) \in Urls
    BY SiteAssumption DEF Base
  <2> QED
    BY <2>1, SiteAssumption
<1>2. ASSUME NEW u \in Urls
      PROVE  {Absolute[Base(u), href] : href \in Hrefs[u]} \ {NoUrl} \in SUBSET Urls
  BY <1>1
<1> QED
  BY <1>2 DEF Links

\* addBulk adds the unknown URLs as pending jobs and leaves the others alone.
LEMMA EnqueueEffect ==
    ASSUME QueueTypeOK, NEW urls \in SUBSET Urls, NEW d \in Nat, Enqueue(urls, d)
    PROVE  /\ QueueTypeOK'
           /\ Known' = Known \cup urls
           /\ Done' = Done
           /\ \A u \in Known : place'[u] = place[u]
           /\ \A u \in Urls \ Known : place'[u] \in {"absent", "waiting", "prioritized"}
           /\ UNCHANGED <<attempts, stalls, lock, paused>>
BY DEF QueueTypeOK, Enqueue, AddBulk, queueVars, Known, Done, DonePlaces, PendingPlaces, ListFor

\* A pop takes one job that was not active, and may promote delayed ones.
LEMMA TakeEffect ==
    ASSUME QueueTypeOK, NEW w \in Workers,
           NEW places \in [Urls -> PendingPlaces \cup DonePlaces \cup {"absent"}],
           NEW locks \in [Urls -> Workers \cup {NoWorker}],
           TakeFrom(w, places, locks)
    PROVE  \E u \in Urls :
              /\ places[u] \in {"waiting", "prioritized", "delayed"}
              /\ place' \in [Urls -> PendingPlaces \cup DonePlaces \cup {"absent"}]
              /\ place'[u] = "active"
              /\ \A v \in Urls \ {u} :
                    \/ place'[v] = places[v]
                    \/ places[v] = "delayed" /\ place'[v] \in {"waiting", "prioritized"}
              /\ lock' = [locks EXCEPT ![u] = w]
              /\ job' = [job EXCEPT ![w] = u]
              /\ payloadDepth' = [payloadDepth EXCEPT ![w] = depth[u]]
              /\ stage' \in {[stage EXCEPT ![w] = s] : s \in {"fetching", "resolved"}}
              /\ result' \in {result, [result EXCEPT ![u] = "pipelineError"]}
<1>1. PICK due \in SUBSET {v \in Urls : places[v] = "delayed"} :
         \E u \in Poppable(Promoted(places, due)) : Begin(w, u, Promoted(places, due), locks)
  BY DEF TakeFrom
<1> DEFINE promoted == Promoted(places, due)
<1>2. PICK u \in Poppable(promoted) : Begin(w, u, promoted, locks)
  BY <1>1
<1>3. /\ promoted \in [Urls -> PendingPlaces \cup DonePlaces \cup {"absent"}]
      /\ \A v \in Urls : \/ promoted[v] = places[v]
                         \/ places[v] = "delayed" /\ promoted[v] \in {"waiting", "prioritized"}
  BY DEF Promoted, ListFor, PendingPlaces
<1>4. u \in Urls /\ promoted[u] \in {"waiting", "prioritized"}
  <2>1. Poppable(promoted) \subseteq {v \in Urls : promoted[v] \in {"waiting", "prioritized"}}
    BY DEF Poppable
  <2> QED
    BY <1>2, <2>1
<1> HIDE DEF promoted
<1>5. /\ place' = [promoted EXCEPT ![u] = "active"]
      /\ lock' = [locks EXCEPT ![u] = w]
      /\ job' = [job EXCEPT ![w] = u]
      /\ payloadDepth' = [payloadDepth EXCEPT ![w] = depth[u]]
      /\ stage' \in {[stage EXCEPT ![w] = s] : s \in {"fetching", "resolved"}}
      /\ result' \in {result, [result EXCEPT ![u] = "pipelineError"]}
  BY <1>2 DEF Begin
<1>6. /\ place' \in [Urls -> PendingPlaces \cup DonePlaces \cup {"absent"}]
      /\ place'[u] = "active"
      /\ \A v \in Urls \ {u} : place'[v] = promoted[v]
  BY <1>3, <1>4, <1>5 DEF PendingPlaces
<1> QED
  BY <1>3, <1>4, <1>5, <1>6

--------------------------------------------------------------------------
(* Steps of the poll loop.                                                 *)

\* A tick that fails leaves room for another failure, or settles the loop.
LEMMA TickFailsTypes ==
    ASSUME DetectorTypeOK, PollOpen, TickFails
    PROVE  DetectorTypeOK' /\ PollOpen'
<1>1. failures < MaxConsecutiveFailures /\ failures \in Nat
  BY DetectorAssumption DEF TickFails, PollOpen, DetectorTypeOK
<1>2. failures' = failures + 1 /\ failures' \in 1 .. MaxConsecutiveFailures
  BY <1>1, DetectorAssumption DEF TickFails
<1>3. 2 ^ failures \in Nat
  BY <1>1, PowerOfTwo
<1>4. CASE failures' >= MaxConsecutiveFailures
  BY <1>1, <1>2, <1>4 DEF TickFails, DetectorTypeOK, PollOpen, NoAnswer
<1>5. CASE ~(failures' >= MaxConsecutiveFailures)
  <2>1. skipRemaining' \in 0 .. MaxSkipTicks
    BY <1>3, <1>5, DetectorAssumption DEF TickFails
  <2> QED
    BY <1>1, <1>2, <1>5, <2>1, DetectorAssumption DEF TickFails, DetectorTypeOK, PollOpen, NoAnswer
<1> QED
  BY <1>4, <1>5

\* A tick that succeeds settles the loop with a verdict, or counts one empty poll.
LEMMA TickSucceedsTypes ==
    ASSUME DetectorTypeOK, PollOpen, TickSucceeds
    PROVE  DetectorTypeOK' /\ PollOpen'
<1>1. verdict' \in {"none", "completed", "emptyComplete"}
  BY DEF TickSucceeds, Outcome
<1>2. emptyPollCount' \in 0 .. 2 /\ (poll' # "settled" => emptyPollCount' <= 1)
  BY DEF TickSucceeds, Outcome, DetectorTypeOK, PollOpen
<1> QED
  BY <1>1, <1>2, DetectorAssumption DEF TickSucceeds, DetectorTypeOK, PollOpen, NoAnswer

\* What the poll loop never touches.
Crawling == <<queueVars, workerVars, controlVars, budget>>

LEMMA PollSafe == ASSUME IInv, PollStep PROVE IInv'
<1> USE DEF IInv
<1>1. UNCHANGED Crawling
  BY DEF PollStep, Crawling
<1>2. /\ CountsLeft' /\ JobsAndLocks' /\ NoLinkLost' /\ CalmWorkers'
      /\ Outstanding' = Outstanding /\ Known' = Known
  BY <1>1 DEF Crawling, queueVars, workerVars, controlVars, CountsLeft, JobsAndLocks,
              NoLinkLost, CalmWorkers, Known, Outstanding, Cancelled, Holds
<1>3. DetectorTypeOK' /\ PollOpen' => TypeOK'
  BY <1>1 DEF Crawling, queueVars, workerVars, controlVars, TypeOK, QueueTypeOK
<1>4. CASE WaitForCompletion \/ TickSkips
  <2>1. DetectorTypeOK' /\ PollOpen'
    BY <1>4, DetectorAssumption DEF TypeOK, DetectorTypeOK, PollOpen, WaitForCompletion, TickSkips
  <2>2. CalmVerdict'
    BY <1>1, <1>2, <1>4 DEF CalmVerdict, SaysComplete, WaitForCompletion, TickSkips, PollOpen,
                            Crawling, controlVars
  <2> QED
    BY <1>2, <1>3, <2>1, <2>2
<1>5. CASE TickAsksQueue
  <2>1. DetectorTypeOK' /\ PollOpen'
    BY <1>5 DEF TypeOK, DetectorTypeOK, PollOpen, TickAsksQueue, TickAsks
  <2>2. ASSUME calm', SaysComplete' PROVE Outstanding = {} /\ Known # {}
    <3>1. calm /\ ~paused
      BY <1>1, <2>2 DEF CalmWorkers, Crawling, controlVars
    <3>2. verdict' = "none"
      BY <1>5 DEF TickAsksQueue, TickAsks, PollOpen
    <3>3. Pending = {} /\ Done # {}
      BY <1>5, <2>2, <3>2 DEF TickAsksQueue, TickAsks, SaysComplete
    <3> QED
      BY <3>1, <3>3, KnownSplit DEF Pending, TypeOK
  <2> QED
    BY <1>2, <1>3, <2>1, <2>2 DEF CalmVerdict
<1>6. CASE TickFails
  <2>1. DetectorTypeOK' /\ PollOpen'
    BY <1>6, TickFailsTypes DEF TypeOK
  <2>2. ~SaysComplete'
    BY <1>6 DEF SaysComplete, TickFails, PollOpen, NoAnswer
  <2> QED
    BY <1>2, <1>3, <2>1, <2>2 DEF CalmVerdict
<1>7. CASE TickSucceeds
  <2>1. DetectorTypeOK' /\ PollOpen'
    BY <1>7, TickSucceedsTypes DEF TypeOK
  <2>2. SaysComplete' => SaysComplete
    BY <1>7 DEF SaysComplete, TickSucceeds, Outcome, PollOpen
  <2> QED
    BY <1>1, <1>2, <1>3, <2>1, <2>2 DEF CalmVerdict, Crawling, controlVars
<1> QED
  BY <1>4, <1>5, <1>6, <1>7 DEF PollStep

--------------------------------------------------------------------------
(* Steps of the workers.                                                   *)

\* The worker moves on in its pipeline, and the queue is not touched.
LEMMA PipelineSafe ==
    ASSUME IInv, NEW w \in Workers,
           FetchFails(w) \/ Fetched(w)
    PROVE  IInv'
<1> USE DEF IInv
<1>1. /\ UNCHANGED <<queueVars, detectorVars, controlVars, budget, job, payloadDepth, closing>>
      /\ stage[w] = "fetching"
      /\ stage' \in {[stage EXCEPT ![w] = s] : s \in {"enqueuing", "resolved"}}
  BY DEF FetchFails, Fetched, Resolve
<1>2. job[w] \in Urls
  BY <1>1 DEF TypeOK, JobsAndLocks, Busy
<1>3. TypeOK'
  <2>1. result' \in [Urls -> {"none", "success", "pipelineError"}]
    BY <1>2 DEF FetchFails, Fetched, Resolve, TypeOK
  <2>2. stage' \in [Workers -> Stages]
    BY <1>1 DEF TypeOK, Stages
  <2> QED
    BY <1>1, <2>1, <2>2 DEF TypeOK, QueueTypeOK, DetectorTypeOK, queueVars, detectorVars, controlVars
<1>4. CountsLeft' /\ PollOpen' /\ CalmWorkers' /\ CalmVerdict'
  BY <1>1 DEF CountsLeft, PollOpen, CalmWorkers, CalmVerdict, SaysComplete, Known, Outstanding,
              Cancelled, Holds, queueVars, detectorVars, controlVars
<1>5. JobsAndLocks'
  BY <1>1 DEF JobsAndLocks, Busy, queueVars, TypeOK
<1>6. NoLinkLost'
  <2>1. Known' = Known /\ Cancelled' = Cancelled
    BY <1>1 DEF Known, Cancelled, queueVars, controlVars
  <2>2. \A u \in Urls : result'[u] = "success" => result[u] = "success" \/ Links[u] = {}
    BY <1>2 DEF FetchFails, Fetched, Resolve, TypeOK
  <2> QED
    BY <2>1, <2>2 DEF NoLinkLost
<1> QED
  BY <1>3, <1>4, <1>5, <1>6

\* A worker starts, is told to drain, or dies without a batch on its way.
LEMMA ProcessSafe ==
    ASSUME IInv, NEW w \in Workers,
           Start(w) \/ Close(w) \/ (Crash(w) /\ UNCHANGED queueVars)
    PROVE  IInv'
<1> USE DEF IInv
<1>1. UNCHANGED <<queueVars, detectorVars, controlVars, result>>
  BY DEF Start, Close, Crash
<1>2. TypeOK'
  <2>1. budget' \in 0 .. Budget
    BY CrawlAssumption DEF Start, Close, Crash, Fault, TypeOK
  <2>2. stage' \in [Workers -> Stages]
    BY DEF Start, Close, Crash, TypeOK, Stages
  <2>3. closing' \in [Workers -> BOOLEAN]
    BY DEF Start, Close, Crash, TypeOK
  <2>4. job' \in [Workers -> Urls \cup {NoJob}]
    BY DEF Start, Close, Crash, TypeOK
  <2>5. payloadDepth' \in [Workers -> Nat]
    BY DEF Start, Close, Crash, TypeOK
  <2> QED
    BY <1>1, <2>1, <2>2, <2>3, <2>4, <2>5 DEF TypeOK, QueueTypeOK, DetectorTypeOK, queueVars, detectorVars, controlVars
<1>3. CountsLeft' /\ PollOpen' /\ CalmVerdict' /\ NoLinkLost'
  BY <1>1 DEF CountsLeft, PollOpen, CalmVerdict, SaysComplete, NoLinkLost, Known, Outstanding,
              Cancelled, queueVars, detectorVars, controlVars
<1>4. \A v \in Workers : job'[v] # NoJob => job'[v] = job[v]
  BY DEF Start, Close, Crash, TypeOK
<1>5. CalmWorkers'
  BY <1>1, <1>4 DEF CalmWorkers, Cancelled, Holds, Known, queueVars, controlVars
<1>6. JobsAndLocks'
  <2>1. \A v \in Workers : stage'[v] \in Busy <=> job'[v] # NoJob
    BY DEF Start, Close, Crash, TypeOK, JobsAndLocks, Busy
  <2> QED
    BY <1>1, <2>1 DEF JobsAndLocks, queueVars
<1> QED
  BY <1>2, <1>3, <1>5, <1>6

\* The effect of a batch on the invariant: jobs are only added, by a worker that
\* holds the lock of its job or, for the seeds, by anybody.
LEMMA BatchSafe ==
    ASSUME IInv, NEW urls \in SUBSET Urls, NEW d \in Nat, Enqueue(urls, d),
           UNCHANGED <<detectorVars, controlVars>>,
           calm => Known # {} \/ urls = Seeds,
           calm /\ Outstanding = {} /\ Known # {} => urls \subseteq Known
    PROVE  /\ QueueTypeOK' /\ CountsLeft' /\ PollOpen' /\ CalmVerdict'
           /\ Known' = Known \cup urls
           /\ \A v \in Workers, u \in Urls : Holds(v, u) => Holds(v, u)'
           /\ \A u \in Urls : place'[u] = "active" => lock'[u] \in Workers
           /\ calm => Known' = {} \/ Seeds \subseteq Known'
<1> USE DEF IInv
<1>1. /\ QueueTypeOK' /\ Known' = Known \cup urls
      /\ \A u \in Known : place'[u] = place[u]
      /\ \A u \in Urls \ Known : place'[u] \in {"absent", "waiting", "prioritized"}
      /\ UNCHANGED <<attempts, stalls, lock, paused>>
  BY EnqueueEffect DEF TypeOK
<1>2. CountsLeft'
  <2> SUFFICES ASSUME NEW u \in Urls, place'[u] \notin DonePlaces
               PROVE  attempts'[u] < MaxAttempts /\ stalls'[u] <= MaxStalls
    BY DEF CountsLeft
  <2>1. place[u] \notin DonePlaces
    BY <1>1 DEF Known, DonePlaces
  <2> QED
    BY <1>1, <2>1 DEF CountsLeft
<1>3. PollOpen'
  BY DEF PollOpen, detectorVars
<1>4. CalmVerdict'
  <2> SUFFICES ASSUME calm', SaysComplete' PROVE Outstanding' = {} /\ Known' # {}
    BY DEF CalmVerdict
  <2>1. calm /\ Outstanding = {} /\ Known # {}
    BY DEF CalmVerdict, SaysComplete, detectorVars, controlVars
  <2>2. Known' = Known
    BY <1>1, <2>1
  <2>3. Outstanding' = Outstanding
    BY <1>1, <2>2 DEF Outstanding, Known, PendingPlaces
  <2> QED
    BY <2>1, <2>2, <2>3
<1>5. \A v \in Workers, u \in Urls : Holds(v, u) => Holds(v, u)'
  BY <1>1 DEF Holds, Known
<1>6. \A u \in Urls : place'[u] = "active" => lock'[u] \in Workers
  BY <1>1 DEF JobsAndLocks, Known
<1>7. calm => Known' = {} \/ Seeds \subseteq Known'
  BY <1>1 DEF CalmWorkers
<1> QED
  BY <1>1, <1>2, <1>3, <1>4, <1>5, <1>6, <1>7

\* A worker's batch of links.
LEMMA LinksSafe ==
    ASSUME IInv, NEW w \in Workers, stage[w] = "enqueuing", EnqueueLinks(w),
           UNCHANGED <<detectorVars, controlVars>>
    PROVE  /\ job[w] \in Urls
           /\ QueueTypeOK' /\ CountsLeft' /\ PollOpen' /\ CalmVerdict'
           /\ Known' = Known \cup Links[job[w]]
           /\ \A v \in Workers, u \in Urls : Holds(v, u) => Holds(v, u)'
           /\ \A u \in Urls : place'[u] = "active" => lock'[u] \in Workers
           /\ calm => Known' = {} \/ Seeds \subseteq Known'
<1> USE DEF IInv
<1>1. job[w] \in Urls /\ Links[job[w]] \in SUBSET Urls /\ payloadDepth[w] + 1 \in Nat
  BY LinksAreUrls DEF TypeOK, JobsAndLocks, Busy
<1>2. calm => job[w] \in Known /\ job[w] \in Outstanding
  BY <1>1, CrawlAssumption DEF CalmWorkers, Holds, Known, Outstanding, PendingPlaces
<1>3. Enqueue(Links[job[w]], payloadDepth[w] + 1)
  BY DEF EnqueueLinks
<1> QED
  BY <1>1, <1>2, <1>3, BatchSafe

\* The batch of links of a worker, delivered by its handler, by a call that failed,
\* or after the worker died.
LEMMA EnqueueSafe ==
    ASSUME IInv, NEW w \in Workers, stage[w] = "enqueuing", EnqueueLinks(w),
           Enqueued(w) \/ EnqueueFails(w) \/ Crash(w)
    PROVE  IInv'
<1> USE DEF IInv
<1>1. UNCHANGED <<detectorVars, controlVars>> /\ job[w] # NoJob
  BY DEF Enqueued, EnqueueFails, Crash, JobsAndLocks, Busy
<1>2. /\ job[w] \in Urls
      /\ QueueTypeOK' /\ CountsLeft' /\ PollOpen' /\ CalmVerdict'
      /\ Known' = Known \cup Links[job[w]]
      /\ \A v \in Workers, u \in Urls : Holds(v, u) => Holds(v, u)'
      /\ \A u \in Urls : place'[u] = "active" => lock'[u] \in Workers
      /\ calm => Known' = {} \/ Seeds \subseteq Known'
  BY <1>1, LinksSafe
<1>3. paused' = paused
  BY DEF EnqueueLinks, Enqueue, AddBulk, queueVars
<1>4. /\ stage' \in {[stage EXCEPT ![w] = s] : s \in {"resolved", "rejected", "down"}}
      /\ job' \in {job, [job EXCEPT ![w] = NoJob]}
      /\ payloadDepth' \in {payloadDepth, [payloadDepth EXCEPT ![w] = 0]}
      /\ closing' = closing
      /\ result' \in {result, [result EXCEPT ![job[w]] = "success"]}
      /\ budget' \in 0 .. Budget
      /\ stage'[w] = "down" <=> job' # job
  <2>1. CASE Enqueued(w)
    BY <2>1 DEF Enqueued, Resolve, TypeOK
  <2>2. CASE EnqueueFails(w)
    BY <2>2, CrawlAssumption DEF EnqueueFails, Fault, TypeOK
  <2>3. CASE Crash(w)
    BY <1>1, <2>3, CrawlAssumption DEF Crash, Fault, TypeOK
  <2> QED
    BY <2>1, <2>2, <2>3
<1>5. TypeOK'
  <2>1. stage' \in [Workers -> Stages]
    BY <1>4 DEF TypeOK, Stages
  <2>2. job' \in [Workers -> Urls \cup {NoJob}] /\ payloadDepth' \in [Workers -> Nat]
    BY <1>4 DEF TypeOK
  <2>3. result' \in [Urls -> {"none", "success", "pipelineError"}]
    BY <1>2, <1>4 DEF TypeOK
  <2> QED
    BY <1>1, <1>2, <1>4, <2>1, <2>2, <2>3 DEF TypeOK, DetectorTypeOK, detectorVars, controlVars
<1>6. JobsAndLocks'
  <2>1. \A v \in Workers : stage'[v] \in Busy <=> job'[v] # NoJob
    BY <1>1, <1>4 DEF JobsAndLocks, Busy, TypeOK
  <2> QED
    BY <1>2, <2>1 DEF JobsAndLocks
<1>7. NoLinkLost'
  <2>1. \A u \in Urls : result'[u] = "success" => result[u] = "success" \/ u = job[w]
    BY <1>2, <1>4 DEF TypeOK
  <2> QED
    BY <1>1, <1>2, <2>1 DEF NoLinkLost, Cancelled, controlVars
<1>8. CalmWorkers'
  <2>1. \A v \in Workers : job'[v] # NoJob => job'[v] = job[v] /\ job[v] \in Urls
    BY <1>4 DEF TypeOK
  <2> QED
    BY <1>1, <1>2, <1>3, <2>1 DEF CalmWorkers, Cancelled, controlVars, Holds
<1> QED
  BY <1>2, <1>5, <1>6, <1>7, <1>8

\* A batch that failed before the queue applied it.
LEMMA NotSentSafe ==
    ASSUME IInv, NEW w \in Workers, EnqueueFails(w), UNCHANGED queueVars
    PROVE  IInv'
<1> USE DEF IInv
<1>1. /\ UNCHANGED <<queueVars, detectorVars, controlVars, job, payloadDepth, closing, result>>
      /\ stage[w] = "enqueuing"
      /\ stage' = [stage EXCEPT ![w] = "rejected"]
      /\ budget' \in 0 .. Budget
  BY CrawlAssumption DEF EnqueueFails, Fault, TypeOK
<1>2. TypeOK'
  BY <1>1 DEF TypeOK, QueueTypeOK, DetectorTypeOK, Stages, queueVars, detectorVars, controlVars
<1>3. JobsAndLocks'
  BY <1>1 DEF JobsAndLocks, Busy, TypeOK, queueVars
<1>4. CountsLeft' /\ PollOpen' /\ NoLinkLost' /\ CalmWorkers' /\ CalmVerdict'
  BY <1>1 DEF CountsLeft, PollOpen, NoLinkLost, CalmWorkers, CalmVerdict, SaysComplete, Known,
              Outstanding, Cancelled, Holds, queueVars, detectorVars, controlVars
<1> QED
  BY <1>2, <1>3, <1>4

\* Seeding once more adds nothing.
LEMMA SeedSafe == ASSUME IInv, SeedFrontier PROVE IInv'
<1> USE DEF IInv
<1>1. Enqueue(Seeds, 0) /\ UNCHANGED <<detectorVars, workerVars, controlVars, budget>>
  BY DEF SeedFrontier
<1>2. /\ QueueTypeOK' /\ CountsLeft' /\ PollOpen' /\ CalmVerdict'
      /\ Known' = Known \cup Seeds
      /\ \A v \in Workers, u \in Urls : Holds(v, u) => Holds(v, u)'
      /\ \A u \in Urls : place'[u] = "active" => lock'[u] \in Workers
      /\ calm => Known' = {} \/ Seeds \subseteq Known'
  <2>1. calm /\ Outstanding = {} /\ Known # {} => Seeds \subseteq Known
    BY DEF CalmWorkers
  <2>2. Seeds \in SUBSET Urls
    BY CrawlAssumption
  <2> QED
    BY <1>1, <2>1, <2>2, BatchSafe
<1>3. paused' = paused
  BY <1>1 DEF Enqueue, AddBulk, queueVars
<1>4. TypeOK'
  BY <1>1, <1>2 DEF TypeOK, DetectorTypeOK, detectorVars, workerVars, controlVars
<1>5. JobsAndLocks' /\ NoLinkLost'
  BY <1>1, <1>2 DEF JobsAndLocks, NoLinkLost, Cancelled, workerVars, controlVars
<1>6. CalmWorkers'
  <2>1. \A v \in Workers : job'[v] # NoJob => job'[v] = job[v] /\ job[v] \in Urls
    BY <1>1 DEF workerVars, TypeOK
  <2> QED
    BY <1>1, <1>2, <1>3, <2>1 DEF CalmWorkers, Cancelled, controlVars
<1> QED
  BY <1>2, <1>4, <1>5, <1>6

\* The effect on the queue when a worker lets go of its job.
LEMMA LetGo ==
    ASSUME IInv, NEW w \in Workers, job[w] \in Urls,
           NEW to \in {"completed", "failed", "delayed"}
    PROVE  /\ Finished(w, job[w], to) \in [Urls -> PendingPlaces \cup DonePlaces \cup {"absent"}]
           /\ Unlocked(w, job[w]) \in [Urls -> Workers \cup {NoWorker}]
           /\ \A u \in Urls : \/ /\ Finished(w, job[w], to)[u] = place[u]
                                 /\ Unlocked(w, job[w])[u] = lock[u]
                              \/ u = job[w] /\ Holds(w, u) /\ Finished(w, job[w], to)[u] = to
           /\ Holds(w, job[w]) => Finished(w, job[w], to)[job[w]] = to
<1> USE DEF IInv
<1> QED
  BY DEF Finished, Unlocked, TypeOK, QueueTypeOK, PendingPlaces, DonePlaces

\* A step in which jobs change hands: none comes or goes, what is done stays
\* done, and only worker w takes or leaves a job.
HandsOver(w) ==
    /\ QueueTypeOK'
    /\ UNCHANGED <<detectorVars, closing, controlVars, depth, paused>>
    /\ \A u \in Urls : place[u] = "absent" <=> place'[u] = "absent"
    /\ \A u \in Done : place'[u] = place[u]
    /\ \A u \in Urls : place'[u] \in DonePlaces => u \in Done \/ u = job[w]
    /\ \A u \in Urls : place'[u] = "active" => lock'[u] \in Workers
    /\ \A v \in Workers \ {w}, u \in Urls : Holds(v, u) => Holds(v, u)'
    /\ job' \in [Workers -> Urls \cup {NoJob}]
    /\ \A v \in Workers \ {w} : job'[v] = job[v] /\ stage'[v] = stage[v]
    /\ (job[w] # NoJob => Holds(w, job[w]))'
    /\ stage'[w] \in Busy <=> job'[w] # NoJob
    /\ stage' \in [Workers -> Stages]
    /\ payloadDepth' \in [Workers -> Nat]
    /\ result' \in [Urls -> {"none", "success", "pipelineError"}]
    /\ \A u \in Urls : result'[u] = "success" => result[u] = "success"
    /\ budget' \in 0 .. Budget

LEMMA HandsOverSafe ==
    ASSUME IInv, NEW w \in Workers, HandsOver(w), CountsLeft',
           calm => Outstanding # {}
    PROVE  IInv'
<1> USE DEF IInv, HandsOver
<1>1. TypeOK' /\ PollOpen'
  BY DEF TypeOK, DetectorTypeOK, detectorVars, controlVars, PollOpen
<1>2. Known' = Known
  BY DEF Known
<1>3. JobsAndLocks'
  BY DEF JobsAndLocks
<1>4. NoLinkLost'
  BY <1>2 DEF NoLinkLost, Cancelled, controlVars
<1>5. CalmWorkers'
  <2>1. ASSUME calm, NEW v \in Workers, job'[v] # NoJob PROVE Holds(v, job[v])'
    <3>1. CASE v = w
      BY <2>1, <3>1
    <3>2. CASE v # w
      <4>1. job'[v] = job[v] /\ job[v] \in Urls
        BY <2>1, <3>2 DEF TypeOK
      <4>2. Holds(v, job[v])
        BY <2>1, <3>2, <4>1 DEF CalmWorkers
      <4>3. PICK u \in Urls : u = job[v]
        BY <4>1
      <4>4. Holds(v, u)'
        BY <3>2, <4>2, <4>3
      <4> QED
        BY <4>1, <4>3, <4>4 DEF Holds
    <3> QED
      BY <3>1, <3>2
  <2> QED
    BY <1>2, <2>1 DEF CalmWorkers, Cancelled, controlVars
<1>6. CalmVerdict'
  BY DEF CalmVerdict, SaysComplete, detectorVars, controlVars
<1> QED
  BY <1>1, <1>3, <1>4, <1>5, <1>6

\* What pops a job from places and locks in which w holds nothing, and which else
\* differ from the queue only by what w let go of.
LEMMA PopHandsOver ==
    ASSUME IInv, NEW w \in Workers,
           NEW places \in [Urls -> PendingPlaces \cup DonePlaces \cup {"absent"}],
           NEW locks \in [Urls -> Workers \cup {NoWorker}],
           TakeFrom(w, places, locks),
           \A u \in Urls : \/ places[u] = place[u] /\ locks[u] = lock[u]
                           \/ u = job[w] /\ Holds(w, u) /\ places[u] \in DonePlaces,
           UNCHANGED <<depth, attempts, stalls, paused, detectorVars, closing,
                       controlVars, budget>>
    PROVE  HandsOver(w) /\ CountsLeft'
<1> USE DEF IInv
<1>1. QueueTypeOK
  BY DEF TypeOK
<1>2. PICK u \in Urls :
         /\ places[u] \in {"waiting", "prioritized", "delayed"}
         /\ place' \in [Urls -> PendingPlaces \cup DonePlaces \cup {"absent"}]
         /\ place'[u] = "active"
         /\ \A v \in Urls \ {u} :
               \/ place'[v] = places[v]
               \/ places[v] = "delayed" /\ place'[v] \in {"waiting", "prioritized"}
         /\ lock' = [locks EXCEPT ![u] = w]
         /\ job' = [job EXCEPT ![w] = u]
         /\ payloadDepth' = [payloadDepth EXCEPT ![w] = depth[u]]
         /\ stage' \in {[stage EXCEPT ![w] = s] : s \in {"fetching", "resolved"}}
         /\ result' \in {result, [result EXCEPT ![u] = "pipelineError"]}
  BY <1>1, TakeEffect
<1>3. place[u] \in {"waiting", "prioritized", "delayed"}
  BY <1>2 DEF DonePlaces
<1>4. lock'[u] = w /\ \A v \in Urls \ {u} : lock'[v] = locks[v]
  BY <1>2
<1>5. QueueTypeOK'
  <2>1. lock' \in [Urls -> Workers \cup {NoWorker}]
    BY <1>2
  <2> QED
    BY <1>1, <1>2, <2>1 DEF QueueTypeOK
<1>6. \A v \in Urls : place[v] = "absent" <=> place'[v] = "absent"
  BY <1>2, <1>3 DEF DonePlaces, Holds
<1>7. /\ \A v \in Done : place'[v] = place[v]
      /\ \A v \in Urls : place'[v] \in DonePlaces => v \in Done \/ v = job[w]
  BY <1>2, <1>3 DEF Done, DonePlaces, Holds
<1>8. \A v \in Urls : place'[v] = "active" => lock'[v] \in Workers
  BY <1>2, <1>3, <1>4 DEF JobsAndLocks, DonePlaces
<1>9. \A x \in Workers \ {w}, v \in Urls : Holds(x, v) => Holds(x, v)'
  BY <1>2, <1>3, <1>4 DEF Holds
<1>10. /\ job' \in [Workers -> Urls \cup {NoJob}]
       /\ \A v \in Workers \ {w} : job'[v] = job[v] /\ stage'[v] = stage[v]
       /\ job'[w] = u /\ stage'[w] \in {"fetching", "resolved"}
       /\ stage' \in [Workers -> Stages]
       /\ payloadDepth' \in [Workers -> Nat]
  BY <1>1, <1>2 DEF TypeOK, QueueTypeOK, Stages
<1>11. (job[w] # NoJob => Holds(w, job[w]))'
  BY <1>2, <1>4, <1>10 DEF Holds
<1>12. stage'[w] \in Busy <=> job'[w] # NoJob
  BY <1>10, CrawlAssumption DEF Busy
<1>13. /\ result' \in [Urls -> {"none", "success", "pipelineError"}]
       /\ \A v \in Urls : result'[v] = "success" => result[v] = "success"
  BY <1>2 DEF TypeOK
<1>14. CountsLeft'
  BY <1>3, <1>7, <1>2 DEF CountsLeft, Done, DonePlaces
<1> QED
  BY <1>5, <1>6, <1>7, <1>8, <1>9, <1>10, <1>11, <1>12, <1>13, <1>14 DEF HandsOver, TypeOK

\* A worker that rests after it let go of its job.
LEMMA RestHandsOver ==
    ASSUME IInv, NEW w \in Workers, job[w] \in Urls,
           NEW to \in {"completed", "failed", "delayed"},
           Rest(w, Finished(w, job[w], to), Unlocked(w, job[w])),
           QueueTypeOK',
           UNCHANGED <<depth, stalls, paused, detectorVars, closing, controlVars, budget>>
    PROVE  HandsOver(w)
<1> USE DEF IInv
<1>1. /\ place' = Finished(w, job[w], to) /\ lock' = Unlocked(w, job[w])
      /\ stage' \in {[stage EXCEPT ![w] = s] : s \in {"down", "idle"}}
      /\ job' = [job EXCEPT ![w] = NoJob]
      /\ payloadDepth' = [payloadDepth EXCEPT ![w] = 0]
      /\ result' = result
  BY DEF Rest
<1>2. \A u \in Urls : \/ place'[u] = place[u] /\ lock'[u] = lock[u]
                      \/ u = job[w] /\ Holds(w, u) /\ place'[u] = to
  BY <1>1, LetGo
<1>3. /\ \A u \in Urls : place[u] = "absent" <=> place'[u] = "absent"
      /\ \A u \in Done : place'[u] = place[u]
      /\ \A u \in Urls : place'[u] \in DonePlaces => u \in Done \/ u = job[w]
      /\ \A u \in Urls : place'[u] = "active" => lock'[u] \in Workers
      /\ \A v \in Workers \ {w}, u \in Urls : Holds(v, u) => Holds(v, u)'
  BY <1>2 DEF Holds, Done, DonePlaces, JobsAndLocks
<1>4. /\ job' \in [Workers -> Urls \cup {NoJob}]
      /\ \A v \in Workers \ {w} : job'[v] = job[v] /\ stage'[v] = stage[v]
      /\ job'[w] = NoJob /\ stage'[w] \in {"down", "idle"}
      /\ stage' \in [Workers -> Stages]
      /\ payloadDepth' \in [Workers -> Nat]
  BY <1>1 DEF TypeOK, Stages
<1>5. /\ result' \in [Urls -> {"none", "success", "pipelineError"}]
      /\ \A u \in Urls : result'[u] = "success" => result[u] = "success"
      /\ budget' \in 0 .. Budget
  BY <1>1 DEF TypeOK
<1> QED
  BY <1>3, <1>4, <1>5 DEF HandsOver, Busy

LEMMA TakeSafe == ASSUME IInv, NEW w \in Workers, Take(w) PROVE IInv' /\ HandsOver(w)
<1> USE DEF IInv
<1>1. TakeFrom(w, place, lock)
  BY DEF Take
<1>2. HandsOver(w) /\ CountsLeft'
  <2>1. place \in [Urls -> PendingPlaces \cup DonePlaces \cup {"absent"}]
        /\ lock \in [Urls -> Workers \cup {NoWorker}]
    BY DEF TypeOK, QueueTypeOK
  <2> QED
    BY <1>1, <2>1, PopHandsOver DEF Take
<1>3. Outstanding # {}
  <2>1. PICK u \in Urls : place[u] \in {"waiting", "prioritized", "delayed"}
    BY <1>1, TakeEffect DEF TypeOK, QueueTypeOK
  <2> QED
    BY <2>1 DEF Outstanding, PendingPlaces
<1> QED
  BY <1>2, <1>3, HandsOverSafe

\* The job a busy worker holds until the crawl is disturbed is outstanding.
LEMMA CalmOutstanding ==
    ASSUME IInv, NEW w \in Workers, stage[w] \in Busy
    PROVE  job[w] \in Urls /\ (calm => Holds(w, job[w]) /\ Outstanding # {})
BY DEF IInv, TypeOK, JobsAndLocks, CalmWorkers, Holds, Outstanding, PendingPlaces

LEMMA CompleteSafe == ASSUME IInv, NEW w \in Workers, Complete(w) PROVE IInv' /\ HandsOver(w)
<1> USE DEF IInv
<1> DEFINE places == Finished(w, job[w], "completed")
           locks == Unlocked(w, job[w])
<1>1. job[w] \in Urls /\ (calm => Outstanding # {})
  BY CalmOutstanding DEF Complete, Busy
<1>2. /\ places \in [Urls -> PendingPlaces \cup DonePlaces \cup {"absent"}]
      /\ locks \in [Urls -> Workers \cup {NoWorker}]
      /\ \A u \in Urls : \/ places[u] = place[u] /\ locks[u] = lock[u]
                         \/ u = job[w] /\ Holds(w, u) /\ places[u] = "completed"
  BY <1>1, LetGo
<1>3. /\ UNCHANGED <<depth, attempts, stalls, paused, detectorVars, closing, controlVars, budget>>
      /\ Rest(w, places, locks) \/ TakeFrom(w, places, locks)
  BY DEF Complete
<1> HIDE DEF places, locks
<1>4. ASSUME TakeFrom(w, places, locks) PROVE HandsOver(w) /\ CountsLeft'
  <2>1. \A u \in Urls : \/ places[u] = place[u] /\ locks[u] = lock[u]
                        \/ u = job[w] /\ Holds(w, u) /\ places[u] \in DonePlaces
    BY <1>2 DEF DonePlaces
  <2> QED
    BY <1>2, <1>3, <1>4, <2>1, PopHandsOver
<1>5. ASSUME Rest(w, places, locks) PROVE HandsOver(w) /\ CountsLeft'
  <2>1. place' = places /\ lock' = locks
    BY <1>5 DEF Rest
  <2>2. QueueTypeOK'
    BY <1>2, <1>3, <2>1 DEF TypeOK, QueueTypeOK
  <2>3. HandsOver(w)
    BY <1>1, <1>3, <1>5, <2>2, RestHandsOver DEF places, locks
  <2>4. CountsLeft'
    BY <1>2, <1>3, <2>1 DEF CountsLeft, DonePlaces
  <2> QED
    BY <2>3, <2>4
<1> QED
  BY <1>1, <1>3, <1>4, <1>5, HandsOverSafe

LEMMA FailSafe == ASSUME IInv, NEW w \in Workers, Fail(w) PROVE IInv' /\ HandsOver(w)
<1> USE DEF IInv
<1> DEFINE to == IF attempts[job[w]] + 1 < MaxAttempts THEN "delayed" ELSE "failed"
<1>1. job[w] \in Urls /\ (calm => Outstanding # {})
  BY CalmOutstanding DEF Fail, Busy
<1>2. /\ Rest(w, Finished(w, job[w], to), Unlocked(w, job[w]))
      /\ attempts' = IF Holds(w, job[w]) THEN [attempts EXCEPT ![job[w]] = @ + 1] ELSE attempts
      /\ UNCHANGED <<depth, stalls, paused, detectorVars, closing, controlVars, budget>>
  BY DEF Fail
<1>3. /\ place' \in [Urls -> PendingPlaces \cup DonePlaces \cup {"absent"}]
      /\ lock' \in [Urls -> Workers \cup {NoWorker}]
      /\ \A u \in Urls : \/ place'[u] = place[u]
                         \/ u = job[w] /\ Holds(w, u) /\ place'[u] = to
      /\ Holds(w, job[w]) => place'[job[w]] = to
  BY <1>1, <1>2, LetGo DEF Rest
<1>4. attempts' \in [Urls -> 0 .. MaxAttempts] /\ CountsLeft'
  <2>1. CASE Holds(w, job[w])
    <3>1. attempts[job[w]] < MaxAttempts /\ attempts[job[w]] \in Nat
      BY <1>1, <2>1, QueueAssumption DEF CountsLeft, Holds, DonePlaces, TypeOK, QueueTypeOK
    <3>2. attempts' \in [Urls -> 0 .. MaxAttempts]
      BY <1>1, <1>2, <2>1, <3>1, QueueAssumption DEF TypeOK, QueueTypeOK
    <3>3. \A u \in Urls \ {job[w]} : place'[u] = place[u] /\ attempts'[u] = attempts[u]
      BY <1>2, <1>3, <2>1 DEF TypeOK, QueueTypeOK
    <3>4. /\ place'[job[w]] = to
          /\ attempts'[job[w]] = attempts[job[w]] + 1
          /\ place[job[w]] \notin DonePlaces
      BY <1>1, <1>2, <1>3, <2>1 DEF TypeOK, QueueTypeOK, Holds, DonePlaces
    <3> QED
      BY <1>2, <3>1, <3>2, <3>3, <3>4 DEF CountsLeft, DonePlaces
  <2>2. CASE ~Holds(w, job[w])
    BY <1>2, <1>3, <2>2 DEF TypeOK, QueueTypeOK, CountsLeft
  <2> QED
    BY <2>1, <2>2
<1>5. QueueTypeOK'
  BY <1>2, <1>3, <1>4 DEF TypeOK, QueueTypeOK
<1>6. HandsOver(w)
  BY <1>1, <1>2, <1>5, RestHandsOver
<1> QED
  BY <1>1, <1>4, <1>6, HandsOverSafe

--------------------------------------------------------------------------
(* Steps of the queue and of the control plane.                            *)

\* A job that stalls waits again, or has failed; a busy worker keeps the others.
LEMMA StallEffect ==
    ASSUME IInv, NEW u \in Urls, Stall(u)
    PROVE  /\ QueueTypeOK' /\ CountsLeft'
           /\ place[u] = "active" /\ place'[u] \in {"waiting", "failed"}
           /\ \A v \in Urls \ {u} : place'[v] = place[v] /\ lock'[v] = lock[v]
           /\ Known' = Known /\ paused' = paused
<1> USE DEF IInv
<1>1. /\ place[u] = "active"
      /\ place' = [place EXCEPT ![u] = IF stalls[u] < MaxStalls THEN "waiting" ELSE "failed"]
      /\ stalls' = [stalls EXCEPT ![u] = stalls[u] + 1]
      /\ lock' = [lock EXCEPT ![u] = NoWorker]
      /\ UNCHANGED <<depth, attempts, paused>>
  BY DEF Stall
<1>2. stalls[u] \in 0 .. MaxStalls
  BY <1>1, QueueAssumption DEF CountsLeft, DonePlaces, TypeOK, QueueTypeOK
<1>3. QueueTypeOK'
  <2>1. stalls' \in [Urls -> 0 .. MaxStalls + 1]
    BY <1>1, <1>2, QueueAssumption DEF TypeOK, QueueTypeOK
  <2>2. place' \in [Urls -> PendingPlaces \cup DonePlaces \cup {"absent"}]
    BY <1>1 DEF TypeOK, QueueTypeOK, PendingPlaces, DonePlaces
  <2>3. lock' \in [Urls -> Workers \cup {NoWorker}]
    BY <1>1 DEF TypeOK, QueueTypeOK
  <2> QED
    BY <1>1, <2>1, <2>2, <2>3 DEF TypeOK, QueueTypeOK
<1>4. /\ \A v \in Urls \ {u} : place'[v] = place[v] /\ lock'[v] = lock[v] /\ stalls'[v] = stalls[v]
      /\ place'[u] = IF stalls[u] < MaxStalls THEN "waiting" ELSE "failed"
      /\ stalls'[u] = stalls[u] + 1
  BY <1>1 DEF TypeOK, QueueTypeOK
<1>5. CountsLeft'
  <2> SUFFICES ASSUME NEW v \in Urls, place'[v] \notin DonePlaces
               PROVE  attempts'[v] < MaxAttempts /\ stalls'[v] <= MaxStalls
    BY DEF CountsLeft
  <2>1. CASE v = u
    BY <1>1, <1>2, <1>4, <2>1, QueueAssumption DEF CountsLeft, DonePlaces
  <2>2. CASE v # u
    BY <1>1, <1>4, <2>2 DEF CountsLeft
  <2> QED
    BY <2>1, <2>2
<1>6. Known' = Known
  BY <1>1, <1>4 DEF Known
<1> QED
  BY <1>1, <1>3, <1>4, <1>5, <1>6

LEMMA InterveneEffect ==
    ASSUME budget \in 0 .. Budget, Intervene
    PROVE  calm' = FALSE /\ budget' \in 0 .. Budget
<1>1. budget \in Nat /\ budget <= Budget /\ budget >= 2 /\ budget' = budget - 2 /\ calm' = FALSE
  BY CrawlAssumption DEF Intervene
<1>2. budget' \in 0 .. Budget
  BY <1>1, CrawlAssumption
<1> QED
  BY <1>1, <1>2

LEMMA StallSafe ==
    ASSUME IInv, NEW u \in Urls, StallAbandoned(u) \/ LoseLock(u)
    PROVE  IInv'
<1> USE DEF IInv
<1>1. /\ QueueTypeOK' /\ CountsLeft'
      /\ place[u] = "active" /\ place'[u] \in {"waiting", "failed"}
      /\ \A v \in Urls \ {u} : place'[v] = place[v] /\ lock'[v] = lock[v]
      /\ Known' = Known /\ paused' = paused
  BY StallEffect DEF StallAbandoned, LoseLock
<1>2. /\ UNCHANGED <<detectorVars, workerVars, cancelling>>
      /\ calm' => calm /\ Abandoned(u)
      /\ calm' \in BOOLEAN /\ budget' \in 0 .. Budget
  <2>1. calm \in BOOLEAN /\ budget \in 0 .. Budget
    BY DEF TypeOK
  <2>2. CASE StallAbandoned(u)
    BY <2>1, <2>2 DEF StallAbandoned, controlVars
  <2>3. CASE LoseLock(u)
    <3>1. Intervene /\ UNCHANGED <<detectorVars, workerVars, cancelling>>
      BY <2>3 DEF LoseLock
    <3>2. calm' = FALSE /\ budget' \in 0 .. Budget
      BY <2>1, <3>1, InterveneEffect
    <3> QED
      BY <3>1, <3>2
  <2> QED
    BY <2>2, <2>3
<1>3. TypeOK'
  BY <1>1, <1>2 DEF TypeOK, DetectorTypeOK, detectorVars, workerVars
<1>4. PollOpen' /\ NoLinkLost' /\ Cancelled' = Cancelled
  BY <1>1, <1>2 DEF PollOpen, NoLinkLost, Cancelled, detectorVars, workerVars
<1>5. JobsAndLocks'
  BY <1>1, <1>2 DEF JobsAndLocks, workerVars
<1>6. ASSUME calm', NEW w \in Workers, job'[w] # NoJob PROVE Holds(w, job[w])'
  <2>1. job' = job /\ job[w] \in Urls /\ Holds(w, job[w])
    BY <1>2, <1>6 DEF workerVars, CalmWorkers, TypeOK
  <2>2. job[w] # u
    BY <1>2, <1>6, <2>1 DEF Abandoned, Holds
  <2> QED
    BY <1>1, <2>1, <2>2 DEF Holds
<1>7. CalmWorkers'
  BY <1>1, <1>2, <1>4, <1>6 DEF CalmWorkers
<1>8. CalmVerdict'
  <2>1. u \in Outstanding
    BY <1>1 DEF Outstanding, PendingPlaces
  <2> QED
    BY <1>2, <2>1 DEF CalmVerdict, SaysComplete, detectorVars
<1> QED
  BY <1>1, <1>3, <1>4, <1>5, <1>7, <1>8

\* A pause, a resume or a cancel.  None of them happens to a crawl that is calm
\* and stays so.
LEMMA ControlSafe ==
    ASSUME IInv, Pause \/ Resume \/ Cancel \/ CancelDone \/ CancelFailed
    PROVE  IInv' /\ ~calm'
<1> USE DEF IInv
<1>1. /\ ~calm' /\ calm' \in BOOLEAN
      /\ UNCHANGED <<detectorVars, workerVars>>
      /\ budget' \in 0 .. Budget
  <2>1. budget \in 0 .. Budget /\ calm \in BOOLEAN
    BY DEF TypeOK
  <2>2. CASE Pause \/ Cancel
    <3>1. Intervene /\ UNCHANGED <<detectorVars, workerVars>>
      BY <2>2 DEF Pause, Cancel
    <3> QED
      BY <2>1, <3>1, InterveneEffect
  <2>3. CASE Resume \/ CancelDone \/ CancelFailed
    <3>1. UNCHANGED <<detectorVars, workerVars, calm, budget>>
      BY <2>3 DEF Resume, CancelDone, CancelFailed, controlVars
    <3>2. paused \/ Cancelled
      BY <2>3 DEF Resume, CancelDone, CancelFailed, Cancelled
    <3> QED
      BY <2>1, <3>1, <3>2 DEF CalmWorkers
  <2> QED
    BY <2>2, <2>3
<1>2. CalmWorkers' /\ CalmVerdict' /\ PollOpen'
  BY <1>1 DEF CalmWorkers, CalmVerdict, PollOpen, detectorVars
<1>3. cancelling' \in {"no", "pausing", "done", "failed"} /\ (Cancelled => Cancelled')
  BY DEF Pause, Resume, Cancel, CancelDone, CancelFailed, TypeOK, Cancelled, controlVars
<1>4. CASE UNCHANGED <<place, depth, attempts, stalls, lock>>
  <2>1. paused' \in BOOLEAN
    BY DEF Pause, Resume, Cancel, CancelDone, CancelFailed, TypeOK, QueueTypeOK, queueVars,
           Obliterate
  <2>2. TypeOK'
    BY <1>1, <1>3, <1>4, <2>1 DEF TypeOK, QueueTypeOK, DetectorTypeOK, detectorVars, workerVars
  <2>3. CountsLeft' /\ JobsAndLocks' /\ NoLinkLost'
    BY <1>1, <1>3, <1>4 DEF CountsLeft, JobsAndLocks, NoLinkLost, Known, workerVars
  <2> QED
    BY <1>1, <1>2, <2>2, <2>3
<1>5. CASE CancelDone
  <2>1. Obliterate /\ Cancelled'
    BY <1>5 DEF CancelDone, Cancelled
  <2>2. QueueTypeOK' /\ CountsLeft'
    <3>1. 0 \in 0 .. MaxAttempts /\ 0 \in 0 .. MaxStalls + 1 /\ 0 < MaxAttempts /\ 0 <= MaxStalls
      BY QueueAssumption
    <3>2. QueueTypeOK'
      BY <2>1, <3>1 DEF Obliterate, QueueTypeOK
    <3> QED
      BY <2>1, <3>1, <3>2 DEF Obliterate, CountsLeft
  <2>3. TypeOK'
    BY <1>1, <1>3, <2>2 DEF TypeOK, DetectorTypeOK, detectorVars, workerVars
  <2>4. JobsAndLocks' /\ NoLinkLost'
    BY <1>1, <2>1 DEF JobsAndLocks, NoLinkLost, Obliterate, workerVars
  <2> QED
    BY <1>1, <1>2, <2>2, <2>3, <2>4
<1> QED
  BY <1>4, <1>5 DEF Pause, Resume, Cancel, CancelFailed, queueVars

--------------------------------------------------------------------------
(* The theorems.                                                           *)

LEMMA Initially == Init => IInv
<1> SUFFICES ASSUME Init PROVE IInv
  OBVIOUS
<1> USE DEF Init, QueueInit, DetectorInit
<1>1. QueueTypeOK /\ CountsLeft
  <2>1. 0 \in 0 .. MaxAttempts /\ 0 \in 0 .. MaxStalls + 1 /\ 0 < MaxAttempts /\ 0 <= MaxStalls
    BY QueueAssumption
  <2> QED
    BY <2>1 DEF QueueTypeOK, CountsLeft
<1>2. DetectorTypeOK /\ PollOpen
  BY DetectorAssumption DEF DetectorTypeOK, PollOpen, NoAnswer
<1>3. TypeOK
  BY <1>1, <1>2, CrawlAssumption DEF TypeOK, Stages
<1>4. JobsAndLocks /\ Known = {}
  BY DEF JobsAndLocks, Busy, Known
<1>5. NoLinkLost /\ CalmWorkers /\ CalmVerdict
  BY <1>4 DEF NoLinkLost, CalmWorkers, CalmVerdict, SaysComplete, Cancelled
<1> QED
  BY <1>1, <1>2, <1>3, <1>4, <1>5 DEF IInv

LEMMA Inductive == IInv /\ [Next]_vars => IInv'
<1> SUFFICES ASSUME IInv, [Next]_vars PROVE IInv'
  OBVIOUS
<1>1. ASSUME NEW w \in Workers, WorkerStep(w) \/ Close(w) \/ Crash(w) PROVE IInv'
  <2>1. CASE Take(w)
    BY <2>1, TakeSafe
  <2>2. CASE Complete(w)
    BY <2>2, CompleteSafe
  <2>3. CASE Fail(w)
    BY <2>3, FailSafe
  <2>4. CASE FetchFails(w) \/ Fetched(w)
    BY <2>4, PipelineSafe
  <2>5. CASE Enqueued(w)
    BY <2>5, EnqueueSafe DEF Enqueued
  <2>6. CASE EnqueueFails(w)
    <3>1. CASE EnqueueLinks(w)
      BY <2>6, <3>1, EnqueueSafe DEF EnqueueFails
    <3>2. CASE UNCHANGED queueVars
      BY <2>6, <3>2, NotSentSafe
    <3> QED
      BY <2>6, <3>1, <3>2 DEF EnqueueFails
  <2>7. CASE Start(w) \/ Close(w)
    BY <2>7, ProcessSafe
  <2>8. CASE Crash(w)
    BY <2>8, ProcessSafe, EnqueueSafe DEF Crash
  <2> QED
    BY <1>1, <2>1, <2>2, <2>3, <2>4, <2>5, <2>6, <2>7, <2>8 DEF WorkerStep
<1>2. ASSUME NEW u \in Urls, StallAbandoned(u) \/ LoseLock(u) PROVE IInv'
  BY <1>2, StallSafe
<1>3. CASE SeedFrontier
  BY <1>3, SeedSafe
<1>4. CASE Pause \/ Resume \/ Cancel \/ CancelDone \/ CancelFailed
  BY <1>4, ControlSafe
<1>5. CASE PollStep
  BY <1>5, PollSafe
<1>6. CASE UNCHANGED vars
  BY <1>6 DEF vars, queueVars, detectorVars, workerVars, controlVars, IInv, TypeOK, QueueTypeOK,
              DetectorTypeOK, CountsLeft, PollOpen, JobsAndLocks, NoLinkLost, CalmWorkers,
              CalmVerdict, SaysComplete, Cancelled, Known, Outstanding, Holds
<1> QED
  BY <1>1, <1>2, <1>3, <1>4, <1>5, <1>6 DEF Next

\* The invariant holds in every state the crawl reaches.
THEOREM InductiveInvariant == Spec => []IInv
BY Initially, Inductive, PTL DEF Spec

\* Every state is well typed: retries, stalls, failures and skipped ticks stay
\* within their limits.
THEOREM TypeCorrect == Spec => []TypeOK
<1>1. IInv => TypeOK
  BY DEF IInv
<1> QED
  BY <1>1, InductiveInvariant, PTL

\* No link of a page that counts as crawled is lost (REQ-CRAWL-005 and 015).
THEOREM NoLinkIsLost == Spec => []NoLinkLost
<1>1. IInv => NoLinkLost
  BY DEF IInv
<1> QED
  BY <1>1, InductiveInvariant, PTL

--------------------------------------------------------------------------
(* The promise of the module Crawl.                                        *)

\* What the promise does not see.
Unseen == Known' = Known /\ Done' = Done /\ verdict' = verdict /\ calm' = calm

\* Job u is done, and nothing else the promise sees.
Finishes(u) ==
    /\ u \in Known \ Done /\ Done' = Done \cup {u}
    /\ Known' = Known /\ verdict' = verdict /\ calm' = calm

\* The links of a page in progress become known before the crawl is over.
DiscoversLinks(u) ==
    /\ u \in Known \ Done /\ Known' = Known \cup Links[u]
    /\ verdict # "completed"
    /\ Done' = Done /\ verdict' = verdict /\ calm' = calm

\* All that is known is done, and the crawl is declared over.
Declares ==
    /\ Known # {} /\ Known = Done /\ verdict' = "completed"
    /\ Known' = Known /\ Done' = Done /\ calm' = calm

\* The verdict may change, to another one.
NotOver ==
    /\ verdict # "completed" /\ verdict' # "completed"
    /\ Known' = Known /\ Done' = Done /\ calm' = calm

LEMMA UnseenRefines == Unseen => UNCHANGED <<Known, Done, verdict = "completed", calm>>
BY DEF Unseen

LEMMA FinishesRefines == ASSUME NEW u \in Urls, Finishes(u) PROVE Promise!Next
BY DEF Finishes, Promise!Next, Promise!Finish

LEMMA DiscoversRefines == ASSUME NEW u \in Urls, DiscoversLinks(u) PROVE Promise!Next
BY DEF DiscoversLinks, Promise!Next, Promise!Discover

\* When jobs change hands, at most the job of the worker gets done.
LEMMA HandsOverMaps ==
    ASSUME IInv, NEW w \in Workers, HandsOver(w)
    PROVE  Unseen \/ \E u \in Urls : Finishes(u)
<1> USE DEF IInv
<1>1. /\ Known' = Known /\ verdict' = verdict /\ calm' = calm
      /\ Done \subseteq Done' /\ Done' \subseteq Done \cup {job[w]} /\ Done' \subseteq Known
  BY DEF HandsOver, Known, Done, DonePlaces, detectorVars, controlVars
<1>2. CASE Done' = Done
  BY <1>1, <1>2 DEF Unseen
<1>3. CASE Done' # Done
  <2>1. job[w] \in Known \ Done /\ Done' = Done \cup {job[w]}
    BY <1>1, <1>3
  <2>2. job[w] \in Urls
    BY <2>1 DEF Known
  <2> QED
    BY <1>1, <2>1, <2>2 DEF Finishes
<1> QED
  BY <1>2, <1>3

\* A batch of links comes from a page in progress, until the crawl is disturbed.
LEMMA LinksMap ==
    ASSUME IInv, calm, NEW w \in Workers, stage[w] = "enqueuing", EnqueueLinks(w),
           UNCHANGED <<detectorVars, controlVars>>
    PROVE  \E u \in Urls : DiscoversLinks(u)
<1> USE DEF IInv
<1>1. job[w] \in Urls /\ Holds(w, job[w]) /\ Outstanding # {}
  BY CalmOutstanding DEF Busy
<1>2. job[w] \in Known \ Done /\ verdict # "completed"
  BY <1>1 DEF Holds, Known, Done, DonePlaces, CalmVerdict, SaysComplete
<1>3. Known' = Known \cup Links[job[w]] /\ Done' = Done
  <2>1. /\ Links[job[w]] \in SUBSET Urls /\ payloadDepth[w] + 1 \in Nat
        /\ Enqueue(Links[job[w]], payloadDepth[w] + 1)
    BY <1>1, LinksAreUrls DEF TypeOK, EnqueueLinks
  <2> QED
    BY <2>1, EnqueueEffect DEF TypeOK
<1>4. DiscoversLinks(job[w])
  BY <1>2, <1>3 DEF DiscoversLinks, detectorVars, controlVars
<1> QED
  BY <1>1, <1>4

\* A verdict given to a calm crawl finds all that is known done.
LEMMA PollMaps ==
    ASSUME IInv, calm, PollStep
    PROVE  Unseen \/ Declares \/ NotOver
<1> USE DEF IInv
<1>1. Known' = Known /\ Done' = Done /\ calm' = calm
  BY DEF PollStep, Known, Done, queueVars, controlVars
<1>2. CASE WaitForCompletion \/ TickSkips \/ TickAsksQueue
  <2>1. verdict' = verdict
    BY <1>2 DEF WaitForCompletion, TickSkips, TickAsksQueue, TickAsks
  <2> QED
    BY <1>1, <2>1 DEF Unseen
<1>3. CASE TickFails
  <2>1. verdict = "none" /\ verdict' \in {"none", "aborted"}
    BY <1>3 DEF TickFails, PollOpen
  <2> QED
    BY <1>1, <2>1 DEF NotOver
<1>4. CASE TickSucceeds
  <2>1. verdict = "none" /\ poll = "answered"
        /\ (verdict' = "completed" => ~answer.pending /\ answer.done)
    BY <1>4 DEF TickSucceeds, Outcome, PollOpen
  <2>2. CASE verdict' = "completed"
    <3>1. Outstanding = {} /\ Known # {}
      BY <2>1, <2>2 DEF CalmVerdict, SaysComplete
    <3>2. Known = Done
      BY <3>1, KnownSplit DEF TypeOK
    <3> QED
      BY <1>1, <2>2, <3>1, <3>2 DEF Declares
  <2>3. CASE verdict' # "completed"
    BY <1>1, <2>1, <2>3 DEF NotOver
  <2> QED
    BY <2>2, <2>3
<1> QED
  BY <1>2, <1>3, <1>4 DEF PollStep

\* Seeds become known before the crawl is over, or are known already.
LEMMA SeedMaps ==
    ASSUME IInv, calm, SeedFrontier
    PROVE  Unseen \/ Promise!Next
<1> USE DEF IInv
<1>1. /\ Enqueue(Seeds, 0) /\ UNCHANGED <<detectorVars, controlVars>>
      /\ Seeds \in SUBSET Urls /\ 0 \in Nat
  BY CrawlAssumption DEF SeedFrontier
<1>2. Known' = Known \cup Seeds /\ Done' = Done /\ verdict' = verdict /\ calm' = calm
  BY <1>1, EnqueueEffect DEF TypeOK, detectorVars, controlVars
<1>3. CASE verdict = "completed"
  <2>1. Seeds \subseteq Known
    BY <1>3 DEF CalmVerdict, SaysComplete, CalmWorkers
  <2> QED
    BY <1>2, <2>1 DEF Unseen
<1>4. CASE verdict # "completed"
  BY <1>2, <1>4 DEF Promise!Next, Promise!Discover
<1> QED
  BY <1>3, <1>4

\* A worker does not calm the crawl.
LEMMA CalmStays ==
    ASSUME NEW w \in Workers, WorkerStep(w) \/ Close(w) \/ Crash(w)
    PROVE  calm' = calm
BY DEF WorkerStep, Take, FetchFails, Fetched, Enqueued, EnqueueFails, Complete, Fail, Start,
       Close, Crash, controlVars

\* Every step maps to a step of the promise, or to none.
LEMMA StepRefines == IInv /\ [Next]_vars => [Promise!Next]_(Promise!crawlVars)
<1> SUFFICES ASSUME IInv, [Next]_vars, ~UNCHANGED (Promise!crawlVars) PROVE Promise!Next
  OBVIOUS
<1> USE DEF Promise!crawlVars
<1>0. CASE ~calm'
  BY <1>0 DEF Promise!Next
<1>1. ASSUME calm', NEW w \in Workers, WorkerStep(w) \/ Close(w) \/ Crash(w)
      PROVE  Promise!Next
  <2>0. calm
    BY <1>1, CalmStays
  <2>1. CASE Take(w) \/ Complete(w) \/ Fail(w)
    <3>1. HandsOver(w)
      BY <2>1, TakeSafe, CompleteSafe, FailSafe
    <3> QED
      BY <3>1, HandsOverMaps, UnseenRefines, FinishesRefines
  <2>2. CASE UNCHANGED <<queueVars, detectorVars, controlVars>>
    BY <2>2 DEF queueVars, detectorVars, controlVars, Known, Done
  <2>3. ASSUME stage[w] = "enqueuing", EnqueueLinks(w), UNCHANGED <<detectorVars, controlVars>>
        PROVE  Promise!Next
    BY <2>0, <2>3, LinksMap, DiscoversRefines
  <2>4. CASE FetchFails(w) \/ Fetched(w) \/ Start(w) \/ Close(w)
    BY <2>2, <2>4 DEF FetchFails, Fetched, Start, Close
  <2>5. CASE Enqueued(w) \/ EnqueueFails(w) \/ Crash(w)
    BY <2>2, <2>3, <2>5 DEF Enqueued, EnqueueFails, Crash
  <2> QED
    BY <1>1, <2>1, <2>4, <2>5 DEF WorkerStep
<1>2. ASSUME calm', NEW u \in Urls, StallAbandoned(u) \/ LoseLock(u) PROVE Promise!Next
  <2>1. /\ place[u] = "active" /\ place'[u] \in {"waiting", "failed"}
        /\ \A v \in Urls \ {u} : place'[v] = place[v]
        /\ Known' = Known
    BY <1>2, StallEffect DEF StallAbandoned, LoseLock
  <2>2. verdict' = verdict /\ calm' = calm
    BY <1>2 DEF StallAbandoned, LoseLock, Intervene, detectorVars, controlVars
  <2>3. CASE place'[u] = "failed"
    <3>1. Finishes(u)
      BY <2>1, <2>2, <2>3 DEF Finishes, Known, Done, DonePlaces
    <3> QED
      BY <3>1, FinishesRefines
  <2>4. CASE place'[u] = "waiting"
    <3>1. Unseen
      BY <2>1, <2>2, <2>4 DEF Unseen, Done, DonePlaces
    <3> QED
      BY <3>1, UnseenRefines
  <2> QED
    BY <2>1, <2>3, <2>4
<1>3. CASE SeedFrontier /\ calm'
  <2>1. calm
    BY <1>3 DEF SeedFrontier, controlVars
  <2> QED
    BY <1>3, <2>1, SeedMaps, UnseenRefines
<1>4. CASE Pause \/ Resume \/ Cancel \/ CancelDone \/ CancelFailed
  BY <1>0, <1>4, ControlSafe
<1>5. CASE PollStep /\ calm'
  <2>1. calm
    BY <1>5 DEF PollStep, controlVars
  <2>2. CASE NotOver
    BY <2>2 DEF NotOver
  <2>3. CASE Declares
    BY <2>3 DEF Declares, Promise!Next, Promise!DeclareOver
  <2> QED
    BY <1>5, <2>1, <2>2, <2>3, PollMaps, UnseenRefines
<1>6. CASE UNCHANGED vars
  BY <1>6 DEF vars, queueVars, detectorVars, controlVars, Known, Done
<1> QED
  BY <1>0, <1>1, <1>2, <1>3, <1>4, <1>5, <1>6 DEF Next

\* The crawl keeps its promise: URLs become known from the seeds and from the links
\* of pages in progress, each is done once, and the verdict "completed" is given
\* when all that is known is done, after which nothing becomes known (REQ-DIST-012).
THEOREM PromiseKept == Spec => KeepsPromise
<1>1. Init => Promise!Init
  BY DEF Init, QueueInit, DetectorInit, Promise!Init, Known, Done, DonePlaces
<1>2. IInv /\ [Next]_vars => [Promise!Next]_(Promise!crawlVars)
  BY StepRefines
<1> QED
  BY <1>1, <1>2, InductiveInvariant, PTL DEF Spec, KeepsPromise, Promise!Spec
===========================================================================
