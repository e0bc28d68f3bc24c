---------------------------- MODULE CrawlSystem -----------------------------
(***************************************************************************)
(* A crawl: workers that take jobs from the queue and run the pipeline       *)
(* validate -> fetch -> discover -> enqueue on them (worker-processor.ts,    *)
(* crawl-pipeline, and the processor callback of main.ts), the coordinator   *)
(* that polls for completion, and the control plane that pauses, resumes and *)
(* cancels.                                                                *)
(***************************************************************************)
EXTENDS JobQueue, CompletionDetector

CONSTANTS
    Seeds,              \* the seed URLs
    MaxDepth,           \* maxDepth of the pipeline
    AllowedUrls,        \* the URLs whose domain is in its allowedDomains
    Html,               \* the pages whose content type begins with text/html
    FinalUrl,           \* [URL -> where its redirects end, NoUrl: no CrawlUrl, or itself]
    Hrefs,              \* [URL -> what the extractor finds in its body: {} if it throws]
    Absolute,           \* [<<base, href>> -> the normalized URL, NoUrl: to be skipped]
    NoUrl,
    NoJob,              \* the job of a worker that has none
    Budget              \* bound on the faults (cost 1) and the interventions (cost 2)

ASSUME CrawlAssumption ==
    /\ Seeds \in SUBSET Urls
    /\ MaxDepth \in Nat
    /\ NoJob \notin Urls
    /\ Budget \in Nat

ASSUME SiteAssumption ==
    /\ AllowedUrls \in SUBSET Urls /\ Html \in SUBSET Urls /\ NoUrl \notin Urls
    /\ FinalUrl \in [Urls -> Urls \cup {NoUrl}]
    /\ \A base, u \in Urls : \A href \in Hrefs[u] :
           Absolute[base, href] \in Urls \cup {NoUrl}

VARIABLES
    stage,          \* where each worker is in the pipeline
    job,            \* the job it works on
    payloadDepth,   \* the depth in the payload it was given
    closing,        \* is the worker draining
    result,         \* the last result a job's page was processed with
    cancelling,     \* the control plane's cancel operation
    calm,           \* no pause, no cancel, no lock lost by a live worker so far
    budget          \* what is left of Budget

workerVars == <<stage, job, payloadDepth, closing, result>>
controlVars == <<cancelling, calm>>
vars == <<queueVars, detectorVars, workerVars, controlVars, budget>>

Stages == {"down", "idle", "fetching", "enqueuing", "resolved", "rejected"}

TypeOK ==
    /\ QueueTypeOK
    /\ DetectorTypeOK
    /\ stage \in [Workers -> Stages]
    /\ job \in [Workers -> Urls \cup {NoJob}]
    /\ payloadDepth \in [Workers -> Nat]
    /\ closing \in [Workers -> BOOLEAN]
    /\ result \in [Urls -> {"none", "success", "pipelineError"}]
    /\ cancelling \in {"no", "pausing", "done", "failed"}
    /\ calm \in BOOLEAN
    /\ budget \in 0 .. Budget

Init ==
    /\ QueueInit
    /\ DetectorInit
    /\ stage = [w \in Workers |-> "idle"]
    /\ job = [w \in Workers |-> NoJob]
    /\ payloadDepth = [w \in Workers |-> 0]
    /\ closing = [w \in Workers |-> FALSE]
    /\ result = [u \in Urls |-> "none"]
    /\ cancelling = "no"
    /\ calm = TRUE
    /\ budget = Budget

--------------------------------------------------------------------------
\* A worker closed or killed, a queue error
Fault == budget >= 1 /\ budget' = budget - 1
\* A pause, a cancel, a lock lost by a live worker
Intervene == budget >= 2 /\ budget' = budget - 2 /\ calm' = FALSE

--------------------------------------------------------------------------
(* Taking and ending jobs.                                                 *)

Rest(w, places, locks) ==
    /\ place' = places
    /\ lock' = locks
    /\ stage' = [stage EXCEPT ![w] = IF closing[w] THEN "down" ELSE "idle"]
    /\ job' = [job EXCEPT ![w] = NoJob]
    /\ payloadDepth' = [payloadDepth EXCEPT ![w] = 0]
    /\ UNCHANGED result

\* validateEntry: an entry may be too deep, or its domain not allowed.
Valid(u) == depth[u] <= MaxDepth /\ u \in AllowedUrls

\* The worker begins with a job it has just locked.  validateEntry runs before
\* any await: an entry it rejects is resolved as a pipeline error.
Begin(w, u, places, locks) ==
    /\ place' = [places EXCEPT ![u] = "active"]
    /\ lock' = [locks EXCEPT ![u] = w]
    /\ job' = [job EXCEPT ![w] = u]
    /\ payloadDepth' = [payloadDepth EXCEPT ![w] = depth[u]]
    /\ IF Valid(u)
       THEN /\ stage' = [stage EXCEPT ![w] = "fetching"]
            /\ UNCHANGED result
       ELSE /\ stage' = [stage EXCEPT ![w] = "resolved"]
            /\ result' = [result EXCEPT ![u] = "pipelineError"]

\* Delayed jobs that are due are promoted in the script that pops the next.
TakeFrom(w, places, locks) ==
    \E due \in SUBSET {v \in Urls : places[v] = "delayed"} :
        \E u \in Poppable(Promoted(places, due)) :
            Begin(w, u, Promoted(places, due), locks)

Take(w) ==
    /\ stage[w] = "idle" /\ ~closing[w] /\ ~paused
    /\ TakeFrom(w, place, lock)
    /\ UNCHANGED <<depth, attempts, stalls, paused, detectorVars, closing,
                   controlVars, budget>>

\* The processor's promise resolved: the job is completed, and the same script
\* pops the next one unless the worker is closing or the queue is paused.
Complete(w) ==
    LET places == Finished(w, job[w], "completed")
        locks == Unlocked(w, job[w])
    IN  /\ stage[w] = "resolved"
        /\ \/ Rest(w, places, locks)
              /\ \/ closing[w] \/ paused
                 \/ Poppable(places) = {}
                 \/ ~Holds(w, job[w])
           \/ ~closing[w] /\ ~paused /\ Holds(w, job[w]) /\ TakeFrom(w, places, locks)
        /\ UNCHANGED <<depth, attempts, stalls, paused, detectorVars, closing,
                       controlVars, budget>>

\* The processor threw: the job is retried after a delay, or has failed.
Fail(w) ==
    LET u == job[w]
        retry == attempts[u] + 1 < MaxAttempts
    IN  /\ stage[w] = "rejected"
        /\ Rest(w, Finished(w, u, IF retry THEN "delayed" ELSE "failed"), Unlocked(w, u))
        /\ attempts' = IF Holds(w, u) THEN [attempts EXCEPT ![u] = @ + 1] ELSE attempts
        /\ UNCHANGED <<depth, stalls, paused, detectorVars, closing, controlVars, budget>>

--------------------------------------------------------------------------
(* processJob and executePipeline between two awaits.                      *)

Resolve(w, res) ==
    /\ stage' = [stage EXCEPT ![w] = "resolved"]
    /\ result' = [result EXCEPT ![job[w]] = res]
    /\ UNCHANGED <<job, payloadDepth, closing>>

\* The fetch failed: a pipeline error, which the processor does not rethrow.
FetchFails(w) ==
    /\ stage[w] = "fetching"
    /\ Resolve(w, "pipelineError")
    /\ UNCHANGED <<queueVars, detectorVars, controlVars, budget>>

\* mapFetchResult: links are relative to the URL after redirects.
Base(u) == IF FinalUrl[u] = NoUrl THEN u ELSE FinalUrl[u]

\* discoverLinks, for each page: hrefs that are malformed, too long or of another
\* scheme are skipped, and those that normalize to one URL are one link.
Links ==
    [u \in Urls |-> IF u \in Html
                    THEN {Absolute[Base(u), href] : href \in Hrefs[u]} \ {NoUrl}
                    ELSE {}]

\* The page is here and its links are discovered; no links, no enqueue.
Fetched(w) ==
    /\ stage[w] = "fetching"
    /\ IF Links[job[w]] = {}
       THEN Resolve(w, "success")
       ELSE /\ stage' = [stage EXCEPT ![w] = "enqueuing"]
            /\ UNCHANGED <<job, payloadDepth, closing, result>>
    /\ UNCHANGED <<queueVars, detectorVars, controlVars, budget>>

EnqueueLinks(w) == Enqueue(Links[job[w]], payloadDepth[w] + 1)

Enqueued(w) ==
    /\ stage[w] = "enqueuing"
    /\ EnqueueLinks(w)
    /\ Resolve(w, "success")
    /\ UNCHANGED <<detectorVars, controlVars, budget>>

\* Mutant of EnqueueFails: the queue error is counted, and not rethrown.
EnqueueFailsQuietly(w) ==
    /\ stage[w] = "enqueuing"
    /\ Fault
    /\ Resolve(w, "success")
    /\ \/ EnqueueLinks(w)
       \/ UNCHANGED queueVars
    /\ UNCHANGED <<detectorVars, controlVars>>

\* addBulk failed, before the queue applied it or after: a queue error, which
\* the processor rethrows.
EnqueueFails(w) ==
    /\ stage[w] = "enqueuing"
    /\ Fault
    /\ stage' = [stage EXCEPT ![w] = "rejected"]
    /\ \/ EnqueueLinks(w)
       \/ UNCHANGED queueVars
    /\ UNCHANGED <<job, payloadDepth, closing, result, detectorVars, controlVars>>

--------------------------------------------------------------------------
(* Worker processes.                                                       *)

Start(w) ==
    /\ stage[w] = "down"
    /\ stage' = [stage EXCEPT ![w] = "idle"]
    /\ closing' = [closing EXCEPT ![w] = FALSE]
    /\ UNCHANGED <<job, payloadDepth, result, queueVars, detectorVars, controlVars, budget>>

\* main seeds the frontier after the worker has started; a seed the queue knows
\* is discarded.  A failure is logged, and not retried.
SeedFrontier ==
    /\ \E w \in Workers : stage[w] # "down"
    /\ Enqueue(Seeds, 0)
    /\ UNCHANGED <<detectorVars, workerVars, controlVars, budget>>

\* jobConsumer.close(timeout): the job in progress is the last one.
Close(w) ==
    /\ Fault
    /\ stage[w] # "down" /\ ~closing[w]
    /\ closing' = [closing EXCEPT ![w] = TRUE]
    /\ stage' = [stage EXCEPT ![w] = IF @ = "idle" THEN "down" ELSE @]
    /\ UNCHANGED <<job, payloadDepth, result, queueVars, detectorVars, controlVars>>

\* The process dies with its job locked; a batch it was sending may arrive.
Crash(w) ==
    /\ Fault
    /\ job[w] # NoJob
    /\ \/ stage[w] = "enqueuing" /\ EnqueueLinks(w)
       \/ UNCHANGED queueVars
    /\ stage' = [stage EXCEPT ![w] = "down"]
    /\ job' = [job EXCEPT ![w] = NoJob]
    /\ payloadDepth' = [payloadDepth EXCEPT ![w] = 0]
    /\ UNCHANGED <<closing, result, detectorVars, controlVars>>

\* The lock of a dead worker's job runs out.
Abandoned(u) == place[u] = "active" /\ job[lock[u]] # u

StallAbandoned(u) ==
    /\ Abandoned(u)
    /\ Stall(u)
    /\ UNCHANGED <<detectorVars, workerVars, controlVars, budget>>

\* A live worker fails to renew its lock in time and works on without it.
LoseLock(u) ==
    /\ Intervene
    /\ Stall(u)
    /\ ~Abandoned(u)
    /\ UNCHANGED <<detectorVars, workerVars, cancelling>>

--------------------------------------------------------------------------
(* control-plane-adapter.ts                                                *)

Pause ==
    /\ Intervene
    /\ ~paused /\ paused' = TRUE
    /\ UNCHANGED <<place, depth, attempts, stalls, lock, detectorVars, workerVars,
                   cancelling>>

Resume ==
    /\ paused /\ paused' = FALSE
    /\ UNCHANGED <<place, depth, attempts, stalls, lock, detectorVars, workerVars,
                   controlVars, budget>>

\* The first cancel raises the flag; obliterate begins by pausing the queue.
\* Later calls share the promise of the first, a failed one too.
Cancel ==
    /\ cancelling = "no"
    /\ Intervene
    /\ cancelling' = "pausing"
    /\ paused' = TRUE
    /\ UNCHANGED <<place, depth, attempts, stalls, lock, detectorVars, workerVars>>

CancelDone ==
    /\ cancelling = "pausing" /\ paused
    /\ cancelling' = "done"
    /\ Obliterate
    /\ UNCHANGED <<detectorVars, workerVars, calm, budget>>

\* The queue refuses to obliterate when it was resumed meanwhile, or the call fails.
CancelFailed ==
    /\ cancelling = "pausing"
    /\ cancelling' = "failed"
    /\ UNCHANGED <<queueVars, detectorVars, workerVars, calm, budget>>

Cancelled == cancelling # "no"

\* deriveState, on the counts of one query
DeriveState ==
    LET counts == JobCounts
        pending == counts.waiting + counts.active + counts.delayed
        done == counts.completed + counts.failed
    IN  CASE Cancelled -> "cancelled"
          [] ~Cancelled /\ counts.paused > 0 -> "paused"
          [] ~Cancelled /\ counts.paused = 0 /\ pending = 0 /\ done > 0 -> "completed"
          [] ~Cancelled /\ counts.paused = 0 /\ pending = 0 /\ done = 0 -> "idle"
          [] OTHER -> "running"

--------------------------------------------------------------------------
(* The coordinator's poll loop against this queue.  The counts function is  *)
(* injected; pending is waiting, active, delayed and prioritized, and leaves *)
(* the wait list of a paused queue out.                                     *)

\* Mutant of Pending: the categories the control plane sums up.
PendingWithoutPrioritized == {u \in Urls : place[u] \in {"waiting", "active", "delayed"}}

Pending == {u \in Outstanding : ~(paused /\ place[u] = "waiting")}

TickAsksQueue == TickAsks(Pending # {}, Done # {})

PollStep ==
    /\ \/ WaitForCompletion \/ TickSkips \/ TickAsksQueue
       \/ TickFails \/ TickSucceeds
    /\ UNCHANGED <<queueVars, workerVars, controlVars, budget>>

--------------------------------------------------------------------------
WorkerStep(w) ==
    \/ Take(w) \/ FetchFails(w) \/ Fetched(w) \/ Enqueued(w) \/ EnqueueFails(w)
    \/ Complete(w) \/ Fail(w) \/ Start(w)

Next ==
    \/ \E w \in Workers : WorkerStep(w) \/ Close(w) \/ Crash(w)
    \/ \E u \in Urls : StallAbandoned(u) \/ LoseLock(u)
    \/ SeedFrontier
    \/ Pause \/ Resume \/ Cancel \/ CancelDone \/ CancelFailed
    \/ PollStep

\* Workers and the poll loop run on, stalled jobs are found, a call to the queue
\* ends.  Nobody has to seed, to pause or to resume.
Fairness ==
    /\ \A w \in Workers : WF_vars(WorkerStep(w))
    /\ \A u \in Urls : WF_vars(StallAbandoned(u))
    /\ WF_vars(CancelDone \/ CancelFailed)
    /\ WF_vars(PollStep)

Spec == Init /\ [][Next]_vars
FairSpec == Spec /\ Fairness

--------------------------------------------------------------------------
(* Properties                                                              *)

\* REQ-CRAWL-005 and 015: when a page counts as crawled, every link discovered on
\* it is a job of the queue, through queue errors, retries, stalls, workers that
\* process the same page twice, and crashes; only a cancel takes jobs away.
NoLinkLost ==
    ~Cancelled =>
        \A u \in Urls : result[u] = "success" => Links[u] \subseteq Known

\* REQ-DIST-012: the verdict "completed" is right when it is given, although the
\* counts it rests on were read earlier, and stays right.  This, that URLs are
\* crawled once, and that they come from seeds and links, is what Crawl says.
Promise == INSTANCE Crawl WITH known <- Known, done <- Done,
                              over <- verdict = "completed"
KeepsPromise == Promise!Spec

\* REQ-DIST-012, 013 and 015: the coordinator's wait ends, unless the queue stays
\* paused: no job is left for ever with a worker that died, in a delay or in a
\* backoff, and no two workers wait on each other.
VerdictReached == poll # "off" ~> (poll = "settled" \/ paused)

\* REQ-DIST-012 and 017: the state the control plane reports is completed only
\* when nothing is pending: waiting, active, delayed or prioritized.
CompletedStateIsDone == DeriveState = "completed" => Outstanding = {}
===========================================================================
