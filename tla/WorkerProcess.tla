--------------------------- MODULE WorkerProcess ----------------------------
(***************************************************************************)
(* A worker process made of the parts that the packages worker-management,   *)
(* job-queue and core offer for it: the job consumer adapter with its         *)
(* utilization tracker, the metrics reporter that corrects the tracker, and    *)
(* the dead-letter queue, under one composition root. main.ts does not wire    *)
(* them yet; the factories here are in the order of their dependencies.        *)
(*                                                                         *)
(* The queue is BullMQ's: a job whose lock runs out is given back while its    *)
(* processor goes on here (a ghost), and the check that finds it, and emits     *)
(* stalled, runs in any worker of the queue.                                 *)
(***************************************************************************)
EXTENDS CompositionRoot, FiniteSets

CONSTANTS
    Jobs,
    Ticks,             \* the reporter's ticks that may wait for an answer at a time
    Dlq, Adapter, Reporter,
    MaxConcurrency,
    MaxAttempts,
    MaxStalls          \* maxStalledCount

ASSUME WorkerConfig ==
    /\ Entries = <<Dlq, Adapter, Reporter>>
    /\ MaxConcurrency \in Nat \ {0} /\ MaxAttempts \in Nat \ {0} /\ MaxStalls \in Nat
    /\ IsFiniteSet(Jobs)

VARIABLES
    adapter,           \* the adapter's _state
    consumer,          \* the worker of the consumer: "draining" while close waits
    listening,         \* the event source is open
    place,             \* where each job is
    ghosts,            \* jobs that were given back while their processor runs here
    failures, stalls,  \* failed attempts, and lost locks, of a job
    activeJobs,        \* the tracker's counter
    flight,            \* the active count a tick has asked for: None, then a number
    letter,            \* the latest moveToDeadLetter of a job
    dlq,               \* the jobs in the dead-letter queue
    alerted,           \* the jobs onDeadLetter was called for
    disturbed          \* ghost: a lock was lost or the counter was reset

jobVars == <<place, ghosts, failures, stalls>>
dlqVars == <<letter, dlq, alerted>>
vars == <<rootVars, adapter, consumer, listening, jobVars, activeJobs, flight, dlqVars, disturbed>>

Idle == -2
Asked == -1

TypeOK ==
    /\ RootTypeOK
    /\ adapter \in {"created", "started", "closed"}
    /\ consumer \in {"idle", "running", "draining", "off"}
    /\ listening \in BOOLEAN
    /\ place \in [Jobs -> {"waiting", "here", "elsewhere", "completed", "failed"}]
    /\ ghosts \subseteq Jobs
    /\ failures \in [Jobs -> 0 .. MaxAttempts]
    /\ stalls \in [Jobs -> 0 .. MaxStalls + 1]
    /\ activeJobs \in Nat
    /\ flight \in [Ticks -> {Idle, Asked} \cup Nat]
    /\ letter \in [Jobs -> {"none", "adding", "ok", "err"}]
    /\ dlq \subseteq Jobs /\ alerted \subseteq Jobs
    /\ disturbed \in BOOLEAN

Init ==
    /\ RootInit
    /\ adapter = "closed" /\ consumer = "off" /\ listening = FALSE
    /\ place = [j \in Jobs |-> "waiting"]
    /\ ghosts = {}
    /\ failures = [j \in Jobs |-> 0]
    /\ stalls = [j \in Jobs |-> 0]
    /\ activeJobs = 0
    /\ flight = [t \in Ticks |-> Idle]
    /\ letter = [j \in Jobs |-> "none"]
    /\ dlq = {} /\ alerted = {}
    /\ disturbed = FALSE

Here == {j \in Jobs : place[j] = "here"}
ActiveCount == Cardinality({j \in Jobs : place[j] \in {"here", "elsewhere"}})

--------------------------------------------------------------------------
(* The root makes the parts: the adapter with its listeners, the reporter     *)
(* with its timer.                                                         *)

Wire ==
    /\ CreateRoot
    /\ adapter' = IF cursor' >= 2 THEN "created" ELSE adapter
    /\ consumer' = IF cursor' >= 2 THEN "idle" ELSE consumer
    /\ listening' = (cursor' >= 2)
    /\ activeJobs' = 0 /\ disturbed' = FALSE
    /\ UNCHANGED <<jobVars, flight, dlqVars>>

\* start(): the worker runs from here on, even if waiting for its connection fails.
StartAdapter ==
    /\ adapter = "created" /\ phase \in {"up", "closing"}
    /\ adapter' = "started" /\ consumer' = "running"
    /\ UNCHANGED <<rootVars, listening, jobVars, activeJobs, flight, dlqVars, disturbed>>

Shutdown ==
    /\ ShutdownRoot
    /\ UNCHANGED <<adapter, consumer, listening, jobVars, activeJobs, flight, dlqVars, disturbed>>

\* stop() clears the reporter's timer; the ticks under way go on.
CloseOther(e) ==
    /\ e # Adapter /\ EntryClosed(e)
    /\ UNCHANGED <<adapter, consumer, listening, jobVars, activeJobs, flight, dlqVars, disturbed>>

CloseAdapter ==
    /\ Closing(Adapter) /\ adapter # "closed"
    /\ adapter' = "closed"
    /\ consumer' = IF consumer = "running" THEN "draining" ELSE "off"
    /\ UNCHANGED <<rootVars, listening, jobVars, activeJobs, flight, dlqVars, disturbed>>

\* Mutant: close waits until the tracker has seen every job end.
DrainedByCount ==
    /\ consumer = "draining" /\ activeJobs = 0
    /\ consumer' = "off"
    /\ UNCHANGED <<rootVars, adapter, listening, jobVars, activeJobs, flight, dlqVars, disturbed>>

\* worker.close() waits for the processors, those of ghosts included.
Drained ==
    /\ consumer = "draining" /\ Here \cup ghosts = {}
    /\ consumer' = "off"
    /\ UNCHANGED <<rootVars, adapter, listening, jobVars, activeJobs, flight, dlqVars, disturbed>>

\* close waits for the consumer and then closes the event source. BullMQ's two closes are
\* taken not to reject: a rejection of the first would skip the second (:85-86), and the
\* root would swallow it and close the next entry (composition-root.ts:76-80).
AdapterClosed ==
    /\ adapter = "closed" /\ consumer = "off" /\ EntryClosed(Adapter)
    /\ listening' = FALSE
    /\ UNCHANGED <<adapter, consumer, jobVars, activeJobs, flight, dlqVars, disturbed>>

--------------------------------------------------------------------------
(* Jobs, and the listeners of the adapter.                                   *)

\* Mutant: the counter has no floor.
OneLessUnguarded == activeJobs - 1

OneLess == IF activeJobs = 0 THEN 0 ELSE activeJobs - 1

OnActive == activeJobs' = IF listening THEN activeJobs + 1 ELSE activeJobs
OnEnd == activeJobs' = IF listening THEN OneLess ELSE activeJobs

\* A worker takes a job it does not still run as a ghost.
Take(j) ==
    /\ consumer = "running" /\ Cardinality(Here \cup ghosts) < MaxConcurrency
    /\ place[j] = "waiting" /\ j \notin ghosts
    /\ place' = [place EXCEPT ![j] = "here"]
    /\ OnActive
    /\ UNCHANGED <<rootVars, adapter, consumer, listening, ghosts, failures, stalls, flight,
                   dlqVars, disturbed>>

\* The attempt of a job ends: completed, or failed and waiting again unless it was the last.
Ended(j) ==
    \/ place' = [place EXCEPT ![j] = "completed"] /\ UNCHANGED failures
    \/ /\ failures' = [failures EXCEPT ![j] = @ + 1]
       /\ place' = [place EXCEPT ![j] = IF failures[j] + 1 < MaxAttempts THEN "waiting"
                                        ELSE "failed"]

\* Mutant: a failed job is not subtracted.
JobEndsUncounted(j) ==
    /\ place[j] = "here"
    /\ Ended(j)
    /\ IF place'[j] = "completed" THEN OnEnd ELSE UNCHANGED activeJobs
    /\ UNCHANGED <<rootVars, adapter, consumer, listening, ghosts, stalls, flight, dlqVars, disturbed>>

JobEnds(j) ==
    /\ place[j] = "here"
    /\ Ended(j)
    /\ OnEnd
    /\ UNCHANGED <<rootVars, adapter, consumer, listening, ghosts, stalls, flight, dlqVars, disturbed>>

\* Another worker takes a job, or ends it.
OthersWork(j) ==
    /\ \/ /\ place[j] = "waiting"
          /\ place' = [place EXCEPT ![j] = "elsewhere"] /\ UNCHANGED failures
       \/ place[j] = "elsewhere" /\ Ended(j)
    /\ UNCHANGED <<rootVars, adapter, consumer, listening, ghosts, stalls, activeJobs, flight,
                   dlqVars, disturbed>>

\* A lock runs out; the check that finds it may be this worker's.
Stall(j) ==
    /\ place[j] \in {"here", "elsewhere"} /\ stalls[j] <= MaxStalls
    /\ stalls' = [stalls EXCEPT ![j] = @ + 1]
    /\ place' = [place EXCEPT ![j] = IF stalls[j] < MaxStalls THEN "waiting" ELSE "failed"]
    /\ ghosts' = IF place[j] = "here" THEN ghosts \cup {j} ELSE ghosts
    /\ \/ UNCHANGED activeJobs
       \/ consumer \in {"running", "draining"} /\ OnEnd
    /\ disturbed' = TRUE
    /\ UNCHANGED <<rootVars, adapter, consumer, listening, failures, flight, dlqVars>>

\* The processor of a ghost ends; whether the worker says so is up to its version.
GhostEnds(j) ==
    /\ j \in ghosts
    /\ ghosts' = ghosts \ {j}
    /\ UNCHANGED activeJobs \/ OnEnd
    /\ UNCHANGED <<rootVars, adapter, consumer, listening, place, failures, stalls, flight,
                   dlqVars, disturbed>>

--------------------------------------------------------------------------
(* A tick of the reporter that finds more jobs than there are slots.          *)

Tick(t) ==
    /\ Reporter \in Open /\ flight[t] = Idle /\ activeJobs > MaxConcurrency
    /\ flight' = [flight EXCEPT ![t] = Asked]
    /\ UNCHANGED <<rootVars, adapter, consumer, listening, jobVars, activeJobs, dlqVars, disturbed>>

\* The active jobs of the queue, at all of its workers.
GetActiveCount(t) ==
    /\ flight[t] = Asked
    /\ flight' = [flight EXCEPT ![t] = ActiveCount]
    /\ UNCHANGED <<rootVars, adapter, consumer, listening, jobVars, activeJobs, dlqVars, disturbed>>

\* By the time the answer is there, it may be stale.
Reset(t) ==
    /\ flight[t] >= 0
    /\ activeJobs' = flight[t] /\ disturbed' = TRUE
    /\ flight' = [flight EXCEPT ![t] = Idle]
    /\ UNCHANGED <<rootVars, adapter, consumer, listening, jobVars, dlqVars>>

--------------------------------------------------------------------------
(* The dead-letter queue.                                                   *)

\* Whoever hears of a job's last failure moves it, again after an error.
MoveToDeadLetter(j) ==
    /\ place[j] = "failed" /\ letter[j] \in {"none", "err"} /\ Dlq \in Open
    /\ letter' = [letter EXCEPT ![j] = "adding"]
    /\ UNCHANGED <<rootVars, adapter, consumer, listening, jobVars, activeJobs, flight, dlq,
                   alerted, disturbed>>

\* Mutant: the alert is sent before the job is added.
DeadLetterAlertedFirst(j) ==
    /\ letter[j] = "adding" /\ alerted' = alerted \cup {j}
    /\ \/ dlq' = dlq \cup {j} /\ letter' = [letter EXCEPT ![j] = "ok"]
       \/ UNCHANGED dlq /\ letter' = [letter EXCEPT ![j] = "err"]
    /\ UNCHANGED <<rootVars, adapter, consumer, listening, jobVars, activeJobs, flight, disturbed>>

\* add is one call with the id dlq-<job>: a job that is there already is kept. Its reply
\* may be lost; and the alert's handler may throw.
DeadLetter(j) ==
    /\ letter[j] = "adding"
    /\ \/ /\ dlq' = dlq \cup {j} /\ alerted' = alerted \cup {j}
          /\ \E r \in {"ok", "err"} : letter' = [letter EXCEPT ![j] = r]
       \/ /\ dlq' \in {dlq, dlq \cup {j}} /\ UNCHANGED alerted
          /\ letter' = [letter EXCEPT ![j] = "err"]
    /\ UNCHANGED <<rootVars, adapter, consumer, listening, jobVars, activeJobs, flight, disturbed>>

--------------------------------------------------------------------------
Closes == CloseAdapter \/ Drained \/ AdapterClosed \/ \E e \in {Dlq, Reporter} : CloseOther(e)

Next ==
    \/ Wire \/ StartAdapter \/ Shutdown \/ Closes
    \/ \E j \in Jobs :
          \/ Take(j) \/ JobEnds(j) \/ OthersWork(j) \/ Stall(j) \/ GhostEnds(j)
          \/ MoveToDeadLetter(j) \/ DeadLetter(j)
    \/ \E t \in Ticks : Tick(t) \/ GetActiveCount(t) \/ Reset(t)

\* Processors end, within the pipeline's timeouts, and so do the entries' closes.
Spec ==
    /\ Init /\ [][Next]_vars
    /\ WF_vars(Closes)
    /\ \A j \in Jobs : WF_vars(JobEnds(j)) /\ WF_vars(GhostEnds(j))

--------------------------------------------------------------------------
\* The counter is the number of jobs that run here, from the first to the last, through
\* failures, retries and the drain of a shutdown, until a lock is lost or it is reset
\* (REQ-DIST-011): no event comes before its listener or after the source is closed.
CounterExact == ~disturbed => activeJobs = Cardinality(Here)

\* As long as a processor runs here, its end is heard and its failure can be moved to the
\* dead-letter queue; and where there is no root, after a failed start too, nothing is left.
ServedToTheEnd ==
    /\ Here \cup ghosts # {} => listening /\ Dlq \in Open
    /\ ~initialized => Open = {} /\ ~listening /\ consumer \in {"idle", "off"}

\* Only jobs that have failed for good are dead letters; an alert is about a job that is
\* in the dead-letter queue, and who was told ok has had the alert sent.
AlertMeansKept ==
    \A j \in Jobs :
        /\ j \in dlq => place[j] = "failed"
        /\ j \in alerted => j \in dlq
        /\ letter[j] = "ok" => j \in alerted

\* A shutdown comes to its end, also when the counter is wrong.
ShutdownEnds == phase = "closing" ~> phase = "closed"
===========================================================================
