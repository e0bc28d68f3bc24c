------------------------------ MODULE JobQueue ------------------------------
(***************************************************************************)
(* The job queue of a crawl as the packages job-queue and url-frontier use  *)
(* it: one BullMQ queue whose jobs are keyed by URL (the job id is a hash   *)
(* of the normalized URL, so a URL is added at most once), with a wait list *)
(* for priority 0 and a prioritized set ordered by depth for the rest.      *)
(*                                                                         *)
(* Jobs that are there to be popped are in `place`; a job in progress is    *)
(* active and names the worker that holds its lock.  Every operator here is *)
(* one atomic script of the queue.                                          *)
(***************************************************************************)
EXTENDS Naturals, FiniteSets

CONSTANTS
    Urls,           \* normalized URLs
    Workers,        \* worker slots that process jobs
    NoWorker,       \* the lock of a job that nobody processes
    MaxAttempts,    \* attempts of a job, from the frontier's retry configuration
    MaxStalls       \* times a job may stall before the queue fails it

ASSUME QueueAssumption ==
    /\ NoWorker \notin Workers
    /\ MaxAttempts \in Nat \ {0}
    /\ MaxStalls \in Nat

VARIABLES
    place,      \* the list, set or state of the queue each job is in
    depth,      \* the depth a job carries in its payload and as its priority
    attempts,   \* failed attempts of a job
    stalls,     \* times a job was found without its lock
    lock,       \* the worker that holds the lock of a job
    paused      \* is the queue paused; its wait list is then the paused list

queueVars == <<place, depth, attempts, stalls, lock, paused>>

PendingPlaces == {"waiting", "prioritized", "active", "delayed"}
DonePlaces == {"completed", "failed"}

QueueTypeOK ==
    /\ place \in [Urls -> PendingPlaces \cup DonePlaces \cup {"absent"}]
    /\ depth \in [Urls -> Nat]
    /\ attempts \in [Urls -> 0 .. MaxAttempts]
    /\ stalls \in [Urls -> 0 .. MaxStalls + 1]
    /\ lock \in [Urls -> Workers \cup {NoWorker}]
    /\ paused \in BOOLEAN

QueueInit ==
    /\ place = [u \in Urls |-> "absent"]
    /\ depth = [u \in Urls |-> 0]
    /\ attempts = [u \in Urls |-> 0]
    /\ stalls = [u \in Urls |-> 0]
    /\ lock = [u \in Urls |-> NoWorker]
    /\ paused = FALSE

Known == {u \in Urls : place[u] # "absent"}
Outstanding == {u \in Urls : place[u] \in PendingPlaces}
Done == {u \in Urls : place[u] \in DonePlaces}

--------------------------------------------------------------------------
\* depthToPriority(d) = d, and a job of priority 0 goes to the wait list.
ListFor(d) == IF d = 0 THEN "waiting" ELSE "prioritized"

\* addBulk: a job whose id the queue knows is discarded, with the depth it was
\* discovered at first.
AddBulk(urls, d) ==
    LET new == urls \ Known
    IN  /\ place' = [u \in Urls |-> IF u \in new THEN ListFor(d) ELSE place[u]]
        /\ depth' = [u \in Urls |-> IF u \in new THEN d ELSE depth[u]]
        /\ UNCHANGED <<attempts, stalls, lock, paused>>

\* frontier.enqueue: one job per URL of the batch; nothing is sent for no URL.
Enqueue(urls, d) == IF urls = {} THEN UNCHANGED queueVars ELSE AddBulk(urls, d)

\* The queue after the delayed jobs that are due went back to their lists.
Promoted(places, due) ==
    [u \in Urls |-> IF u \in due THEN ListFor(depth[u]) ELSE places[u]]

\* The jobs a pop may return: the wait list goes first, then the lowest depth.
Poppable(places) ==
    LET waiting == {u \in Urls : places[u] = "waiting"}
        prioritized == {u \in Urls : places[u] = "prioritized"}
    IN  IF waiting # {} THEN waiting
        ELSE {u \in prioritized : \A v \in prioritized : depth[u] <= depth[v]}

\* A worker that holds the lock ends its job; one that lost it changes nothing.
Holds(w, u) == place[u] = "active" /\ lock[u] = w

Finished(w, u, to) == IF Holds(w, u) THEN [place EXCEPT ![u] = to] ELSE place
Unlocked(w, u) == IF Holds(w, u) THEN [lock EXCEPT ![u] = NoWorker] ELSE lock

\* The stalled-job check: a job whose lock ran out waits again, or has failed.
Stall(u) ==
    /\ place[u] = "active"
    /\ stalls' = [stalls EXCEPT ![u] = @ + 1]
    /\ place' = [place EXCEPT ![u] = IF stalls[u] < MaxStalls THEN "waiting" ELSE "failed"]
    /\ lock' = [lock EXCEPT ![u] = NoWorker]
    /\ UNCHANGED <<depth, attempts, paused>>

\* obliterate({force: true}) of a paused queue: every job and the paused mark go.
Obliterate ==
    /\ place' = [u \in Urls |-> "absent"]
    /\ depth' = [u \in Urls |-> 0]
    /\ attempts' = [u \in Urls |-> 0]
    /\ stalls' = [u \in Urls |-> 0]
    /\ lock' = [u \in Urls |-> NoWorker]
    /\ paused' = FALSE

--------------------------------------------------------------------------
\* getJobCounts, with the categories the adapter asks for.  A paused queue
\* reports its wait list as paused; nobody asks for the prioritized jobs.
In(p) == Cardinality({u \in Urls : place[u] = p})
JobCounts ==
    [waiting   |-> IF paused THEN 0 ELSE In("waiting"),
     paused    |-> IF paused THEN In("waiting") ELSE 0,
     active    |-> In("active"),
     delayed   |-> In("delayed"),
     completed |-> In("completed"),
     failed    |-> In("failed")]
===========================================================================
