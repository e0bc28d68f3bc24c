----------------------------- MODULE Lifecycle ------------------------------
(***************************************************************************)
(* The life of a crawler process: the startup sequence, the shutdown          *)
(* orchestrator with its drain and its teardown, the process handlers and     *)
(* the exit codes (application-lifecycle), composed as main.ts does.          *)
(*                                                                         *)
(* handleAbortExit, handleCompletionExit and the abort handler are exported   *)
(* by the package and not yet called by main.ts; they are modelled with the   *)
(* same shutdown as the other handlers.                                     *)
(***************************************************************************)
EXTENDS Integers, Sequences, FiniteSets

CONSTANTS
    StartupPhases,          \* the phases of the startup sequence, in their order
    Consumer,               \* the phase that starts the job consumer
    Clients,                \* resources that are open from the start: tracer, frontier
    DrainTimeout,           \* drainTimeoutMs, in ticks
    TeardownTimeout,        \* teardownTimeoutMs, in ticks
    GracePeriod,            \* terminationGracePeriodSeconds, in ticks
    SafetyBuffer,           \* the time to spare of REQ-LIFE-019
    MaxConsecutiveFailures  \* maxConsecutiveFailures of the abort handler

\* The metrics server, the readiness probe and the consumer; each is a resource that
\* a shutdown closes, like the tracer and the frontier.
Phases == {StartupPhases[i] : i \in DOMAIN StartupPhases}
Resources == Phases \cup Clients

ASSUME LifecycleAssumption ==
    /\ StartupPhases \in Seq(Phases)
    /\ Consumer \in Phases
    /\ DrainTimeout \in Nat /\ TeardownTimeout \in Nat
    /\ MaxConsecutiveFailures \in Nat \ {0}
    /\ GracePeriod \in Nat /\ SafetyBuffer \in Nat

\* Two timeouts fit into the grace period (design.md).
ASSUME TimeoutAssumption == DrainTimeout + TeardownTimeout + SafetyBuffer <= GracePeriod

VARIABLES
    main,           \* where main is
    opened,         \* how many startup phases are open
    handles,        \* what keeps the event loop alive
    job,            \* has the consumer a job in progress
    failures,       \* consecutive failures the abort handler has counted
    aborted,        \* has it aborted
    shutdown,       \* where execute is
    reason,         \* the reason execute was called with first
    cut,            \* the handler that exited before execute was done
    pending,        \* teardown entries whose close has not settled
    drainTimer,     \* time left on the timer of the drain; it is never cleared
    teardownTimer,  \* time left on the timer of the teardown; likewise
    elapsed,        \* time since execute was called
    exit            \* how the process ended

startVars == <<main, opened>>
abortVars == <<failures, aborted>>
timerVars == <<drainTimer, teardownTimer, elapsed>>
vars == <<startVars, handles, job, abortVars, shutdown, reason, cut, pending, timerVars, exit>>

Off == -1
Reasons == {"signal", "error", "abort", "completion"}

TypeOK ==
    /\ main \in {"starting", "cleaning", "running"}
    /\ opened \in 0 .. Len(StartupPhases)
    /\ handles \in SUBSET Resources
    /\ job \in BOOLEAN
    /\ failures \in 0 .. MaxConsecutiveFailures
    /\ aborted \in BOOLEAN
    /\ shutdown \in {"no", "draining", "tearing", "complete"}
    /\ reason \in Reasons \cup {"none"}
    /\ cut \in Reasons \cup {"none"}
    /\ pending \in SUBSET Resources
    /\ drainTimer \in {Off} \cup 0 .. DrainTimeout
    /\ teardownTimer \in {Off} \cup 0 .. TeardownTimeout
    /\ elapsed \in 0 .. GracePeriod
    /\ exit \in {"none", "success", "error", "abort", "killed"}

Init ==
    /\ main = "starting"
    /\ opened = 0
    /\ handles = Clients
    /\ job = FALSE
    /\ failures = 0
    /\ aborted = FALSE
    /\ shutdown = "no"
    /\ reason = "none"
    /\ cut = "none"
    /\ pending = {}
    /\ drainTimer = Off
    /\ teardownTimer = Off
    /\ elapsed = 0
    /\ exit = "none"

Alive == exit = "none"
Running == Alive /\ main = "running"

--------------------------------------------------------------------------
(* executeStartupSequence                                                  *)

StartPhase ==
    /\ Alive /\ main = "starting"
    /\ opened' = opened + 1
    /\ handles' = handles \cup {StartupPhases[opened + 1]}
    /\ main' = IF opened' = Len(StartupPhases) THEN "running" ELSE "starting"
    /\ UNCHANGED <<job, abortVars, shutdown, reason, cut, pending, timerVars, exit>>

\* A phase fails, or the configuration before the first one: what is open is
\* closed in reverse.
StartPhaseFails ==
    /\ Alive /\ main = "starting"
    /\ main' = "cleaning"
    /\ UNCHANGED <<opened, handles, job, abortVars, shutdown, reason, cut, pending, timerVars, exit>>

\* A close that fails may leave its handle open.
HandleAfterClose(r) == {handles, handles \ {r}}

CleanUp ==
    /\ Alive /\ main = "cleaning" /\ opened > 0
    /\ opened' = opened - 1
    /\ handles' \in HandleAfterClose(StartupPhases[opened])
    /\ UNCHANGED <<main, job, abortVars, shutdown, reason, cut, pending, timerVars, exit>>

\* safeMain catches the StartupError; the late-bound shutdown still does nothing.
StartupExits ==
    /\ Alive /\ main = "cleaning" /\ opened = 0
    /\ exit' = "error"
    /\ UNCHANGED <<startVars, handles, job, abortVars, shutdown, reason, cut, pending, timerVars>>

\* No handler is registered before the startup sequence is over.
SignalAtStartup ==
    /\ Alive /\ main # "running"
    /\ exit' = "killed"
    /\ UNCHANGED <<startVars, handles, job, abortVars, shutdown, reason, cut, pending, timerVars>>

--------------------------------------------------------------------------
(* Jobs: the worker takes none once it is closing.                         *)

JobStarts ==
    /\ Alive /\ Consumer \in handles /\ shutdown = "no"
    /\ ~job /\ job' = TRUE
    /\ UNCHANGED <<startVars, handles, abortVars, shutdown, reason, cut, pending, timerVars, exit>>

JobEnds ==
    /\ Alive
    /\ job /\ job' = FALSE
    /\ UNCHANGED <<startVars, handles, abortVars, shutdown, reason, cut, pending, timerVars, exit>>

--------------------------------------------------------------------------
(* The handlers.  Each calls execute and then exits with its code; execute   *)
(* returns at once when a shutdown is in progress.                          *)

ExitCode(why) ==
    CASE why = "signal" -> "none"       \* void shutdown(...): nobody exits
      [] why = "error" -> "error"
      [] why = "abort" -> "abort"
      [] why = "completion" -> "success"

Begin(why) ==
    /\ shutdown' = "draining"
    /\ reason' = why
    /\ drainTimer' = DrainTimeout
    /\ UNCHANGED <<pending, teardownTimer, elapsed, cut, exit>>

\* Mutant of Execute: no idempotent guard.
ExecuteAgain(why) == Begin(why)

Execute(why) ==
    \/ shutdown = "no" /\ Begin(why)
    \/ /\ shutdown # "no" /\ ExitCode(why) # "none"
       /\ exit' = ExitCode(why)
       /\ cut' = why
       /\ UNCHANGED <<shutdown, reason, pending, timerVars>>

Signal ==
    /\ Running
    /\ Execute("signal")
    /\ UNCHANGED <<startVars, handles, job, abortVars>>

\* onUncaughtException, onUnhandledRejection, and safeMain
Error ==
    /\ Running
    /\ Execute("error")
    /\ UNCHANGED <<startVars, handles, job, abortVars>>

\* Mutant of Completion: it does not await the shutdown.
CompletionAtOnce ==
    /\ Running
    /\ exit' = "success" /\ reason' = "completion"
    /\ UNCHANGED <<startVars, handles, job, abortVars, shutdown, cut, pending, timerVars>>

\* handleCompletionExit
Completion ==
    /\ Running
    /\ Execute("completion")
    /\ UNCHANGED <<startVars, handles, job, abortVars>>

\* Mutant of RecordFailure: it counts on after it has aborted.
RecordFailureOn ==
    /\ Running
    /\ failures' = failures + 1
    /\ IF failures' = MaxConsecutiveFailures
       THEN aborted' = TRUE /\ Execute("abort")
       ELSE UNCHANGED <<aborted, shutdown, reason, cut, pending, timerVars, exit>>
    /\ UNCHANGED <<startVars, handles, job>>

\* recordFailure of the abort handler, whose onAbort is handleAbortExit
RecordFailure ==
    /\ Running /\ ~aborted
    /\ failures' = failures + 1
    /\ IF failures' >= MaxConsecutiveFailures
       THEN aborted' = TRUE /\ Execute("abort")
       ELSE UNCHANGED <<aborted, shutdown, reason, cut, pending, timerVars, exit>>
    /\ UNCHANGED <<startVars, handles, job>>

RecordSuccess ==
    /\ Running
    /\ failures > 0 /\ failures' = 0
    /\ UNCHANGED <<startVars, handles, job, aborted, shutdown, reason, cut, pending, timerVars, exit>>

--------------------------------------------------------------------------
(* executeDrain and executeTeardown                                        *)

\* Mutant of Teardown: no timeout.
TeardownUnlimited ==
    /\ shutdown' = "tearing"
    /\ pending' = Resources
    /\ UNCHANGED teardownTimer

\* Every entry's close is called: the consumer's once more, too.
Teardown ==
    /\ shutdown' = "tearing"
    /\ pending' = Resources
    /\ teardownTimer' = TeardownTimeout

\* jobConsumer.close settled: it waits for the job in progress, or is rejected.
DrainSettles ==
    /\ Alive /\ shutdown = "draining"
    /\ \/ ~job /\ handles' = handles \ {Consumer}
       \/ UNCHANGED handles
    /\ Teardown
    /\ UNCHANGED <<startVars, job, abortVars, reason, cut, drainTimer, elapsed, exit>>

DrainTimerFires ==
    /\ Alive /\ drainTimer = 0
    /\ drainTimer' = Off
    /\ IF shutdown = "draining" THEN Teardown ELSE UNCHANGED <<shutdown, pending, teardownTimer>>
    /\ UNCHANGED <<startVars, handles, job, abortVars, reason, cut, elapsed, exit>>

\* One entry's close settled.  The consumer's is a no-op when it was drained, and
\* waits for the job otherwise, unless it is rejected.  The last one completes the
\* shutdown, and the handler that awaits it exits.
CloseSettles(r) ==
    /\ Alive /\ shutdown = "tearing" /\ r \in pending
    /\ handles' \in HandleAfterClose(r)
    /\ r = Consumer /\ handles' # handles => ~job
    /\ pending' = pending \ {r}
    /\ IF pending' = {} THEN shutdown' = "complete" /\ exit' = ExitCode(reason)
                        ELSE UNCHANGED <<shutdown, exit>>
    /\ UNCHANGED <<startVars, job, abortVars, reason, cut, timerVars>>

\* The timeout rejects, its `then` is skipped, and so execute rejects: the handlers
\* exit with an error, and a signal's promise is an unhandled rejection.
TeardownTimerFires ==
    /\ Alive /\ teardownTimer = 0
    /\ teardownTimer' = Off
    /\ exit' = IF shutdown = "tearing" THEN "error" ELSE exit
    /\ UNCHANGED <<startVars, handles, job, abortVars, shutdown, reason, cut, pending,
                   drainTimer, elapsed>>

--------------------------------------------------------------------------
(* The event loop ends when nothing keeps it alive; timers are prompt.      *)

LoopIsEmpty == handles = {} /\ drainTimer = Off /\ teardownTimer = Off

LoopEnds ==
    /\ Running /\ LoopIsEmpty
    /\ exit' = "success"
    /\ UNCHANGED <<startVars, handles, job, abortVars, shutdown, reason, cut, pending, timerVars>>

Less(timer) == IF timer = Off THEN Off ELSE timer - 1

Tick ==
    /\ Running /\ shutdown # "no" /\ elapsed < GracePeriod
    /\ drainTimer # 0 /\ teardownTimer # 0 /\ ~LoopIsEmpty
    /\ drainTimer' = Less(drainTimer) /\ teardownTimer' = Less(teardownTimer)
    /\ elapsed' = elapsed + 1
    /\ UNCHANGED <<startVars, handles, job, abortVars, shutdown, reason, cut, pending, exit>>

\* The pod's grace period is over.
Kill ==
    /\ Running /\ reason = "signal" /\ elapsed = GracePeriod
    /\ exit' = "killed"
    /\ UNCHANGED <<startVars, handles, job, abortVars, shutdown, reason, cut, pending, timerVars>>

--------------------------------------------------------------------------
Next ==
    \/ StartPhase \/ StartPhaseFails \/ CleanUp \/ StartupExits \/ SignalAtStartup
    \/ JobStarts \/ JobEnds
    \/ Signal \/ Error \/ Completion \/ RecordFailure \/ RecordSuccess
    \/ DrainSettles \/ DrainTimerFires \/ TeardownTimerFires
    \/ \E r \in Resources : CloseSettles(r)
    \/ LoopEnds \/ Tick \/ Kill

\* Time passes and timers fire; jobs and closes may hang.
Fairness ==
    /\ WF_vars(Tick)
    /\ WF_vars(DrainTimerFires)
    /\ WF_vars(TeardownTimerFires)
    /\ WF_vars(LoopEnds)

Spec == Init /\ [][Next]_vars
FairSpec == Spec /\ Fairness

--------------------------------------------------------------------------
(* Properties                                                              *)

\* REQ-LIFE-018 and 019: whatever hangs and whoever asks again, the shutdown is
\* over a safety buffer before the pod is killed, and the process is gone unless a
\* close has failed and left its handle open.
ShutdownInTime ==
    elapsed > GracePeriod - SafetyBuffer /\ Alive => shutdown = "complete" /\ handles # {}

\* REQ-LIFE-017 and 019: a process that ends with success, and that no other handler
\* cut short, has closed everything it could, and leaves a job behind only when its
\* consumer could not be closed.
SuccessIsClean ==
    exit = "success" /\ cut = "none" =>
        shutdown = "complete" /\ pending = {} /\ (job => Consumer \in handles)

\* REQ-LIFE-019 and 031: a shutdown ends although jobs and closes may hang.
ShutdownEnds == shutdown # "no" ~> (shutdown = "complete" \/ ~Alive)

\* REQ-LIFE-011 and 012: a process that shuts down on a signal exits with code 0.
SignalExitsZero == reason = "signal" /\ cut = "none" => exit # "error"
===========================================================================
