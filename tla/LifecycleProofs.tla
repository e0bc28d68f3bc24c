-------------------------- MODULE LifecycleProofs ---------------------------
(***************************************************************************)
(* Proofs about Lifecycle for every startup sequence, every set of resources *)
(* and all timeouts that fit into the grace period: its states are well      *)
(* typed, a shutdown is over in time, and a process that ends with success   *)
(* leaves nothing behind.                                                    *)
(***************************************************************************)
EXTENDS Lifecycle, TLAPS

\* A shutdown belongs to a process that has started, and there are phases to start
\* while it has not.
Progress ==
    /\ main = "starting" => opened < Len(StartupPhases)
    /\ main # "running" => shutdown = "no"
    /\ shutdown # "no" => reason \in Reasons
    /\ ~aborted => failures < MaxConsecutiveFailures

\* A timer runs in the phase it limits, and tells how long the shutdown may take.
Timers ==
    /\ shutdown = "no" => drainTimer = Off /\ teardownTimer = Off /\ elapsed = 0
    /\ shutdown = "draining" => drainTimer # Off
    /\ shutdown = "tearing" /\ Alive => teardownTimer # Off
    /\ drainTimer # Off => elapsed + drainTimer = DrainTimeout
    /\ teardownTimer # Off => elapsed + teardownTimer <= DrainTimeout + TeardownTimeout

\* When both have run out, only a handle that is left open keeps the process.
Overtime ==
    elapsed > DrainTimeout + TeardownTimeout /\ Alive => shutdown = "complete" /\ handles # {}

IInv == TypeOK /\ Progress /\ Timers /\ Overtime

--------------------------------------------------------------------------
\* The startup sequence has a first phase and opens phases.
LEMMA PhaseFacts ==
    /\ Len(StartupPhases) \in Nat \ {0}
    /\ \A i \in 1 .. Len(StartupPhases) : StartupPhases[i] \in Resources
<1>1. Len(StartupPhases) \in Nat /\ DOMAIN StartupPhases = 1 .. Len(StartupPhases)
  BY LifecycleAssumption
<1>2. \E i \in DOMAIN StartupPhases : Consumer = StartupPhases[i]
  BY LifecycleAssumption DEF Phases
<1> QED
  BY <1>1, <1>2 DEF Resources, Phases

LEMMA Initially == Init => IInv
<1> SUFFICES ASSUME Init PROVE IInv
  OBVIOUS
<1>1. TypeOK
  <2>1. /\ 0 \in 0 .. Len(StartupPhases) /\ 0 \in 0 .. MaxConsecutiveFailures
        /\ 0 \in 0 .. GracePeriod
    BY PhaseFacts, LifecycleAssumption
  <2>2. Clients \subseteq Resources
    BY DEF Resources
  <2> QED
    BY <2>1, <2>2 DEF Init, TypeOK
<1>2. Progress
  BY PhaseFacts, LifecycleAssumption DEF Init, Progress
<1>3. Timers /\ Overtime
  BY LifecycleAssumption DEF Init, Timers, Overtime, Off
<1> QED
  BY <1>1, <1>2, <1>3 DEF IInv

--------------------------------------------------------------------------
\* Steps of the startup sequence, and of jobs, leave the timers alone.
LEMMA StartSafe ==
    ASSUME IInv, StartPhase \/ StartPhaseFails \/ CleanUp \/ StartupExits \/ SignalAtStartup
    PROVE  IInv'
<1> USE DEF IInv
<1>1. /\ UNCHANGED <<job, abortVars, shutdown, reason, cut, pending, timerVars>>
      /\ shutdown = "no"
  BY DEF StartPhase, StartPhaseFails, CleanUp, StartupExits, SignalAtStartup, Progress
<1>2. Timers' /\ Overtime'
  BY <1>1, LifecycleAssumption DEF Timers, Overtime, timerVars
<1>3. CASE StartPhase
  <2>1. opened + 1 \in 1 .. Len(StartupPhases)
    BY <1>3, PhaseFacts DEF StartPhase, Progress, TypeOK
  <2>2. handles' \in SUBSET Resources
    BY <1>3, <2>1, PhaseFacts DEF StartPhase, TypeOK
  <2>3. /\ main' \in {"starting", "running"} /\ exit' = exit
        /\ opened' \in 0 .. Len(StartupPhases)
        /\ main' = "starting" => opened' < Len(StartupPhases)
    BY <1>3, <2>1, PhaseFacts DEF StartPhase
  <2>4. TypeOK'
    BY <1>1, <2>2, <2>3 DEF TypeOK, abortVars, timerVars
  <2>5. Progress'
    BY <1>1, <2>3 DEF Progress, abortVars
  <2> QED
    BY <1>2, <2>4, <2>5
<1>4. CASE CleanUp
  <2>1. opened' \in 0 .. Len(StartupPhases)
    BY <1>4, PhaseFacts DEF CleanUp, TypeOK
  <2>2. handles' \in SUBSET Resources /\ main' = main /\ exit' = exit
    BY <1>4 DEF CleanUp, HandleAfterClose, TypeOK
  <2>3. TypeOK'
    BY <1>1, <2>1, <2>2 DEF TypeOK, abortVars, timerVars
  <2>4. Progress'
    BY <1>1, <1>4, <2>2 DEF CleanUp, Progress, abortVars
  <2> QED
    BY <1>2, <2>3, <2>4
<1>5. CASE StartPhaseFails \/ StartupExits \/ SignalAtStartup
  <2>1. /\ UNCHANGED <<opened, handles>>
        /\ main' \in {main, "cleaning"} /\ exit' \in {exit, "error", "killed"}
    BY <1>5 DEF StartPhaseFails, StartupExits, SignalAtStartup, startVars
  <2>2. TypeOK'
    BY <1>1, <2>1 DEF TypeOK, abortVars, timerVars
  <2>3. Progress'
    BY <1>1, <2>1 DEF Progress, abortVars
  <2> QED
    BY <1>2, <2>2, <2>3
<1> QED
  BY <1>3, <1>4, <1>5

LEMMA JobSafe == ASSUME IInv, JobStarts \/ JobEnds PROVE IInv'
BY DEF IInv, JobStarts, JobEnds, TypeOK, Progress, Timers, Overtime, Alive, startVars, abortVars,
       timerVars

\* A handler begins the only shutdown, or exits, or is ignored.
LEMMA ExecuteSafe ==
    ASSUME IInv, Running, NEW why \in Reasons, Execute(why),
           UNCHANGED <<startVars, handles, job>>,
           failures' \in 0 .. MaxConsecutiveFailures, aborted' \in BOOLEAN,
           ~aborted' => failures' < MaxConsecutiveFailures
    PROVE  IInv'
<1> USE DEF IInv
<1>1. ExitCode(why) \in {"none", "success", "error", "abort"}
  BY DEF ExitCode, Reasons
<1>2. CASE shutdown = "no" /\ Begin(why)
  <2>1. /\ shutdown' = "draining" /\ reason' = why /\ drainTimer' = DrainTimeout
        /\ UNCHANGED <<pending, teardownTimer, elapsed, cut, exit>>
        /\ elapsed = 0 /\ teardownTimer = Off
    BY <1>2 DEF Begin, Timers
  <2>2. TypeOK'
    BY <2>1, LifecycleAssumption DEF TypeOK, startVars
  <2>3. Progress'
    BY <2>1 DEF Progress, Running, startVars
  <2>4. Timers' /\ Overtime'
    BY <2>1, LifecycleAssumption DEF Timers, Overtime, Off
  <2> QED
    BY <2>2, <2>3, <2>4
<1>3. CASE shutdown # "no"
  <2>1. /\ UNCHANGED <<shutdown, reason, pending, timerVars>>
        /\ exit' = ExitCode(why) /\ exit' # "none" /\ cut' = why
    BY <1>3 DEF Execute
  <2>2. TypeOK'
    BY <1>1, <2>1 DEF TypeOK, startVars, timerVars, Reasons
  <2>3. Progress' /\ Timers' /\ Overtime'
    BY <2>1 DEF Progress, Timers, Overtime, Alive, startVars, timerVars, Running
  <2> QED
    BY <2>2, <2>3
<1> QED
  BY <1>2, <1>3 DEF Execute

LEMMA HandlerSafe ==
    ASSUME IInv, Signal \/ Error \/ Completion \/ RecordFailure \/ RecordSuccess
    PROVE  IInv'
<1> USE DEF IInv
<1>1. CASE Signal \/ Error \/ Completion
  <2>1. PICK why \in Reasons : Execute(why)
    BY <1>1 DEF Signal, Error, Completion, Reasons
  <2>2. Running /\ UNCHANGED <<startVars, handles, job, abortVars>>
    BY <1>1 DEF Signal, Error, Completion
  <2> QED
    BY <2>1, <2>2, ExecuteSafe DEF TypeOK, Progress, abortVars
<1>2. CASE RecordFailure
  <2>1. /\ failures' = failures + 1 /\ failures + 1 \in 0 .. MaxConsecutiveFailures
        /\ Running /\ UNCHANGED <<startVars, handles, job>>
    BY <1>2, LifecycleAssumption DEF RecordFailure, TypeOK, Progress
  <2>2. CASE failures' >= MaxConsecutiveFailures
    <3>1. aborted' = TRUE /\ Execute("abort")
      BY <1>2, <2>2 DEF RecordFailure
    <3> QED
      BY <2>1, <3>1, ExecuteSafe DEF Reasons
  <2>3. CASE ~(failures' >= MaxConsecutiveFailures)
    <3>1. UNCHANGED <<aborted, shutdown, reason, cut, pending, timerVars, exit>>
      BY <1>2, <2>3 DEF RecordFailure
    <3>2. failures' < MaxConsecutiveFailures /\ failures' \in 0 .. MaxConsecutiveFailures
      BY <2>1, <2>3, LifecycleAssumption
    <3> QED
      BY <2>1, <3>1, <3>2 DEF TypeOK, Progress, Timers, Overtime, Alive, startVars, timerVars
  <2> QED
    BY <2>2, <2>3
<1>3. CASE RecordSuccess
  <2>1. /\ failures' = 0 /\ 0 \in 0 .. MaxConsecutiveFailures /\ 0 < MaxConsecutiveFailures
        /\ UNCHANGED <<startVars, handles, job, aborted, shutdown, reason, cut, pending,
                       timerVars, exit>>
    BY <1>3, LifecycleAssumption DEF RecordSuccess
  <2> QED
    BY <2>1 DEF TypeOK, Progress, Timers, Overtime, Alive, startVars, timerVars
<1> QED
  BY <1>1, <1>2, <1>3

--------------------------------------------------------------------------
\* The teardown begins while the drain still has time, or when it has run out.
LEMMA TeardownSafe ==
    ASSUME IInv, shutdown = "draining", Teardown, handles' \in SUBSET handles,
           drainTimer' \in {drainTimer, Off},
           UNCHANGED <<startVars, job, abortVars, reason, cut, elapsed, exit>>
    PROVE  IInv'
<1> USE DEF IInv
<1>1. /\ shutdown' = "tearing" /\ pending' = Resources /\ teardownTimer' = TeardownTimeout
      /\ drainTimer \in 0 .. DrainTimeout /\ elapsed + drainTimer = DrainTimeout
      /\ elapsed \in 0 .. GracePeriod
  BY DEF Teardown, Timers, TypeOK
<1>2. elapsed + TeardownTimeout <= DrainTimeout + TeardownTimeout /\ elapsed <= DrainTimeout
  BY <1>1, LifecycleAssumption
<1>3. TypeOK'
  BY <1>1, LifecycleAssumption DEF TypeOK, startVars, abortVars
<1>4. Progress'
  BY DEF Progress, startVars, abortVars
<1>5. Timers'
  <2>1. drainTimer' # Off => elapsed + drainTimer' = DrainTimeout
    BY <1>1
  <2>2. TeardownTimeout # Off /\ elapsed' = elapsed
    BY LifecycleAssumption DEF Off
  <2> QED
    BY <1>1, <1>2, <2>1, <2>2 DEF Timers
<1>6. Overtime'
  <2>1. elapsed' = elapsed /\ ~(elapsed > DrainTimeout + TeardownTimeout)
    BY <1>1, <1>2, LifecycleAssumption
  <2> QED
    BY <2>1 DEF Overtime
<1> QED
  BY <1>3, <1>4, <1>5, <1>6

LEMMA DrainSafe == ASSUME IInv, DrainSettles \/ DrainTimerFires PROVE IInv'
<1> USE DEF IInv
<1>1. CASE DrainSettles
  BY <1>1, TeardownSafe DEF DrainSettles
<1>2. CASE DrainTimerFires /\ shutdown = "draining"
  BY <1>2, TeardownSafe DEF DrainTimerFires
<1>3. CASE DrainTimerFires /\ shutdown # "draining"
  <2>1. /\ drainTimer' = Off
        /\ UNCHANGED <<startVars, handles, job, abortVars, shutdown, reason, cut, pending,
                       teardownTimer, elapsed, exit>>
    BY <1>3 DEF DrainTimerFires
  <2>2. TypeOK'
    BY <2>1 DEF TypeOK, startVars, abortVars
  <2> QED
    BY <1>3, <2>1, <2>2 DEF Progress, Timers, Overtime, Alive, startVars, abortVars
<1> QED
  BY <1>1, <1>2, <1>3

\* A close settles while the teardown's timer runs.
LEMMA CloseSafe == ASSUME IInv, NEW r \in Resources, CloseSettles(r) PROVE IInv'
<1> USE DEF IInv
<1>1. /\ Alive /\ shutdown = "tearing" /\ handles' \in SUBSET handles /\ pending' \in SUBSET pending
      /\ UNCHANGED <<startVars, job, abortVars, reason, cut, timerVars>>
      /\ shutdown' \in {"tearing", "complete"}
      /\ exit' = exit \/ exit' = ExitCode(reason)
  BY DEF CloseSettles, HandleAfterClose
<1>2. exit' \in {"none", "success", "error", "abort", "killed"}
  <2>1. exit' = ExitCode(reason) => reason \in Reasons
    BY <1>1 DEF Progress
  <2> QED
    BY <1>1, <2>1 DEF TypeOK, ExitCode, Reasons
<1>3. TypeOK'
  BY <1>1, <1>2 DEF TypeOK, startVars, abortVars, timerVars
<1>4. Progress'
  BY <1>1 DEF Progress, startVars, abortVars
<1>5. elapsed <= DrainTimeout + TeardownTimeout /\ teardownTimer # Off
  BY <1>1, LifecycleAssumption DEF Timers, TypeOK
<1>6. Timers' /\ Overtime'
  BY <1>1, <1>5, LifecycleAssumption DEF Timers, Overtime, timerVars, TypeOK
<1> QED
  BY <1>3, <1>4, <1>6

\* Steps that only end the process.
LEMMA ExitSafe ==
    ASSUME IInv, TeardownTimerFires \/ LoopEnds \/ Kill
    PROVE  IInv'
<1> USE DEF IInv
<1>1. /\ UNCHANGED <<startVars, handles, job, abortVars, shutdown, reason, cut, pending,
                     drainTimer, elapsed>>
      /\ teardownTimer' \in {teardownTimer, Off}
      /\ exit' \in {exit, "error", "success", "killed"}
      /\ exit' # "none" \/ (exit' = exit /\ shutdown # "tearing")
  BY DEF TeardownTimerFires, LoopEnds, Kill, timerVars
<1>2. TypeOK'
  BY <1>1 DEF TypeOK, startVars, abortVars
<1> QED
  BY <1>1, <1>2 DEF Progress, Timers, Overtime, Alive, startVars, abortVars

\* Time only passes while a timer runs or a handle is open.
LEMMA TickSafe == ASSUME IInv, Tick PROVE IInv'
<1> USE DEF IInv
<1>1. /\ UNCHANGED <<startVars, handles, job, abortVars, shutdown, reason, cut, pending, exit>>
      /\ Running /\ shutdown # "no" /\ drainTimer # 0 /\ teardownTimer # 0 /\ ~LoopIsEmpty
      /\ elapsed \in 0 .. GracePeriod /\ elapsed < GracePeriod /\ elapsed' = elapsed + 1
      /\ drainTimer' = Less(drainTimer) /\ teardownTimer' = Less(teardownTimer)
      /\ drainTimer \in {Off} \cup 0 .. DrainTimeout
      /\ teardownTimer \in {Off} \cup 0 .. TeardownTimeout
  BY DEF Tick, TypeOK
<1>2. /\ drainTimer = Off => drainTimer' = Off
      /\ drainTimer # Off => drainTimer \in 1 .. DrainTimeout /\ drainTimer' = drainTimer - 1
      /\ teardownTimer = Off => teardownTimer' = Off
      /\ teardownTimer # Off =>
            teardownTimer \in 1 .. TeardownTimeout /\ teardownTimer' = teardownTimer - 1
  BY <1>1, LifecycleAssumption DEF Less, Off
<1>3. /\ elapsed' \in 0 .. GracePeriod
      /\ drainTimer' \in {Off} \cup 0 .. DrainTimeout
      /\ teardownTimer' \in {Off} \cup 0 .. TeardownTimeout
  BY <1>1, <1>2, LifecycleAssumption
<1>4. TypeOK'
  BY <1>1, <1>3 DEF TypeOK, startVars, abortVars
<1>5. Progress'
  BY <1>1 DEF Progress, startVars, abortVars
<1>6. Timers'
  BY <1>1, <1>2, LifecycleAssumption DEF Timers, Alive, Off
<1>7. Overtime'
  <2> SUFFICES ASSUME elapsed + 1 > DrainTimeout + TeardownTimeout
               PROVE  shutdown = "complete" /\ handles # {}
    BY <1>1 DEF Overtime
  <2>1. drainTimer = Off /\ teardownTimer = Off
    BY <1>1, <1>2, LifecycleAssumption DEF Timers
  <2>2. handles # {}
    BY <1>1, <2>1 DEF LoopIsEmpty
  <2>3. shutdown = "complete"
    BY <1>1, <2>1 DEF Timers, Running, TypeOK
  <2> QED
    BY <2>2, <2>3
<1> QED
  BY <1>4, <1>5, <1>6, <1>7

--------------------------------------------------------------------------
LEMMA Inductive == IInv /\ [Next]_vars => IInv'
<1> SUFFICES ASSUME IInv, [Next]_vars PROVE IInv'
  OBVIOUS
<1>1. CASE UNCHANGED vars
  BY <1>1 DEF vars, IInv, TypeOK, Progress, Timers, Overtime, Alive, startVars, abortVars, timerVars
<1> QED
  BY <1>1, StartSafe, JobSafe, HandlerSafe, DrainSafe, CloseSafe, ExitSafe, TickSafe DEF Next

\* The invariant holds in every state of the process.
THEOREM InductiveInvariant == Spec => []IInv
BY Initially, Inductive, PTL DEF Spec

\* Every state is well typed.
THEOREM TypeCorrect == Spec => []TypeOK
<1>1. IInv => TypeOK
  BY DEF IInv
<1> QED
  BY <1>1, InductiveInvariant, PTL

\* A shutdown is over a safety buffer before the pod is killed, for all timeouts
\* that fit into the grace period (REQ-LIFE-019).
THEOREM InTime == Spec => []ShutdownInTime
<1>1. IInv => ShutdownInTime
  BY LifecycleAssumption, TimeoutAssumption DEF IInv, TypeOK, Overtime, ShutdownInTime
<1> QED
  BY <1>1, InductiveInvariant, PTL

--------------------------------------------------------------------------
(* What a process that ends with success leaves behind.                     *)

\* A phase that was started stays open until the shutdown, a job in progress keeps its
\* consumer open, and a shutdown is complete only when every close has settled.
Kept ==
    /\ main = "running" => opened = Len(StartupPhases)
    /\ main # "running" => exit # "success"
    /\ main # "cleaning" /\ shutdown = "no" =>
          \A i \in 1 .. opened : StartupPhases[i] \in handles
    /\ main # "cleaning" /\ job => Consumer \in handles
    /\ shutdown = "complete" => pending = {}

Clean == Kept /\ SuccessIsClean

LEMMA InitClean == Init => Clean
BY PhaseFacts DEF Init, Clean, Kept, SuccessIsClean

LEMMA StartClean ==
    ASSUME IInv, Clean,
           StartPhase \/ StartPhaseFails \/ CleanUp \/ StartupExits \/ SignalAtStartup
    PROVE  Clean'
<1> USE DEF Clean
<1>1. /\ UNCHANGED <<job, abortVars, shutdown, reason, cut, pending, timerVars>>
      /\ main # "running" /\ exit' # "success"
  BY DEF StartPhase, StartPhaseFails, CleanUp, StartupExits, SignalAtStartup, Kept
<1>2. SuccessIsClean'
  BY <1>1 DEF SuccessIsClean
<1>3. CASE StartPhase
  <2>1. /\ opened' = opened + 1 /\ handles' = handles \cup {StartupPhases[opened + 1]}
        /\ main' = (IF opened' = Len(StartupPhases) THEN "running" ELSE "starting")
        /\ main = "starting" /\ opened \in Nat /\ opened + 1 <= Len(StartupPhases)
    BY <1>3, PhaseFacts DEF StartPhase, IInv, Progress, TypeOK
  <2>2. shutdown = "no" => \A i \in 1 .. opened' : StartupPhases[i] \in handles'
    BY <2>1 DEF Kept
  <2> QED
    BY <1>1, <1>2, <2>1, <2>2 DEF Kept
<1>4. CASE StartPhaseFails \/ CleanUp
  <2>1. main' = "cleaning"
    BY <1>4 DEF StartPhaseFails, CleanUp
  <2> QED
    BY <1>1, <1>2, <2>1 DEF Kept
<1>5. CASE StartupExits \/ SignalAtStartup
  <2>1. UNCHANGED <<main, opened, handles>>
    BY <1>5 DEF StartupExits, SignalAtStartup, startVars
  <2> QED
    BY <1>1, <1>2, <2>1 DEF Kept
<1> QED
  BY <1>3, <1>4, <1>5

LEMMA JobClean == ASSUME Clean, JobStarts \/ JobEnds PROVE Clean'
BY DEF Clean, Kept, SuccessIsClean, JobStarts, JobEnds, Alive, startVars

\* A handler that exits at once is noted in cut.
LEMMA HandlerClean ==
    ASSUME IInv, Clean, Signal \/ Error \/ Completion \/ RecordFailure \/ RecordSuccess
    PROVE  Clean'
<1> USE DEF Clean
<1>1. Running /\ exit = "none" /\ UNCHANGED <<startVars, handles, job>>
  BY DEF Signal, Error, Completion, RecordFailure, RecordSuccess, Running, Alive
<1>2. ASSUME NEW why \in Reasons, Execute(why) PROVE Clean'
  <2>1. CASE shutdown = "no" /\ Begin(why)
    BY <1>1, <2>1 DEF Begin, Kept, SuccessIsClean, startVars
  <2>2. CASE shutdown # "no"
    <3>1. cut' = why /\ UNCHANGED <<shutdown, pending>>
      BY <1>2, <2>2 DEF Execute
    <3> QED
      BY <1>1, <2>2, <3>1 DEF Kept, SuccessIsClean, Reasons, startVars, Running
  <2> QED
    BY <1>2, <2>1, <2>2 DEF Execute
<1>3. CASE UNCHANGED <<shutdown, cut, pending, exit>>
  BY <1>1, <1>3 DEF Kept, SuccessIsClean, startVars
<1> QED
  BY <1>2, <1>3 DEF Signal, Error, Completion, RecordFailure, RecordSuccess, Reasons

\* The consumer is closed only when its job has ended.
LEMMA ShutdownClean ==
    ASSUME IInv, Clean, DrainSettles \/ DrainTimerFires \/ TeardownTimerFires
    PROVE  Clean'
<1> USE DEF Clean
<1>1. /\ exit = "none" /\ exit' # "success" /\ main = main' /\ opened = opened'
      /\ job' = job /\ cut' = cut
  BY DEF DrainSettles, DrainTimerFires, TeardownTimerFires, Alive, startVars
<1>2. /\ handles' = handles \/ (handles' = handles \ {Consumer} /\ ~job)
      /\ \/ shutdown' = shutdown /\ pending' = pending /\ handles' = handles
         \/ shutdown' = "tearing"
  BY DEF DrainSettles, DrainTimerFires, TeardownTimerFires, Teardown
<1>3. SuccessIsClean'
  BY <1>1 DEF SuccessIsClean
<1> QED
  BY <1>1, <1>2, <1>3 DEF Kept

LEMMA CloseClean == ASSUME IInv, Clean, NEW r \in Resources, CloseSettles(r) PROVE Clean'
<1> USE DEF Clean
<1>1. /\ exit = "none" /\ shutdown = "tearing" /\ UNCHANGED <<main, opened, job, cut>>
      /\ handles' = handles \/ handles' = handles \ {r}
      /\ r = Consumer /\ handles' # handles => ~job
      /\ IF pending' = {} THEN shutdown' = "complete" ELSE UNCHANGED <<shutdown, exit>>
  BY DEF CloseSettles, HandleAfterClose, Alive, startVars
<1>2. main = "running"
  BY <1>1 DEF IInv, Progress
<1>3. job => Consumer \in handles'
  BY <1>1, <1>2 DEF Kept
<1>4. Kept'
  BY <1>1, <1>2, <1>3 DEF Kept
<1>5. SuccessIsClean'
  BY <1>1, <1>3 DEF SuccessIsClean
<1> QED
  BY <1>4, <1>5

\* The loop ends by itself only after a complete shutdown: before it the consumer keeps it
\* alive, and during it a timer does.
LEMMA EndClean == ASSUME IInv, Clean, LoopEnds PROVE Clean'
<1> USE DEF Clean
<1>1. /\ main = "running" /\ handles = {} /\ drainTimer = Off /\ teardownTimer = Off
      /\ exit = "none" /\ exit' = "success"
      /\ UNCHANGED <<main, opened, handles, job, shutdown, cut, pending>>
  BY DEF LoopEnds, LoopIsEmpty, Running, Alive, startVars
<1>2. PICK i \in 1 .. Len(StartupPhases) : TRUE
  BY PhaseFacts
<1>3. shutdown # "no"
  BY <1>1, <1>2 DEF Kept
<1>4. shutdown = "complete"
  BY <1>1, <1>3 DEF IInv, TypeOK, Timers, Alive
<1> QED
  BY <1>1, <1>4 DEF Kept, SuccessIsClean

\* A process that ends with success, and that no handler cut short, has completed its
\* shutdown, with every close settled, and no job runs on in a consumer that was closed
\* (REQ-LIFE-017 and 019), for every startup sequence and all timeouts.
THEOREM SuccessLeavesNothing == Spec => []SuccessIsClean
<1>1. IInv /\ Clean /\ [Next]_vars => Clean'
  <2> SUFFICES ASSUME IInv, Clean, [Next]_vars PROVE Clean'
    OBVIOUS
  <2>1. CASE UNCHANGED vars
    BY <2>1 DEF vars, Clean, Kept, SuccessIsClean, startVars
  <2>2. CASE Tick \/ Kill
    BY <2>2 DEF Tick, Kill, Clean, Kept, SuccessIsClean, Running, Alive, startVars
  <2> QED
    BY <2>1, <2>2, StartClean, JobClean, HandlerClean, ShutdownClean, CloseClean, EndClean
       DEF Next
<1>2. Clean => SuccessIsClean
  BY DEF Clean
<1> QED
  BY <1>1, <1>2, InitClean, InductiveInvariant, PTL DEF Spec
===========================================================================
