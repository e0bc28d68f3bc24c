------------------------ MODULE WorkerProcessProofs ------------------------
(***************************************************************************)
(* Proofs about WorkerProcess, for any jobs, ticks and limits: the counter is *)
(* exact until it is disturbed, a processor is served to its end, and an      *)
(* alert is about a kept dead letter.                                       *)
(***************************************************************************)
EXTENDS WorkerProcess, FiniteSetTheorems, TLAPS

\* How far the root is, and what of the adapter there is by then.
RootInv ==
    /\ phase = "down" => cursor = 0
    /\ ~initialized <=> phase = "down"
    /\ listening <=> cursor >= 2
    /\ adapter # "closed" => cursor >= 2
    /\ consumer = "running" => adapter = "started"
    /\ consumer = "draining" => adapter = "closed" /\ cursor >= 2

\* Processors run in a worker that runs or drains.
WorkInv == Here \cup ghosts # {} => consumer \in {"running", "draining"}

\* A job whose dead letter anybody asked for has failed.
LetterInv == AlertMeansKept /\ \A j \in Jobs : letter[j] # "none" => place[j] = "failed"

\* A job that goes on has an attempt left.
AttemptsInv ==
    \A j \in Jobs : place[j] \in {"waiting", "here", "elsewhere"} => failures[j] < MaxAttempts

\* As long as nothing disturbs it, no job has been given back.
CountInv == CounterExact /\ (~disturbed => ghosts = {})

IInv == TypeOK /\ RootInv /\ WorkInv /\ LetterInv /\ AttemptsInv /\ CountInv

--------------------------------------------------------------------------
LEMMA EntriesFacts ==
    /\ Len(Entries) = 3
    /\ Entries[1] = Dlq /\ Entries[2] = Adapter /\ Entries[3] = Reporter
    /\ Dlq # Adapter /\ Adapter # Reporter /\ Dlq # Reporter
<1>1. /\ Len(Entries) = 3 /\ DOMAIN Entries = 1 .. 3
      /\ Entries[1] = Dlq /\ Entries[2] = Adapter /\ Entries[3] = Reporter
  BY WorkerConfig
<1>2. \A i, j \in 1 .. 3 : Entries[i] = Entries[j] => i = j
  BY <1>1, RootConfig
<1>3. QED
  BY <1>1, <1>2

LEMMA Limits == MaxAttempts \in Nat \ {0} /\ MaxStalls \in Nat
BY WorkerConfig

\* Dlq is open from the first factory on.
LEMMA OpenFacts ==
    ASSUME TypeOK
    PROVE  /\ cursor >= 1 => Dlq \in Open
           /\ cursor = 0 => Open = {}
           /\ cursor \in 0 .. 3
BY EntriesFacts DEF TypeOK, RootTypeOK, Open

\* What an entry's close leaves.
LEMMA ClosedFacts ==
    ASSUME TypeOK, RootInv, NEW e, EntryClosed(e)
    PROVE  /\ RootTypeOK'
           /\ cursor' = cursor - 1 /\ cursor \in 1 .. 3 /\ e = Entries[cursor]
           /\ phase' = "down" => cursor' = 0
           /\ ~initialized' <=> phase' = "down"
<1>1. /\ cursor \in 0 .. 3 /\ cursor > 0 /\ e = Entries[cursor]
      /\ cursor' = cursor - 1 /\ phase \in {"cleaning", "closing"} /\ initialized
      /\ Len(Entries) = 3
  BY OpenFacts, EntriesFacts DEF EntryClosed, Closing, RootInv
<1>2. CASE cursor > 1
  BY <1>1, <1>2 DEF EntryClosed, TypeOK, RootTypeOK
<1>3. CASE cursor = 1
  <2>1. /\ cursor' = 0 /\ phase' \in {"closed", "down"} /\ initialized' \in BOOLEAN
        /\ ~initialized' <=> phase' = "down"
    <3>1. cursor' = 0 /\ ~(cursor > 1)
      BY <1>1, <1>3
    <3>2. CASE phase = "closing"
      <4>1. phase' = "closed" /\ initialized' = initialized
        BY <3>1, <3>2, Zenon DEF EntryClosed
      <4>2. QED
        BY <1>1, <3>1, <4>1
    <3>3. CASE phase # "closing"
      <4>1. phase' = "down" /\ initialized' = FALSE
        BY <3>1, <3>3, Zenon DEF EntryClosed
      <4>2. QED
        BY <3>1, <4>1
    <3>4. QED
      BY <3>2, <3>3
  <2>2. QED
    BY <1>1, <1>3, <2>1 DEF RootTypeOK
<1>4. QED
  BY <1>1, <1>2, <1>3

\* The jobs here are finitely many, one more after a job is taken, one less after it ends.
LEMMA HereFacts ==
    /\ IsFiniteSet(Here) /\ Cardinality(Here) \in Nat
    /\ \A j : j \notin Here => Cardinality(Here \cup {j}) = Cardinality(Here) + 1
    /\ \A j \in Here : Cardinality(Here \ {j}) = Cardinality(Here) - 1
    /\ Here = {} => Cardinality(Here) = 0
<1>1. IsFiniteSet(Here)
  BY WorkerConfig, FS_Subset DEF Here
<1>2. QED
  BY <1>1, FS_AddElement, FS_RemoveElement, FS_CardinalityType, FS_EmptySet

--------------------------------------------------------------------------
LEMMA InitHolds == Init => IInv
<1> SUFFICES ASSUME Init PROVE IInv
  OBVIOUS
<1> USE DEF Init, RootInit
<1>1. TypeOK
  <2>1. RootTypeOK
    <3>1. 0 \in 0 .. Len(Entries)
      BY EntriesFacts
    <3>2. QED
      BY <3>1 DEF RootTypeOK
  <2>2. /\ failures \in [Jobs -> 0 .. MaxAttempts] /\ stalls \in [Jobs -> 0 .. MaxStalls + 1]
        /\ flight \in [Ticks -> {Idle, Asked} \cup Nat] /\ activeJobs \in Nat
    BY Limits
  <2>3. QED
    BY <2>1, <2>2 DEF TypeOK
<1>2. RootInv /\ Here = {}
  BY DEF RootInv, Here
<1>3. WorkInv /\ LetterInv /\ AttemptsInv
  BY <1>2, Limits DEF WorkInv, LetterInv, AlertMeansKept, AttemptsInv
<1>4. CountInv
  BY <1>2, HereFacts DEF CountInv, CounterExact
<1>5. QED
  BY <1>1, <1>2, <1>3, <1>4 DEF IInv

\* Steps of the root and of the adapter, which leave the jobs alone.
LEMMA RootSteps ==
    ASSUME IInv, Wire \/ StartAdapter \/ Shutdown \/ Closes
    PROVE  IInv'
<1> USE DEF IInv
<1>0. /\ TypeOK /\ RootInv /\ cursor \in 0 .. 3 /\ Len(Entries) = 3
  BY OpenFacts, EntriesFacts
<1>1. /\ UNCHANGED <<place, ghosts, failures, stalls, letter, dlq, alerted, flight>>
      /\ Here' = Here
  BY DEF Wire, StartAdapter, Shutdown, Closes, CloseAdapter, Drained, AdapterClosed, CloseOther,
         jobVars, dlqVars, Here
<1>2. LetterInv' /\ AttemptsInv'
  BY <1>1 DEF LetterInv, AlertMeansKept, AttemptsInv
<1>3. CASE Wire
  <2>1. /\ ~initialized /\ initialized' /\ cursor = 0 /\ cursor' \in 1 .. 3
        /\ phase' \in {"up", "cleaning"}
        /\ adapter = "closed" /\ consumer \in {"idle", "off"}
    BY <1>0, <1>3 DEF Wire, CreateRoot, RootInv, TypeOK
  <2>2. Here \cup ghosts = {}
    BY <2>1 DEF WorkInv
  <2>3. TypeOK'
    <3>1. RootTypeOK'
      BY <1>0, <2>1 DEF RootTypeOK
    <3>2. /\ listening' \in BOOLEAN /\ activeJobs' = 0 /\ disturbed' = FALSE
          /\ adapter' \in {"created", adapter} /\ consumer' \in {"idle", consumer}
      BY <1>3 DEF Wire
    <3>3. QED
      BY <1>0, <1>1, <3>1, <3>2 DEF TypeOK
  <2>4. RootInv'
    BY <1>3, <2>1 DEF Wire, RootInv
  <2>5. WorkInv' /\ CountInv'
    BY <1>1, <1>3, <2>2, HereFacts DEF Wire, WorkInv, CountInv, CounterExact
  <2>6. QED
    BY <1>2, <2>3, <2>4, <2>5
<1>4. CASE StartAdapter
  <2>1. TypeOK' /\ RootInv'
    BY <1>0, <1>1, <1>4 DEF StartAdapter, rootVars, TypeOK, RootTypeOK, RootInv
  <2>2. WorkInv' /\ CountInv'
    BY <1>1, <1>4 DEF StartAdapter, WorkInv, CountInv, CounterExact
  <2>3. QED
    BY <1>2, <2>1, <2>2
<1>5. CASE Shutdown
  <2>1. TypeOK' /\ RootInv'
    BY <1>0, <1>1, <1>5 DEF Shutdown, ShutdownRoot, TypeOK, RootTypeOK, RootInv
  <2>2. WorkInv' /\ CountInv'
    BY <1>1, <1>5 DEF Shutdown, WorkInv, CountInv, CounterExact
  <2>3. QED
    BY <1>2, <2>1, <2>2
<1>6. CASE CloseAdapter
  <2>1. /\ cursor = 2 /\ adapter # "closed" /\ adapter' = "closed" /\ consumer # "draining"
        /\ consumer' = IF consumer = "running" THEN "draining" ELSE "off"
        /\ UNCHANGED <<rootVars, listening, activeJobs, disturbed>>
    BY <1>0, <1>6, EntriesFacts DEF CloseAdapter, Closing, RootInv
  <2>2. TypeOK' /\ RootInv'
    BY <1>0, <1>1, <2>1 DEF rootVars, TypeOK, RootTypeOK, RootInv
  <2>3. WorkInv' /\ CountInv'
    BY <1>1, <2>1 DEF WorkInv, CountInv, CounterExact
  <2>4. QED
    BY <1>2, <2>2, <2>3
<1>7. CASE Drained
  <2>1. TypeOK' /\ RootInv'
    BY <1>0, <1>1, <1>7 DEF Drained, rootVars, TypeOK, RootTypeOK, RootInv
  <2>2. WorkInv' /\ CountInv'
    BY <1>1, <1>7 DEF Drained, WorkInv, CountInv, CounterExact
  <2>3. QED
    BY <1>2, <2>1, <2>2
<1>8. CASE AdapterClosed
  <2>1. /\ cursor = 2 /\ cursor' = 1 /\ listening' = FALSE /\ RootTypeOK'
        /\ phase' = "down" => cursor' = 0
        /\ ~initialized' <=> phase' = "down"
        /\ adapter = "closed" /\ consumer = "off"
        /\ UNCHANGED <<adapter, consumer, activeJobs, disturbed>>
    BY <1>0, <1>8, ClosedFacts, EntriesFacts DEF AdapterClosed
  <2>2. TypeOK' /\ RootInv'
    <3>1. TypeOK'
      BY <1>0, <1>1, <2>1 DEF TypeOK
    <3>2. RootInv'
      BY <2>1 DEF RootInv
    <3>3. QED
      BY <3>1, <3>2
  <2>3. WorkInv' /\ CountInv'
    BY <1>1, <2>1 DEF WorkInv, CountInv, CounterExact
  <2>4. QED
    BY <1>2, <2>2, <2>3
<1>9. ASSUME NEW e \in {Dlq, Reporter}, CloseOther(e)
      PROVE  IInv'
  <2>1. /\ cursor \in {1, 3} /\ cursor' = cursor - 1 /\ RootTypeOK'
        /\ phase' = "down" => cursor' = 0
        /\ ~initialized' <=> phase' = "down"
        /\ UNCHANGED <<adapter, consumer, listening, activeJobs, disturbed>>
    BY <1>0, <1>9, ClosedFacts, EntriesFacts DEF CloseOther
  <2>2. TypeOK' /\ RootInv'
    BY <1>0, <1>1, <2>1 DEF TypeOK, RootInv
  <2>3. WorkInv' /\ CountInv'
    BY <1>1, <2>1 DEF WorkInv, CountInv, CounterExact
  <2>4. QED
    BY <1>2, <2>2, <2>3
<1>10. QED
  BY <1>3, <1>4, <1>5, <1>6, <1>7, <1>8, <1>9 DEF Closes

\* An attempt that ends leaves a job that is no longer in progress.
LEMMA EndedFacts ==
    ASSUME TypeOK, NEW j \in Jobs, failures[j] < MaxAttempts, Ended(j)
    PROVE  \E to \in {"completed", "waiting", "failed"} :
              /\ place' = [place EXCEPT ![j] = to]
              /\ failures' \in [Jobs -> 0 .. MaxAttempts]
              /\ \A i \in Jobs : failures'[i] = failures[i] \/ i = j
              /\ to = "waiting" => failures'[j] < MaxAttempts
<1>0. /\ failures \in [Jobs -> 0 .. MaxAttempts] /\ MaxAttempts \in Nat \ {0}
  BY Limits DEF TypeOK
<1>1. CASE place' = [place EXCEPT ![j] = "completed"] /\ UNCHANGED failures
  BY <1>0, <1>1
<1>2. CASE /\ failures' = [failures EXCEPT ![j] = failures[j] + 1]
           /\ place' = [place EXCEPT ![j] = IF failures[j] + 1 < MaxAttempts THEN "waiting"
                                            ELSE "failed"]
  <2>1. /\ failures' \in [Jobs -> 0 .. MaxAttempts] /\ failures'[j] = failures[j] + 1
        /\ \A i \in Jobs : failures'[i] = failures[i] \/ i = j
    BY <1>0, <1>2
  <2>2. CASE failures[j] + 1 < MaxAttempts
    BY <1>2, <2>1, <2>2
  <2>3. CASE ~(failures[j] + 1 < MaxAttempts)
    <3>1. place' = [place EXCEPT ![j] = "failed"]
      BY <1>2, <2>3
    <3>2. QED
      BY <2>1, <3>1
  <2>4. QED
    BY <2>2, <2>3
<1>3. QED
  BY <1>1, <1>2 DEF Ended

\* Steps of jobs, which leave the root and the adapter alone.
LEMMA JobSteps ==
    ASSUME IInv, NEW j \in Jobs,
           Take(j) \/ JobEnds(j) \/ OthersWork(j) \/ Stall(j) \/ GhostEnds(j)
    PROVE  IInv'
<1> USE DEF IInv
<1>0. /\ TypeOK /\ RootInv /\ activeJobs \in Nat
      /\ place \in [Jobs -> {"waiting", "here", "elsewhere", "completed", "failed"}]
      /\ ghosts \subseteq Jobs
  BY DEF TypeOK
<1>1. UNCHANGED <<rootVars, adapter, consumer, listening, flight, letter, dlq, alerted>>
  BY DEF Take, JobEnds, OthersWork, Stall, GhostEnds, dlqVars
<1>2. RootInv'
  BY <1>1 DEF rootVars, RootInv
<1>3. ASSUME NEW to \in {"waiting", "here", "elsewhere", "completed", "failed"},
             place' = [place EXCEPT ![j] = to], place[j] # "failed"
      PROVE  LetterInv'
  BY <1>0, <1>1, <1>3 DEF LetterInv, AlertMeansKept
<1>10. ASSUME NEW to \in {"waiting", "here", "elsewhere"}, place[j] = to
       PROVE  failures[j] < MaxAttempts
  BY <1>10 DEF AttemptsInv
<1>4. CASE Take(j)
  <2>1. /\ place[j] = "waiting" /\ place' = [place EXCEPT ![j] = "here"]
        /\ consumer = "running" /\ listening /\ activeJobs' = activeJobs + 1
        /\ UNCHANGED <<ghosts, failures, stalls, disturbed>>
    BY <1>4 DEF Take, OnActive, RootInv
  <2>2. Here' = Here \cup {j} /\ j \notin Here
    BY <1>0, <2>1 DEF Here
  <2>3. CountInv'
    BY <2>1, <2>2, HereFacts DEF CountInv, CounterExact
  <2>4. TypeOK'
    BY <1>0, <1>1, <2>1 DEF TypeOK, RootTypeOK, rootVars
  <2>5. WorkInv' /\ LetterInv'
    BY <1>1, <1>3, <2>1 DEF WorkInv
  <2>6. AttemptsInv'
    BY <1>0, <2>1 DEF AttemptsInv
  <2>7. QED
    BY <1>2, <2>3, <2>4, <2>5, <2>6
<1>5. CASE JobEnds(j)
  <2>1. PICK to \in {"completed", "waiting", "failed"} :
           /\ place' = [place EXCEPT ![j] = to]
           /\ failures' \in [Jobs -> 0 .. MaxAttempts]
           /\ \A i \in Jobs : failures'[i] = failures[i] \/ i = j
           /\ to = "waiting" => failures'[j] < MaxAttempts
    BY <1>0, <1>5, <1>10, EndedFacts DEF JobEnds
  <2>2. /\ place[j] = "here" /\ j \in Here
        /\ UNCHANGED <<ghosts, stalls, disturbed>>
    BY <1>5 DEF JobEnds, Here
  <2>3. consumer \in {"running", "draining"} /\ listening
    BY <2>2 DEF WorkInv, RootInv
  <2>4. activeJobs' = OneLess
    BY <1>5, <2>3 DEF JobEnds, OnEnd
  <2>5. Here' = Here \ {j}
    BY <1>0, <2>1 DEF Here
  <2>6. Cardinality(Here') = Cardinality(Here) - 1 /\ Cardinality(Here') \in Nat
    <3>1. Cardinality(Here') \in Nat
      BY <2>5, HereFacts, FS_Subset, FS_CardinalityType
    <3>2. QED
      BY <2>2, <2>5, <3>1, HereFacts
  <2>7. CountInv'
    BY <1>0, <2>2, <2>4, <2>6, HereFacts DEF CountInv, CounterExact, OneLess
  <2>8. TypeOK'
    BY <1>0, <1>1, <2>1, <2>2, <2>4 DEF TypeOK, RootTypeOK, rootVars, OneLess
  <2>9. WorkInv' /\ LetterInv'
    BY <1>1, <1>3, <2>1, <2>2, <2>3 DEF WorkInv
  <2>10. AttemptsInv'
    BY <1>0, <2>1 DEF AttemptsInv
  <2>11. QED
    BY <1>2, <2>7, <2>8, <2>9, <2>10
<1>6. CASE OthersWork(j)
  <2>1. PICK to \in {"elsewhere", "completed", "waiting", "failed"} :
           /\ place' = [place EXCEPT ![j] = to]
           /\ failures' \in [Jobs -> 0 .. MaxAttempts]
           /\ \A i \in Jobs : failures'[i] = failures[i] \/ i = j
           /\ to \in {"elsewhere", "waiting"} => failures'[j] < MaxAttempts
    <3>1. CASE place[j] = "waiting"
      BY <1>0, <1>6, <1>10, <3>1 DEF OthersWork, TypeOK
    <3>2. CASE place[j] = "elsewhere"
      BY <1>0, <1>6, <1>10, <3>2, EndedFacts DEF OthersWork
    <3>3. QED
      BY <1>6, <3>1, <3>2 DEF OthersWork
  <2>2. /\ place[j] \in {"waiting", "elsewhere"}
        /\ UNCHANGED <<ghosts, stalls, disturbed, activeJobs>>
    BY <1>6 DEF OthersWork
  <2>3. Here' = Here
    BY <1>0, <2>1, <2>2 DEF Here
  <2>4. TypeOK'
    BY <1>0, <1>1, <2>1, <2>2 DEF TypeOK, RootTypeOK, rootVars
  <2>5. WorkInv' /\ CountInv' /\ LetterInv'
    BY <1>1, <1>3, <2>1, <2>2, <2>3 DEF WorkInv, CountInv, CounterExact
  <2>6. AttemptsInv'
    BY <1>0, <2>1 DEF AttemptsInv
  <2>7. QED
    BY <1>2, <2>4, <2>5, <2>6
<1>7. CASE Stall(j)
  <2>1. PICK to \in {"waiting", "failed"} : place' = [place EXCEPT ![j] = to]
    BY <1>7 DEF Stall
  <2>2. /\ place[j] \in {"here", "elsewhere"} /\ disturbed' = TRUE /\ UNCHANGED failures
        /\ ghosts' = IF place[j] = "here" THEN ghosts \cup {j} ELSE ghosts
        /\ stalls[j] <= MaxStalls /\ stalls' = [stalls EXCEPT ![j] = stalls[j] + 1]
    BY <1>7 DEF Stall
  <2>3. activeJobs' \in Nat
    BY <1>0, <1>7 DEF Stall, OnEnd, OneLess
  <2>4. stalls' \in [Jobs -> 0 .. MaxStalls + 1]
    BY <2>2, WorkerConfig DEF TypeOK
  <2>5. TypeOK'
    BY <1>0, <1>1, <2>1, <2>2, <2>3, <2>4 DEF TypeOK, RootTypeOK, rootVars
  <2>6. Here' \cup ghosts' \subseteq Here \cup ghosts
    BY <1>0, <2>1, <2>2 DEF Here
  <2>7. WorkInv' /\ CountInv' /\ LetterInv'
    BY <1>1, <1>3, <2>1, <2>2, <2>6 DEF WorkInv, CountInv, CounterExact
  <2>8. AttemptsInv'
    BY <1>0, <1>10, <2>1, <2>2 DEF AttemptsInv
  <2>9. QED
    BY <1>2, <2>5, <2>7, <2>8
<1>8. CASE GhostEnds(j)
  <2>1. /\ j \in ghosts /\ ghosts' = ghosts \ {j}
        /\ UNCHANGED <<place, failures, stalls, disturbed>> /\ Here' = Here
    BY <1>8 DEF GhostEnds, Here
  <2>2. activeJobs' \in Nat
    BY <1>0, <1>8 DEF GhostEnds, OnEnd, OneLess
  <2>3. TypeOK'
    BY <1>0, <1>1, <2>1, <2>2 DEF TypeOK, RootTypeOK, rootVars
  <2>4. WorkInv' /\ CountInv' /\ LetterInv' /\ AttemptsInv'
    BY <1>1, <2>1 DEF WorkInv, CountInv, CounterExact, LetterInv, AlertMeansKept, AttemptsInv
  <2>5. QED
    BY <1>2, <2>3, <2>4
<1>9. QED
  BY <1>4, <1>5, <1>6, <1>7, <1>8

\* Ticks of the reporter, and dead letters.
LEMMA OtherSteps ==
    ASSUME IInv,
           \/ \E t \in Ticks : Tick(t) \/ GetActiveCount(t) \/ Reset(t)
           \/ \E j \in Jobs : MoveToDeadLetter(j) \/ DeadLetter(j)
    PROVE  IInv'
<1> USE DEF IInv
<1>0. /\ TypeOK /\ flight \in [Ticks -> {Idle, Asked} \cup Nat]
      /\ letter \in [Jobs -> {"none", "adding", "ok", "err"}]
  BY DEF TypeOK
<1>1. /\ UNCHANGED <<rootVars, adapter, consumer, listening, jobVars>> /\ Here' = Here
      /\ RootInv' /\ WorkInv' /\ AttemptsInv'
  BY DEF AttemptsInv, Tick, GetActiveCount, Reset, MoveToDeadLetter, DeadLetter, Here, RootInv, WorkInv,
         rootVars, jobVars
<1>2. ASSUME NEW t \in Ticks, Tick(t) \/ GetActiveCount(t) \/ Reset(t)
      PROVE  IInv'
  <2>1. ActiveCount \in Nat
    BY WorkerConfig, FS_Subset, FS_CardinalityType DEF ActiveCount
  <2>2. /\ flight' \in [Ticks -> {Idle, Asked} \cup Nat] /\ activeJobs' \in Nat
        /\ disturbed' \in BOOLEAN
    <3>1. CASE Tick(t)
      BY <1>0, <3>1 DEF Tick, TypeOK
    <3>2. CASE GetActiveCount(t)
      BY <1>0, <2>1, <3>2 DEF GetActiveCount, TypeOK
    <3>3. CASE Reset(t)
      BY <1>0, <3>3 DEF Reset, TypeOK, Idle, Asked
    <3>4. QED
      BY <1>2, <3>1, <3>2, <3>3
  <2>3. UNCHANGED dlqVars
    BY <1>2 DEF Tick, GetActiveCount, Reset
  <2>4. TypeOK' /\ LetterInv'
    BY <1>0, <1>1, <2>2, <2>3 DEF TypeOK, RootTypeOK, rootVars, jobVars, dlqVars, LetterInv,
                                   AlertMeansKept
  <2>5. CountInv'
    BY <1>1, <1>2 DEF Tick, GetActiveCount, Reset, CountInv, CounterExact, jobVars
  <2>6. QED
    BY <1>1, <2>4, <2>5
<1>3. ASSUME NEW j \in Jobs, MoveToDeadLetter(j) \/ DeadLetter(j)
      PROVE  IInv'
  <2>1. UNCHANGED <<activeJobs, flight, disturbed>>
    BY <1>3 DEF MoveToDeadLetter, DeadLetter
  <2>2. CountInv'
    BY <1>1, <2>1 DEF CountInv, CounterExact, jobVars
  <2>3. LetterInv' /\ letter' \in [Jobs -> {"none", "adding", "ok", "err"}]
        /\ dlq' \subseteq Jobs /\ alerted' \subseteq Jobs
    <3>1. CASE MoveToDeadLetter(j)
      BY <1>0, <1>1, <3>1 DEF MoveToDeadLetter, LetterInv, AlertMeansKept, jobVars, TypeOK
    <3>2. CASE DeadLetter(j)
      <4>1. place[j] = "failed" /\ UNCHANGED place
        BY <1>1, <3>2 DEF DeadLetter, LetterInv, jobVars
      <4>2. CASE /\ dlq' = dlq \cup {j} /\ alerted' = alerted \cup {j}
                 /\ \E r \in {"ok", "err"} : letter' = [letter EXCEPT ![j] = r]
        BY <1>0, <4>1, <4>2 DEF LetterInv, AlertMeansKept, TypeOK
      <4>3. CASE /\ dlq' \in {dlq, dlq \cup {j}} /\ UNCHANGED alerted
                 /\ letter' = [letter EXCEPT ![j] = "err"]
        BY <1>0, <4>1, <4>3 DEF LetterInv, AlertMeansKept, TypeOK
      <4>4. QED
        BY <3>2, <4>2, <4>3 DEF DeadLetter
    <3>3. QED
      BY <1>3, <3>1, <3>2
  <2>4. TypeOK'
    BY <1>0, <1>1, <2>1, <2>3 DEF TypeOK, RootTypeOK, rootVars, jobVars
  <2>5. QED
    BY <1>1, <2>2, <2>3, <2>4
<1>4. QED
  BY <1>2, <1>3

\* The inductive invariant: what there is of the root decides what there is of the
\* adapter, and that, where a job may run.
THEOREM InductiveInvariant == Spec => []IInv
<1>1. IInv /\ UNCHANGED vars => IInv'
  BY DEF IInv, vars, rootVars, jobVars, dlqVars, TypeOK, RootTypeOK, RootInv, WorkInv,
         LetterInv, AlertMeansKept, AttemptsInv, CountInv, CounterExact, Here
<1>2. IInv /\ Next => IInv'
  BY RootSteps, JobSteps, OtherSteps DEF Next
<1>3. QED
  BY <1>1, <1>2, InitHolds, PTL DEF Spec

\* Every variable keeps its type: the counter never falls below zero.
THEOREM TypeCorrect == Spec => []TypeOK
<1>1. IInv => TypeOK
  BY DEF IInv
<1>2. QED
  BY <1>1, InductiveInvariant, PTL

\* Until a lock is lost or the counter is reset, it is the number of jobs that run here.
THEOREM CounterIsExact == Spec => []CounterExact
<1>1. IInv => CounterExact
  BY DEF IInv, CountInv
<1>2. QED
  BY <1>1, InductiveInvariant, PTL

\* While a processor runs, the listeners are there and the dead-letter queue is open;
\* without a root there is nothing.
THEOREM Served == Spec => []ServedToTheEnd
<1>1. IInv => ServedToTheEnd
  BY OpenFacts DEF IInv, WorkInv, RootInv, ServedToTheEnd, TypeOK
<1>2. QED
  BY <1>1, InductiveInvariant, PTL

\* A dead letter is about a failed job, an alert about a dead letter.
THEOREM AlertsAreKept == Spec => []AlertMeansKept
<1>1. IInv => AlertMeansKept
  BY DEF IInv, LetterInv
<1>2. QED
  BY <1>1, InductiveInvariant, PTL
===========================================================================
