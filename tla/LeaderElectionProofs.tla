------------------------ MODULE LeaderElectionProofs ------------------------
(***************************************************************************)
(* What TLAPS proves of LeaderElection for every number of coordinators and *)
(* every lease, poll interval and round trip that TimingAssumption allows:  *)
(* the type invariant, that no two coordinators lead, and that a leader's    *)
(* lease has not run out.  Two strengthenings carry the last two: Safe, for   *)
(* faults without a shutdown, and SafeToStop, for shutdowns without a fault.  *)
(***************************************************************************)
EXTENDS LeaderElection, TLAPS

\* The winner of a setNX that has not handled the reply yet.
Winner(c) == acquiring[c].stage = "done" /\ acquiring[c].ok /\ status[c] # "down"
Claims(c) == leader[c] \/ Winner(c)

\* Nobody has shut down, so no process is stopped and no release is in flight.
NoRelease ==
    \A c \in Coordinators : status[c] # "stopped" /\ releasing[c].stage = "idle"

\* A leader's process is up and its renewal interval runs.
LeadersRenew ==
    \A c \in Coordinators :
        /\ leader[c] => status[c] = "up" /\ renewOn[c]
        /\ renewOn[c] => status[c] = "up"

\* A renewal in flight was sent when the interval last fired; without an
\* interval a running process has none in flight.
RenewalAge ==
    \A c \in Coordinators :
        renewing[c].stage # "idle" =>
            /\ renewOn[c] => renewing[c].age + renewIn[c] = RenewEvery
            /\ status[c] = "up" => renewOn[c]

\* What the lease has left while c leads: since the interval last fired if no
\* renewal is still on its way to the store, since the time before otherwise.
LeaseOfLeader ==
    \A c \in Coordinators :
        leader[c] =>
          /\ renewing[c].stage # "sent" =>
                lease.left + MaxDelay + RenewEvery >= LeaseTtl + renewIn[c]
          /\ renewing[c].stage = "sent" =>
                lease.left + MaxDelay + RenewEvery + renewing[c].age >= LeaseTtl

LeaseOfWinner ==
    \A c \in Coordinators :
        Winner(c) => lease.left + acquiring[c].age >= LeaseTtl

OneClaim == \A c, d \in Coordinators : Claims(c) /\ Claims(d) => c = d

Safe ==
    /\ NoRelease /\ LeadersRenew /\ RenewalAge
    /\ LeaseOfLeader /\ LeaseOfWinner /\ OneClaim

\* Not up any more, but still to ask the store whether it owns the lease; asked,
\* and about to delete it.
Fresh(c) == status[c] = "up" \/ releasing[c].stage = "get"
Deletes(c) == releasing[c].stage = "del" \/ (releasing[c].stage = "got" /\ releasing[c].ok)

\* Whoever leads, has just won, or deletes the lease has it to itself; a coordinator
\* that wins after it has shut down does not count.
Holds(c) == (Fresh(c) /\ Claims(c)) \/ Deletes(c)
OneHolds == \A c, d \in Coordinators : Holds(c) /\ Holds(d) => c = d

\* What the lease has left for c: as above while it is up; the shutdown adds the round
\* trip of the renewal in flight, the get and the del add theirs.
LeaseRemains(c) ==
    /\ status[c] = "up" /\ leader[c] =>
          /\ renewing[c].stage # "sent" =>
                lease.left + MaxDelay + RenewEvery >= LeaseTtl + renewIn[c]
          /\ renewing[c].stage = "sent" =>
                lease.left + MaxDelay + RenewEvery + renewing[c].age >= LeaseTtl
    /\ Fresh(c) /\ Winner(c) => lease.left + acquiring[c].age >= LeaseTtl
    /\ (\/ releasing[c].stage = "get" /\ leader[c]
        \/ releasing[c].stage = "got" /\ releasing[c].ok) =>
          lease.left + RenewEvery + 2 * MaxDelay + releasing[c].age >= LeaseTtl
    /\ releasing[c].stage = "del" =>
          lease.left + RenewEvery + 3 * MaxDelay + releasing[c].age >= LeaseTtl

\* Nobody has died, so a process that is down has not started yet, and until it asks
\* for its lease a process that owns it, or renews it, claims to lead.
Unbroken(c) ==
    /\ status[c] = "down" =>
          /\ acquiring[c].stage = "idle" /\ renewing[c].stage = "idle"
          /\ releasing[c].stage = "idle"
          /\ ~leader[c] /\ ~renewOn[c] /\ lease.owner # c
    /\ status[c] = "up" =>
          /\ releasing[c].stage = "idle"
          /\ leader[c] => renewOn[c]
          /\ renewing[c].stage # "idle" => renewing[c].age + renewIn[c] = RenewEvery
    /\ Fresh(c) =>
          /\ renewOn[c] \/ renewing[c].stage # "idle" => leader[c]
          /\ renewing[c].stage = "done" => renewing[c].ok
          /\ acquiring[c].stage # "idle" => ~leader[c]
          /\ lease.owner = c => Claims(c)

Sound(c) == Unbroken(c) /\ LeaseRemains(c)
SafeToStop == OneHolds /\ \A c \in Coordinators : Sound(c)

\* No call has thrown, nobody has died, and a get and a del fit into the lease.
Faultless == Prompt /\ errors = 0 /\ crashes = 0 /\ 2 * MaxDelay < RenewEvery

IInv ==
    /\ TypeOK
    /\ Prompt /\ shutdowns = 0 => Safe
    /\ Faultless => SafeToStop

--------------------------------------------------------------------------
(* What the assumptions say of the intervals.                              *)

LEMMA Intervals ==
    /\ RenewEvery \in Nat
    /\ 3 * RenewEvery <= LeaseTtl
    /\ LeaseTtl \in Nat /\ PollEvery \in Nat /\ MaxDelay \in Nat
    /\ MaxDelay < RenewEvery /\ MaxDelay < PollEvery
BY TimingAssumption DEF RenewEvery

\* A call record stays one: sent, executed, dropped or older.
LEMMA OneStepCallTypes ==
    /\ NoCall \in OneStepCalls /\ Sent("sent") \in OneStepCalls
    /\ \A call \in OneStepCalls :
          /\ \A c \in Coordinators, ok \in BOOLEAN : Answer(c, call, "done", ok) \in OneStepCalls
          /\ Orphaned(call) \in OneStepCalls /\ Older(call) \in OneStepCalls
<1>1. NoCall \in OneStepCalls /\ Sent("sent") \in OneStepCalls
  BY Intervals DEF NoCall, Sent, OneStepCalls, Calls
<1>2. ASSUME NEW call \in OneStepCalls, NEW c \in Coordinators, NEW ok \in BOOLEAN
      PROVE  Answer(c, call, "done", ok) \in OneStepCalls
  BY <1>1 DEF Answer, Executed, OneStepCalls, Calls
<1>3. ASSUME NEW call \in OneStepCalls PROVE Older(call) \in OneStepCalls
  BY Intervals DEF Older, OneStepCalls, Calls
<1>4. QED
  BY <1>1, <1>2, <1>3 DEF Orphaned

LEMMA ReleaseCallTypes ==
    /\ NoCall \in ReleaseCalls
    /\ Sent("get") \in ReleaseCalls /\ Sent("del") \in ReleaseCalls
    /\ \A call \in ReleaseCalls :
          /\ \A c \in Coordinators, ok \in BOOLEAN :
                /\ Answer(c, call, "got", ok) \in ReleaseCalls
                /\ Answer(c, call, "deleted", ok) \in ReleaseCalls
          /\ Orphaned(call) \in ReleaseCalls /\ Older(call) \in ReleaseCalls
<1>1. NoCall \in ReleaseCalls /\ Sent("get") \in ReleaseCalls /\ Sent("del") \in ReleaseCalls
  BY Intervals DEF NoCall, Sent, ReleaseCalls, Calls
<1>2. ASSUME NEW call \in ReleaseCalls, NEW c \in Coordinators, NEW ok \in BOOLEAN
      PROVE  /\ Answer(c, call, "got", ok) \in ReleaseCalls
             /\ Answer(c, call, "deleted", ok) \in ReleaseCalls
  BY <1>1 DEF Answer, Executed, ReleaseCalls, Calls
<1>3. ASSUME NEW call \in ReleaseCalls PROVE Older(call) \in ReleaseCalls
  BY Intervals DEF Older, ReleaseCalls, Calls
<1>4. QED
  BY <1>1, <1>2, <1>3 DEF Orphaned

--------------------------------------------------------------------------
(* The type invariant.                                                     *)

\* Every step of the model keeps every variable in its type: counters of the
\* clock stay within their intervals and calls within their stages.
THEOREM TypeCorrect == Spec => []TypeOK
<1>1. Init => TypeOK
  BY Intervals, OneStepCallTypes, ReleaseCallTypes DEF Init, TypeOK
<1>2. TypeOK /\ [Next]_vars => TypeOK'
  <2> SUFFICES ASSUME TypeOK, [Next]_vars PROVE TypeOK'
    OBVIOUS
  <2> USE Intervals
  <2>1. CASE Tick
    <3>1. lease' \in [owner : Coordinators \cup {NoOne}, left : 0 .. LeaseTtl]
      BY <2>1 DEF Tick, TypeOK, NoLease
    <3>2. renewIn' \in [Coordinators -> 0 .. RenewEvery]
      BY <2>1 DEF Tick, TypeOK, Before
    <3>3. pollIn' \in [Coordinators -> 0 .. PollEvery]
      BY <2>1 DEF Tick, TypeOK, Before
    <3>4. /\ acquiring' \in [Coordinators -> OneStepCalls]
          /\ renewing' \in [Coordinators -> OneStepCalls]
          /\ releasing' \in [Coordinators -> ReleaseCalls]
      BY <2>1, OneStepCallTypes, ReleaseCallTypes DEF Tick, TypeOK
    <3>5. QED
      BY <2>1, <3>1, <3>2, <3>3, <3>4 DEF Tick, TypeOK, faultVars
  <2>2. ASSUME NEW c \in Coordinators, Start(c) PROVE TypeOK'
    BY <2>2 DEF Start, TypeOK, callVars, faultVars
  <2>3. ASSUME NEW c \in Coordinators, Shutdown(c) PROVE TypeOK'
    BY <2>3, OneStepCallTypes, ReleaseCallTypes DEF Shutdown, TypeOK
  <2>4. ASSUME NEW c \in Coordinators, Crash(c) PROVE TypeOK'
    BY <2>4, OneStepCallTypes, ReleaseCallTypes DEF Crash, TypeOK
  <2>5. ASSUME NEW c \in Coordinators, StoreStep(c) PROVE TypeOK'
    <3>1. LeaseOf(c) \in [owner : Coordinators \cup {NoOne}, left : 0 .. LeaseTtl]
          /\ NoLease \in [owner : Coordinators \cup {NoOne}, left : 0 .. LeaseTtl]
      BY DEF LeaseOf, NoLease
    <3>2. CASE ExecuteSetNX(c)
      <4>0. LeaseHeld \in BOOLEAN /\ (~LeaseHeld) \in BOOLEAN
        BY DEF LeaseHeld
      <4>1. acquiring' \in [Coordinators -> OneStepCalls]
        BY <3>2, <4>0, OneStepCallTypes DEF ExecuteSetNX, TypeOK
      <4>2. lease' \in [owner : Coordinators \cup {NoOne}, left : 0 .. LeaseTtl]
        BY <3>1, <3>2 DEF ExecuteSetNX, TypeOK
      <4>3. QED
        BY <3>2, <4>1, <4>2 DEF ExecuteSetNX, TypeOK, timerVars, faultVars
    <3>3. CASE ExecuteSetXX(c)
      <4>0. LeaseHeld \in BOOLEAN
        BY DEF LeaseHeld
      <4>1. renewing' \in [Coordinators -> OneStepCalls]
        BY <3>3, <4>0, OneStepCallTypes DEF ExecuteSetXX, TypeOK
      <4>2. lease' \in [owner : Coordinators \cup {NoOne}, left : 0 .. LeaseTtl]
        BY <3>1, <3>3 DEF ExecuteSetXX, TypeOK
      <4>3. QED
        BY <3>3, <4>1, <4>2 DEF ExecuteSetXX, TypeOK, timerVars, faultVars
    <3>4. CASE ExecuteGet(c)
      <4>1. releasing' \in [Coordinators -> ReleaseCalls]
        BY <3>4, ReleaseCallTypes DEF ExecuteGet, TypeOK
      <4>2. QED
        BY <3>4, <4>1 DEF ExecuteGet, TypeOK, timerVars, faultVars
    <3>5. CASE ExecuteDel(c)
      <4>1. releasing' \in [Coordinators -> ReleaseCalls]
        BY <3>5, ReleaseCallTypes DEF ExecuteDel, TypeOK
      <4>2. QED
        BY <3>1, <3>5, <4>1 DEF ExecuteDel, TypeOK, timerVars, faultVars
    <3>6. QED
      BY <2>5, <3>2, <3>3, <3>4, <3>5 DEF StoreStep
  <2>6. ASSUME NEW c \in Coordinators, ProcessStep(c) PROVE TypeOK'
    <3>1. CASE Poll(c)
      BY <3>1, OneStepCallTypes, ReleaseCallTypes DEF Poll, TypeOK, faultVars
    <3>2. CASE Acquired(c)
      <4>1. acquiring[c].ok \in BOOLEAN
        BY DEF TypeOK, OneStepCalls, Calls
      <4>2. leader' \in [Coordinators -> BOOLEAN] /\ acquiring' \in [Coordinators -> OneStepCalls]
        BY <3>2, <4>1, OneStepCallTypes DEF Acquired, TypeOK
      <4>3. renewOn' \in [Coordinators -> BOOLEAN] /\ renewIn' \in [Coordinators -> 0 .. RenewEvery]
        <5>1. CASE acquiring[c].ok /\ ~renewOn[c]
          <6>1. /\ renewOn' = [renewOn EXCEPT ![c] = TRUE]
                /\ renewIn' = [renewIn EXCEPT ![c] = RenewEvery]
            BY <3>2, <5>1, Zenon DEF Acquired
          <6>2. QED
            BY <6>1 DEF TypeOK
        <5>2. CASE ~(acquiring[c].ok /\ ~renewOn[c])
          BY <3>2, <5>2 DEF Acquired, TypeOK
        <5>3. QED
          BY <5>1, <5>2
      <4>4. QED
        BY <3>2, <4>2, <4>3 DEF Acquired, TypeOK, faultVars
    <3>3. CASE Renew(c)
      BY <3>3, OneStepCallTypes, ReleaseCallTypes DEF Renew, TypeOK, faultVars
    <3>4. CASE Renewed(c)
      <4>1. renewing[c].ok \in BOOLEAN /\ leader[c] \in BOOLEAN
        BY DEF TypeOK, OneStepCalls, Calls
      <4>2. (leader[c] /\ renewing[c].ok) \in BOOLEAN
        BY <4>1, Zenon
      <4>3. /\ renewing' \in [Coordinators -> OneStepCalls]
            /\ leader' \in [Coordinators -> BOOLEAN]
        BY <3>4, <4>2, OneStepCallTypes DEF Renewed, TypeOK
      <4>4. QED
        BY <3>4, <4>3 DEF Renewed, TypeOK, timerVars, faultVars
    <3>5. CASE ReleaseRead(c)
      <4>1. CASE releasing[c].ok
        <5>1. /\ releasing' = [releasing EXCEPT ![c] = Sent("del")]
              /\ leader' = leader
          BY <3>5, <4>1, Zenon DEF ReleaseRead
        <5>2. releasing' \in [Coordinators -> ReleaseCalls]
          BY <5>1, ReleaseCallTypes DEF TypeOK
        <5>3. QED
          BY <3>5, <5>1, <5>2 DEF ReleaseRead, TypeOK, timerVars, faultVars
      <4>2. CASE ~releasing[c].ok
        <5>1. /\ releasing' = [releasing EXCEPT ![c] = NoCall]
              /\ leader' = [leader EXCEPT ![c] = FALSE]
          BY <3>5, <4>2, Zenon DEF ReleaseRead
        <5>2. /\ releasing' \in [Coordinators -> ReleaseCalls]
              /\ leader' \in [Coordinators -> BOOLEAN]
          BY <5>1, ReleaseCallTypes DEF TypeOK
        <5>3. QED
          BY <3>5, <5>2 DEF ReleaseRead, TypeOK, timerVars, faultVars
      <4>3. QED
        BY <4>1, <4>2
    <3>6. CASE Released(c)
      <4>1. /\ releasing' \in [Coordinators -> ReleaseCalls]
            /\ leader' \in [Coordinators -> BOOLEAN]
        BY <3>6, ReleaseCallTypes DEF Released, TypeOK
      <4>2. QED
        BY <3>6, <4>1 DEF Released, TypeOK, timerVars, faultVars
    <3>7. QED
      BY <2>6, <3>1, <3>2, <3>3, <3>4, <3>5, <3>6 DEF ProcessStep
  <2>7. ASSUME NEW c \in Coordinators, ThrowStep(c) PROVE TypeOK'
    <3>1. CASE AcquireThrows(c)
      BY <3>1, OneStepCallTypes DEF AcquireThrows, TypeOK, timerVars
    <3>2. CASE RenewThrows(c)
      BY <3>2, OneStepCallTypes DEF RenewThrows, TypeOK, timerVars
    <3>3. CASE ReleaseThrows(c)
      BY <3>3, ReleaseCallTypes DEF ReleaseThrows, TypeOK, timerVars
    <3>4. QED
      BY <2>7, <3>1, <3>2, <3>3 DEF ThrowStep
  <2>8. CASE UNCHANGED vars
    BY <2>8 DEF vars, TypeOK, timerVars, callVars, faultVars
  <2>9. QED
    BY <2>1, <2>2, <2>3, <2>4, <2>5, <2>6, <2>7, <2>8 DEF Next
<1>3. QED
  BY <1>1, <1>2, PTL DEF Spec

--------------------------------------------------------------------------
(* The lease of whoever claims leadership has time left.                   *)

LEMMA FieldTypes ==
    ASSUME TypeOK
    PROVE  /\ lease.left \in 0 .. LeaseTtl
           /\ \A c \in Coordinators :
                 /\ acquiring[c].age \in 0 .. MaxDelay /\ acquiring[c].ok \in BOOLEAN
                 /\ renewing[c].age \in 0 .. MaxDelay /\ renewing[c].ok \in BOOLEAN
                 /\ renewIn[c] \in 0 .. RenewEvery
                 /\ leader[c] \in BOOLEAN /\ renewOn[c] \in BOOLEAN
BY DEF TypeOK, OneStepCalls, Calls

LEMMA ClaimsHaveLease ==
    ASSUME TypeOK, Safe, NEW c \in Coordinators, Claims(c)
    PROVE  lease.left > 0
<1>1. CASE Winner(c)
  BY <1>1, Intervals, FieldTypes DEF Safe, LeaseOfWinner
<1>2. CASE leader[c] /\ renewing[c].stage = "sent"
  BY <1>2, Intervals, FieldTypes DEF Safe, LeaseOfLeader
<1>3. CASE leader[c] /\ renewing[c].stage # "sent"
  BY <1>3, Intervals, FieldTypes DEF Safe, LeaseOfLeader
<1>4. QED
  BY <1>1, <1>2, <1>3 DEF Claims

LEMMA TickSafe ==
    ASSUME TypeOK, Safe, Prompt, Tick
    PROVE  Safe'
<1> USE Intervals, FieldTypes
<1>1. /\ status' = status /\ leader' = leader /\ renewOn' = renewOn
      /\ \A c \in Coordinators :
            /\ renewOn[c] => renewIn[c] > 0
            /\ acquiring[c].stage # "idle" => acquiring[c].age < MaxDelay
            /\ renewing[c].stage # "idle" => renewing[c].age < MaxDelay
  <2>1. ASSUME NEW c \in Coordinators
        PROVE  /\ renewOn[c] => renewIn[c] > 0
               /\ acquiring[c].stage # "idle" => acquiring[c].age < MaxDelay
               /\ renewing[c].stage # "idle" => renewing[c].age < MaxDelay
    <3>1. OnTime(c)
      BY DEF Tick
    <3>2. acquiring[c].age \in 0 .. MaxDelay /\ renewing[c].age \in 0 .. MaxDelay
          /\ renewIn[c] \in 0 .. RenewEvery
      OBVIOUS
    <3>3. QED
      BY <3>1, <3>2 DEF OnTime, Overdue, Busy
  <2>2. QED
    BY <2>1 DEF Tick, faultVars
<1>2. \A c \in Coordinators :
         /\ acquiring'[c].stage = acquiring[c].stage
         /\ acquiring'[c].ok = acquiring[c].ok
         /\ acquiring[c].stage # "idle" => acquiring'[c].age = acquiring[c].age + 1
         /\ renewing'[c].stage = renewing[c].stage
         /\ renewing[c].stage # "idle" => renewing'[c].age = renewing[c].age + 1
         /\ releasing'[c].stage = releasing[c].stage
         /\ renewOn[c] => renewIn'[c] = renewIn[c] - 1
  BY <1>1 DEF Tick, Older, Busy, Before, TypeOK, OneStepCalls, Calls
<1>3. lease.left > 0 => lease'.left = lease.left - 1
  BY DEF Tick, NoLease, TypeOK
<1>4. \A c \in Coordinators : Claims(c)' <=> Claims(c)
  BY <1>1, <1>2 DEF Claims, Winner
<1>5. \A c \in Coordinators : Claims(c) => lease'.left = lease.left - 1
  BY <1>3, ClaimsHaveLease
<1>6. NoRelease' /\ LeadersRenew'
  BY <1>1, <1>2 DEF Safe, NoRelease, LeadersRenew
<1>7. RenewalAge'
  <2> SUFFICES ASSUME NEW c \in Coordinators, renewing[c].stage # "idle"
               PROVE  /\ renewOn[c] => renewing'[c].age + renewIn'[c] = RenewEvery
                      /\ status[c] = "up" => renewOn[c]
    BY <1>1, <1>2 DEF RenewalAge
  <2>1. /\ renewOn[c] => renewing[c].age + renewIn[c] = RenewEvery
        /\ status[c] = "up" => renewOn[c]
    BY DEF Safe, RenewalAge
  <2>2. QED
    BY <1>2, <2>1
<1>8. LeaseOfLeader'
  <2> SUFFICES ASSUME NEW c \in Coordinators, leader[c]
               PROVE  /\ renewing'[c].stage # "sent" =>
                           lease'.left + MaxDelay + RenewEvery >= LeaseTtl + renewIn'[c]
                      /\ renewing'[c].stage = "sent" =>
                           lease'.left + MaxDelay + RenewEvery + renewing'[c].age >= LeaseTtl
    BY <1>1 DEF LeaseOfLeader
  <2>1. renewOn[c] /\ lease'.left = lease.left - 1
    BY <1>5 DEF Safe, LeadersRenew, Claims
  <2>2. QED
    BY <1>2, <2>1 DEF Safe, LeaseOfLeader
<1>9. LeaseOfWinner'
  <2> SUFFICES ASSUME NEW c \in Coordinators, Winner(c)'
               PROVE  lease'.left + acquiring'[c].age >= LeaseTtl
    BY DEF LeaseOfWinner
  <2>1. Winner(c) /\ lease'.left = lease.left - 1
    BY <1>1, <1>2, <1>5 DEF Winner, Claims
  <2>2. QED
    BY <1>2, <2>1 DEF Safe, LeaseOfWinner, Winner
<1>10. OneClaim'
  BY <1>4 DEF Safe, OneClaim
<1>11. QED
  BY <1>6, <1>7, <1>8, <1>9, <1>10 DEF Safe

\* A winning setNX found no lease, so nobody else claimed leadership.
LEMMA SetNXSafe ==
    ASSUME TypeOK, Safe, NEW c \in Coordinators, ExecuteSetNX(c)
    PROVE  Safe'
<1> USE Intervals, FieldTypes
<1>1. /\ status' = status /\ leader' = leader /\ renewOn' = renewOn /\ renewIn' = renewIn
      /\ renewing' = renewing /\ releasing' = releasing
  BY DEF ExecuteSetNX, timerVars
<1>2. \A d \in Coordinators : d # c => acquiring'[d] = acquiring[d]
  BY DEF ExecuteSetNX, TypeOK
<1>3. Winner(c)' => ~LeaseHeld
  BY DEF ExecuteSetNX, Winner, Answer, Executed, NoCall, TypeOK, OneStepCalls, Calls
<1>4. ~LeaseHeld => \A d \in Coordinators : ~Claims(d)
  BY ClaimsHaveLease DEF LeaseHeld
<1>5. \A d \in Coordinators : d # c => (Winner(d)' <=> Winner(d))
  BY <1>1, <1>2 DEF Winner
<1>6. lease' = lease \/ (lease'.left = LeaseTtl /\ ~LeaseHeld)
  BY DEF ExecuteSetNX, LeaseOf
<1>7. NoRelease' /\ LeadersRenew' /\ RenewalAge'
  BY <1>1 DEF Safe, NoRelease, LeadersRenew, RenewalAge
<1>8. LeaseOfLeader'
  <2>1. CASE lease' = lease
    BY <1>1, <2>1 DEF Safe, LeaseOfLeader
  <2>2. CASE ~LeaseHeld
    BY <1>1, <1>4, <2>2 DEF Claims, LeaseOfLeader
  <2>3. QED
    BY <1>6, <2>1, <2>2
<1>9. LeaseOfWinner'
  <2> SUFFICES ASSUME NEW d \in Coordinators, Winner(d)'
               PROVE  lease'.left + acquiring'[d].age >= LeaseTtl
    BY DEF LeaseOfWinner
  <2>1. CASE d = c
    <3>1. lease'.left = LeaseTtl
      BY <1>3, <2>1 DEF ExecuteSetNX, LeaseOf
    <3>2. acquiring'[c].age = acquiring[c].age
      BY <2>1 DEF ExecuteSetNX, Winner, Answer, Executed, NoCall, TypeOK, OneStepCalls, Calls
    <3>3. QED
      BY <2>1, <3>1, <3>2
  <2>2. CASE d # c
    <3>1. Winner(d) /\ LeaseHeld /\ lease' = lease
      BY <1>4, <1>5, <1>6, <2>2 DEF Claims
    <3>2. QED
      BY <1>2, <2>2, <3>1 DEF Safe, LeaseOfWinner
  <2>3. QED
    BY <2>1, <2>2
<1>10. OneClaim'
  <2>1. \A d \in Coordinators : d # c => (Claims(d)' <=> Claims(d))
    BY <1>1, <1>5 DEF Claims
  <2>2. CASE Claims(c)' /\ ~Claims(c)
    BY <1>1, <1>3, <1>4, <2>1, <2>2 DEF Claims, OneClaim
  <2>3. CASE ~(Claims(c)' /\ ~Claims(c))
    BY <2>1, <2>3 DEF Safe, OneClaim
  <2>4. QED
    BY <2>2, <2>3
<1>11. QED
  BY <1>7, <1>8, <1>9, <1>10 DEF Safe

\* A renewal that finds a lease fills it up again, whoever owned it.
LEMMA SetXXSafe ==
    ASSUME TypeOK, Safe, NEW c \in Coordinators, ExecuteSetXX(c)
    PROVE  Safe'
<1> USE Intervals, FieldTypes
<1>1. /\ status' = status /\ leader' = leader /\ renewOn' = renewOn /\ renewIn' = renewIn
      /\ acquiring' = acquiring /\ releasing' = releasing
  BY DEF ExecuteSetXX, timerVars
<1>2. /\ \A d \in Coordinators : d # c => renewing'[d] = renewing[d]
      /\ renewing[c].stage = "sent" /\ renewing'[c].stage # "sent"
      /\ renewing'[c].stage # "idle" => renewing'[c].age = renewing[c].age
  BY DEF ExecuteSetXX, Answer, Executed, NoCall, TypeOK, OneStepCalls, Calls
<1>3. lease'.left >= lease.left /\ lease'.left \in Nat
  BY DEF ExecuteSetXX, LeaseOf
<1>4. \A d \in Coordinators : Claims(d)' <=> Claims(d)
  BY <1>1 DEF Claims, Winner
<1>5. NoRelease' /\ LeadersRenew'
  BY <1>1 DEF Safe, NoRelease, LeadersRenew
<1>6. RenewalAge'
  BY <1>1, <1>2 DEF Safe, RenewalAge
<1>7. LeaseOfLeader'
  <2> SUFFICES ASSUME NEW d \in Coordinators, leader[d]
               PROVE  /\ renewing'[d].stage # "sent" =>
                           lease'.left + MaxDelay + RenewEvery >= LeaseTtl + renewIn[d]
                      /\ renewing'[d].stage = "sent" =>
                           lease'.left + MaxDelay + RenewEvery + renewing'[d].age >= LeaseTtl
    BY <1>1 DEF LeaseOfLeader
  <2>1. CASE d # c
    BY <1>2, <1>3, <2>1 DEF Safe, LeaseOfLeader
  <2>2. CASE d = c
    <3>1. lease'.left = LeaseTtl
      BY <2>2, ClaimsHaveLease DEF Claims, ExecuteSetXX, LeaseHeld, LeaseOf
    <3>2. QED
      BY <1>2, <2>2, <3>1
  <2>3. QED
    BY <2>1, <2>2
<1>8. LeaseOfWinner'
  <2> SUFFICES ASSUME NEW d \in Coordinators, Winner(d)'
               PROVE  lease'.left + acquiring[d].age >= LeaseTtl
    BY <1>1 DEF LeaseOfWinner
  <2>1. lease.left + acquiring[d].age >= LeaseTtl
    BY <1>1 DEF Safe, LeaseOfWinner, Winner
  <2>2. QED
    BY <1>3, <2>1
<1>9. OneClaim'
  BY <1>4 DEF Safe, OneClaim
<1>10. QED
  BY <1>5, <1>6, <1>7, <1>8, <1>9 DEF Safe

\* The winner becomes the leader, and renews from then on.
LEMMA AcquiredSafe ==
    ASSUME TypeOK, Safe, NEW c \in Coordinators, Acquired(c)
    PROVE  Safe'
<1> USE Intervals, FieldTypes
<1>1. /\ lease' = lease /\ status' = status /\ renewing' = renewing
      /\ releasing' = releasing /\ status[c] = "up"
      /\ \A d \in Coordinators : d # c =>
            /\ acquiring'[d] = acquiring[d] /\ leader'[d] = leader[d]
            /\ renewOn'[d] = renewOn[d] /\ renewIn'[d] = renewIn[d]
  <2>1. status[c] = "up"
    BY DEF Acquired, Safe, NoRelease, TypeOK
  <2>2. \A d \in Coordinators : d # c => renewOn'[d] = renewOn[d] /\ renewIn'[d] = renewIn[d]
    <3>1. CASE acquiring[c].ok /\ ~renewOn[c]
      <4>1. /\ renewOn' = [renewOn EXCEPT ![c] = TRUE]
            /\ renewIn' = [renewIn EXCEPT ![c] = RenewEvery]
        BY <3>1, Zenon DEF Acquired
      <4>2. QED
        BY <4>1 DEF TypeOK
    <3>2. CASE ~(acquiring[c].ok /\ ~renewOn[c])
      BY <3>2 DEF Acquired
    <3>3. QED
      BY <3>1, <3>2
  <2>3. \A d \in Coordinators : d # c => acquiring'[d] = acquiring[d] /\ leader'[d] = leader[d]
    BY DEF Acquired, TypeOK
  <2>4. QED
    BY <2>1, <2>2, <2>3 DEF Acquired
<1>2. leader'[c] = acquiring[c].ok /\ acquiring'[c].stage = "idle"
  BY DEF Acquired, NoCall, TypeOK
<1>3. CASE acquiring[c].ok
  <2>1. Winner(c)
    BY <1>3 DEF Acquired, Winner
  <2>2. lease.left + MaxDelay >= LeaseTtl
    <3>1. lease.left + acquiring[c].age >= LeaseTtl
      BY <2>1 DEF Safe, LeaseOfWinner
    <3>2. QED
      BY <3>1
  <2>3. /\ renewOn'[c] /\ renewIn'[c] \in 0 .. RenewEvery
        /\ ~renewOn[c] => renewIn'[c] = RenewEvery
        /\ renewOn[c] => renewIn'[c] = renewIn[c]
    <3>1. CASE ~renewOn[c]
      <4>1. /\ renewOn' = [renewOn EXCEPT ![c] = TRUE]
            /\ renewIn' = [renewIn EXCEPT ![c] = RenewEvery]
        BY <1>3, <3>1, Zenon DEF Acquired
      <4>2. QED
        BY <3>1, <4>1 DEF TypeOK
    <3>2. CASE renewOn[c]
      BY <1>3, <3>2 DEF Acquired
    <3>3. QED
      BY <3>1, <3>2
  <2>4. \A d \in Coordinators : Claims(d)' <=> Claims(d)
    BY <1>1, <1>2, <1>3, <2>1 DEF Claims, Winner
  <2>5. NoRelease' /\ LeadersRenew'
    BY <1>1, <2>3 DEF Safe, NoRelease, LeadersRenew
  <2>6. RenewalAge'
    BY <1>1, <2>3 DEF Safe, RenewalAge
  <2>7. LeaseOfLeader'
    <3> SUFFICES ASSUME NEW d \in Coordinators, leader'[d]
                 PROVE  /\ renewing[d].stage # "sent" =>
                             lease.left + MaxDelay + RenewEvery >= LeaseTtl + renewIn'[d]
                        /\ renewing[d].stage = "sent" =>
                             lease.left + MaxDelay + RenewEvery + renewing[d].age >= LeaseTtl
      BY <1>1 DEF LeaseOfLeader
    <3>1. CASE d = c
      BY <2>2, <2>3, <3>1
    <3>2. CASE d # c
      BY <1>1, <3>2 DEF Safe, LeaseOfLeader
    <3>3. QED
      BY <3>1, <3>2
  <2>8. LeaseOfWinner'
    BY <1>1, <1>2 DEF Safe, LeaseOfWinner, Winner
  <2>9. OneClaim'
    BY <2>4 DEF Safe, OneClaim
  <2>10. QED
    BY <2>5, <2>6, <2>7, <2>8, <2>9 DEF Safe
<1>4. CASE ~acquiring[c].ok
  <2>1. renewOn' = renewOn /\ renewIn' = renewIn /\ ~leader'[c]
    BY <1>2, <1>4 DEF Acquired
  <2>2. \A d \in Coordinators : Claims(d)' => Claims(d)
    BY <1>1, <1>2, <2>1 DEF Claims, Winner
  <2>3. NoRelease' /\ LeadersRenew' /\ RenewalAge'
    BY <1>1, <2>1 DEF Safe, NoRelease, LeadersRenew, RenewalAge
  <2>4. LeaseOfLeader' /\ LeaseOfWinner'
    BY <1>1, <1>2, <2>1 DEF Safe, LeaseOfLeader, LeaseOfWinner, Winner
  <2>5. OneClaim'
    BY <2>2 DEF Safe, OneClaim
  <2>6. QED
    BY <2>3, <2>4, <2>5 DEF Safe
<1>5. QED
  BY <1>3, <1>4

\* A renewal is sent when the interval fires; the lease loses its margin of
\* one interval to the age of the call.
LEMMA RenewSafe ==
    ASSUME TypeOK, Safe, NEW c \in Coordinators, Renew(c)
    PROVE  Safe'
<1> USE Intervals, FieldTypes
<1>1. /\ lease' = lease /\ status' = status /\ leader' = leader /\ renewOn' = renewOn
      /\ acquiring' = acquiring /\ releasing' = releasing
      /\ \A d \in Coordinators : d # c =>
            renewing'[d] = renewing[d] /\ renewIn'[d] = renewIn[d]
  BY DEF Renew, TypeOK
<1>2. /\ renewOn[c] /\ renewIn[c] = 0 /\ renewing[c].stage = "idle"
      /\ renewIn'[c] = RenewEvery
      /\ renewing'[c].stage = "sent" /\ renewing'[c].age = 0
  BY DEF Renew, Busy, Sent, TypeOK
<1>3. NoRelease' /\ LeadersRenew'
  BY <1>1 DEF Safe, NoRelease, LeadersRenew
<1>4. RenewalAge'
  BY <1>1, <1>2 DEF Safe, RenewalAge
<1>5. LeaseOfLeader'
  <2> SUFFICES ASSUME NEW d \in Coordinators, leader[d]
               PROVE  /\ renewing'[d].stage # "sent" =>
                           lease.left + MaxDelay + RenewEvery >= LeaseTtl + renewIn'[d]
                      /\ renewing'[d].stage = "sent" =>
                           lease.left + MaxDelay + RenewEvery + renewing'[d].age >= LeaseTtl
    BY <1>1 DEF LeaseOfLeader
  <2>1. CASE d = c
    <3>1. lease.left + MaxDelay + RenewEvery >= LeaseTtl + renewIn[c]
      BY <1>2, <2>1 DEF Safe, LeaseOfLeader
    <3>2. QED
      BY <1>2, <2>1, <3>1
  <2>2. CASE d # c
    BY <1>1, <2>2 DEF Safe, LeaseOfLeader
  <2>3. QED
    BY <2>1, <2>2
<1>6. LeaseOfWinner' /\ OneClaim'
  BY <1>1 DEF Safe, LeaseOfWinner, OneClaim, Claims, Winner
<1>7. QED
  BY <1>3, <1>4, <1>5, <1>6 DEF Safe

\* The steps that leave the lease alone and raise nobody's claim: coordinators
\* start, poll, die, lose the flag or see a call fail.
LEMMA NoNewClaimSafe ==
    ASSUME TypeOK, Safe, lease' = lease, renewIn' \in [Coordinators -> Nat],
           \A c \in Coordinators :
              /\ status'[c] # "stopped" /\ releasing'[c].stage = "idle"
              /\ leader'[c] => leader[c]
              /\ Winner(c)' => Winner(c) /\ acquiring'[c] = acquiring[c]
              /\ renewOn'[c] => renewOn[c] /\ status'[c] = "up"
              /\ renewing'[c] # renewing[c] => renewing'[c].stage = "idle"
              /\ renewing[c].stage = "sent" /\ renewing'[c] # renewing[c] => ~leader'[c]
              /\ renewing'[c].stage # "idle" /\ status'[c] = "up" =>
                    status[c] = "up" /\ renewOn'[c]
              /\ leader'[c] => status'[c] = "up" /\ renewOn'[c]
              /\ renewOn'[c] => renewIn'[c] = renewIn[c]
    PROVE  Safe'
<1> USE Intervals, FieldTypes
<1>1. NoRelease' /\ LeadersRenew'
  BY DEF NoRelease, LeadersRenew
<1>2. RenewalAge'
  BY DEF Safe, RenewalAge
<1>3. LeaseOfLeader'
  BY DEF Safe, LeaseOfLeader
<1>4. LeaseOfWinner'
  BY DEF Safe, LeaseOfWinner
<1>5. OneClaim'
  BY DEF Safe, OneClaim, Claims
<1>6. QED
  BY <1>1, <1>2, <1>3, <1>4, <1>5 DEF Safe

LEMMA StepSafe ==
    ASSUME TypeOK, Safe, Prompt, [Next]_vars, shutdowns = 0, shutdowns' = 0
    PROVE  Safe'
<1> USE Intervals, FieldTypes
<1>1. CASE Tick
  BY <1>1, TickSafe
<1>2. ASSUME NEW c \in Coordinators, Start(c) PROVE Safe'
  <2>1. /\ lease' = lease /\ leader' = leader /\ renewOn' = renewOn /\ renewIn' = renewIn
        /\ acquiring' = acquiring /\ renewing' = renewing /\ releasing' = releasing
        /\ acquiring[c].stage = "idle" /\ renewing[c].stage = "idle" /\ status[c] = "down"
        /\ \A d \in Coordinators : status'[d] = IF d = c THEN "up" ELSE status[d]
    BY <1>2 DEF Start, callVars, Busy, TypeOK
  <2>2. QED
    BY <2>1, NoNewClaimSafe
       DEF TypeOK, Safe, NoRelease, LeadersRenew, RenewalAge, Winner
<1>3. ASSUME NEW c \in Coordinators, Shutdown(c) PROVE Safe'
  BY <1>3 DEF Shutdown
<1>4. ASSUME NEW c \in Coordinators, Crash(c) PROVE Safe'
  <2>1. /\ lease' = lease
        /\ \A d \in Coordinators :
              /\ d # c => /\ status'[d] = status[d] /\ leader'[d] = leader[d]
                          /\ renewOn'[d] = renewOn[d] /\ renewIn'[d] = renewIn[d]
                          /\ acquiring'[d] = acquiring[d] /\ renewing'[d] = renewing[d]
                          /\ releasing'[d] = releasing[d]
        /\ status'[c] = "down" /\ ~leader'[c] /\ ~renewOn'[c]
        /\ renewing'[c] = Orphaned(renewing[c]) /\ releasing'[c] = Orphaned(releasing[c])
        /\ renewIn' \in [Coordinators -> Nat]
    BY <1>4 DEF Crash, TypeOK
  <2>2. /\ renewing'[c] # renewing[c] => renewing'[c].stage = "idle"
        /\ releasing'[c].stage = "idle"
    BY <2>1 DEF Orphaned, NoCall, Safe, NoRelease
  <2>3. QED
    BY <2>1, <2>2, NoNewClaimSafe
       DEF Safe, NoRelease, LeadersRenew, RenewalAge, Winner
<1>5. ASSUME NEW c \in Coordinators, StoreStep(c) PROVE Safe'
  BY <1>5, SetNXSafe, SetXXSafe DEF StoreStep, ExecuteGet, ExecuteDel, Safe, NoRelease
<1>6. ASSUME NEW c \in Coordinators, ProcessStep(c) PROVE Safe'
  <2>1. CASE Poll(c)
    <3>1. /\ lease' = lease /\ status' = status /\ leader' = leader /\ renewOn' = renewOn
          /\ renewIn' = renewIn /\ renewing' = renewing /\ releasing' = releasing
          /\ \A d \in Coordinators :
                acquiring'[d] = acquiring[d] \/ acquiring'[d].stage = "sent"
      BY <2>1 DEF Poll, Sent, TypeOK
    <3>2. QED
      BY <3>1, NoNewClaimSafe
         DEF TypeOK, Safe, NoRelease, LeadersRenew, RenewalAge, Winner
  <2>2. CASE Acquired(c)
    BY <2>2, AcquiredSafe
  <2>3. CASE Renew(c)
    BY <2>3, RenewSafe
  <2>4. CASE Renewed(c)
    <3>1. /\ lease' = lease /\ status' = status /\ renewOn' = renewOn
          /\ renewIn' = renewIn /\ acquiring' = acquiring /\ releasing' = releasing
          /\ renewing[c].stage = "done" /\ renewing'[c].stage = "idle"
          /\ \A d \in Coordinators :
                /\ d # c => renewing'[d] = renewing[d] /\ leader'[d] = leader[d]
                /\ leader'[d] => leader[d]
      BY <2>4 DEF Renewed, NoCall, timerVars, TypeOK
    <3>2. QED
      BY <3>1, NoNewClaimSafe
         DEF TypeOK, Safe, NoRelease, LeadersRenew, RenewalAge, Winner
  <2>5. CASE ReleaseRead(c) \/ Released(c)
    BY <2>5 DEF ReleaseRead, Released, Safe, NoRelease
  <2>6. QED
    BY <1>6, <2>1, <2>2, <2>3, <2>4, <2>5 DEF ProcessStep
<1>7. ASSUME NEW c \in Coordinators, ThrowStep(c) PROVE Safe'
  <2>1. CASE AcquireThrows(c)
    <3>1. /\ lease' = lease /\ status' = status /\ leader' = leader /\ renewOn' = renewOn
          /\ renewIn' = renewIn /\ renewing' = renewing /\ releasing' = releasing
          /\ \A d \in Coordinators :
                acquiring'[d] = acquiring[d] \/ acquiring'[d].stage = "idle"
      BY <2>1 DEF AcquireThrows, NoCall, timerVars, TypeOK
    <3>2. QED
      BY <3>1, NoNewClaimSafe
         DEF TypeOK, Safe, NoRelease, LeadersRenew, RenewalAge, Winner
  <2>2. CASE RenewThrows(c)
    <3>1. /\ lease' = lease /\ status' = status /\ renewOn' = renewOn
          /\ renewIn' = renewIn /\ acquiring' = acquiring /\ releasing' = releasing
          /\ ~leader'[c] /\ renewing'[c].stage = "idle"
          /\ \A d \in Coordinators :
                d # c => renewing'[d] = renewing[d] /\ leader'[d] = leader[d]
      BY <2>2 DEF RenewThrows, NoCall, timerVars, TypeOK
    <3>2. QED
      BY <3>1, NoNewClaimSafe
         DEF TypeOK, Safe, NoRelease, LeadersRenew, RenewalAge, Winner
  <2>3. CASE ReleaseThrows(c)
    BY <2>3 DEF ReleaseThrows, Busy, Safe, NoRelease
  <2>4. QED
    BY <1>7, <2>1, <2>2, <2>3 DEF ThrowStep
<1>8. CASE UNCHANGED vars
  BY <1>8 DEF vars, timerVars, callVars, Safe, NoRelease, LeadersRenew, RenewalAge,
              LeaseOfLeader, LeaseOfWinner, OneClaim, Claims, Winner
<1>9. QED
  BY <1>1, <1>2, <1>3, <1>4, <1>5, <1>6, <1>7, <1>8 DEF Next

--------------------------------------------------------------------------
(* Graceful shutdowns, without faults.                                     *)

LEMMA CallFields ==
    ASSUME TypeOK
    PROVE  \A c \in Coordinators :
              /\ acquiring[c].stage \in {"idle", "sent", "done"}
              /\ renewing[c].stage \in {"idle", "sent", "done"}
              /\ releasing[c].stage \in {"idle", "get", "got", "del", "deleted"}
              /\ releasing[c].age \in 0 .. MaxDelay /\ releasing[c].ok \in BOOLEAN
              /\ status[c] \in {"down", "up", "stopped"}
BY DEF TypeOK, OneStepCalls, ReleaseCalls, Calls

\* The lease of whoever holds it has time left for a get and a del.
LEMMA HoldersHaveLease ==
    ASSUME TypeOK, 2 * MaxDelay < RenewEvery, NEW c \in Coordinators, Sound(c), Holds(c)
    PROVE  lease.left > 0
<1> USE Intervals, FieldTypes, CallFields
<1>1. CASE status[c] = "up" /\ leader[c]
  BY <1>1 DEF Sound, LeaseRemains
<1>2. CASE releasing[c].stage = "get" /\ leader[c]
  BY <1>2 DEF Sound, LeaseRemains
<1>3. CASE Fresh(c) /\ Winner(c)
  BY <1>3 DEF Sound, LeaseRemains
<1>4. CASE Deletes(c)
  BY <1>4 DEF Sound, LeaseRemains, Deletes
<1>5. QED
  BY <1>1, <1>2, <1>3, <1>4 DEF Holds, Fresh, Claims

\* A step of somebody else.
Same(d) ==
    /\ status'[d] = status[d] /\ leader'[d] = leader[d]
    /\ renewOn'[d] = renewOn[d] /\ renewIn'[d] = renewIn[d]
    /\ acquiring'[d] = acquiring[d] /\ renewing'[d] = renewing[d]
    /\ releasing'[d] = releasing[d]

LEMMA SameHolds ==
    ASSUME NEW d \in Coordinators, Same(d)
    PROVE  /\ Claims(d)' <=> Claims(d)
           /\ Winner(d)' <=> Winner(d)
           /\ Fresh(d)' <=> Fresh(d)
           /\ Deletes(d)' <=> Deletes(d)
           /\ Holds(d)' <=> Holds(d)
BY DEF Same, Claims, Winner, Fresh, Deletes, Holds

\* It leaves a coordinator sound if the lease only grows and is not given to it.
LEMMA BystanderSound ==
    ASSUME TypeOK, NEW d \in Coordinators, Sound(d), Same(d),
           lease'.left \in Nat, lease'.left >= lease.left,
           lease'.owner = lease.owner \/ lease'.owner # d
    PROVE  Sound(d)'
<1> USE Intervals, FieldTypes, CallFields
<1>1. Unbroken(d)'
  BY SameHolds DEF Sound, Unbroken, Same
<1>2. LeaseRemains(d)'
  BY SameHolds DEF Sound, LeaseRemains, Same
<1>3. QED
  BY <1>1, <1>2 DEF Sound

\* And one that holds nothing, whatever becomes of the lease.
LEMMA IdlerSound ==
    ASSUME TypeOK, NEW d \in Coordinators, Sound(d), Same(d), ~Holds(d), lease'.owner # d
    PROVE  Sound(d)'
<1> USE Intervals, FieldTypes, CallFields
<1>1. Unbroken(d)'
  BY SameHolds DEF Sound, Unbroken, Same
<1>2. LeaseRemains(d)'
  BY SameHolds DEF Sound, LeaseRemains, Same, Holds, Claims, Fresh, Deletes
<1>3. QED
  BY <1>1, <1>2 DEF Sound

\* A step of one coordinator that takes no hold of the lease and leaves it alone.
LEMMA LocalStep ==
    ASSUME TypeOK, SafeToStop, NEW c \in Coordinators, lease' = lease,
           \A d \in Coordinators : d # c => Same(d),
           Sound(c)', Holds(c)' => Holds(c)
    PROVE  SafeToStop'
<1>1. ASSUME NEW d \in Coordinators, d # c PROVE Sound(d)'
  <2>1. lease'.left \in Nat /\ lease'.left >= lease.left
    BY FieldTypes, Intervals
  <2>2. Sound(d) /\ Same(d)
    BY <1>1 DEF SafeToStop
  <2>3. QED
    BY <2>1, <2>2, BystanderSound
<1>2. \A d \in Coordinators : d # c => (Holds(d)' <=> Holds(d))
  BY SameHolds
<1>3. OneHolds'
  BY <1>2 DEF SafeToStop, OneHolds
<1>4. QED
  BY <1>1, <1>3 DEF SafeToStop

LEMMA StartSafe ==
    ASSUME TypeOK, SafeToStop, NEW c \in Coordinators, Start(c)
    PROVE  SafeToStop'
<1> USE Intervals, FieldTypes, CallFields
<1>1. /\ lease' = lease /\ \A d \in Coordinators : d # c => Same(d)
      /\ status[c] = "down" /\ status'[c] = "up"
      /\ leader' = leader /\ renewOn' = renewOn /\ acquiring' = acquiring
      /\ renewing' = renewing /\ releasing' = releasing
  BY DEF Start, callVars, TypeOK, Same
<1>2. /\ acquiring[c].stage = "idle" /\ renewing[c].stage = "idle"
      /\ releasing[c].stage = "idle" /\ ~leader[c] /\ ~renewOn[c] /\ lease.owner # c
  BY <1>1 DEF SafeToStop, Sound, Unbroken
<1>3. Sound(c)' /\ ~Holds(c)'
  BY <1>1, <1>2 DEF Sound, Unbroken, LeaseRemains, Fresh, Claims, Winner, Holds, Deletes
<1>4. QED
  BY <1>1, <1>3, LocalStep

\* The release of a shutdown starts from the lease its process has.
LEMMA ShutdownSafe ==
    ASSUME TypeOK, SafeToStop, NEW c \in Coordinators, Shutdown(c)
    PROVE  SafeToStop'
<1> USE Intervals, FieldTypes, CallFields
<1>1. /\ lease' = lease /\ \A d \in Coordinators : d # c => Same(d)
      /\ status[c] = "up" /\ status'[c] = "stopped" /\ ~renewOn'[c]
      /\ leader' = leader /\ acquiring' = acquiring /\ renewing' = renewing
      /\ releasing'[c].stage = "get" /\ releasing'[c].age = 0
  BY DEF Shutdown, TypeOK, Same, Sent
<1>2. Sound(c)
  BY DEF SafeToStop
<1>3. /\ Winner(c)' <=> Winner(c)
      /\ Claims(c)' <=> Claims(c)
  BY <1>1 DEF Winner, Claims
<1>4. Unbroken(c)'
  BY <1>1, <1>2, <1>3 DEF Sound, Unbroken, Fresh
<1>5. LeaseRemains(c)'
  <2>1. leader[c] => lease.left + RenewEvery + 2 * MaxDelay >= LeaseTtl
    BY <1>1, <1>2 DEF Sound, LeaseRemains
  <2>2. QED
    BY <1>1, <1>2, <1>3, <2>1 DEF Sound, LeaseRemains, Fresh
<1>6. Holds(c)' => Holds(c)
  BY <1>1, <1>3 DEF Holds, Fresh, Deletes
<1>7. QED
  BY <1>1, <1>4, <1>5, <1>6, LocalStep DEF Sound

\* A winning setNX found no lease, so nobody held it.
LEMMA WinSafe ==
    ASSUME TypeOK, SafeToStop, 2 * MaxDelay < RenewEvery,
           NEW c \in Coordinators, ExecuteSetNX(c)
    PROVE  SafeToStop'
<1> USE Intervals, FieldTypes, CallFields
<1>1. /\ status' = status /\ leader' = leader /\ renewOn' = renewOn /\ renewIn' = renewIn
      /\ renewing' = renewing /\ releasing' = releasing /\ acquiring[c].stage = "sent"
      /\ \A d \in Coordinators : d # c => Same(d)
  BY DEF ExecuteSetNX, timerVars, TypeOK, Same
<1>2. Sound(c)
  BY DEF SafeToStop
<1>3. status[c] # "down"
  BY <1>1, <1>2 DEF Sound, Unbroken
<1>4. /\ acquiring'[c].stage = "done" /\ acquiring'[c].ok = ~LeaseHeld
      /\ acquiring'[c].age = acquiring[c].age
  BY <1>3 DEF ExecuteSetNX, Answer, Executed, TypeOK, OneStepCalls, Calls
<1>5. ~Winner(c) /\ (Winner(c)' <=> ~LeaseHeld)
  BY <1>1, <1>3, <1>4 DEF Winner
<1>6. Fresh(c) => ~leader[c]
  BY <1>1, <1>2 DEF Sound, Unbroken
<1>7. CASE LeaseHeld
  <2>1. lease' = lease
    BY <1>7 DEF ExecuteSetNX
  <2>2. Unbroken(c)'
    BY <1>1, <1>2, <1>3, <1>4, <1>5, <1>7, <2>1 DEF Sound, Unbroken, Fresh, Claims
  <2>3. LeaseRemains(c)'
    BY <1>1, <1>2, <1>5, <1>7, <2>1 DEF Sound, LeaseRemains, Fresh
  <2>4. Holds(c)' => Holds(c)
    BY <1>1, <1>5, <1>7 DEF Holds, Fresh, Deletes, Claims
  <2>5. QED
    BY <1>1, <2>1, <2>2, <2>3, <2>4, LocalStep DEF Sound
<1>8. CASE ~LeaseHeld
  <2>1. lease'.owner = c /\ lease'.left = LeaseTtl /\ lease.left = 0
    BY <1>8 DEF ExecuteSetNX, LeaseOf, LeaseHeld
  <2>2. \A d \in Coordinators : ~Holds(d)
    BY <2>1, HoldersHaveLease DEF SafeToStop
  <2>3. ASSUME NEW d \in Coordinators, d # c PROVE Sound(d)' /\ ~Holds(d)'
    BY <1>1, <2>1, <2>2, <2>3, IdlerSound, SameHolds DEF SafeToStop
  <2>4. Unbroken(c)'
    BY <1>1, <1>2, <1>3, <1>4, <1>5, <1>8 DEF Sound, Unbroken, Fresh, Claims
  <2>5. LeaseRemains(c)'
    BY <1>1, <1>4, <2>1 DEF LeaseRemains
  <2>6. OneHolds'
    BY <2>3 DEF OneHolds
  <2>7. QED
    BY <2>3, <2>4, <2>5, <2>6 DEF SafeToStop, Sound
<1>9. QED
  BY <1>7, <1>8

\* A renewal fills up the lease it finds, and one of a coordinator that has not yet
\* asked for its lease finds it.
LEMMA ExtendSafe ==
    ASSUME TypeOK, SafeToStop, 2 * MaxDelay < RenewEvery,
           NEW c \in Coordinators, ExecuteSetXX(c)
    PROVE  SafeToStop'
<1> USE Intervals, FieldTypes, CallFields
<1>1. /\ status' = status /\ leader' = leader /\ renewOn' = renewOn /\ renewIn' = renewIn
      /\ acquiring' = acquiring /\ releasing' = releasing /\ renewing[c].stage = "sent"
      /\ \A d \in Coordinators : d # c => Same(d)
  BY DEF ExecuteSetXX, timerVars, TypeOK, Same
<1>2. Sound(c)
  BY DEF SafeToStop
<1>3. status[c] # "down"
  BY <1>1, <1>2 DEF Sound, Unbroken
<1>4. /\ renewing'[c].stage = "done" /\ renewing'[c].ok = LeaseHeld
      /\ renewing'[c].age = renewing[c].age
  BY <1>3 DEF ExecuteSetXX, Answer, Executed, TypeOK, OneStepCalls, Calls
<1>5. /\ Winner(c)' <=> Winner(c)
      /\ Claims(c)' <=> Claims(c)
      /\ Fresh(c)' <=> Fresh(c)
      /\ Holds(c)' <=> Holds(c)
  BY <1>1 DEF Winner, Claims, Fresh, Holds, Deletes
<1>6. Fresh(c) => leader[c] /\ LeaseHeld
  <2>1. Fresh(c) => leader[c]
    BY <1>1, <1>2 DEF Sound, Unbroken
  <2>2. QED
    BY <1>2, <2>1, HoldersHaveLease DEF Holds, Claims, LeaseHeld
<1>7. CASE LeaseHeld
  <2>1. lease'.owner = c /\ lease'.left = LeaseTtl
    BY <1>7 DEF ExecuteSetXX, LeaseOf
  <2>2. ASSUME NEW d \in Coordinators, d # c PROVE Sound(d)'
    <3>1. lease'.left \in Nat /\ lease'.left >= lease.left /\ lease'.owner # d
      BY <2>1, <2>2
    <3>2. QED
      BY <1>1, <2>2, <3>1, BystanderSound DEF SafeToStop
  <2>3. Unbroken(c)'
    BY <1>1, <1>2, <1>3, <1>4, <1>5, <1>6, <1>7 DEF Sound, Unbroken, Claims
  <2>4. LeaseRemains(c)'
    <3>1. /\ releasing[c].age >= 0 /\ acquiring[c].age >= 0 /\ renewing'[c].age >= 0
          /\ RenewEvery >= renewIn[c]
      BY <1>4
    <3>2. QED
      BY <1>1, <1>4, <2>1, <3>1 DEF LeaseRemains
  <2>5. OneHolds'
    BY <1>1, <1>5, SameHolds DEF SafeToStop, OneHolds
  <2>6. QED
    BY <2>2, <2>3, <2>4, <2>5 DEF SafeToStop, Sound
<1>8. CASE ~LeaseHeld
  <2>1. lease' = lease /\ ~Fresh(c)
    BY <1>6, <1>8 DEF ExecuteSetXX
  <2>2. Unbroken(c)'
    BY <1>1, <1>3, <1>5, <2>1 DEF Unbroken, Fresh
  <2>3. LeaseRemains(c)'
    BY <1>1, <1>2, <1>5, <2>1 DEF Sound, LeaseRemains, Fresh
  <2>4. QED
    BY <1>1, <1>5, <2>1, <2>2, <2>3, LocalStep DEF Sound
<1>9. QED
  BY <1>7, <1>8

\* The get of a release finds the own name only if the lease is the releaser's.
LEMMA GetSafe ==
    ASSUME TypeOK, SafeToStop, NEW c \in Coordinators, ExecuteGet(c)
    PROVE  SafeToStop'
<1> USE Intervals, FieldTypes, CallFields
<1>1. /\ lease' = lease /\ status' = status /\ leader' = leader /\ renewOn' = renewOn
      /\ renewIn' = renewIn /\ acquiring' = acquiring /\ renewing' = renewing
      /\ releasing[c].stage = "get" /\ \A d \in Coordinators : d # c => Same(d)
  BY DEF ExecuteGet, timerVars, TypeOK, Same
<1>2. Sound(c)
  BY DEF SafeToStop
<1>3. status[c] = "stopped"
  BY <1>1, <1>2 DEF Sound, Unbroken
<1>4. /\ releasing'[c].stage = "got" /\ releasing'[c].ok = (lease.owner = c)
      /\ releasing'[c].age = releasing[c].age
  BY <1>3 DEF ExecuteGet, Answer, Executed, TypeOK, ReleaseCalls, Calls
<1>5. lease.owner = c => Claims(c)
  BY <1>1, <1>2 DEF Sound, Unbroken, Fresh
<1>6. Unbroken(c)'
  BY <1>1, <1>3, <1>4 DEF Unbroken, Fresh
<1>7. LeaseRemains(c)'
  <2>1. Claims(c) => lease.left + RenewEvery + 2 * MaxDelay + releasing[c].age >= LeaseTtl
    <3>1. CASE leader[c]
      BY <1>1, <1>2, <3>1 DEF Sound, LeaseRemains
    <3>2. CASE Winner(c)
      <4>1. lease.left + acquiring[c].age >= LeaseTtl
        BY <1>1, <1>2, <3>2 DEF Sound, LeaseRemains, Fresh
      <4>2. QED
        BY <4>1
    <3>3. QED
      BY <3>1, <3>2 DEF Claims
  <2>2. QED
    BY <1>1, <1>3, <1>4, <1>5, <2>1 DEF LeaseRemains, Fresh
<1>8. Holds(c)' => Holds(c)
  BY <1>1, <1>3, <1>4, <1>5 DEF Holds, Fresh, Deletes
<1>9. QED
  BY <1>1, <1>6, <1>7, <1>8, LocalStep DEF Sound

\* The del of a release hits the releaser's own lease: nobody else holds one.
LEMMA DelSafe ==
    ASSUME TypeOK, SafeToStop, NEW c \in Coordinators, ExecuteDel(c)
    PROVE  SafeToStop'
<1> USE Intervals, FieldTypes, CallFields
<1>1. /\ lease'.owner = NoOne /\ status' = status
      /\ releasing[c].stage = "del" /\ \A d \in Coordinators : d # c => Same(d)
  BY DEF ExecuteDel, timerVars, TypeOK, Same, NoLease
<1>2. Sound(c)
  BY DEF SafeToStop
<1>3. status[c] = "stopped"
  BY <1>1, <1>2 DEF Sound, Unbroken
<1>4. releasing'[c].stage = "deleted"
  BY <1>3 DEF ExecuteDel, Answer, Executed, TypeOK, ReleaseCalls, Calls
<1>5. ASSUME NEW d \in Coordinators, d # c PROVE Sound(d)' /\ ~Holds(d)'
  <2>1. ~Holds(d)
    BY <1>1, <1>5 DEF SafeToStop, OneHolds, Holds, Deletes
  <2>2. lease'.owner # d
    BY <1>1, BoundsAssumption
  <2>3. QED
    BY <1>1, <1>5, <2>1, <2>2, IdlerSound, SameHolds DEF SafeToStop
<1>6. Sound(c)' /\ ~Holds(c)'
  BY <1>1, <1>3, <1>4 DEF Sound, Unbroken, LeaseRemains, Fresh, Holds, Deletes
<1>7. OneHolds'
  BY <1>5, <1>6 DEF OneHolds
<1>8. QED
  BY <1>5, <1>6, <1>7 DEF SafeToStop

LEMMA PollSafe ==
    ASSUME TypeOK, SafeToStop, NEW c \in Coordinators, Poll(c)
    PROVE  SafeToStop'
<1> USE Intervals, FieldTypes, CallFields
<1>1. /\ lease' = lease /\ status' = status /\ leader' = leader /\ renewOn' = renewOn
      /\ renewIn' = renewIn /\ renewing' = renewing /\ releasing' = releasing
      /\ status[c] = "up" /\ acquiring[c].stage = "idle"
      /\ \A d \in Coordinators : d # c => Same(d)
  BY DEF Poll, Busy, TypeOK, Same
<1>2. Sound(c)
  BY DEF SafeToStop
<1>3. acquiring'[c].stage # "idle" => acquiring'[c].stage = "sent" /\ ~leader[c]
  BY <1>1 DEF Poll, Sent, TypeOK
<1>4. ~Winner(c) /\ ~Winner(c)'
  BY <1>1, <1>3 DEF Winner
<1>5. Unbroken(c)'
  BY <1>1, <1>2, <1>3, <1>4 DEF Sound, Unbroken, Fresh, Claims
<1>6. LeaseRemains(c)'
  BY <1>1, <1>2, <1>4 DEF Sound, LeaseRemains
<1>7. Holds(c)' => Holds(c)
  BY <1>1, <1>4 DEF Holds, Fresh, Deletes, Claims
<1>8. QED
  BY <1>1, <1>5, <1>6, <1>7, LocalStep DEF Sound

\* The reply to an attempt may arrive after the shutdown, and starts the renewal then.
LEMMA ReplySafe ==
    ASSUME TypeOK, SafeToStop, NEW c \in Coordinators, Acquired(c)
    PROVE  SafeToStop'
<1> USE Intervals, FieldTypes, CallFields
<1>0. /\ \A d \in Coordinators : d # c => renewOn'[d] = renewOn[d] /\ renewIn'[d] = renewIn[d]
      /\ acquiring[c].ok /\ ~renewOn[c] => renewOn'[c] /\ renewIn'[c] = RenewEvery
      /\ ~acquiring[c].ok \/ renewOn[c] => renewOn'[c] = renewOn[c] /\ renewIn'[c] = renewIn[c]
  <2>1. CASE acquiring[c].ok /\ ~renewOn[c]
    <3>1. /\ renewOn' = [renewOn EXCEPT ![c] = TRUE]
          /\ renewIn' = [renewIn EXCEPT ![c] = RenewEvery]
      BY <2>1, Zenon DEF Acquired
    <3>2. QED
      BY <2>1, <3>1 DEF TypeOK
  <2>2. CASE ~(acquiring[c].ok /\ ~renewOn[c])
    BY <2>2 DEF Acquired
  <2>3. QED
    BY <2>1, <2>2
<1>1. /\ lease' = lease /\ status' = status /\ renewing' = renewing /\ releasing' = releasing
      /\ acquiring[c].stage = "done" /\ acquiring'[c].stage = "idle" /\ status[c] # "down"
      /\ leader'[c] = acquiring[c].ok
      /\ \A d \in Coordinators : d # c => Same(d)
  BY <1>0 DEF Acquired, NoCall, TypeOK, Same
<1>2. Sound(c)
  BY DEF SafeToStop
<1>3. /\ Winner(c) <=> acquiring[c].ok
      /\ ~Winner(c)'
      /\ Fresh(c)' <=> Fresh(c)
  BY <1>1 DEF Winner, Fresh
<1>4. Fresh(c) => ~leader[c] /\ ~renewOn[c] /\ renewing[c].stage = "idle"
  BY <1>1, <1>2 DEF Sound, Unbroken
<1>5. Unbroken(c)'
  BY <1>0, <1>1, <1>2, <1>3, <1>4 DEF Sound, Unbroken, Claims, Fresh
<1>6. LeaseRemains(c)'
  <2>1. CASE Fresh(c)
    <3>1. acquiring[c].ok => lease.left + MaxDelay >= LeaseTtl
      BY <1>2, <1>3, <2>1 DEF Sound, LeaseRemains
    <3>2. QED
      BY <1>0, <1>1, <1>2, <1>3, <1>4, <2>1, <3>1 DEF Sound, LeaseRemains
  <2>2. CASE ~Fresh(c)
    BY <1>1, <1>2, <1>3, <2>2 DEF Sound, LeaseRemains, Fresh
  <2>3. QED
    BY <2>1, <2>2
<1>7. Holds(c)' => Holds(c)
  BY <1>1, <1>3 DEF Holds, Deletes, Claims
<1>8. QED
  BY <1>1, <1>5, <1>6, <1>7, LocalStep DEF Sound

LEMMA SendSafe ==
    ASSUME TypeOK, SafeToStop, NEW c \in Coordinators, Renew(c)
    PROVE  SafeToStop'
<1> USE Intervals, FieldTypes, CallFields
<1>1. /\ lease' = lease /\ status' = status /\ leader' = leader /\ renewOn' = renewOn
      /\ acquiring' = acquiring /\ releasing' = releasing
      /\ renewOn[c] /\ renewIn[c] = 0 /\ renewing[c].stage = "idle"
      /\ renewIn'[c] = RenewEvery /\ renewing'[c].stage = "sent" /\ renewing'[c].age = 0
      /\ \A d \in Coordinators : d # c => Same(d)
  BY DEF Renew, Busy, Sent, TypeOK, Same
<1>2. Sound(c)
  BY DEF SafeToStop
<1>3. /\ Winner(c)' <=> Winner(c)
      /\ Claims(c)' <=> Claims(c)
      /\ Fresh(c)' <=> Fresh(c)
      /\ Holds(c)' <=> Holds(c)
  BY <1>1 DEF Winner, Claims, Fresh, Holds, Deletes
<1>4. Unbroken(c)'
  BY <1>1, <1>2, <1>3 DEF Sound, Unbroken
<1>5. LeaseRemains(c)'
  <2>1. status[c] = "up" /\ leader[c] => lease.left + MaxDelay + RenewEvery >= LeaseTtl
    BY <1>1, <1>2 DEF Sound, LeaseRemains
  <2>2. QED
    BY <1>1, <1>2, <1>3, <2>1 DEF Sound, LeaseRemains
<1>6. QED
  BY <1>1, <1>3, <1>4, <1>5, LocalStep DEF Sound

LEMMA RenewedSafe ==
    ASSUME TypeOK, SafeToStop, NEW c \in Coordinators, Renewed(c)
    PROVE  SafeToStop'
<1> USE Intervals, FieldTypes, CallFields
<1>1. /\ lease' = lease /\ status' = status /\ renewOn' = renewOn /\ renewIn' = renewIn
      /\ acquiring' = acquiring /\ releasing' = releasing /\ status[c] # "down"
      /\ renewing[c].stage = "done" /\ renewing'[c].stage = "idle"
      /\ \A d \in Coordinators : d # c => Same(d)
  BY DEF Renewed, NoCall, timerVars, TypeOK, Same
<1>2. (leader'[c] => leader[c]) /\ (renewing[c].ok => leader'[c] = leader[c])
  BY DEF Renewed, TypeOK
<1>3. Sound(c)
  BY DEF SafeToStop
<1>4. Fresh(c) => leader'[c] = leader[c]
  BY <1>1, <1>2, <1>3 DEF Sound, Unbroken
<1>5. /\ Winner(c)' <=> Winner(c)
      /\ Fresh(c)' <=> Fresh(c)
      /\ Fresh(c) => (Claims(c)' <=> Claims(c))
  BY <1>1, <1>4 DEF Winner, Claims, Fresh
<1>6. Unbroken(c)'
  BY <1>1, <1>3, <1>4, <1>5 DEF Sound, Unbroken, Fresh
<1>7. LeaseRemains(c)'
  BY <1>1, <1>2, <1>3, <1>5 DEF Sound, LeaseRemains
<1>8. Holds(c)' => Holds(c)
  BY <1>1, <1>5 DEF Holds, Deletes
<1>9. QED
  BY <1>1, <1>6, <1>7, <1>8, LocalStep DEF Sound

LEMMA ReadSafe ==
    ASSUME TypeOK, SafeToStop, NEW c \in Coordinators, ReleaseRead(c) \/ Released(c)
    PROVE  SafeToStop'
<1> USE Intervals, FieldTypes, CallFields
<1>1. /\ lease' = lease /\ status' = status /\ renewOn' = renewOn /\ renewIn' = renewIn
      /\ acquiring' = acquiring /\ renewing' = renewing /\ status[c] # "down"
      /\ releasing[c].stage \in {"got", "deleted"}
      /\ \/ /\ releasing[c].stage = "got" /\ releasing[c].ok
            /\ releasing'[c].stage = "del" /\ releasing'[c].age = 0
         \/ releasing'[c].stage = "idle"
      /\ \A d \in Coordinators : d # c => Same(d)
  <2>1. CASE ReleaseRead(c) /\ releasing[c].ok
    <3>1. releasing' = [releasing EXCEPT ![c] = Sent("del")] /\ leader' = leader
      BY <2>1, Zenon DEF ReleaseRead
    <3>2. QED
      BY <2>1, <3>1 DEF ReleaseRead, Sent, timerVars, TypeOK, Same
  <2>2. CASE ReleaseRead(c) /\ ~releasing[c].ok
    <3>1. /\ releasing' = [releasing EXCEPT ![c] = NoCall]
          /\ leader' = [leader EXCEPT ![c] = FALSE]
      BY <2>2, Zenon DEF ReleaseRead
    <3>2. QED
      BY <2>2, <3>1 DEF ReleaseRead, NoCall, timerVars, TypeOK, Same
  <2>3. CASE Released(c)
    BY <2>3 DEF Released, NoCall, timerVars, TypeOK, Same
  <2>4. QED
    BY <2>1, <2>2, <2>3
<1>2. Sound(c)
  BY DEF SafeToStop
<1>3. status[c] = "stopped"
  BY <1>1, <1>2 DEF Sound, Unbroken
<1>4. Unbroken(c)'
  BY <1>1, <1>3 DEF Unbroken, Fresh
<1>5. LeaseRemains(c)'
  <2>1. releasing[c].stage = "got" /\ releasing[c].ok =>
           lease.left + RenewEvery + 3 * MaxDelay >= LeaseTtl
    BY <1>2 DEF Sound, LeaseRemains
  <2>2. QED
    BY <1>1, <1>3, <2>1 DEF LeaseRemains, Fresh
<1>6. Holds(c)' => Holds(c)
  BY <1>1, <1>3 DEF Holds, Deletes, Fresh
<1>7. QED
  BY <1>1, <1>4, <1>5, <1>6, LocalStep DEF Sound

\* With every tick the lease has one tick less, and so have the calls and intervals
\* that are to settle or fire before it runs out.
LEMMA TickKeepsSound ==
    ASSUME TypeOK, SafeToStop, Prompt, 2 * MaxDelay < RenewEvery, Tick
    PROVE  SafeToStop'
<1> USE Intervals, FieldTypes, CallFields
<1>1. /\ status' = status /\ leader' = leader /\ renewOn' = renewOn
      /\ \A c \in Coordinators :
            /\ renewOn[c] => renewIn[c] > 0
            /\ acquiring[c].stage # "idle" => acquiring[c].age < MaxDelay
            /\ renewing[c].stage # "idle" => renewing[c].age < MaxDelay
            /\ releasing[c].stage # "idle" => releasing[c].age < MaxDelay
  <2>1. ASSUME NEW c \in Coordinators
        PROVE  /\ renewOn[c] => renewIn[c] > 0
               /\ acquiring[c].stage # "idle" => acquiring[c].age < MaxDelay
               /\ renewing[c].stage # "idle" => renewing[c].age < MaxDelay
               /\ releasing[c].stage # "idle" => releasing[c].age < MaxDelay
    <3>1. OnTime(c)
      BY DEF Tick
    <3>2. /\ acquiring[c].age \in 0 .. MaxDelay /\ renewing[c].age \in 0 .. MaxDelay
          /\ releasing[c].age \in 0 .. MaxDelay /\ renewIn[c] \in 0 .. RenewEvery
      OBVIOUS
    <3>3. QED
      BY <3>1, <3>2 DEF OnTime, Overdue, Busy
  <2>2. QED
    BY <2>1 DEF Tick, faultVars
<1>2. \A c \in Coordinators :
         /\ acquiring'[c].stage = acquiring[c].stage
         /\ acquiring'[c].ok = acquiring[c].ok
         /\ acquiring[c].stage # "idle" => acquiring'[c].age = acquiring[c].age + 1
         /\ renewing'[c].stage = renewing[c].stage
         /\ renewing'[c].ok = renewing[c].ok
         /\ renewing[c].stage # "idle" => renewing'[c].age = renewing[c].age + 1
         /\ renewOn[c] => renewIn'[c] = renewIn[c] - 1
  BY <1>1 DEF Tick, Older, Busy, Before, TypeOK, OneStepCalls, Calls
<1>3. \A c \in Coordinators :
         /\ releasing'[c].stage = releasing[c].stage
         /\ releasing'[c].ok = releasing[c].ok
         /\ releasing[c].stage # "idle" => releasing'[c].age = releasing[c].age + 1
  BY <1>1 DEF Tick, Older, Busy, TypeOK, ReleaseCalls, Calls
<1>4. lease.left > 0 => lease'.left = lease.left - 1
  BY DEF Tick, NoLease, TypeOK
<1>5. lease'.owner = lease.owner \/ lease'.owner \notin Coordinators
  BY BoundsAssumption DEF Tick, NoLease, TypeOK
<1>6. \A c \in Coordinators :
         /\ Winner(c)' <=> Winner(c)
         /\ Claims(c)' <=> Claims(c)
         /\ Fresh(c)' <=> Fresh(c)
         /\ Deletes(c)' <=> Deletes(c)
         /\ Holds(c)' <=> Holds(c)
  BY <1>1, <1>2, <1>3 DEF Claims, Winner, Fresh, Deletes, Holds
<1>7. ASSUME NEW c \in Coordinators PROVE Sound(c)'
  <2>1. Sound(c)
    BY DEF SafeToStop
  <2>2. Holds(c) => lease'.left = lease.left - 1
    BY <1>4, <2>1, HoldersHaveLease
  <2>3. Unbroken(c)'
    <3>1. renewing[c].stage # "idle" /\ status[c] = "up" => renewOn[c]
      BY <2>1 DEF Sound, Unbroken, Fresh
    <3>2. QED
      BY <1>1, <1>2, <1>3, <1>5, <1>6, <2>1, <3>1 DEF Sound, Unbroken
  <2>4. LeaseRemains(c)'
    <3>1. CASE Holds(c)
      <4>1. status[c] = "up" /\ leader[c] => renewOn[c]
        BY <2>1 DEF Sound, Unbroken
      <4>2. QED
        BY <1>1, <1>2, <1>3, <1>6, <2>1, <2>2, <3>1, <4>1 DEF Sound, LeaseRemains, Winner
    <3>2. CASE ~Holds(c)
      BY <1>1, <1>3, <1>6, <3>2 DEF LeaseRemains, Holds, Claims, Fresh, Deletes
    <3>3. QED
      BY <3>1, <3>2
  <2>5. QED
    BY <2>3, <2>4 DEF Sound
<1>8. OneHolds'
  BY <1>6 DEF SafeToStop, OneHolds
<1>9. QED
  BY <1>7, <1>8 DEF SafeToStop

LEMMA FaultlessStep ==
    ASSUME TypeOK, SafeToStop, Prompt, 2 * MaxDelay < RenewEvery, [Next]_vars,
           errors' = errors, crashes' = crashes
    PROVE  SafeToStop'
<1>1. CASE Tick
  BY <1>1, TickKeepsSound
<1>2. ASSUME NEW c \in Coordinators, Start(c) PROVE SafeToStop'
  BY <1>2, StartSafe
<1>3. ASSUME NEW c \in Coordinators, Shutdown(c) PROVE SafeToStop'
  BY <1>3, ShutdownSafe
<1>4. ASSUME NEW c \in Coordinators, Crash(c) PROVE FALSE
  BY <1>4 DEF Crash, TypeOK
<1>5. ASSUME NEW c \in Coordinators, StoreStep(c) PROVE SafeToStop'
  BY <1>5, WinSafe, ExtendSafe, GetSafe, DelSafe DEF StoreStep
<1>6. ASSUME NEW c \in Coordinators, ProcessStep(c) PROVE SafeToStop'
  BY <1>6, PollSafe, ReplySafe, SendSafe, RenewedSafe, ReadSafe DEF ProcessStep
<1>7. ASSUME NEW c \in Coordinators, ThrowStep(c) PROVE FALSE
  BY <1>7 DEF ThrowStep, AcquireThrows, RenewThrows, ReleaseThrows, TypeOK
<1>8. CASE UNCHANGED vars
  <2>1. lease' = lease /\ \A d \in Coordinators : Same(d)
    BY <1>8 DEF vars, timerVars, callVars, Same
  <2>2. \A d \in Coordinators : Sound(d)'
    BY <2>1, BystanderSound, FieldTypes, Intervals DEF SafeToStop
  <2>3. QED
    BY <2>1, <2>2, SameHolds DEF SafeToStop, OneHolds
<1>9. QED
  BY <1>1, <1>2, <1>3, <1>4, <1>5, <1>6, <1>7, <1>8 DEF Next

--------------------------------------------------------------------------
(* The safety of the lease protocol.                                       *)

\* What is counted only grows: a state without a shutdown, or without a fault, has had
\* none before.
LEMMA CountersGrow ==
    ASSUME TypeOK, [Next]_vars
    PROVE  /\ shutdowns' = 0 => shutdowns = 0
           /\ errors' = 0 => errors = 0
           /\ crashes' = 0 => crashes = 0
<1> DEFINE Grow == /\ shutdowns' = shutdowns \/ shutdowns' = shutdowns + 1
                   /\ errors' = errors \/ errors' = errors + 1
                   /\ crashes' = crashes \/ crashes' = crashes + 1
<1>1. ASSUME Tick PROVE Grow
  BY <1>1 DEF Tick, faultVars
<1>2. ASSUME NEW c \in Coordinators, Start(c) \/ Shutdown(c) \/ Crash(c) PROVE Grow
  BY <1>2 DEF Start, Shutdown, Crash, faultVars
<1>3. ASSUME NEW c \in Coordinators, StoreStep(c) PROVE Grow
  BY <1>3 DEF StoreStep, ExecuteSetNX, ExecuteSetXX, ExecuteGet, ExecuteDel, faultVars
<1>4. ASSUME NEW c \in Coordinators, ProcessStep(c) PROVE Grow
  BY <1>4 DEF ProcessStep, Poll, Acquired, Renew, Renewed, ReleaseRead, Released, faultVars
<1>5. ASSUME NEW c \in Coordinators, ThrowStep(c) PROVE Grow
  BY <1>5 DEF ThrowStep, AcquireThrows, RenewThrows, ReleaseThrows
<1>6. ASSUME UNCHANGED vars PROVE Grow
  BY <1>6 DEF vars, faultVars
<1>7. Grow
  BY <1>1, <1>2, <1>3, <1>4, <1>5, <1>6 DEF Next
<1>8. QED
  BY <1>7 DEF TypeOK

\* The strengthening of the two properties below is inductive.
THEOREM InductiveInvariant == Spec => []IInv
<1>1. Init => IInv
  <2> SUFFICES ASSUME Init PROVE Safe /\ SafeToStop
    BY Intervals, OneStepCallTypes, ReleaseCallTypes DEF Init, IInv, TypeOK
  <2>1. Safe
    BY DEF Init, NoCall, Safe, NoRelease, LeadersRenew, RenewalAge,
           LeaseOfLeader, LeaseOfWinner, OneClaim, Claims, Winner
  <2>2. \A c \in Coordinators : ~Fresh(c) /\ ~Deletes(c) /\ ~Holds(c)
    BY DEF Init, NoCall, Fresh, Deletes, Holds
  <2>3. \A c \in Coordinators : Sound(c)
    BY <2>2, BoundsAssumption DEF Init, NoCall, Sound, Unbroken, LeaseRemains
  <2>4. QED
    BY <2>1, <2>2, <2>3 DEF SafeToStop, OneHolds
<1>2. IInv /\ TypeOK' /\ [Next]_vars => IInv'
  <2> SUFFICES ASSUME IInv, TypeOK', [Next]_vars PROVE IInv'
    OBVIOUS
  <2>1. TypeOK /\ (Prompt /\ shutdowns = 0 => Safe) /\ (Faultless => SafeToStop)
    BY DEF IInv
  <2>2. Prompt /\ shutdowns' = 0 => Safe'
    BY <2>1, StepSafe, CountersGrow
  <2>3. ASSUME Prompt, errors' = 0, crashes' = 0, 2 * MaxDelay < RenewEvery
        PROVE  SafeToStop'
    <3>1. errors = 0 /\ crashes = 0
      BY <2>1, <2>3, CountersGrow
    <3>2. SafeToStop
      BY <2>1, <2>3, <3>1 DEF Faultless
    <3>3. QED
      BY <2>1, <2>3, <3>1, <3>2, FaultlessStep
  <2>4. QED
    BY <2>2, <2>3 DEF IInv, Faultless
<1>3. QED
  BY <1>1, <1>2, TypeCorrect, PTL DEF Spec

\* REQ-DIST-023 for every instance: two coordinators never both lead, although renew
\* takes a lease without asking whose it is and a release deletes one it has only read
\* to be its own; be it that nobody has shut down, whatever calls throw and processes
\* die, or that any number has and there was no fault.
THEOREM OneLeader == Spec => []AtMostOneLeader
<1>1. IInv => AtMostOneLeader
  <2> SUFFICES ASSUME IInv, Orderly, NEW c \in Coordinators, NEW d \in Coordinators,
                      Leads(c), Leads(d)
               PROVE  c = d
    BY DEF AtMostOneLeader
  <2>1. CASE shutdowns = 0
    BY <2>1 DEF IInv, Safe, OneClaim, Claims, Orderly, Leads
  <2>2. CASE shutdowns # 0
    BY <2>2 DEF IInv, Faultless, SafeToStop, OneHolds, Holds, Fresh, Claims, Orderly, Leads
  <2>3. QED
    BY <2>1, <2>2
<1>2. QED
  BY <1>1, InductiveInvariant, PTL

\* REQ-DIST-026 for every instance, with the same faults or shutdowns: renewing every
\* third of the lease keeps it alive under a leader as long as a call takes less than
\* such a third.
THEOREM LeaseOutlivesLeader == Spec => []LeaderHasLease
<1>1. IInv => LeaderHasLease
  <2> SUFFICES ASSUME IInv, Orderly, NEW c \in Coordinators, Leads(c)
               PROVE  lease.left > 0
    BY DEF LeaderHasLease, SomeoneLeads, LeaseHeld
  <2>1. CASE shutdowns = 0
    BY <2>1, ClaimsHaveLease DEF IInv, Claims, Orderly, Leads
  <2>2. CASE shutdowns # 0
    BY <2>2, HoldersHaveLease
       DEF IInv, Faultless, SafeToStop, Holds, Fresh, Claims, Orderly, Leads
  <2>3. QED
    BY <2>1, <2>2
<1>2. QED
  BY <1>1, InductiveInvariant, PTL

=============================================================================
