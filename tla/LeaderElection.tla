--------------------------- MODULE LeaderElection ---------------------------
(***************************************************************************)
(* Coordinator high availability: leader-election.ts (the lease protocol of *)
(* one coordinator) together with failover-controller.ts (the standby that  *)
(* polls for the lease), for a set of coordinators that share one key of    *)
(* the state store.                                                         *)
(*                                                                         *)
(* Time is discrete and relative: the lease, the two interval timers and    *)
(* the age of a call in flight are counters that Tick moves.  A store call  *)
(* is sent, executed by the store, and answered in three separate steps, so *)
(* everything else may happen in between; it may also throw, before or      *)
(* after the store executed it.                                             *)
(***************************************************************************)
EXTENDS Naturals, FiniteSets

CONSTANTS
    Coordinators,   \* coordinator processes, each with its own coordinatorId
    NoOne,          \* the value of the lease key when it does not exist
    LeaseTtl,       \* leaseTtlMs, in ticks
    PollEvery,      \* pollIntervalMs of the failover controller, in ticks
    MaxDelay,       \* round trip of a store call, in ticks
    Prompt,         \* TRUE: timers fire and calls settle on time
    MaxErrors,      \* bound on the store calls that throw
    MaxCrashes,     \* bound on the processes that die
    MaxShutdowns    \* bound on the graceful shutdowns

\* Mutant of RenewEvery: renew when the lease runs out.
RenewAtExpiry == LeaseTtl

\* startRenewal: Math.floor(leaseTtlMs / 3)
RenewEvery == LeaseTtl \div 3

\* A call settles before the timer that issued it fires again, so each timer
\* has at most one call in flight.
ASSUME TimingAssumption ==
    /\ LeaseTtl \in Nat /\ PollEvery \in Nat /\ MaxDelay \in Nat
    /\ MaxDelay < RenewEvery
    /\ MaxDelay < PollEvery

ASSUME BoundsAssumption ==
    /\ NoOne \notin Coordinators
    /\ Prompt \in BOOLEAN
    /\ MaxErrors \in Nat /\ MaxCrashes \in Nat /\ MaxShutdowns \in Nat

VARIABLES
    lease,      \* the key in the store: its value and the ticks it has left
    status,     \* is the process down, up (controller started) or stopped
    leader,     \* the `leader` flag each election object keeps
    renewOn,    \* is renewalTimer set
    renewIn,    \* ticks until the renewal interval fires
    pollIn,     \* ticks until the failover interval fires
    acquiring,  \* the tryAcquire call in flight
    renewing,   \* the renew call in flight
    releasing,  \* the release call in flight
    errors,     \* store calls that have thrown
    crashes,    \* processes that have died
    shutdowns   \* processes that have shut down gracefully

timerVars == <<renewOn, renewIn, pollIn>>
callVars  == <<acquiring, renewing, releasing>>
faultVars == <<errors, crashes, shutdowns>>
vars == <<lease, status, leader, timerVars, callVars, faultVars>>

--------------------------------------------------------------------------
NoCall == [stage |-> "idle", ok |-> FALSE, age |-> 0]
Sent(stage) == [stage |-> stage, ok |-> FALSE, age |-> 0]
Executed(call, stage, ok) == [call EXCEPT !.stage = stage, !.ok = ok]
Busy(call) == call.stage # "idle"

Calls(stages) == [stage : stages \cup {"idle"}, ok : BOOLEAN, age : 0 .. MaxDelay]
OneStepCalls == Calls({"sent", "done"})
ReleaseCalls == Calls({"get", "got", "del", "deleted"})

TypeOK ==
    /\ lease \in [owner : Coordinators \cup {NoOne}, left : 0 .. LeaseTtl]
    /\ status \in [Coordinators -> {"down", "up", "stopped"}]
    /\ leader \in [Coordinators -> BOOLEAN]
    /\ renewOn \in [Coordinators -> BOOLEAN]
    /\ renewIn \in [Coordinators -> 0 .. RenewEvery]
    /\ pollIn \in [Coordinators -> 0 .. PollEvery]
    /\ acquiring \in [Coordinators -> OneStepCalls]
    /\ renewing \in [Coordinators -> OneStepCalls]
    /\ releasing \in [Coordinators -> ReleaseCalls]
    /\ errors \in Nat
    /\ crashes \in Nat
    /\ shutdowns \in Nat

Init ==
    /\ lease = [owner |-> NoOne, left |-> 0]
    /\ status = [c \in Coordinators |-> "down"]
    /\ leader = [c \in Coordinators |-> FALSE]
    /\ renewOn = [c \in Coordinators |-> FALSE]
    /\ renewIn = [c \in Coordinators |-> 0]
    /\ pollIn = [c \in Coordinators |-> 0]
    /\ acquiring = [c \in Coordinators |-> NoCall]
    /\ renewing = [c \in Coordinators |-> NoCall]
    /\ releasing = [c \in Coordinators |-> NoCall]
    /\ errors = 0
    /\ crashes = 0
    /\ shutdowns = 0

--------------------------------------------------------------------------
(* The lease store.  A key whose time has run out does not exist.          *)

LeaseHeld == lease.left > 0
LeaseOf(c) == [owner |-> c, left |-> LeaseTtl]
NoLease == [owner |-> NoOne, left |-> 0]

\* A dead process never sees the reply to a call it had sent.
Answer(c, call, stage, ok) ==
    IF status[c] = "down" THEN NoCall ELSE Executed(call, stage, ok)

\* Mutant of ExecuteSetNX: a refused attempt renews the lease it found.
ExecuteSetAndCompare(c) ==
    /\ acquiring[c].stage = "sent"
    /\ acquiring' = [acquiring EXCEPT ![c] = Answer(c, @, "done", ~LeaseHeld)]
    /\ lease' = [lease EXCEPT !.owner = IF LeaseHeld THEN @ ELSE c, !.left = LeaseTtl]
    /\ UNCHANGED <<status, leader, timerVars, renewing, releasing, faultVars>>

\* setNX: SET key id PX ttl NX
ExecuteSetNX(c) ==
    /\ acquiring[c].stage = "sent"
    /\ acquiring' = [acquiring EXCEPT ![c] = Answer(c, @, "done", ~LeaseHeld)]
    /\ lease' = IF LeaseHeld THEN lease ELSE LeaseOf(c)
    /\ UNCHANGED <<status, leader, timerVars, renewing, releasing, faultVars>>

\* setXX: SET key id PX ttl XX, whoever the key names
ExecuteSetXX(c) ==
    /\ renewing[c].stage = "sent"
    /\ renewing' = [renewing EXCEPT ![c] = Answer(c, @, "done", LeaseHeld)]
    /\ lease' = IF LeaseHeld THEN LeaseOf(c) ELSE lease
    /\ UNCHANGED <<status, leader, timerVars, acquiring, releasing, faultVars>>

ExecuteGet(c) ==
    /\ releasing[c].stage = "get"
    /\ releasing' = [releasing EXCEPT ![c] = Answer(c, @, "got", lease.owner = c)]
    /\ UNCHANGED <<lease, status, leader, timerVars, acquiring, renewing, faultVars>>

\* del removes the key unconditionally, whoever it names by now
ExecuteDel(c) ==
    /\ releasing[c].stage = "del"
    /\ releasing' = [releasing EXCEPT ![c] = Answer(c, @, "deleted", TRUE)]
    /\ lease' = NoLease
    /\ UNCHANGED <<status, leader, timerVars, acquiring, renewing, faultVars>>

--------------------------------------------------------------------------
(* failover-controller.ts                                                  *)

\* Mutant of Start: the first poll is armed one tick beyond the interval.
StartLate(c) ==
    /\ status[c] = "down"
    /\ ~Busy(acquiring[c]) /\ ~Busy(renewing[c]) /\ ~Busy(releasing[c])
    /\ status' = [status EXCEPT ![c] = "up"]
    /\ pollIn' = [pollIn EXCEPT ![c] = PollEvery + 1]
    /\ UNCHANGED <<lease, leader, renewOn, renewIn, callVars, faultVars>>

\* start() of a fresh process; it comes up later than any call it left behind
Start(c) ==
    /\ status[c] = "down"
    /\ ~Busy(acquiring[c]) /\ ~Busy(renewing[c]) /\ ~Busy(releasing[c])
    /\ status' = [status EXCEPT ![c] = "up"]
    /\ pollIn' = [pollIn EXCEPT ![c] = PollEvery]
    /\ UNCHANGED <<lease, leader, renewOn, renewIn, callVars, faultVars>>

\* attemptAcquire up to the await: a leader returns at once
Poll(c) ==
    /\ status[c] = "up" /\ pollIn[c] = 0
    /\ ~Busy(acquiring[c])
    /\ pollIn' = [pollIn EXCEPT ![c] = PollEvery]
    /\ acquiring' = IF leader[c] THEN acquiring
                    ELSE [acquiring EXCEPT ![c] = Sent("sent")]
    /\ UNCHANGED <<lease, status, leader, renewOn, renewIn, renewing, releasing, faultVars>>

\* Mutant of Acquired: the winner does not start to renew.
AcquiredWithoutRenewal(c) ==
    /\ acquiring[c].stage = "done" /\ status[c] # "down"
    /\ acquiring' = [acquiring EXCEPT ![c] = NoCall]
    /\ leader' = [leader EXCEPT ![c] = acquiring[c].ok]
    /\ UNCHANGED <<lease, status, timerVars, renewing, releasing, faultVars>>

\* tryAcquire after the await, then attemptAcquire's startRenewal, which keeps
\* a timer that is already set.  Neither asks whether the controller was stopped.
Acquired(c) ==
    /\ acquiring[c].stage = "done" /\ status[c] # "down"
    /\ acquiring' = [acquiring EXCEPT ![c] = NoCall]
    /\ leader' = [leader EXCEPT ![c] = acquiring[c].ok]
    /\ IF acquiring[c].ok /\ ~renewOn[c]
       THEN /\ renewOn' = [renewOn EXCEPT ![c] = TRUE]
            /\ renewIn' = [renewIn EXCEPT ![c] = RenewEvery]
       ELSE UNCHANGED <<renewOn, renewIn>>
    /\ UNCHANGED <<lease, status, pollIn, renewing, releasing, faultVars>>

\* stop(), stopRenewal() and release() of a graceful shutdown, up to the get
Shutdown(c) ==
    /\ shutdowns < MaxShutdowns /\ status[c] = "up"
    /\ ~Busy(releasing[c])
    /\ status' = [status EXCEPT ![c] = "stopped"]
    /\ renewOn' = [renewOn EXCEPT ![c] = FALSE]
    /\ renewIn' = [renewIn EXCEPT ![c] = 0]
    /\ pollIn' = [pollIn EXCEPT ![c] = 0]
    /\ releasing' = [releasing EXCEPT ![c] = Sent("get")]
    /\ shutdowns' = shutdowns + 1
    /\ UNCHANGED <<lease, leader, acquiring, renewing, errors, crashes>>

--------------------------------------------------------------------------
(* leader-election.ts                                                      *)

\* The renewal interval fires, whatever the leader flag says.
Renew(c) ==
    /\ renewOn[c] /\ renewIn[c] = 0
    /\ ~Busy(renewing[c])
    /\ renewIn' = [renewIn EXCEPT ![c] = RenewEvery]
    /\ renewing' = [renewing EXCEPT ![c] = Sent("sent")]
    /\ UNCHANGED <<lease, status, leader, renewOn, pollIn, acquiring, releasing, faultVars>>

\* A refused renewal lowers the flag; an accepted one does not raise it, and
\* neither touches the timer.
Renewed(c) ==
    /\ renewing[c].stage = "done" /\ status[c] # "down"
    /\ renewing' = [renewing EXCEPT ![c] = NoCall]
    /\ leader' = [leader EXCEPT ![c] = @ /\ renewing[c].ok]
    /\ UNCHANGED <<lease, status, timerVars, acquiring, releasing, faultVars>>

\* releaseInner between its two awaits
ReleaseRead(c) ==
    /\ releasing[c].stage = "got" /\ status[c] # "down"
    /\ IF releasing[c].ok
       THEN /\ releasing' = [releasing EXCEPT ![c] = Sent("del")]
            /\ UNCHANGED leader
       ELSE /\ releasing' = [releasing EXCEPT ![c] = NoCall]
            /\ leader' = [leader EXCEPT ![c] = FALSE]
    /\ UNCHANGED <<lease, status, timerVars, acquiring, renewing, faultVars>>

Released(c) ==
    /\ releasing[c].stage = "deleted" /\ status[c] # "down"
    /\ releasing' = [releasing EXCEPT ![c] = NoCall]
    /\ leader' = [leader EXCEPT ![c] = FALSE]
    /\ UNCHANGED <<lease, status, timerVars, acquiring, renewing, faultVars>>

--------------------------------------------------------------------------
(* Faults.  A call throws before the store executed it or after.           *)

\* tryAcquire's catch leaves the flag alone.
AcquireThrows(c) ==
    /\ errors < MaxErrors
    /\ Busy(acquiring[c])
    /\ acquiring' = [acquiring EXCEPT ![c] = NoCall]
    /\ errors' = errors + 1
    /\ UNCHANGED <<lease, status, leader, timerVars, renewing, releasing, crashes, shutdowns>>

RenewThrows(c) ==
    /\ errors < MaxErrors
    /\ Busy(renewing[c])
    /\ renewing' = [renewing EXCEPT ![c] = NoCall]
    /\ leader' = [leader EXCEPT ![c] = FALSE]
    /\ errors' = errors + 1
    /\ UNCHANGED <<lease, status, timerVars, acquiring, releasing, crashes, shutdowns>>

ReleaseThrows(c) ==
    /\ errors < MaxErrors
    /\ Busy(releasing[c])
    /\ releasing' = [releasing EXCEPT ![c] = NoCall]
    /\ leader' = [leader EXCEPT ![c] = FALSE]
    /\ errors' = errors + 1
    /\ UNCHANGED <<lease, status, timerVars, acquiring, renewing, crashes, shutdowns>>

\* The replies a dead process would have handled are gone; a request that is
\* still on its way is executed.
Orphaned(call) == IF call.stage \in {"sent", "get", "del"} THEN call ELSE NoCall

Crash(c) ==
    /\ crashes < MaxCrashes
    /\ status[c] # "down"
    /\ crashes' = crashes + 1
    /\ status' = [status EXCEPT ![c] = "down"]
    /\ leader' = [leader EXCEPT ![c] = FALSE]
    /\ renewOn' = [renewOn EXCEPT ![c] = FALSE]
    /\ renewIn' = [renewIn EXCEPT ![c] = 0]
    /\ pollIn' = [pollIn EXCEPT ![c] = 0]
    /\ acquiring' = [acquiring EXCEPT ![c] = Orphaned(@)]
    /\ renewing' = [renewing EXCEPT ![c] = Orphaned(@)]
    /\ releasing' = [releasing EXCEPT ![c] = Orphaned(@)]
    /\ UNCHANGED <<lease, errors, shutdowns>>

--------------------------------------------------------------------------
(* The clock.                                                              *)

Overdue(call) == Busy(call) /\ call.age = MaxDelay
OnTime(c) ==
    /\ ~Overdue(acquiring[c]) /\ ~Overdue(renewing[c]) /\ ~Overdue(releasing[c])
    /\ status[c] = "up" => pollIn[c] > 0
    /\ renewOn[c] => renewIn[c] > 0

Before(n) == IF n = 0 THEN 0 ELSE n - 1
Older(call) == IF Busy(call) /\ call.age < MaxDelay
               THEN [call EXCEPT !.age = @ + 1] ELSE call

Tick ==
    /\ Prompt => \A c \in Coordinators : OnTime(c)
    /\ lease' = IF lease.left <= 1 THEN NoLease ELSE [lease EXCEPT !.left = @ - 1]
    /\ renewIn' = [c \in Coordinators |->
                      IF renewOn[c] THEN Before(renewIn[c]) ELSE renewIn[c]]
    /\ pollIn' = [c \in Coordinators |->
                      IF status[c] = "up" THEN Before(pollIn[c]) ELSE pollIn[c]]
    /\ acquiring' = [c \in Coordinators |-> Older(acquiring[c])]
    /\ renewing' = [c \in Coordinators |-> Older(renewing[c])]
    /\ releasing' = [c \in Coordinators |-> Older(releasing[c])]
    /\ UNCHANGED <<status, leader, renewOn, faultVars>>

--------------------------------------------------------------------------
StoreStep(c) == ExecuteSetNX(c) \/ ExecuteSetXX(c) \/ ExecuteGet(c) \/ ExecuteDel(c)
ProcessStep(c) ==
    Poll(c) \/ Acquired(c) \/ Renew(c) \/ Renewed(c) \/ ReleaseRead(c) \/ Released(c)
ThrowStep(c) == AcquireThrows(c) \/ RenewThrows(c) \/ ReleaseThrows(c)

Next ==
    \/ Tick
    \/ \E c \in Coordinators :
          \/ Start(c) \/ Shutdown(c) \/ Crash(c)
          \/ StoreStep(c) \/ ProcessStep(c) \/ ThrowStep(c)

\* Time passes, the event loop runs what is due and the store answers.  Nobody
\* has to start, stop or restart a coordinator.
Fairness ==
    /\ WF_vars(Tick)
    /\ \A c \in Coordinators :
          /\ WF_vars(ExecuteSetNX(c)) /\ WF_vars(ExecuteSetXX(c))
          /\ WF_vars(ExecuteGet(c)) /\ WF_vars(ExecuteDel(c))
          /\ WF_vars(Poll(c)) /\ WF_vars(Acquired(c))
          /\ WF_vars(Renew(c)) /\ WF_vars(Renewed(c))
          /\ WF_vars(ReleaseRead(c)) /\ WF_vars(Released(c))

Spec == Init /\ [][Next]_vars
FairSpec == Spec /\ Fairness

--------------------------------------------------------------------------
(* Properties                                                              *)

Leads(c) == leader[c] /\ status[c] = "up"
SomeoneLeads == \E c \in Coordinators : Leads(c)
SomeoneUp == \E c \in Coordinators : status[c] = "up"

\* Coordinators may fail or may release the lease, but not both: releaseInner
\* deletes what a failed renewal went on renewing, and a restarted process
\* takes the lease of its predecessor, about to run out, for its own.  The get
\* and the del of a release must also fit into the lease.
Orderly ==
    /\ Prompt
    /\ shutdowns = 0 \/ (errors = 0 /\ crashes = 0 /\ 2 * MaxDelay < RenewEvery)

\* REQ-DIST-023: two running coordinators never hold the leader flag together,
\* although renew overwrites a lease whoever owns it: a call that settles within
\* a third of the lease leaves no room for a second setNX to win.
AtMostOneLeader ==
    Orderly => \A c, d \in Coordinators : Leads(c) /\ Leads(d) => c = d

\* REQ-DIST-026: renewing every third of the lease, a leader's key never
\* expires under it, so no failover happens that was not needed.
LeaderHasLease == Orderly => (SomeoneLeads => LeaseHeld)

\* REQ-DIST-024: when the leader dies, a standby that is up leads eventually.
\* Only as long as no store call throws and nobody has shut down.
Undisturbed == errors = 0 /\ shutdowns = 0
TakeOver == SomeoneUp ~> (SomeoneLeads \/ ~SomeoneUp)
TakeOverUndisturbed == []Undisturbed => TakeOver

\* REQ-DIST-027: two coordinators that both believe they lead do not go on
\* believing it: one of them learns that it lost the lease, and yields.
SplitBrain == \E c, d \in Coordinators : c # d /\ Leads(c) /\ Leads(d)
SplitBrainHeals == SplitBrain ~> ~SplitBrain
===========================================================================
