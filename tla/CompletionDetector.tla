------------------------ MODULE CompletionDetector --------------------------
(***************************************************************************)
(* The coordinator's poll loop: completion-detector.ts with its             *)
(* backoff-controller.ts.  A tick reads the counts of the store and handles *)
(* the answer later, when the store may have moved on.                      *)
(*                                                                         *)
(* waitForCompletion is called once.  The controller's abort flag is only   *)
(* raised in onStoreError, and the tick that raised it settles the promise, *)
(* so the check at the start of the next tick is never reached.  The        *)
(* restart warning of the first poll only logs and counts.                  *)
(***************************************************************************)
EXTENDS Naturals

CONSTANTS
    MaxConsecutiveFailures, \* maxConsecutiveFailures
    MaxSkipTicks            \* maxSkipTicks

ASSUME DetectorAssumption ==
    /\ MaxConsecutiveFailures \in Nat \ {0}
    /\ MaxSkipTicks \in Nat

VARIABLES
    poll,           \* where the poll loop is
    answer,         \* the counts the store answered with: is either not zero
    failures,       \* consecutive failures the backoff controller has seen
    skipRemaining,  \* ticks it still skips
    emptyPollCount, \* polls that found the queue empty
    verdict         \* the CompletionOutcome the promise resolved to

detectorVars == <<poll, answer, failures, skipRemaining, emptyPollCount, verdict>>

NoAnswer == [pending |-> FALSE, done |-> FALSE]

DetectorTypeOK ==
    /\ poll \in {"off", "sleeping", "answered", "settled"}
    /\ answer \in [pending : BOOLEAN, done : BOOLEAN]
    /\ failures \in 0 .. MaxConsecutiveFailures
    /\ skipRemaining \in 0 .. MaxSkipTicks
    /\ emptyPollCount \in 0 .. 2
    /\ verdict \in {"none", "completed", "emptyComplete", "aborted"}

DetectorInit ==
    /\ poll = "off"
    /\ answer = NoAnswer
    /\ failures = 0
    /\ skipRemaining = 0
    /\ emptyPollCount = 0
    /\ verdict = "none"

WaitForCompletion ==
    /\ poll = "off"
    /\ poll' = "sleeping"
    /\ UNCHANGED <<answer, failures, skipRemaining, emptyPollCount, verdict>>

\* Mutant of TickSkips: shouldSkipTick does not count down.
TickSkipsForever ==
    /\ poll = "sleeping" /\ skipRemaining > 0
    /\ UNCHANGED detectorVars

\* shouldSkipTick
TickSkips ==
    /\ poll = "sleeping" /\ skipRemaining > 0
    /\ skipRemaining' = skipRemaining - 1
    /\ UNCHANGED <<poll, answer, failures, emptyPollCount, verdict>>

\* A tick that asks the store: getQueueCounts reads these counts.
TickAsks(pending, done) ==
    /\ poll = "sleeping" /\ skipRemaining = 0
    /\ poll' = "answered"
    /\ answer' = [pending |-> pending, done |-> done]
    /\ UNCHANGED <<failures, skipRemaining, emptyPollCount, verdict>>

\* A tick whose query fails, at the store or on the way back: onStoreError counts the failure, and
\* aborts or skips 2^(failures-1) ticks, capped.
TickFails ==
    /\ \/ poll = "sleeping" /\ skipRemaining = 0
       \/ poll = "answered"
    /\ answer' = NoAnswer
    /\ failures' = failures + 1
    /\ IF failures' >= MaxConsecutiveFailures
       THEN /\ verdict' = "aborted"
            /\ poll' = "settled"
            /\ UNCHANGED skipRemaining
       ELSE /\ skipRemaining' = LET raw == 2 ^ failures
                                IN  IF raw < MaxSkipTicks THEN raw ELSE MaxSkipTicks
            /\ poll' = "sleeping"
            /\ UNCHANGED verdict
    /\ UNCHANGED emptyPollCount

\* Mutant of Outcome: it takes a third empty poll.
OutcomeAfterThreeEmptyPolls ==
    CASE ~answer.pending /\ answer.done -> "completed"
      [] ~answer.pending /\ ~answer.done /\ emptyPollCount > 1 -> "emptyComplete"
      [] OTHER -> "none"

Outcome ==
    CASE ~answer.pending /\ answer.done -> "completed"
      [] ~answer.pending /\ ~answer.done /\ emptyPollCount > 0 -> "emptyComplete"
      [] OTHER -> "none"

\* The rest of a tick that got its counts: onStoreSuccess, then the verdict.
TickSucceeds ==
    /\ poll = "answered"
    /\ answer' = NoAnswer
    /\ failures' = 0
    /\ skipRemaining' = 0
    /\ verdict' = Outcome
    /\ poll' = IF verdict' = "none" THEN "sleeping" ELSE "settled"
    /\ emptyPollCount' = IF answer.pending THEN 0
                         ELSE IF answer.done THEN emptyPollCount
                         ELSE emptyPollCount + 1
===========================================================================
