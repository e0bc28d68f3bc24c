---------------------------- MODULE TokenBucket -----------------------------
(***************************************************************************)
(* token-bucket.ts: a bucket of tokens per domain, refilled when it is        *)
(* looked at. Tokens are counted in ticks: one token takes TokenTicks.        *)
(***************************************************************************)
EXTENDS Integers

CONSTANTS Domains, MaxTokens, TokenTicks

ASSUME BucketConfig == MaxTokens \in Nat \ {0} /\ TokenTicks \in Nat \ {0}

Full == MaxTokens * TokenTicks

VARIABLES
    tokens,       \* as of the last refill
    elapsed,      \* ticks since lastRefill: none for a bucket that was full then,
                  \* else up to one more than fill it
    steady        \* the tokens of a bucket that is refilled all the time

bucketVars == <<tokens, elapsed, steady>>

Least(a, b) == IF a < b THEN a ELSE b

\* A domain without an entry has a full bucket.
BucketInit ==
    /\ tokens = [d \in Domains |-> Full]
    /\ elapsed = [d \in Domains |-> 0]
    /\ steady = [d \in Domains |-> Full]

\* Mutant: what a refill brings is not capped.
RefilledOver(d) == tokens[d] + elapsed[d]

Refilled(d) == Least(Full, tokens[d] + elapsed[d])

TryAcquire(d, allowed) ==
    LET cost == IF allowed THEN TokenTicks ELSE 0 IN
    /\ allowed = (Refilled(d) >= TokenTicks)
    /\ tokens' = [tokens EXCEPT ![d] = Refilled(d) - cost]
    /\ elapsed' = [elapsed EXCEPT ![d] = 0]
    /\ steady' = [steady EXCEPT ![d] = @ - cost]

BucketTick ==
    /\ elapsed' = [d \in Domains |->
                    IF tokens[d] = Full THEN 0 ELSE Least(Full - tokens[d] + 1, elapsed[d] + 1)]
    /\ steady' = [d \in Domains |-> Least(Full, steady[d] + 1)]
    /\ UNCHANGED tokens
===========================================================================
