----------------------------- MODULE Politeness -----------------------------
(***************************************************************************)
(* politeness-controller.ts and the LruMap it keeps its domains in: calls    *)
(* that fetch from one domain are chained, each a delay after the one before. *)
(*                                                                         *)
(* Time is in ticks. Timers fire in the order they are due, before the clock  *)
(* moves on, as one event loop fires them.                                  *)
(***************************************************************************)
EXTENDS Integers, Sequences, SequencesExt

CONSTANTS Calls, Domains, NoCall, Delay, StaleThreshold, MaxDomains

ASSUME PolitenessConfig ==
    /\ NoCall \notin Calls
    /\ Delay \in Nat \ {0} /\ MaxDomains \in Nat \ {0}
    /\ StaleThreshold \in Nat

VARIABLES
    domains,      \* the entries of the LRU map, least recently used first
    chain,        \* the call an entry's promise is that of, NoCall: resolved at once
    accessAge,    \* ticks since an entry's lastAccessMs, up to StaleThreshold + 1
    slot,         \* what a call's acquire is doing
    after,        \* the call whose promise a queued call waits for
    left,         \* ticks left of a call's delay
    domainOf,     \* the domain a call has acquired
    pruning,      \* the prune timer is set
    sinceGrant,   \* ticks since a call of the domain was let through, up to Delay
    dropped       \* domains whose entry has made room for another, or all were cleared

politenessVars ==
    <<domains, chain, accessAge, slot, after, left, domainOf, pruning, sinceGrant, dropped>>

Resolved(c) == c = NoCall \/ slot[c] \in {"granted", "released"}

\* LruMap.get of a key the map has: its entry moves to the end.
Touch(d) ==
    LET place == CHOOSE i \in 1 .. Len(domains) : domains[i] = d
    IN  Append(RemoveAt(domains, place), d)

\* Mutant: room is made only when the map is over its size.
InsertLate(d) ==
    LET room == Len(domains) - MaxDomains
    IN  Append(IF room > 0 THEN SubSeq(domains, room + 1, Len(domains)) ELSE domains, d)

\* LruMap.set of a key the map does not have: the oldest entries make room.
Insert(d) ==
    LET room == Len(domains) - MaxDomains + 1
    IN  Append(IF room > 0 THEN SubSeq(domains, room + 1, Len(domains)) ELSE domains, d)

PolitenessInit ==
    /\ domains = <<>>
    /\ chain = [d \in Domains |-> NoCall]
    /\ accessAge = [d \in Domains |-> 0]
    /\ slot = [c \in Calls |-> "free"]
    /\ after = [c \in Calls |-> NoCall]
    /\ left = [c \in Calls |-> 0]
    /\ domainOf \in [Calls -> Domains]
    /\ pruning = TRUE
    /\ sinceGrant = [d \in Domains |-> Delay]
    /\ dropped = {}

\* The first call of a domain goes through at once.
AcquireFirst(c) ==
    LET d == domainOf[c] IN
    /\ d \notin ToSet(domains)
    /\ domains' = Insert(d)
    /\ dropped' = dropped \cup (ToSet(domains) \ ToSet(Insert(d)))
    /\ chain' = [chain EXCEPT ![d] = NoCall]
    /\ slot' = [slot EXCEPT ![c] = "granted"]
    /\ sinceGrant' = [sinceGrant EXCEPT ![d] = 0]
    /\ UNCHANGED <<after, left>>

\* Mutant: each call delays from its own acquire.
AcquireUnchained(c) ==
    LET d == domainOf[c] IN
    /\ d \in ToSet(domains)
    /\ domains' = Touch(d)
    /\ slot' = [slot EXCEPT ![c] = "delaying"]
    /\ left' = [left EXCEPT ![c] = Delay]
    /\ UNCHANGED <<chain, after, sinceGrant, dropped>>

\* A later one delays when the call before it has gone through.
AcquireNext(c) ==
    LET d == domainOf[c]
        prev == chain[d]
    IN
    /\ d \in ToSet(domains)
    /\ domains' = Touch(d)
    /\ chain' = [chain EXCEPT ![d] = c]
    /\ after' = [after EXCEPT ![c] = prev]
    /\ slot' = [slot EXCEPT ![c] = IF Resolved(prev) THEN "delaying" ELSE "queued"]
    /\ left' = [left EXCEPT ![c] = Delay]
    /\ UNCHANGED <<sinceGrant, dropped>>

Acquire(c) ==
    /\ slot[c] = "free"
    /\ AcquireFirst(c) \/ AcquireNext(c)
    /\ accessAge' = [accessAge EXCEPT ![domainOf[c]] = 0]
    /\ UNCHANGED <<domainOf, pruning>>

\* Mutant: the next call waits for a release nobody hears of.
GrantOne(c) ==
    /\ slot[c] = "delaying" /\ left[c] = 0
    /\ slot' = [slot EXCEPT ![c] = "granted"]
    /\ sinceGrant' = [sinceGrant EXCEPT ![domainOf[c]] = 0]
    /\ after' = [after EXCEPT ![c] = NoCall]
    /\ UNCHANGED <<domains, chain, accessAge, left, domainOf, pruning, dropped>>

\* The delay of a call is over, and that of the call chained to it begins.
Grant(c) ==
    /\ slot[c] = "delaying" /\ left[c] = 0
    /\ slot' = [x \in Calls |->
                   IF x = c THEN "granted"
                   ELSE IF slot[x] = "queued" /\ after[x] = c THEN "delaying"
                   ELSE slot[x]]
    /\ sinceGrant' = [sinceGrant EXCEPT ![domainOf[c]] = 0]
    /\ after' = [after EXCEPT ![c] = NoCall]
    /\ UNCHANGED <<domains, chain, accessAge, left, domainOf, pruning, dropped>>

\* The fetch is over: only the access time and the LRU position change.
Release(c) ==
    LET d == domainOf[c] IN
    /\ slot[c] = "granted"
    /\ slot' = [slot EXCEPT ![c] = "released"]
    /\ IF d \in ToSet(domains)
       THEN domains' = Touch(d) /\ accessAge' = [accessAge EXCEPT ![d] = 0]
       ELSE UNCHANGED <<domains, accessAge>>
    /\ UNCHANGED <<chain, after, left, domainOf, pruning, sinceGrant, dropped>>

Stale(d) == accessAge[d] > StaleThreshold

\* The entries in their order, those that are stale deleted.
Kept ==
    LET First[n \in 0 .. Len(domains)] ==
            IF n = 0 THEN <<>>
            ELSE IF Stale(domains[n]) THEN First[n - 1] ELSE Append(First[n - 1], domains[n])
    IN  First[Len(domains)]

PruneStale ==
    /\ pruning
    /\ \E d \in ToSet(domains) : Stale(d)
    /\ domains' = Kept
    /\ UNCHANGED <<chain, accessAge, slot, after, left, domainOf, pruning, sinceGrant, dropped>>

Dispose ==
    /\ pruning
    /\ pruning' = FALSE
    /\ domains' = <<>>
    /\ dropped' = Domains
    /\ UNCHANGED <<chain, accessAge, slot, after, left, domainOf, sinceGrant>>

Tick ==
    /\ \A c \in Calls : slot[c] = "delaying" => left[c] > 0
    /\ left' = [c \in Calls |-> IF slot[c] = "delaying" THEN left[c] - 1 ELSE left[c]]
    /\ sinceGrant' = [d \in Domains |->
                         IF sinceGrant[d] < Delay THEN sinceGrant[d] + 1 ELSE Delay]
    /\ accessAge' = [d \in Domains |->
                        IF d \notin ToSet(domains) THEN 0
                        ELSE IF Stale(d) THEN accessAge[d] ELSE accessAge[d] + 1]
    /\ UNCHANGED <<domains, chain, slot, after, domainOf, pruning, dropped>>

PolitenessFairness ==
    /\ WF_politenessVars(Tick)
    /\ \A c \in Calls : WF_politenessVars(Grant(c))
===========================================================================
