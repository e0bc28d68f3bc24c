----------------------------- MODULE EventStream -----------------------------
(***************************************************************************)
(* One Redis stream and one consumer group, as stream-publisher.ts and      *)
(* stream-consumer.ts use them.  The log keeps every entry ever added, so an *)
(* entry is named by its position; those before `first` have been trimmed.   *)
(* A consumer's program is external (the integration tests show it): it      *)
(* reads a batch, new or claimed, parses each entry and acknowledges all.    *)
(***************************************************************************)
EXTENDS Naturals, Sequences, FiniteSets

CONSTANTS
    Consumers,      \* consumer names of the group
    NoOne,          \* the owner of an entry that is not pending
    Subjects,       \* the crawl URLs that events are about
    MaxLen,         \* maxLen of the publisher
    Approximate,    \* `approximate`: MAXLEN ~, the server may keep more
    BatchSize,      \* count of consume and claimStale
    MaxEvents,      \* bound on the entries added
    MaxFaults       \* bound on failed calls and crashes

ASSUME StreamAssumption ==
    /\ NoOne \notin Consumers /\ NoOne \notin Subjects /\ Subjects # {}
    /\ MaxLen \in Nat \ {0} /\ BatchSize \in Nat \ {0}
    /\ Approximate \in BOOLEAN
    /\ MaxEvents \in Nat /\ MaxFaults \in Nat

VARIABLES
    log,        \* every entry added to the stream, oldest first
    first,      \* position of the oldest entry still in the stream
    group,      \* does the consumer group exist
    cursor,     \* position of the last entry delivered as new
    owner,      \* the pending entries list: who each entry was delivered to
    stale,      \* positions whose idle time has reached minIdleMs
    phase,      \* what each consumer is doing
    batch,      \* the entries a consumer was given
    handled,    \* positions parseEvent was called for
    faults      \* failed calls and crashes so far

groupVars == <<group, cursor, owner, stale>>
streamVars == <<log, first, groupVars, phase, batch, handled, faults>>

\* An entry: the event's type and subject, and whether its payload has a URL.
Entry == [type : {"CrawlCompleted", "CrawlFailed", "URLDiscovered"},
          about : Subjects, url : BOOLEAN]
Malformed == [type |-> "none", about |-> NoOne, url |-> FALSE]
Ids == 1 .. MaxEvents

StreamTypeOK ==
    /\ log \in Seq(Entry \cup {Malformed}) /\ Len(log) <= MaxEvents
    /\ first \in Nat \ {0} /\ (first = 1 \/ first <= Len(log))
    /\ group \in BOOLEAN
    /\ cursor \in 0 .. Len(log)
    /\ owner \in [Ids -> Consumers \cup {NoOne}]
    /\ stale \subseteq Ids
    /\ phase \in [Consumers -> {"down", "idle", "got", "handled"}]
    /\ batch \in [Consumers -> SUBSET Ids]
    /\ handled \subseteq Ids
    /\ faults \in Nat

StreamInit ==
    /\ log = <<>> /\ first = 1
    /\ group = FALSE /\ cursor = 0
    /\ owner = [id \in Ids |-> NoOne]
    /\ stale = {}
    /\ phase = [c \in Consumers |-> "idle"]
    /\ batch = [c \in Consumers |-> {}]
    /\ handled = {}
    /\ faults = 0

--------------------------------------------------------------------------
(* stream-publisher.ts                                                     *)

\* Mutant of OldestKept: one entry too few stays.
OldestKeptTooFew(length) == IF length >= first + MaxLen THEN length - MaxLen + 2 ELSE first

OldestKept(length) == IF length >= first + MaxLen THEN length - MaxLen + 1 ELSE first

\* XADD MAXLEN: the newest MaxLen entries stay, or with ~ perhaps some more.
Trimmed(length) ==
    {oldest \in first .. OldestKept(length) : Approximate \/ oldest = OldestKept(length)}

Append1(entry) ==
    /\ Len(log) < MaxEvents
    /\ log' = Append(log, entry)
    /\ first' \in Trimmed(Len(log) + 1)

\* An entry without a data field, from a producer that is not this publisher.
AddMalformed ==
    /\ \A id \in 1 .. Len(log) : log[id] # Malformed
    /\ Append1(Malformed)
    /\ UNCHANGED <<groupVars, phase, batch, handled, faults>>

--------------------------------------------------------------------------
(* stream-consumer.ts                                                      *)

WellFormed(ids) == {id \in ids : log[id] # Malformed}

\* Mutant of CreateGroup: the group starts at the end ($) of the stream.
CreateGroupAtEnd ==
    /\ ~group
    /\ group' = TRUE
    /\ cursor' = Len(log)
    /\ UNCHANGED <<log, first, owner, stale, phase, batch, handled, faults>>

\* XGROUP CREATE ... 0 MKSTREAM; a group that exists is left as it is.
CreateGroup ==
    /\ ~group
    /\ group' = TRUE
    /\ cursor' = 0
    /\ UNCHANGED <<log, first, owner, stale, phase, batch, handled, faults>>

\* The reply reaches the consumer, which goes on with the well-formed entries,
\* or it is lost and the call returns an error.
Receive(c, ids) ==
    \/ /\ batch' = [batch EXCEPT ![c] = WellFormed(ids)]
       /\ phase' = [phase EXCEPT ![c] = IF WellFormed(ids) = {} THEN "idle" ELSE "got"]
       /\ UNCHANGED faults
    \/ /\ faults < MaxFaults
       /\ faults' = faults + 1
       /\ UNCHANGED <<batch, phase>>

\* consume: XREADGROUP with >, which delivers what no consumer was given yet
NextUnread == IF cursor < first THEN first ELSE cursor + 1
LastOfBatch == IF NextUnread + BatchSize <= Len(log) THEN NextUnread + BatchSize - 1
               ELSE Len(log)
Consume(c) ==
    /\ phase[c] = "idle" /\ group /\ NextUnread <= Len(log)
    /\ LET ids == NextUnread .. LastOfBatch
       IN  /\ cursor' = LastOfBatch
           /\ owner' = [id \in Ids |-> IF id \in ids THEN c ELSE owner[id]]
           /\ stale' = stale \ ids
           /\ Receive(c, ids)
    /\ UNCHANGED <<log, first, group, handled>>

\* Mutant of Claimable: a consumer claims its own entries only.
ClaimableOwn(c) == {id \in Ids : owner[id] = c /\ (id \in stale \/ id < first)}

Claimable(c) == {id \in Ids : owner[id] # NoOne /\ (id \in stale \/ id < first)}

\* The entries that come first, as many as one call returns.
Oldest(ids) == {id \in ids : Cardinality({other \in ids : other < id}) < BatchSize}

\* claimStale: XAUTOCLAIM from 0-0.  An entry that was trimmed meanwhile is
\* dropped from the pending list; the others change hands, the caller's own too.
ClaimStale(c) ==
    /\ phase[c] = "idle" /\ group /\ Claimable(c) # {}
    /\ LET ids == Oldest(Claimable(c))
       IN  /\ owner' = [id \in Ids |-> IF id \notin ids THEN owner[id]
                                       ELSE IF id < first THEN NoOne ELSE c]
           /\ stale' = stale \ ids
           /\ Receive(c, {id \in ids : id >= first})
    /\ UNCHANGED <<log, first, group, cursor, handled>>

\* minIdleMs pass since the entry was last delivered.
GrowStale(id) ==
    /\ owner[id] # NoOne /\ id \notin stale
    /\ stale' = stale \cup {id}
    /\ UNCHANGED <<log, first, group, cursor, owner, phase, batch, handled, faults>>

\* parseEvent on each entry of the batch: it is handled, or skipped with a warning.
Handle(c) ==
    /\ phase[c] = "got"
    /\ handled' = handled \cup batch[c]
    /\ phase' = [phase EXCEPT ![c] = "handled"]
    /\ UNCHANGED <<log, first, groupVars, batch, faults>>

\* ack: XACK releases the entries whoever owns them by now; or the call fails
\* before it reached the server.  The consumer goes on in the same way, so one
\* that fails after it did is the first case.
Ack(c) ==
    /\ phase[c] = "handled"
    /\ phase' = [phase EXCEPT ![c] = "idle"]
    /\ batch' = [batch EXCEPT ![c] = {}]
    /\ \/ /\ owner' = [id \in Ids |-> IF id \in batch[c] THEN NoOne ELSE owner[id]]
          /\ stale' = stale \ batch[c]
          /\ UNCHANGED faults
       \/ /\ faults < MaxFaults
          /\ faults' = faults + 1
          /\ UNCHANGED <<owner, stale>>
    /\ UNCHANGED <<log, first, group, cursor, handled>>

CrashConsumer(c) ==
    /\ faults < MaxFaults /\ phase[c] # "down"
    /\ faults' = faults + 1
    /\ phase' = [phase EXCEPT ![c] = "down"]
    /\ batch' = [batch EXCEPT ![c] = {}]
    /\ UNCHANGED <<log, first, groupVars, handled>>

RestartConsumer(c) ==
    /\ phase[c] = "down"
    /\ phase' = [phase EXCEPT ![c] = "idle"]
    /\ UNCHANGED <<log, first, groupVars, batch, handled, faults>>

ConsumerStep(c) == Consume(c) \/ ClaimStale(c) \/ Handle(c) \/ Ack(c)

--------------------------------------------------------------------------
\* Durable, at-least-once delivery: an entry of the stream that is neither
\* unread nor pending has been handled.  The group starts at 0, the pending list
\* keeps what a consumer was given, and only a handled entry is acknowledged;
\* MAXLEN alone takes an entry away (`first`).
NoEventSkipped ==
    \A id \in 1 .. Len(log) :
        id < first \/ id > cursor \/ owner[id] # NoOne \/ id \in handled

\* Every well-formed entry is handled in the end, also one whose consumer
\* crashed or whose reply was lost, unless MAXLEN removes it or every consumer
\* is down.
Delivered ==
    \A id \in Ids :
        (id <= Len(log) /\ log[id] # Malformed)
            ~> (id \in handled \/ id < first \/ \A c \in Consumers : phase[c] = "down")
===========================================================================
