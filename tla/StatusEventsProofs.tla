------------------------- MODULE StatusEventsProofs -------------------------
(***************************************************************************)
(* Proofs about StatusEvents, for any number of consumers, calls, entries   *)
(* and faults, exact and approximate trimming: the type invariant, that no  *)
(* event of the stream is skipped, that no event is untrue, and that events *)
(* are announced in order.                                                  *)
(***************************************************************************)
EXTENDS StatusEvents, FiniteSetTheorems, TLAPS

\* A call that publishes has an event.
HasEvent == \A p \in Updates : update[p].stage = "publishing" => update[p].event # "none"

\* A consumer that acknowledges has handled what it acknowledges.
BatchHandled == \A c \in Consumers : phase[c] = "handled" => batch[c] \subseteq handled

\* The event of a call that publishes stands for a committed change.
EventIsDue ==
    \A p \in Updates : update[p].stage = "publishing" =>
        \E n \in 1 .. Len(due[update[p].about]) : due[update[p].about][n] = update[p].event

IInv ==
    /\ TypeOK /\ HasEvent
    /\ BatchHandled /\ NoEventSkipped
    /\ EventIsDue /\ EventsAreTrue

--------------------------------------------------------------------------
(* Types.                                                                  *)

LEMMA NoUpdateType == NoUpdate \in Update
<1>1. \E u \in Subjects : TRUE
  BY StreamAssumption
<1>2. (CHOOSE u \in Subjects : TRUE) \in Subjects
  BY <1>1
<1>3. QED
  BY <1>2 DEF NoUpdate, Update, EventTypes

LEMMA EventOfType ==
    ASSUME NEW to, NEW withResult
    PROVE  EventOf(to, withResult) \in EventTypes \cup {"none"}
BY DEF EventOf, EventTypes

\* Adding an entry keeps the stream well-typed and only appends.
LEMMA AppendTypes ==
    ASSUME StreamTypeOK, NEW entry \in Entry \cup {Malformed}, Append1(entry)
    PROVE  /\ log' \in Seq(Entry \cup {Malformed}) /\ Len(log') <= MaxEvents
           /\ Len(log') = Len(log) + 1
           /\ log'[Len(log) + 1] = entry
           /\ \A id \in 1 .. Len(log) : log'[id] = log[id]
           /\ first' \in Nat \ {0} /\ first <= first' /\ first' <= Len(log')
           /\ cursor \in 0 .. Len(log')
<1>1. log \in Seq(Entry \cup {Malformed}) /\ Len(log) \in Nat /\ MaxEvents \in Nat
  BY StreamAssumption DEF StreamTypeOK
<1>2. /\ log' \in Seq(Entry \cup {Malformed})
      /\ Len(log') = Len(log) + 1
      /\ log'[Len(log) + 1] = entry
      /\ \A id \in 1 .. Len(log) : log'[id] = log[id]
  BY <1>1 DEF Append1
<1>3. Len(log') <= MaxEvents
  BY <1>1, <1>2 DEF Append1
<1>4. first \in Nat \ {0} /\ first <= Len(log) + 1
  BY <1>1 DEF StreamTypeOK
<1>5. OldestKept(Len(log) + 1) \in Nat /\ OldestKept(Len(log) + 1) <= Len(log) + 1
  BY <1>1, <1>4, StreamAssumption DEF OldestKept
<1>6. first' \in first .. OldestKept(Len(log) + 1)
  BY DEF Append1, Trimmed
<1>7. first' \in Nat \ {0} /\ first <= first' /\ first' <= Len(log')
  BY <1>1, <1>2, <1>4, <1>5, <1>6
<1>8. cursor \in 0 .. Len(log')
  BY <1>1, <1>2 DEF StreamTypeOK
<1>9. QED
  BY <1>2, <1>3, <1>7, <1>8

\* What a consumer is left with after a reply that came or was lost.
LEMMA ReceiveTypes ==
    ASSUME StreamTypeOK, NEW c \in Consumers, NEW ids \in SUBSET Ids, Receive(c, ids)
    PROVE  /\ phase' \in [Consumers -> {"down", "idle", "got", "handled"}]
           /\ batch' \in [Consumers -> SUBSET Ids]
           /\ faults' \in Nat
           /\ \A d \in Consumers : phase'[d] = "handled" => /\ phase[d] = "handled"
                                                             /\ batch'[d] = batch[d]
<1>1. CASE /\ batch' = [batch EXCEPT ![c] = WellFormed(ids)]
           /\ phase' = [phase EXCEPT ![c] = IF WellFormed(ids) = {} THEN "idle" ELSE "got"]
           /\ UNCHANGED faults
  <2>1. WellFormed(ids) \in SUBSET Ids
    BY DEF WellFormed
  <2>2. (IF WellFormed(ids) = {} THEN "idle" ELSE "got") \in {"idle", "got"}
    OBVIOUS
  <2>3. QED
    BY <1>1, <2>1, <2>2 DEF StreamTypeOK
<1>2. CASE faults' = faults + 1 /\ UNCHANGED <<batch, phase>>
  BY <1>2 DEF StreamTypeOK
<1>3. QED
  BY <1>1, <1>2 DEF Receive

LEMMA BatchIds ==
    ASSUME StreamTypeOK, NextUnread <= Len(log)
    PROVE  /\ NextUnread .. LastOfBatch \in SUBSET Ids
           /\ LastOfBatch \in 0 .. Len(log) /\ cursor <= LastOfBatch
           /\ \A id \in 1 .. LastOfBatch :
                 id < first \/ id <= cursor \/ id \in NextUnread .. LastOfBatch
<1>1. /\ Len(log) \in Nat /\ MaxEvents \in Nat /\ Len(log) <= MaxEvents
      /\ first \in Nat \ {0} /\ cursor \in Nat /\ cursor <= Len(log)
      /\ BatchSize \in Nat \ {0}
  BY StreamAssumption DEF StreamTypeOK
<1>2. /\ NextUnread \in Nat \ {0} /\ cursor < NextUnread
      /\ \A id \in Nat : id < first \/ id <= cursor \/ NextUnread <= id
  BY <1>1 DEF NextUnread
<1>3. /\ LastOfBatch \in Nat /\ NextUnread <= LastOfBatch /\ LastOfBatch <= Len(log)
  BY <1>1, <1>2 DEF LastOfBatch
<1>4. QED
  BY <1>1, <1>2, <1>3 DEF Ids

LEMMA StreamTypeStep ==
    ASSUME StreamTypeOK, StreamStep
    PROVE  StreamTypeOK'
<1>1. CASE AddMalformed
  <2>1. Append1(Malformed)
    BY <1>1 DEF AddMalformed
  <2>2. QED
    BY <1>1, <2>1, AppendTypes DEF AddMalformed, groupVars, StreamTypeOK
<1>2. CASE CreateGroup
  <2>1. Len(log) \in Nat
    BY DEF StreamTypeOK
  <2>2. QED
    BY <1>2, <2>1 DEF CreateGroup, StreamTypeOK
<1>3. ASSUME NEW id \in Ids, GrowStale(id)
      PROVE  StreamTypeOK'
  BY <1>3 DEF GrowStale, StreamTypeOK
<1>4. ASSUME NEW c \in Consumers, Consume(c)
      PROVE  StreamTypeOK'
  <2> DEFINE ids == NextUnread .. LastOfBatch
  <2>1. /\ ids \in SUBSET Ids /\ LastOfBatch \in 0 .. Len(log)
    BY <1>4, BatchIds DEF Consume
  <2>2. /\ Receive(c, ids) /\ cursor' = LastOfBatch
        /\ owner' = [id \in Ids |-> IF id \in ids THEN c ELSE owner[id]]
        /\ stale' = stale \ ids
        /\ UNCHANGED <<log, first, group, handled>>
    BY <1>4 DEF Consume
  <2> HIDE DEF ids
  <2>3. owner' \in [Ids -> Consumers \cup {NoOne}] /\ stale' \subseteq Ids
    BY <2>2 DEF StreamTypeOK
  <2>4. QED
    BY <2>1, <2>2, <2>3, ReceiveTypes DEF StreamTypeOK
<1>5. ASSUME NEW c \in Consumers, ClaimStale(c)
      PROVE  StreamTypeOK'
  <2> DEFINE ids == Oldest(Claimable(c))
  <2>1. /\ Receive(c, {id \in ids : id >= first})
        /\ owner' = [id \in Ids |-> IF id \notin ids THEN owner[id]
                                    ELSE IF id < first THEN NoOne ELSE c]
        /\ stale' = stale \ ids
        /\ UNCHANGED <<log, first, group, cursor, handled>>
    BY <1>5 DEF ClaimStale
  <2>2. {id \in ids : id >= first} \in SUBSET Ids
    BY DEF Oldest, Claimable
  <2> HIDE DEF ids
  <2>3. owner' \in [Ids -> Consumers \cup {NoOne}] /\ stale' \subseteq Ids
    BY <2>1 DEF StreamTypeOK
  <2>4. QED
    BY <2>1, <2>2, <2>3, ReceiveTypes DEF StreamTypeOK
<1>6. ASSUME NEW c \in Consumers, Handle(c)
      PROVE  StreamTypeOK'
  BY <1>6 DEF Handle, StreamTypeOK, groupVars
<1>7. ASSUME NEW c \in Consumers, Ack(c)
      PROVE  StreamTypeOK'
  <2>1. owner' \in [Ids -> Consumers \cup {NoOne}] /\ faults' \in Nat /\ stale' \subseteq Ids
    BY <1>7 DEF Ack, StreamTypeOK
  <2>2. QED
    BY <1>7, <2>1 DEF Ack, StreamTypeOK
<1>8. ASSUME NEW c \in Consumers, CrashConsumer(c) \/ RestartConsumer(c)
      PROVE  StreamTypeOK'
  BY <1>8 DEF CrashConsumer, RestartConsumer, StreamTypeOK, groupVars
<1>9. QED
  BY <1>1, <1>2, <1>3, <1>4, <1>5, <1>6, <1>7, <1>8 DEF StreamStep, ConsumerStep

LEMMA EventForType ==
    ASSUME TypeOK, HasEvent, NEW p \in Updates, update[p].stage = "publishing"
    PROVE  EventFor(p) \in Entry
BY DEF TypeOK, HasEvent, Update, EventFor, Entry, EventTypes

LEMMA CommitType ==
    ASSUME TypeOK, NEW p \in Updates, Commit(p)
    PROVE  due' \in [Subjects -> Seq(EventTypes)]
<1>1. update[p].about \in Subjects /\ update[p].event \in EventTypes \cup {"none"}
  BY DEF TypeOK, Update
<1>2. CASE update[p].event = "none"
  BY <1>2 DEF Commit, TypeOK
<1>3. CASE update[p].event # "none"
  <2>1. due' = [due EXCEPT ![update[p].about] = Append(@, update[p].event)]
    BY <1>3, Zenon DEF Commit
  <2>2. Append(due[update[p].about], update[p].event) \in Seq(EventTypes)
    BY <1>1, <1>3 DEF TypeOK
  <2>3. QED
    BY <2>1, <2>2 DEF TypeOK
<1>4. QED
  BY <1>2, <1>3

\* The calls after a step that ends the call p, or takes it to its publication.
LEMMA UpdateTypes ==
    ASSUME TypeOK, HasEvent, NEW p \in Updates
    PROVE  /\ [update EXCEPT ![p] = NoUpdate] \in [Updates -> Update]
           /\ [update EXCEPT ![p].stage = "publishing"] \in [Updates -> Update]
BY NoUpdateType DEF TypeOK, Update

LEMMA UpdateTypeStep ==
    ASSUME TypeOK, HasEvent, NEW p \in Updates, UpdateStep(p)
    PROVE  TypeOK' /\ HasEvent'
<1> USE DEF streamVars, groupVars
<1>0. StreamTypeOK /\ faults \in Nat
  BY DEF TypeOK, StreamTypeOK
<1>1. CASE UpdateStatus(p)
  <2>1. PICK u \in Subjects, to \in Statuses, withResult \in BOOLEAN :
           /\ update' = [update EXCEPT ![p] =
                 [stage |-> "writing", about |-> u,
                  event |-> EventOf(to, withResult), url |-> u \in context]]
           /\ context' = context \ {u}
           /\ overlapped' = (overlapped \/ InFlight(u))
    BY <1>1 DEF UpdateStatus
  <2>2. [stage |-> "writing", about |-> u,
         event |-> EventOf(to, withResult), url |-> u \in context] \in Update
    <3>1. (u \in context) \in BOOLEAN
      OBVIOUS
    <3>2. QED
      BY <3>1, EventOfType DEF Update
  <2>3. update' \in [Updates -> Update]
    BY <2>1, <2>2 DEF TypeOK
  <2>4. context' \subseteq Subjects
    BY <2>1 DEF TypeOK
  <2>5. overlapped' \in BOOLEAN
    BY <2>1, Zenon DEF TypeOK, InFlight
  <2>6. HasEvent'
    BY <2>1 DEF HasEvent, TypeOK
  <2>7. UNCHANGED <<streamVars, due, pipeline>> /\ updates' = updates + 1
    BY <1>1 DEF UpdateStatus
  <2>8. StreamTypeOK'
    BY <1>0, <2>7 DEF StreamTypeOK
  <2>9. QED
    BY <2>3, <2>4, <2>5, <2>6, <2>7, <2>8 DEF TypeOK
<1>2. CASE Write(p)
  <2>1. StreamTypeOK'
    BY <1>0, <1>2 DEF Write, StreamTypeOK
  <2>2. due' \in [Subjects -> Seq(EventTypes)]
    BY <1>2, CommitType DEF Write
  <2>3. update' \in [Updates -> Update] /\ HasEvent'
    <3>1. CASE update[p].event = "none"
      <4>1. update' = [update EXCEPT ![p] = NoUpdate]
        BY <1>2, <3>1, Zenon DEF Write
      <4>2. QED
        BY <4>1, UpdateTypes DEF HasEvent, NoUpdate, TypeOK
    <3>2. CASE update[p].event # "none"
      <4>1. update' = [update EXCEPT ![p].stage = "publishing"]
        BY <1>2, <3>2, Zenon DEF Write
      <4>2. QED
        BY <3>2, <4>1, UpdateTypes DEF HasEvent, TypeOK, Update
    <3>3. QED
      BY <3>1, <3>2
  <2>4. QED
    BY <1>2, <2>1, <2>2, <2>3 DEF Write, TypeOK
<1>3. CASE WriteFails(p)
  <2>1. StreamTypeOK'
    BY <1>0, <1>3 DEF WriteFails, StreamTypeOK
  <2>2. due' \in [Subjects -> Seq(EventTypes)]
    BY <1>3, CommitType DEF WriteFails, TypeOK
  <2>3. update' \in [Updates -> Update] /\ HasEvent'
    BY <1>3, UpdateTypes DEF WriteFails, HasEvent, NoUpdate, TypeOK
  <2>4. QED
    BY <1>3, <2>1, <2>2, <2>3 DEF WriteFails, TypeOK
<1>4. CASE Publish(p)
  <2>1. EventFor(p) \in Entry \cup {Malformed}
    BY <1>4, EventForType DEF Publish
  <2>2. StreamTypeOK'
    BY <1>0, <1>4, <2>1, AppendTypes DEF Publish, StreamTypeOK
  <2>3. update' \in [Updates -> Update] /\ HasEvent'
    BY <1>4, UpdateTypes DEF Publish, HasEvent, NoUpdate, TypeOK
  <2>4. QED
    BY <1>4, <2>2, <2>3 DEF Publish, TypeOK
<1>5. CASE PublishFails(p)
  <2>1. EventFor(p) \in Entry \cup {Malformed}
    BY <1>5, EventForType DEF PublishFails
  <2>2. StreamTypeOK'
    <3>1. CASE Append1(EventFor(p))
      BY <1>0, <1>5, <3>1, <2>1, AppendTypes DEF PublishFails, StreamTypeOK
    <3>2. CASE UNCHANGED <<log, first>>
      BY <1>0, <1>5, <3>2 DEF PublishFails, StreamTypeOK
    <3>3. QED
      BY <1>5, <3>1, <3>2 DEF PublishFails
  <2>3. update' \in [Updates -> Update] /\ HasEvent'
    BY <1>5, UpdateTypes DEF PublishFails, HasEvent, NoUpdate, TypeOK
  <2>4. QED
    BY <1>5, <2>2, <2>3 DEF PublishFails, TypeOK
<1>6. QED
  BY <1>1, <1>2, <1>3, <1>4, <1>5 DEF UpdateStep

LEMMA LinkTypeStep ==
    ASSUME TypeOK, HasEvent, LinkStep
    PROVE  TypeOK' /\ HasEvent'
<1> USE DEF streamVars, groupVars
<1>0. StreamTypeOK /\ pipeline \in Seq(LinkEvents) /\ MaxBatch \in Nat
  BY UpdatesAssumption DEF TypeOK
<1>1. ASSUME NEW u \in Subjects, NEW n \in 1 .. MaxBatch + 1, Discover(u, n)
      PROVE  TypeOK' /\ HasEvent'
  <2>1. LinkEvent(u) \in LinkEvents
    BY DEF LinkEvent, LinkEvents
  <2>2. (IF n > MaxBatch THEN MaxBatch ELSE n) \in Nat
    BY <1>0
  <2>3. pipeline' \in Seq(LinkEvents)
    BY <1>1, <2>1, <2>2 DEF Discover
  <2>4. StreamTypeOK' /\ HasEvent'
    BY <1>0, <1>1 DEF Discover, StreamTypeOK, HasEvent
  <2>5. updates' \in Nat
    BY <1>1 DEF Discover, TypeOK
  <2>6. QED
    BY <1>1, <2>3, <2>4, <2>5 DEF Discover, TypeOK
<1>2. CASE PublishBatch
  <2>1. Head(pipeline) \in LinkEvents /\ Tail(pipeline) \in Seq(LinkEvents)
    BY <1>0, <1>2 DEF PublishBatch
  <2> Head(pipeline) \in Entry \cup {Malformed}
    BY <2>1 DEF LinkEvents, Entry
  <2>2. StreamTypeOK'
    BY <1>0, <1>2, <2>1, AppendTypes DEF PublishBatch, StreamTypeOK
  <2>3. HasEvent'
    BY <1>2 DEF PublishBatch, HasEvent
  <2>4. QED
    BY <1>2, <2>1, <2>2, <2>3 DEF PublishBatch, TypeOK
<1>3. CASE PublishBatchFails
  <2>1. pipeline' \in Seq(LinkEvents)
    <3>1. <<>> \in Seq(LinkEvents)
      OBVIOUS
    <3>2. pipeline # <<>> => Tail(pipeline) \in Seq(LinkEvents)
      BY <1>0
    <3>3. QED
      BY <1>3, <3>1, <3>2, Zenon DEF PublishBatchFails
  <2>2. StreamTypeOK' /\ HasEvent'
    BY <1>0, <1>3 DEF PublishBatchFails, StreamTypeOK, HasEvent
  <2>3. QED
    BY <1>3, <2>1, <2>2 DEF PublishBatchFails, TypeOK
<1>4. QED
  BY <1>1, <1>2, <1>3 DEF LinkStep

LEMMA TypeStep ==
    ASSUME TypeOK, HasEvent, [Next]_vars
    PROVE  TypeOK' /\ HasEvent'
<1>1. ASSUME NEW u \in Subjects, SetContext(u)
      PROVE  TypeOK' /\ HasEvent'
  <2>1. context' \subseteq Subjects /\ updates' \in Nat
    BY <1>1 DEF SetContext, TypeOK
  <2>2. StreamTypeOK' /\ HasEvent'
    BY <1>1 DEF SetContext, TypeOK, StreamTypeOK, HasEvent, streamVars, groupVars
  <2>3. QED
    BY <1>1, <2>1, <2>2 DEF SetContext, TypeOK
<1>2. CASE CrashRepository
  <2>1. update' \in [Updates -> Update] /\ HasEvent' /\ context' \subseteq Subjects
    BY <1>2, NoUpdateType DEF CrashRepository, HasEvent, NoUpdate
  <2>2. StreamTypeOK'
    BY <1>2 DEF CrashRepository, TypeOK, StreamTypeOK, groupVars
  <2>3. QED
    BY <1>2, <2>1, <2>2 DEF CrashRepository, TypeOK
<1>3. CASE StreamStep /\ UNCHANGED repoVars
  BY <1>3, StreamTypeStep DEF TypeOK, HasEvent, repoVars
<1>4. CASE UNCHANGED vars
  BY <1>4 DEF vars, repoVars, streamVars, groupVars, TypeOK, StreamTypeOK, HasEvent
<1>5. QED
  BY <1>1, <1>2, <1>3, <1>4, UpdateTypeStep, LinkTypeStep DEF Next

--------------------------------------------------------------------------
(* No event is skipped.                                                    *)

\* A step that only adds to the stream.
LEMMA AppendSkipsNothing ==
    ASSUME StreamTypeOK, NoEventSkipped, NEW entry \in Entry \cup {Malformed},
           Append1(entry), UNCHANGED <<cursor, owner, handled>>
    PROVE  NoEventSkipped'
<1> SUFFICES ASSUME NEW id \in 1 .. Len(log')
             PROVE  id < first' \/ id > cursor \/ owner[id] # NoOne \/ id \in handled
  BY DEF NoEventSkipped
<1>1. /\ Len(log) \in Nat /\ cursor \in 0 .. Len(log)
      /\ Len(log') = Len(log) + 1 /\ first <= first' /\ first \in Nat /\ first' \in Nat
  BY AppendTypes DEF StreamTypeOK
<1>2. CASE id = Len(log) + 1
  BY <1>1, <1>2
<1>3. CASE id \in 1 .. Len(log)
  BY <1>1, <1>3 DEF NoEventSkipped
<1>4. QED
  BY <1>1, <1>2, <1>3

LEMMA StreamSkipsNothing ==
    ASSUME StreamTypeOK, BatchHandled, NoEventSkipped, StreamStep
    PROVE  BatchHandled' /\ NoEventSkipped'
<1> USE DEF NoEventSkipped
<1>0. /\ Len(log) \in Nat /\ MaxEvents \in Nat /\ Len(log) <= MaxEvents
      /\ cursor \in 0 .. Len(log) /\ first \in Nat
      /\ owner \in [Ids -> Consumers \cup {NoOne}]
      /\ 1 .. Len(log) \subseteq Ids
  BY StreamAssumption DEF StreamTypeOK, Ids
<1>1. CASE AddMalformed
  <2>1. Append1(Malformed) /\ UNCHANGED <<cursor, owner, handled, phase, batch>>
    BY <1>1 DEF AddMalformed, groupVars
  <2>2. NoEventSkipped'
    BY <2>1, AppendSkipsNothing
  <2>3. QED
    BY <2>1, <2>2 DEF BatchHandled
<1>2. CASE CreateGroup
  BY <1>0, <1>2 DEF CreateGroup, BatchHandled
<1>3. ASSUME NEW id \in Ids, GrowStale(id)
      PROVE  BatchHandled' /\ NoEventSkipped'
  BY <1>3 DEF GrowStale, BatchHandled
<1>4. ASSUME NEW c \in Consumers, Consume(c)
      PROVE  BatchHandled' /\ NoEventSkipped'
  <2> DEFINE ids == NextUnread .. LastOfBatch
  <2>1. /\ ids \in SUBSET Ids
        /\ LastOfBatch \in 0 .. Len(log) /\ cursor <= LastOfBatch
        /\ \A id \in 1 .. LastOfBatch : id < first \/ id <= cursor \/ id \in ids
    BY <1>4, BatchIds DEF Consume
  <2>2. /\ Receive(c, ids) /\ cursor' = LastOfBatch
        /\ owner' = [id \in Ids |-> IF id \in ids THEN c ELSE owner[id]]
        /\ UNCHANGED <<log, first, handled>>
    BY <1>4 DEF Consume
  <2> HIDE DEF ids
  <2>3. BatchHandled'
    BY <2>1, <2>2, ReceiveTypes DEF BatchHandled
  <2>4. ASSUME NEW id \in 1 .. Len(log)
        PROVE  id < first \/ id > LastOfBatch \/ owner'[id] # NoOne \/ id \in handled
    <3>1. CASE id \in ids
      BY <1>0, <2>2, <3>1, StreamAssumption
    <3>2. CASE id \notin ids
      <4>1. owner'[id] = owner[id]
        BY <1>0, <2>2, <3>2
      <4>2. id < first \/ id > cursor \/ owner[id] # NoOne \/ id \in handled
        OBVIOUS
      <4>3. QED
        BY <1>0, <2>1, <3>2, <4>1, <4>2
    <3>3. QED
      BY <3>1, <3>2
  <2>5. QED
    BY <2>2, <2>3, <2>4
<1>5. ASSUME NEW c \in Consumers, ClaimStale(c)
      PROVE  BatchHandled' /\ NoEventSkipped'
  <2> DEFINE ids == Oldest(Claimable(c))
  <2>1. /\ Receive(c, {id \in ids : id >= first})
        /\ owner' = [id \in Ids |-> IF id \notin ids THEN owner[id]
                                    ELSE IF id < first THEN NoOne ELSE c]
        /\ UNCHANGED <<log, first, cursor, handled>>
    BY <1>5 DEF ClaimStale
  <2>2. {id \in ids : id >= first} \in SUBSET Ids
    BY DEF Oldest, Claimable
  <2> HIDE DEF ids
  <2>3. BatchHandled'
    BY <2>1, <2>2, ReceiveTypes DEF BatchHandled
  <2>4. ASSUME NEW id \in 1 .. Len(log)
        PROVE  id < first \/ id > cursor \/ owner'[id] # NoOne \/ id \in handled
    BY <1>0, <2>1, StreamAssumption
  <2>5. QED
    BY <2>1, <2>3, <2>4
<1>6. ASSUME NEW c \in Consumers, Handle(c)
      PROVE  BatchHandled' /\ NoEventSkipped'
  <2>1. BatchHandled'
    BY <1>6 DEF Handle, BatchHandled, StreamTypeOK
  <2>2. QED
    BY <1>6, <2>1 DEF Handle, groupVars
<1>7. ASSUME NEW c \in Consumers, Ack(c)
      PROVE  BatchHandled' /\ NoEventSkipped'
  <2>1. BatchHandled'
    BY <1>7 DEF Ack, BatchHandled, StreamTypeOK
  <2>2. batch[c] \subseteq handled
    BY <1>7 DEF Ack, BatchHandled
  <2>3. ASSUME NEW id \in 1 .. Len(log)
        PROVE  id < first \/ id > cursor \/ owner'[id] # NoOne \/ id \in handled
    <3>1. CASE owner' = [other \in Ids |-> IF other \in batch[c] THEN NoOne ELSE owner[other]]
      BY <1>0, <2>2, <3>1
    <3>2. CASE owner' = owner
      BY <3>2
    <3>3. QED
      BY <1>7, <3>1, <3>2 DEF Ack
  <2>4. QED
    BY <1>7, <2>1, <2>3 DEF Ack
<1>8. ASSUME NEW c \in Consumers, CrashConsumer(c) \/ RestartConsumer(c)
      PROVE  BatchHandled' /\ NoEventSkipped'
  <2>1. BatchHandled'
    BY <1>8 DEF CrashConsumer, RestartConsumer, BatchHandled, StreamTypeOK
  <2>2. QED
    BY <1>8, <2>1 DEF CrashConsumer, RestartConsumer, groupVars
<1>9. QED
  BY <1>1, <1>2, <1>3, <1>4, <1>5, <1>6, <1>7, <1>8 DEF StreamStep, ConsumerStep

LEMMA DeliveryStep ==
    ASSUME TypeOK, HasEvent, BatchHandled, NoEventSkipped, [Next]_vars
    PROVE  BatchHandled' /\ NoEventSkipped'
<1>0. StreamTypeOK
  BY DEF TypeOK
<1>1. CASE UNCHANGED <<log, first, groupVars, phase, batch, handled>>
  BY <1>1 DEF groupVars, BatchHandled, NoEventSkipped
<1>2. ASSUME NEW p \in Updates, Publish(p) \/ PublishFails(p)
      PROVE  BatchHandled' /\ NoEventSkipped'
  <2>1. UNCHANGED <<groupVars, phase, batch, handled>>
    BY <1>2 DEF Publish, PublishFails
  <2>2. CASE UNCHANGED <<log, first>>
    BY <1>1, <2>1, <2>2
  <2>3. CASE Append1(EventFor(p))
    <3>1. EventFor(p) \in Entry \cup {Malformed}
      BY <1>2, EventForType DEF Publish, PublishFails
    <3>2. NoEventSkipped'
      BY <1>0, <2>1, <2>3, <3>1, AppendSkipsNothing DEF groupVars
    <3>3. QED
      BY <2>1, <3>2 DEF BatchHandled
  <2>4. QED
    BY <1>2, <2>2, <2>3 DEF Publish, PublishFails
<1>3. CASE StreamStep
  BY <1>0, <1>3, StreamSkipsNothing
<1>4. ASSUME NEW p \in Updates, UpdateStatus(p) \/ Write(p) \/ WriteFails(p)
      PROVE  UNCHANGED <<log, first, groupVars, phase, batch, handled>>
  BY <1>4 DEF UpdateStatus, Write, WriteFails, streamVars
<1>5. ASSUME NEW u \in Subjects, SetContext(u)
      PROVE  UNCHANGED <<log, first, groupVars, phase, batch, handled>>
  BY <1>5 DEF SetContext, streamVars
<1>6. CASE CrashRepository
  BY <1>1, <1>6 DEF CrashRepository
<1>7. CASE UNCHANGED vars
  BY <1>1, <1>7 DEF vars, streamVars
<1>8. CASE LinkStep
  <2>1. CASE PublishBatch
    <3>1. UNCHANGED <<groupVars, phase, batch, handled>> /\ Append1(Head(pipeline))
      BY <2>1 DEF PublishBatch
    <3>2. Head(pipeline) \in Entry \cup {Malformed}
      <4>1. Head(pipeline) \in LinkEvents
        BY <2>1 DEF PublishBatch, TypeOK
      <4>2. QED
        BY <4>1 DEF LinkEvents, Entry
    <3>3. NoEventSkipped'
      BY <1>0, <3>1, <3>2, AppendSkipsNothing DEF groupVars
    <3>4. QED
      BY <3>1, <3>3 DEF BatchHandled
  <2>2. CASE UNCHANGED <<log, first, groupVars, phase, batch, handled>>
    BY <1>1, <2>2
  <2>3. QED
    BY <1>8, <2>1, <2>2 DEF LinkStep, Discover, PublishBatchFails, streamVars
<1>9. QED
  BY <1>1, <1>2, <1>3, <1>4, <1>5, <1>6, <1>7, <1>8 DEF Next, UpdateStep

--------------------------------------------------------------------------
(* No event is untrue.                                                     *)

\* The changes of a URL are never forgotten.
LEMMA DueGrows ==
    ASSUME TypeOK, NEW p \in Updates, Commit(p)
    PROVE  /\ \A u \in Subjects : \A n \in 1 .. Len(due[u]) :
                 n \in 1 .. Len(due'[u]) /\ due'[u][n] = due[u][n]
           /\ update[p].event # "none" =>
                 \E n \in 1 .. Len(due'[update[p].about]) :
                     due'[update[p].about][n] = update[p].event
<1>1. update[p].about \in Subjects /\ due \in [Subjects -> Seq(EventTypes)]
  BY DEF TypeOK, Update
<1>2. CASE update[p].event = "none"
  BY <1>1, <1>2 DEF Commit
<1>3. CASE update[p].event # "none"
  <2> DEFINE about == update[p].about
             event == update[p].event
  <2>1. due' = [due EXCEPT ![about] = Append(due[about], event)]
    BY <1>3, Zenon DEF Commit
  <2> HIDE DEF about, event
  <2>2. about \in Subjects
    BY <1>1 DEF about
  <2>3. due'[about] = Append(due[about], event) /\ Len(due[about]) \in Nat
    BY <1>1, <2>1, <2>2
  <2>4. /\ Len(due'[about]) = Len(due[about]) + 1
        /\ due'[about][Len(due[about]) + 1] = event
        /\ \A n \in 1 .. Len(due[about]) : due'[about][n] = due[about][n]
    BY <1>1, <2>2, <2>3
  <2>5. \A u \in Subjects : u # about => due'[u] = due[u]
    BY <1>1, <2>1
  <2>6. \A u \in Subjects : \A n \in 1 .. Len(due[u]) :
           n \in 1 .. Len(due'[u]) /\ due'[u][n] = due[u][n]
    BY <2>2, <2>3, <2>4, <2>5
  <2>7. \E n \in 1 .. Len(due'[about]) : due'[about][n] = event
    BY <2>3, <2>4
  <2>8. QED
    BY <2>6, <2>7 DEF about, event
<1>4. QED
  BY <1>2, <1>3

\* An added event that is due leaves every event of the stream true.
LEMMA AppendIsTrue ==
    ASSUME TypeOK, EventsAreTrue, UNCHANGED due,
           NEW entry \in Entry \cup {Malformed}, Append1(entry),
           entry.type \in EventTypes =>
               \E n \in 1 .. Len(due[entry.about]) : due[entry.about][n] = entry.type
    PROVE  EventsAreTrue'
<1>1. /\ StreamTypeOK /\ Len(log) \in Nat
  BY DEF TypeOK, StreamTypeOK
<1>2. /\ Len(log') = Len(log) + 1 /\ log'[Len(log) + 1] = entry
      /\ \A id \in 1 .. Len(log) : log'[id] = log[id]
  BY <1>1, AppendTypes
<1>3. ASSUME NEW id \in 1 .. Len(log'), log'[id].type \in EventTypes
      PROVE  \E n \in 1 .. Len(due'[log'[id].about]) : due'[log'[id].about][n] = log'[id].type
  <2>1. CASE id = Len(log) + 1
    BY <1>2, <1>3, <2>1
  <2>2. CASE id \in 1 .. Len(log)
    BY <1>2, <1>3, <2>2 DEF EventsAreTrue
  <2>3. QED
    BY <1>1, <1>2, <2>1, <2>2
<1>4. QED
  BY <1>3 DEF EventsAreTrue

\* Committed changes leave the events of the stream true.
LEMMA CommitIsTrue ==
    ASSUME TypeOK, EventsAreTrue, UNCHANGED log, NEW p \in Updates, Commit(p)
    PROVE  EventsAreTrue'
<1>1. ASSUME NEW id \in 1 .. Len(log), log[id].type \in EventTypes
      PROVE  \E n \in 1 .. Len(due'[log[id].about]) : due'[log[id].about][n] = log[id].type
  <2>1. log[id].about \in Subjects
    BY <1>1 DEF TypeOK, StreamTypeOK, Entry, Malformed, EventTypes
  <2>2. PICK n \in 1 .. Len(due[log[id].about]) : due[log[id].about][n] = log[id].type
    BY <1>1 DEF EventsAreTrue
  <2>3. QED
    BY <2>1, <2>2, DueGrows
<1>2. QED
  BY <1>1 DEF EventsAreTrue

LEMMA TruthStep ==
    ASSUME TypeOK, HasEvent, EventIsDue, EventsAreTrue, [Next]_vars
    PROVE  EventIsDue' /\ EventsAreTrue'
<1>0. /\ update \in [Updates -> Update]
      /\ \A p \in Updates : update[p].about \in Subjects
  BY DEF TypeOK, Update
<1>1. CASE UNCHANGED <<log, due, update>>
  BY <1>1 DEF EventIsDue, EventsAreTrue
<1>2. ASSUME NEW p \in Updates, UpdateStatus(p)
      PROVE  EventIsDue' /\ EventsAreTrue'
  <2>1. UNCHANGED <<log, due>> /\ update[p].stage = "idle"
    BY <1>2 DEF UpdateStatus, streamVars
  <2>2. update'[p].stage = "writing" /\ \A q \in Updates : q # p => update'[q] = update[q]
    BY <1>0, <1>2 DEF UpdateStatus
  <2>3. QED
    BY <2>1, <2>2 DEF EventIsDue, EventsAreTrue
<1>3. ASSUME NEW p \in Updates, Write(p)
      PROVE  EventIsDue' /\ EventsAreTrue'
  <2>1. Commit(p) /\ UNCHANGED log
    BY <1>3 DEF Write, streamVars
  <2>2. \A q \in Updates : q # p => update'[q] = update[q]
    BY <1>0, <1>3 DEF Write
  <2>3. \/ update'[p].stage = "idle"
        \/ /\ update[p].event # "none"
           /\ update'[p].about = update[p].about /\ update'[p].event = update[p].event
    BY <1>0, <1>3 DEF Write, NoUpdate, Update
  <2>4. ASSUME NEW q \in Updates, update'[q].stage = "publishing"
        PROVE  \E n \in 1 .. Len(due'[update'[q].about]) :
                   due'[update'[q].about][n] = update'[q].event
    <3>1. CASE q = p
      BY <2>1, <2>3, <2>4, <3>1, DueGrows
    <3>2. CASE q # p
      <4>1. update'[q] = update[q]
        BY <2>2, <3>2
      <4>2. PICK n \in 1 .. Len(due[update[q].about]) : due[update[q].about][n] = update[q].event
        BY <2>4, <4>1 DEF EventIsDue
      <4>3. QED
        BY <1>0, <2>1, <4>1, <4>2, DueGrows
    <3>3. QED
      BY <3>1, <3>2
  <2>5. QED
    BY <2>1, <2>4, CommitIsTrue DEF EventIsDue
<1>4. ASSUME NEW p \in Updates, WriteFails(p)
      PROVE  EventIsDue' /\ EventsAreTrue'
  <2>1. /\ UNCHANGED log
        /\ update'[p].stage = "idle" /\ \A q \in Updates : q # p => update'[q] = update[q]
    BY <1>0, <1>4 DEF WriteFails, NoUpdate
  <2>2. CASE Commit(p)
    <3>1. ASSUME NEW q \in Updates, update'[q].stage = "publishing"
          PROVE  \E n \in 1 .. Len(due'[update'[q].about]) :
                     due'[update'[q].about][n] = update'[q].event
      <4>1. update'[q] = update[q]
        BY <2>1, <3>1
      <4>2. PICK n \in 1 .. Len(due[update[q].about]) : due[update[q].about][n] = update[q].event
        BY <3>1, <4>1 DEF EventIsDue
      <4>3. QED
        BY <1>0, <2>2, <4>1, <4>2, DueGrows
    <3>2. QED
      BY <2>1, <2>2, <3>1, CommitIsTrue DEF EventIsDue
  <2>3. CASE UNCHANGED due
    BY <2>1, <2>3 DEF EventIsDue, EventsAreTrue
  <2>4. QED
    BY <1>4, <2>2, <2>3 DEF WriteFails
<1>5. ASSUME NEW p \in Updates, Publish(p) \/ PublishFails(p)
      PROVE  EventIsDue' /\ EventsAreTrue'
  <2>1. /\ UNCHANGED due /\ update[p].stage = "publishing"
        /\ update'[p].stage = "idle" /\ \A q \in Updates : q # p => update'[q] = update[q]
        /\ Append1(EventFor(p)) \/ UNCHANGED log
    BY <1>0, <1>5 DEF Publish, PublishFails, NoUpdate
  <2>2. EventIsDue'
    BY <2>1 DEF EventIsDue
  <2>3. CASE UNCHANGED log
    BY <2>1, <2>2, <2>3 DEF EventsAreTrue
  <2>4. CASE Append1(EventFor(p))
    <3>1. EventFor(p) \in Entry \cup {Malformed}
      BY <2>1, EventForType
    <3>2. \E n \in 1 .. Len(due[EventFor(p).about]) : due[EventFor(p).about][n] = EventFor(p).type
      BY <2>1 DEF EventIsDue, EventFor
    <3>3. QED
      BY <2>1, <2>2, <2>4, <3>1, <3>2, AppendIsTrue
  <2>5. QED
    BY <2>1, <2>3, <2>4
<1>6. CASE StreamStep /\ UNCHANGED repoVars
  <2>1. UNCHANGED <<due, update>>
    BY <1>6 DEF repoVars
  <2>2. CASE AddMalformed
    <3>1. Append1(Malformed)
      BY <2>2 DEF AddMalformed
    <3>2. EventsAreTrue'
      BY <2>1, <3>1, AppendIsTrue DEF Malformed, EventTypes
    <3>3. QED
      BY <2>1, <3>2 DEF EventIsDue
  <2>3. CASE UNCHANGED log
    BY <1>1, <2>1, <2>3
  <2>4. AddMalformed \/ UNCHANGED log
    BY <1>6 DEF StreamStep, ConsumerStep, CreateGroup, GrowStale, Consume, ClaimStale, Handle,
                Ack, CrashConsumer, RestartConsumer
  <2>5. QED
    BY <2>2, <2>3, <2>4
<1>7. ASSUME NEW u \in Subjects, SetContext(u)
      PROVE  UNCHANGED <<log, due, update>>
  BY <1>7 DEF SetContext, streamVars
<1>8. CASE CrashRepository
  BY <1>8 DEF CrashRepository, NoUpdate, EventIsDue, EventsAreTrue
<1>9. CASE UNCHANGED vars
  BY <1>1, <1>9 DEF vars, streamVars, repoVars
<1>10. CASE LinkStep
  <2>1. CASE PublishBatch
    <3>1. UNCHANGED <<due, update>> /\ Append1(Head(pipeline)) /\ Head(pipeline) \in LinkEvents
      BY <2>1 DEF PublishBatch, TypeOK
    <3>2. Head(pipeline) \in Entry /\ Head(pipeline).type = "URLDiscovered"
      BY <3>1 DEF LinkEvents, Entry
    <3>3. EventsAreTrue'
      BY <3>1, <3>2, AppendIsTrue DEF EventTypes
    <3>4. QED
      BY <3>1, <3>3 DEF EventIsDue
  <2>2. CASE UNCHANGED <<log, due, update>>
    BY <1>1, <2>2
  <2>3. QED
    BY <1>10, <2>1, <2>2 DEF LinkStep, Discover, PublishBatchFails, streamVars
<1>11. QED
  BY <1>1, <1>2, <1>3, <1>4, <1>5, <1>6, <1>7, <1>8, <1>9, <1>10 DEF Next, UpdateStep

--------------------------------------------------------------------------
(* Events are announced in order.                                          *)

\* As long as no calls on one URL overlapped, those in flight are on different ones.
Apart ==
    ~overlapped => \A p, q \in Updates :
        /\ p # q /\ update[p].stage # "idle" /\ update[q].stage # "idle"
        => update[p].about # update[q].about

\* The event of a call that publishes is for the last change of its URL.
LastIsDue ==
    (faults = 0 /\ ~overlapped) => \A p \in Updates : update[p].stage = "publishing" =>
        /\ Len(due[update[p].about]) > 0
        /\ due[update[p].about][Len(due[update[p].about])] = update[p].event

Ordered == Apart /\ LastIsDue /\ AnnouncedInOrder

LEMMA EventsAboutFinite ==
    ASSUME NEW u, NEW n \in Nat
    PROVE  /\ EventsAbout(u, n) \subseteq 1 .. n
           /\ IsFiniteSet(EventsAbout(u, n)) /\ Cardinality(EventsAbout(u, n)) \in Nat
<1>1. EventsAbout(u, n) \subseteq 1 .. n
  BY DEF EventsAbout
<1>2. IsFiniteSet(1 .. n)
  BY FS_Interval
<1>3. IsFiniteSet(EventsAbout(u, n))
  BY <1>1, <1>2, FS_Subset
<1>4. QED
  BY <1>1, <1>3, FS_CardinalityType

\* A new entry leaves the positions of the events before it as they are.
LEMMA EventsAboutAppend ==
    ASSUME StreamTypeOK, NEW entry \in Entry \cup {Malformed}, Append1(entry),
           NEW u \in Subjects
    PROVE  /\ \A n \in 0 .. Len(log) : EventsAbout(u, n)' = EventsAbout(u, n)
           /\ EventsAbout(u, Len(log))' =
                 IF entry.about = u /\ entry.type \in EventTypes
                 THEN EventsAbout(u, Len(log)) \cup {Len(log) + 1}
                 ELSE EventsAbout(u, Len(log))
<1>1. /\ Len(log) \in Nat /\ Len(log') = Len(log) + 1 /\ log'[Len(log) + 1] = entry
      /\ \A id \in 1 .. Len(log) : log'[id] = log[id]
  BY AppendTypes DEF StreamTypeOK
<1>2. \A n \in 0 .. Len(log) :
         {id \in 1 .. n : log'[id].about = u /\ log'[id].type \in EventTypes}
         = {id \in 1 .. n : log[id].about = u /\ log[id].type \in EventTypes}
  BY <1>1
<1>3. 1 .. Len(log') = 1 .. Len(log) \cup {Len(log) + 1}
  BY <1>1
<1>4. {id \in 1 .. Len(log') : log'[id].about = u /\ log'[id].type \in EventTypes}
      = {id \in 1 .. Len(log) : log'[id].about = u /\ log'[id].type \in EventTypes}
        \cup {id \in {Len(log) + 1} : log'[id].about = u /\ log'[id].type \in EventTypes}
  BY <1>3
<1>5. {id \in {Len(log) + 1} : log'[id].about = u /\ log'[id].type \in EventTypes}
      = IF entry.about = u /\ entry.type \in EventTypes THEN {Len(log) + 1} ELSE {}
  BY <1>1
<1>6. Len(log) \in 0 .. Len(log)
  BY <1>1
<1>7. QED
  BY <1>2, <1>4, <1>5, <1>6 DEF EventsAbout

\* A step of the stream, or of a URL's links, that adds no status event.
LEMMA OtherEntryKeepsOrder ==
    ASSUME StreamTypeOK, AnnouncedInOrder, faults \in Nat, faults' >= faults, faults' \in Nat,
           UNCHANGED <<due, update, overlapped>>,
           NEW entry \in Entry \cup {Malformed}, entry.type \notin EventTypes,
           Append1(entry) \/ UNCHANGED log
    PROVE  AnnouncedInOrder'
<1> SUFFICES ASSUME faults' = 0, ~overlapped', NEW u \in Subjects
             PROVE  /\ \A id \in EventsAbout(u, Len(log))' :
                          /\ Cardinality(EventsAbout(u, id)') <= Len(due'[u])
                          /\ log'[id].type = due'[u][Cardinality(EventsAbout(u, id)')]
                    /\ Len(due'[u]) = Cardinality(EventsAbout(u, Len(log))')
                                      + Cardinality(Publishing(u)')
  BY DEF AnnouncedInOrder
<1>1. faults = 0 /\ ~overlapped
  OBVIOUS
<1>2. Len(log) \in Nat
  BY DEF StreamTypeOK
<1>3. /\ EventsAbout(u, Len(log))' = EventsAbout(u, Len(log))
      /\ \A id \in 1 .. Len(log) : EventsAbout(u, id)' = EventsAbout(u, id)
      /\ \A id \in 1 .. Len(log) : log'[id] = log[id]
  <2>1. CASE Append1(entry)
    BY <1>2, <2>1, EventsAboutAppend, AppendTypes
  <2>2. CASE UNCHANGED log
    BY <2>2 DEF EventsAbout
  <2>3. QED
    BY <2>1, <2>2
<1>4. Publishing(u)' = Publishing(u)
  BY DEF Publishing
<1>5. EventsAbout(u, Len(log)) \subseteq 1 .. Len(log)
  BY <1>2, EventsAboutFinite
<1>6. QED
  BY <1>1, <1>3, <1>4, <1>5 DEF AnnouncedInOrder

\* The call that publishes about a URL is the only one in flight on it.
LEMMA OnlyOnePublishes ==
    ASSUME Apart, ~overlapped, NEW p \in Updates, update[p].stage # "idle"
    PROVE  Publishing(update[p].about) =
               IF update[p].stage = "publishing" THEN {p} ELSE {}
BY DEF Apart, Publishing

\* The write of a call on u adds the one change that it will announce.
LEMMA WriteKeepsOrder ==
    ASSUME TypeOK, Ordered, faults = 0, ~overlapped, NEW p \in Updates, Write(p)
    PROVE  LastIsDue' /\ AnnouncedInOrder'
<1>a. PICK about \in Subjects : about = update[p].about
  BY DEF TypeOK, Update
<1>b. PICK event \in EventTypes \cup {"none"} : event = update[p].event
  BY DEF TypeOK, Update
<1>0. /\ update \in [Updates -> Update] /\ due \in [Subjects -> Seq(EventTypes)]
      /\ Len(log) \in Nat
  BY DEF TypeOK, StreamTypeOK
<1>1. /\ update[p].stage = "writing" /\ Commit(p)
      /\ UNCHANGED <<log, faults, overlapped>>
      /\ \A q \in Updates : q # p => update'[q] = update[q]
  BY <1>0 DEF Write, streamVars
<1>2. \A u, n : EventsAbout(u, n)' = EventsAbout(u, n)
  BY <1>1 DEF EventsAbout
<1>3. CASE event = "none"
  <2>1. due' = due /\ update'[p].stage = "idle"
    BY <1>0, <1>3, <1>b DEF Write, Commit, NoUpdate
  <2>2. \A u \in Subjects : Publishing(u)' = Publishing(u)
    BY <1>1, <2>1 DEF Publishing
  <2>3. QED
    BY <1>1, <1>2, <2>1, <2>2 DEF Ordered, LastIsDue, AnnouncedInOrder
<1>4. CASE event # "none"
  <2>1. /\ due' = [due EXCEPT ![about] = Append(due[about], event)]
        /\ update' = [update EXCEPT ![p].stage = "publishing"]
    BY <1>4, <1>a, <1>b, Zenon DEF Write, Commit
  <2>2. update'[p].stage = "publishing" /\ update'[p].about = about /\ update'[p].event = event
    BY <1>0, <1>a, <1>b, <2>1 DEF Update
  <2>3. /\ Len(due[about]) \in Nat /\ Len(due'[about]) = Len(due[about]) + 1
        /\ due'[about][Len(due[about]) + 1] = event
        /\ \A n \in 1 .. Len(due[about]) : due'[about][n] = due[about][n]
        /\ \A u \in Subjects : u # about => due'[u] = due[u]
    <3>1. due'[about] = Append(due[about], event) /\ event \in EventTypes
      BY <1>0, <1>4, <2>1
    <3>2. QED
      BY <1>0, <2>1, <3>1
  <2>4. Publishing(about) = {} /\ Publishing(about)' = {p}
    <3>1. Publishing(about) = {}
      BY <1>1, <1>a, OnlyOnePublishes DEF Ordered
    <3>2. QED
      BY <1>1, <2>2, <3>1 DEF Publishing
  <2>5. \A u \in Subjects : u # about => Publishing(u)' = Publishing(u)
    BY <1>1, <2>2 DEF Publishing
  <2>6. LastIsDue'
    <3>1. ASSUME NEW q \in Updates, update'[q].stage = "publishing"
          PROVE  /\ Len(due'[update'[q].about]) > 0
                 /\ due'[update'[q].about][Len(due'[update'[q].about])] = update'[q].event
      <4>1. CASE q = p
        BY <2>2, <2>3, <4>1
      <4>2. CASE q # p
        <5>1. update'[q] = update[q] /\ update[q].about \in Subjects
          BY <1>0, <1>1, <4>2 DEF Update
        <5>2. update[q].about # about
          BY <1>1, <1>a, <3>1, <4>2, <5>1 DEF Ordered, Apart
        <5>3. QED
          BY <2>3, <3>1, <5>1, <5>2 DEF Ordered, LastIsDue
      <4>3. QED
        BY <4>1, <4>2
    <3>2. QED
      BY <3>1 DEF LastIsDue
  <2>7. ASSUME NEW u \in Subjects
        PROVE  /\ \A id \in EventsAbout(u, Len(log)) :
                     /\ Cardinality(EventsAbout(u, id)) <= Len(due'[u])
                     /\ log[id].type = due'[u][Cardinality(EventsAbout(u, id))]
               /\ Len(due'[u]) = Cardinality(EventsAbout(u, Len(log)))
                                 + Cardinality(Publishing(u)')
    <3>1. /\ \A id \in EventsAbout(u, Len(log)) :
                /\ Cardinality(EventsAbout(u, id)) <= Len(due[u])
                /\ log[id].type = due[u][Cardinality(EventsAbout(u, id))]
          /\ Len(due[u]) = Cardinality(EventsAbout(u, Len(log))) + Cardinality(Publishing(u))
      BY DEF Ordered, AnnouncedInOrder
    <3>2. CASE u # about
      BY <2>3, <2>5, <3>1, <3>2
    <3>3. CASE u = about
      <4>1. Cardinality(EventsAbout(u, Len(log))) \in Nat
        BY <1>0, EventsAboutFinite
      <4>2. Len(due'[u]) = Cardinality(EventsAbout(u, Len(log))) + Cardinality(Publishing(u)')
        <5>1. Cardinality(Publishing(u)) = 0 /\ Cardinality(Publishing(u)') = 1
          BY <2>4, <3>3, FS_EmptySet, FS_Singleton
        <5>2. QED
          BY <2>3, <3>1, <3>3, <4>1, <5>1
      <4>3. ASSUME NEW id \in EventsAbout(u, Len(log))
            PROVE  Cardinality(EventsAbout(u, id)) \in 1 .. Len(due[u])
        <5>1. id \in EventsAbout(u, id) /\ id \in Nat
          BY <1>0 DEF EventsAbout
        <5>2. Cardinality(EventsAbout(u, id)) \in Nat \ {0}
          BY <5>1, EventsAboutFinite, FS_EmptySet
        <5>3. QED
          BY <2>3, <3>1, <3>3, <5>2
      <4>4. QED
        BY <2>3, <3>1, <3>3, <4>2, <4>3
    <3>4. QED
      BY <3>2, <3>3
  <2>8. AnnouncedInOrder'
    BY <1>1, <1>2, <2>7 DEF AnnouncedInOrder
  <2>9. QED
    BY <2>6, <2>8
<1>5. QED
  BY <1>3, <1>4

\* The publication of a call on u adds the event of the last change of u.
LEMMA PublishKeepsOrder ==
    ASSUME TypeOK, HasEvent, Ordered, faults = 0, ~overlapped, NEW p \in Updates, Publish(p)
    PROVE  LastIsDue' /\ AnnouncedInOrder'
<1>a. PICK about \in Subjects : about = update[p].about
  BY DEF TypeOK, Update
<1>b. PICK event \in EventTypes : event = update[p].event
  BY DEF TypeOK, Update, HasEvent, Publish
<1>c. PICK last \in Nat : last = Len(log) + 1
  BY DEF TypeOK, StreamTypeOK
<1>0. /\ update \in [Updates -> Update] /\ due \in [Subjects -> Seq(EventTypes)]
      /\ StreamTypeOK /\ Len(log) \in Nat
  BY DEF TypeOK, StreamTypeOK
<1>1. /\ update[p].stage = "publishing" /\ Append1(EventFor(p))
      /\ UNCHANGED <<due, faults, overlapped>>
      /\ update'[p].stage = "idle"
      /\ \A q \in Updates : q # p => update'[q] = update[q]
      /\ EventFor(p) \in Entry
      /\ EventFor(p).about = about /\ EventFor(p).type = event
  BY <1>0, <1>a, <1>b, EventForType DEF Publish, NoUpdate, EventFor
<1>2. LastIsDue'
  BY <1>1 DEF Ordered, LastIsDue
<1>3. Publishing(about) = {p} /\ Publishing(about)' = {}
  <2>1. Publishing(about) = {p}
    BY <1>1, <1>a, OnlyOnePublishes DEF Ordered
  <2>2. QED
    BY <1>1, <2>1 DEF Publishing
<1>4. \A u \in Subjects : u # about => Publishing(u)' = Publishing(u)
  BY <1>1, <1>a DEF Publishing
<1>5. /\ Len(log') = last /\ log'[last] = EventFor(p)
      /\ \A id \in 1 .. Len(log) : log'[id] = log[id]
  BY <1>0, <1>1, <1>c, AppendTypes
<1>6. \A u \in Subjects :
         /\ \A n \in 0 .. Len(log) : EventsAbout(u, n)' = EventsAbout(u, n)
         /\ EventsAbout(u, Len(log))' = IF u = about
                                        THEN EventsAbout(u, Len(log)) \cup {last}
                                        ELSE EventsAbout(u, Len(log))
  BY <1>0, <1>1, <1>c, EventsAboutAppend
<1>7. ASSUME NEW u \in Subjects
      PROVE  /\ \A id \in EventsAbout(u, Len(log))' :
                   /\ Cardinality(EventsAbout(u, id)') <= Len(due[u])
                   /\ log'[id].type = due[u][Cardinality(EventsAbout(u, id)')]
             /\ Len(due[u]) = Cardinality(EventsAbout(u, Len(log))')
                               + Cardinality(Publishing(u)')
  <2>1. /\ \A id \in EventsAbout(u, Len(log)) :
              /\ Cardinality(EventsAbout(u, id)) <= Len(due[u])
              /\ log[id].type = due[u][Cardinality(EventsAbout(u, id))]
        /\ Len(due[u]) = Cardinality(EventsAbout(u, Len(log))) + Cardinality(Publishing(u))
    BY DEF Ordered, AnnouncedInOrder
  <2>2. /\ EventsAbout(u, Len(log)) \subseteq 1 .. Len(log)
        /\ IsFiniteSet(EventsAbout(u, Len(log)))
        /\ Cardinality(EventsAbout(u, Len(log))) \in Nat
    BY <1>0, EventsAboutFinite
  <2>3. \A id \in EventsAbout(u, Len(log)) :
           /\ Cardinality(EventsAbout(u, id)') <= Len(due[u])
           /\ log'[id].type = due[u][Cardinality(EventsAbout(u, id)')]
    BY <1>0, <1>5, <1>6, <2>1, <2>2
  <2>4. CASE u # about
    BY <1>4, <1>6, <2>1, <2>3, <2>4
  <2>5. CASE u = about
    <3>1. EventsAbout(u, Len(log))' = EventsAbout(u, Len(log)) \cup {last}
      BY <1>6, <2>5
    <3>2. last \notin EventsAbout(u, Len(log))
      BY <1>0, <1>c, <2>2
    <3>3. Cardinality(EventsAbout(u, Len(log))') = Cardinality(EventsAbout(u, Len(log))) + 1
      BY <2>2, <3>1, <3>2, FS_AddElement
    <3>4. Len(due[u]) = Cardinality(EventsAbout(u, Len(log))) + 1
      BY <1>3, <2>1, <2>5, FS_Singleton
    <3>5. Len(due[u]) = Cardinality(EventsAbout(u, Len(log))') + Cardinality(Publishing(u)')
      <4>1. Cardinality(Publishing(u)') = 0
        BY <1>3, <2>5, FS_EmptySet
      <4>2. QED
        BY <2>2, <3>3, <3>4, <4>1
    <3>6. EventsAbout(u, last)' = EventsAbout(u, Len(log))'
      BY <1>5 DEF EventsAbout
    <3>7. log'[last].type = due[u][Len(due[u])]
      BY <1>1, <1>5, <1>a, <1>b, <2>5 DEF Ordered, LastIsDue
    <3>8. /\ Cardinality(EventsAbout(u, last)') <= Len(due[u])
          /\ log'[last].type = due[u][Cardinality(EventsAbout(u, last)')]
      BY <2>2, <3>3, <3>4, <3>6, <3>7
    <3>9. QED
      BY <2>3, <3>1, <3>5, <3>8
  <2>6. QED
    BY <2>4, <2>5
<1>8. AnnouncedInOrder'
  BY <1>1, <1>7 DEF AnnouncedInOrder
<1>9. QED
  BY <1>2, <1>8

LEMMA OrderStep ==
    ASSUME TypeOK, HasEvent, Ordered, [Next]_vars
    PROVE  Ordered'
<1>0. /\ update \in [Updates -> Update] /\ faults \in Nat /\ StreamTypeOK
      /\ overlapped \in BOOLEAN
      /\ \A p \in Updates : update[p].about \in Subjects
  BY DEF TypeOK, StreamTypeOK, Update
<1>1. ASSUME UNCHANGED <<due, update, overlapped>>, faults' \in Nat, faults' >= faults,
             NEW entry \in Entry \cup {Malformed}, entry.type \notin EventTypes,
             Append1(entry) \/ UNCHANGED log
      PROVE  Ordered'
  <2>1. AnnouncedInOrder'
    BY <1>0, <1>1, OtherEntryKeepsOrder DEF Ordered
  <2>2. Apart' /\ LastIsDue'
    BY <1>0, <1>1 DEF Ordered, Apart, LastIsDue
  <2>3. QED
    BY <2>1, <2>2 DEF Ordered
<1>2. Malformed \in Entry \cup {Malformed} /\ Malformed.type \notin EventTypes
  BY DEF Malformed, EventTypes
<1>3. ASSUME NEW p \in Updates, UpdateStatus(p)
      PROVE  Ordered'
  <2>1. /\ UNCHANGED <<log, due, faults>> /\ update[p].stage = "idle"
        /\ update'[p].stage = "writing" /\ \A q \in Updates : q # p => update'[q] = update[q]
        /\ overlapped' = (overlapped \/ InFlight(update'[p].about))
    BY <1>0, <1>3 DEF UpdateStatus, streamVars
  <2>2. overlapped => overlapped'
    BY <2>1, Zenon
  <2>3. \A u \in Subjects : Publishing(u)' = Publishing(u)
    BY <2>1 DEF Publishing
  <2>4. \A u, n : EventsAbout(u, n)' = EventsAbout(u, n)
    BY <2>1 DEF EventsAbout
  <2>5. AnnouncedInOrder'
    BY <2>1, <2>2, <2>3, <2>4 DEF Ordered, AnnouncedInOrder
  <2>6. LastIsDue'
    BY <2>1, <2>2 DEF Ordered, LastIsDue
  <2>7. ~overlapped' => \A q \in Updates : q # p /\ update[q].stage # "idle"
                                           => update[q].about # update'[p].about
    BY <2>1, Zenon DEF InFlight
  <2>8. Apart'
    BY <2>1, <2>2, <2>7 DEF Ordered, Apart
  <2>9. QED
    BY <2>5, <2>6, <2>8 DEF Ordered
<1>4. ASSUME NEW p \in Updates, Write(p) \/ WriteFails(p) \/ Publish(p) \/ PublishFails(p)
      PROVE  Apart' /\ overlapped' = overlapped
  <2>1. /\ UNCHANGED overlapped /\ update[p].stage # "idle"
        /\ update'[p].stage = "idle" \/ update'[p].about = update[p].about
        /\ \A q \in Updates : q # p => update'[q] = update[q]
    BY <1>0, <1>4 DEF Write, WriteFails, Publish, PublishFails, NoUpdate, Update
  <2>2. QED
    BY <2>1 DEF Ordered, Apart
<1>5. ASSUME NEW p \in Updates, Write(p) \/ Publish(p)
      PROVE  Ordered'
  <2>1. UNCHANGED faults
    BY <1>5 DEF Write, Publish, streamVars
  <2>2. CASE faults = 0 /\ ~overlapped
    BY <1>4, <1>5, <2>2, WriteKeepsOrder, PublishKeepsOrder DEF Ordered
  <2>3. CASE ~(faults = 0 /\ ~overlapped)
    BY <1>4, <1>5, <2>1, <2>3 DEF Ordered, LastIsDue, AnnouncedInOrder
  <2>4. QED
    BY <2>2, <2>3
<1>6. ASSUME NEW p \in Updates, WriteFails(p) \/ PublishFails(p)
      PROVE  Ordered'
  <2>1. faults' # 0
    BY <1>0, <1>6 DEF WriteFails, PublishFails
  <2>2. QED
    BY <1>4, <1>6, <2>1 DEF Ordered, LastIsDue, AnnouncedInOrder
<1>7. CASE CrashRepository
  <2>1. faults' # 0 /\ \A p \in Updates : update'[p].stage = "idle"
    BY <1>0, <1>7 DEF CrashRepository, NoUpdate
  <2>2. QED
    BY <2>1 DEF Ordered, Apart, LastIsDue, AnnouncedInOrder
<1>8. CASE StreamStep /\ UNCHANGED repoVars
  <2>1. \/ UNCHANGED faults
        \/ faults' = faults + 1
        \/ \E c \in Consumers, ids \in SUBSET Ids : Receive(c, ids)
    <3>1. ASSUME NEW c \in Consumers, Consume(c)
          PROVE  \E ids \in SUBSET Ids : Receive(c, ids)
      BY <1>0, <3>1, BatchIds DEF Consume
    <3>2. ASSUME NEW c \in Consumers, ClaimStale(c)
          PROVE  \E ids \in SUBSET Ids : Receive(c, ids)
      BY <3>2 DEF ClaimStale, Oldest, Claimable
    <3>3. QED
      BY <1>8, <3>1, <3>2 DEF StreamStep, ConsumerStep, AddMalformed, CreateGroup, GrowStale,
                              Handle, Ack, CrashConsumer, RestartConsumer
  <2>2. faults' \in Nat /\ faults' >= faults
    BY <1>0, <2>1 DEF Receive
  <2>3. Append1(Malformed) \/ UNCHANGED log
    BY <1>8 DEF StreamStep, ConsumerStep, AddMalformed, CreateGroup, GrowStale, Consume,
                ClaimStale, Handle, Ack, CrashConsumer, RestartConsumer
  <2>4. QED
    BY <1>1, <1>2, <1>8, <2>2, <2>3 DEF repoVars
<1>9. CASE LinkStep
  <2>1. CASE PublishBatch
    <3>1. /\ UNCHANGED <<due, update, overlapped, faults>>
          /\ Append1(Head(pipeline)) /\ Head(pipeline) \in LinkEvents
      BY <2>1 DEF PublishBatch, TypeOK
    <3>2. Head(pipeline) \in Entry /\ Head(pipeline).type \notin EventTypes
      BY <3>1 DEF LinkEvents, Entry, EventTypes
    <3>3. QED
      BY <1>0, <1>1, <3>1, <3>2
  <2>2. CASE UNCHANGED <<log, due, update, overlapped>> /\ faults' \in Nat /\ faults' >= faults
    BY <1>1, <1>2, <2>2
  <2>3. QED
    BY <1>0, <1>9, <2>1, <2>2 DEF LinkStep, Discover, PublishBatchFails, streamVars
<1>10. ASSUME NEW u \in Subjects, SetContext(u)
       PROVE  Ordered'
  BY <1>0, <1>1, <1>2, <1>10 DEF SetContext, streamVars
<1>11. CASE UNCHANGED vars
  BY <1>0, <1>1, <1>2, <1>11 DEF vars, streamVars, repoVars
<1>12. QED
  BY <1>3, <1>5, <1>6, <1>7, <1>8, <1>9, <1>10, <1>11 DEF Next, UpdateStep

--------------------------------------------------------------------------
LEMMA InitHolds == Init => IInv
<1> SUFFICES ASSUME Init PROVE IInv
  OBVIOUS
<1> USE DEF Init, StreamInit
<1>1. StreamTypeOK
  <2>1. log \in Seq(Entry \cup {Malformed}) /\ Len(log) = 0
    OBVIOUS
  <2>2. Len(log) <= MaxEvents /\ cursor \in 0 .. Len(log) /\ first \in Nat \ {0} /\ first = 1
    BY <2>1, StreamAssumption
  <2>3. owner \in [Ids -> Consumers \cup {NoOne}] /\ batch \in [Consumers -> SUBSET Ids]
    OBVIOUS
  <2>4. QED
    BY <2>1, <2>2, <2>3 DEF StreamTypeOK
<1>2. due \in [Subjects -> Seq(EventTypes)]
  OBVIOUS
<1>3. TypeOK
  <2>1. pipeline \in Seq(LinkEvents)
    OBVIOUS
  <2>2. QED
    BY <1>1, <1>2, <2>1, NoUpdateType DEF TypeOK
<1>4. \A p \in Updates : update[p].stage = "idle"
  BY DEF NoUpdate
<1>5. Len(log) = 0
  OBVIOUS
<1>6. HasEvent /\ BatchHandled /\ EventIsDue
  BY <1>4 DEF HasEvent, BatchHandled, EventIsDue
<1>7. NoEventSkipped /\ EventsAreTrue
  BY <1>5 DEF NoEventSkipped, EventsAreTrue
<1>8. QED
  BY <1>3, <1>6, <1>7 DEF IInv

\* The inductive invariant: types, what a consumer acknowledges it has handled,
\* and what a call publishes was committed, with the two properties they carry.
THEOREM InductiveInvariant == Spec => []IInv
<1>1. IInv /\ [Next]_vars => IInv'
  BY TypeStep, DeliveryStep, TruthStep DEF IInv
<1>2. QED
  BY <1>1, InitHolds, PTL DEF Spec

\* Every variable keeps its type.
THEOREM TypeCorrect == Spec => []TypeOK
<1>1. IInv => TypeOK
  BY DEF IInv
<1>2. QED
  BY <1>1, InductiveInvariant, PTL

\* At-least-once delivery: what is neither unread nor pending nor trimmed was
\* handled, for any number of consumers that crash, stall and lose replies.
THEOREM NothingSkipped == Spec => []NoEventSkipped
<1>1. IInv => NoEventSkipped
  BY DEF IInv
<1>2. QED
  BY <1>1, InductiveInvariant, PTL

\* Every event in the stream names a committed change of its URL's row.
THEOREM OnlyTrueEvents == Spec => []EventsAreTrue
<1>1. IInv => EventsAreTrue
  BY DEF IInv
<1>2. QED
  BY <1>1, InductiveInvariant, PTL

LEMMA InitOrdered == Init => Ordered
<1> SUFFICES ASSUME Init PROVE Ordered
  OBVIOUS
<1>1. Len(log) = 0 /\ \A u \in Subjects : Len(due[u]) = 0
  BY DEF Init, StreamInit
<1>2. \A p \in Updates : update[p].stage = "idle"
  BY DEF Init, NoUpdate
<1>3. \A u \in Subjects : Publishing(u) = {}
  BY <1>2 DEF Publishing
<1>4. \A u \in Subjects : EventsAbout(u, Len(log)) = {}
  BY <1>1 DEF EventsAbout
<1>5. AnnouncedInOrder
  <2>1. Cardinality({}) = 0
    BY FS_EmptySet
  <2>2. QED
    BY <1>1, <1>3, <1>4, <2>1 DEF AnnouncedInOrder
<1>6. QED
  BY <1>2, <1>5 DEF Ordered, Apart, LastIsDue

\* As long as no call fails and calls on one URL do not overlap, the stream
\* announces the changes of a URL in the order they were made, each once.
THEOREM EventsInOrder == Spec => []AnnouncedInOrder
<1>1. TypeOK /\ HasEvent /\ Ordered /\ [Next]_vars => Ordered'
  BY OrderStep
<1>2. IInv => TypeOK /\ HasEvent
  BY DEF IInv
<1>3. Ordered => AnnouncedInOrder
  BY DEF Ordered
<1>4. QED
  BY <1>1, <1>2, <1>3, InitOrdered, InductiveInvariant, PTL DEF Spec
===========================================================================
