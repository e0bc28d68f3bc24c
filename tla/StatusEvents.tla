---------------------------- MODULE StatusEvents ----------------------------
(***************************************************************************)
(* Status updates of crawl URLs and the events they publish, composed with  *)
(* the stream that carries them: updateStatus of                            *)
(* event-publishing-crawl-url-repository.ts writes the row, then adds the    *)
(* event.  Several calls of one process may be in flight; they share the     *)
(* map of contexts that gives an event its URL.  The discover stage adds a   *)
(* batch of events to the same stream, one for each link of a page.          *)
(***************************************************************************)
EXTENDS EventStream

CONSTANTS
    Updates,        \* calls of updateStatus that may be in flight at once
    MaxUpdates,     \* bound on the calls made, and the pages with links
    MaxBatch        \* maxEventsPerBatch of the discover stage

ASSUME UpdatesAssumption == MaxUpdates \in Nat /\ MaxBatch \in Nat

VARIABLES
    due,        \* per crawl URL, the events its status changes call for, in order
    context,    \* contextMap: the URLs with a context
    update,     \* the calls in flight
    updates,    \* calls made, and pages whose links were discovered, so far
    overlapped, \* have two calls on one URL been in flight together
    pipeline    \* events of a publishBatch that the server has yet to add

repoVars == <<due, context, update, updates, overlapped, pipeline>>
vars == <<streamVars, repoVars>>

Statuses == {"pending", "fetched", "failed", "skipped"}
EventTypes == {"CrawlCompleted", "CrawlFailed"}

\* buildStatusEvent: which event a status calls for, if any
EventOf(to, withResult) ==
    CASE to = "fetched" /\ withResult -> "CrawlCompleted"
      [] to = "failed" -> "CrawlFailed"
      [] OTHER -> "none"

Update == [stage : {"idle", "writing", "publishing"}, about : Subjects,
           event : EventTypes \cup {"none"}, url : BOOLEAN]

LinkEvents == [type : {"URLDiscovered"}, about : Subjects, url : {TRUE}]

TypeOK ==
    /\ StreamTypeOK
    /\ due \in [Subjects -> Seq(EventTypes)]
    /\ context \subseteq Subjects
    /\ update \in [Updates -> Update]
    /\ updates \in Nat
    /\ overlapped \in BOOLEAN
    /\ pipeline \in Seq(LinkEvents)

NoUpdate == [stage |-> "idle", about |-> CHOOSE u \in Subjects : TRUE,
             event |-> "none", url |-> FALSE]

Init ==
    /\ StreamInit
    /\ due = [u \in Subjects |-> <<>>]
    /\ context = {}
    /\ update = [p \in Updates |-> NoUpdate]
    /\ updates = 0
    /\ overlapped = FALSE
    /\ pipeline = <<>>

--------------------------------------------------------------------------
InFlight(u) == \E p \in Updates : update[p].stage # "idle" /\ update[p].about = u

SetContext(u) ==
    /\ updates < MaxUpdates
    /\ updates' = updates + 1
    /\ context' = context \cup {u}
    /\ UNCHANGED <<streamVars, due, update, overlapped, pipeline>>

\* updateStatus up to the write: the context is taken out of the map first.
UpdateStatus(p) ==
    /\ updates < MaxUpdates /\ update[p].stage = "idle"
    /\ \E u \in Subjects, to \in Statuses, withResult \in BOOLEAN :
          /\ update' = [update EXCEPT ![p] =
                [stage |-> "writing", about |-> u,
                 event |-> EventOf(to, withResult), url |-> u \in context]]
          /\ context' = context \ {u}
          /\ overlapped' = (overlapped \/ InFlight(u))
    /\ updates' = updates + 1
    /\ UNCHANGED <<streamVars, due, pipeline>>

\* The row is updated; what matters of its status is the event it calls for. There is a
\* row for every URL: nothing in the repository deletes one, and an UPDATE that matched
\* none would return ok all the same.
Commit(p) ==
    due' = IF update[p].event = "none" THEN due
           ELSE [due EXCEPT ![update[p].about] = Append(@, update[p].event)]

Write(p) ==
    /\ update[p].stage = "writing"
    /\ Commit(p)
    /\ update' = IF update[p].event = "none" THEN [update EXCEPT ![p] = NoUpdate]
                 ELSE [update EXCEPT ![p].stage = "publishing"]
    /\ UNCHANGED <<streamVars, context, updates, overlapped, pipeline>>

\* Mutant of WriteFails: the event is published although the write failed.
WriteFailsUnnoticed(p) ==
    /\ faults < MaxFaults /\ update[p].stage = "writing"
    /\ faults' = faults + 1
    /\ update' = IF update[p].event = "none" THEN [update EXCEPT ![p] = NoUpdate]
                 ELSE [update EXCEPT ![p].stage = "publishing"]
    /\ UNCHANGED <<due, context, updates, overlapped, pipeline>>
    /\ UNCHANGED <<log, first, groupVars, phase, batch, handled>>

\* The write returns an error, before or after it took effect: no event.
WriteFails(p) ==
    /\ faults < MaxFaults /\ update[p].stage = "writing"
    /\ faults' = faults + 1
    /\ update' = [update EXCEPT ![p] = NoUpdate]
    /\ Commit(p) \/ UNCHANGED due
    /\ UNCHANGED <<context, updates, overlapped, pipeline>>
    /\ UNCHANGED <<log, first, groupVars, phase, batch, handled>>

EventFor(p) ==
    [type |-> update[p].event, about |-> update[p].about, url |-> update[p].url]

\* Mutant of Publish: the event is added again after it was added.
PublishAgain(p) ==
    /\ update[p].stage = "publishing"
    /\ Append1(EventFor(p))
    /\ \E stage \in {"idle", "publishing"} : update' = [update EXCEPT ![p].stage = stage]
    /\ UNCHANGED <<groupVars, phase, batch, handled, faults>>
    /\ UNCHANGED <<due, context, updates, overlapped, pipeline>>

Publish(p) ==
    /\ update[p].stage = "publishing"
    /\ Append1(EventFor(p))
    /\ update' = [update EXCEPT ![p] = NoUpdate]
    /\ UNCHANGED <<groupVars, phase, batch, handled, faults>>
    /\ UNCHANGED <<due, context, updates, overlapped, pipeline>>

\* publish returns an error, before or after the entry was added: a warning.
PublishFails(p) ==
    /\ faults < MaxFaults /\ update[p].stage = "publishing"
    /\ faults' = faults + 1
    /\ Append1(EventFor(p)) \/ UNCHANGED <<log, first>>
    /\ update' = [update EXCEPT ![p] = NoUpdate]
    /\ UNCHANGED <<groupVars, phase, batch, handled>>
    /\ UNCHANGED <<due, context, updates, overlapped, pipeline>>

\* The process dies with its contexts and the calls in flight.
CrashRepository ==
    /\ faults < MaxFaults
    /\ \E p \in Updates : update[p].stage # "idle"
    /\ faults' = faults + 1
    /\ update' = [p \in Updates |-> NoUpdate]
    /\ context' = {}
    /\ UNCHANGED <<due, updates, overlapped, pipeline>>
    /\ UNCHANGED <<log, first, groupVars, phase, batch, handled>>

--------------------------------------------------------------------------
(* discover-stage-events.ts                                                *)

LinkEvent(u) == [type |-> "URLDiscovered", about |-> u, url |-> TRUE]

\* discoverLinksWithEvents of a page with n links: the events beyond the limit are
\* dropped; nobody waits for publishBatch.
Discover(u, n) ==
    /\ updates < MaxUpdates /\ pipeline = <<>>
    /\ updates' = updates + 1
    /\ pipeline' = [i \in 1 .. (IF n > MaxBatch THEN MaxBatch ELSE n) |-> LinkEvent(u)]
    /\ UNCHANGED <<streamVars, due, context, update, overlapped>>

\* The server executes the commands of a pipeline one by one, others in between.
PublishBatch ==
    /\ pipeline # <<>>
    /\ Append1(Head(pipeline))
    /\ pipeline' = Tail(pipeline)
    /\ UNCHANGED <<groupVars, phase, batch, handled, faults>>
    /\ UNCHANGED <<due, context, update, updates, overlapped>>

\* publishBatch returns an error for the whole batch: the connection broke or the
\* process died before the rest, or one command failed and those behind it did not.
PublishBatchFails ==
    /\ faults < MaxFaults /\ pipeline # <<>>
    /\ faults' = faults + 1
    /\ pipeline' \in {<<>>, Tail(pipeline)}
    /\ UNCHANGED <<log, first, groupVars, phase, batch, handled>>
    /\ UNCHANGED <<due, context, update, updates, overlapped>>

--------------------------------------------------------------------------
UpdateStep(p) ==
    UpdateStatus(p) \/ Write(p) \/ WriteFails(p) \/ Publish(p) \/ PublishFails(p)

LinkStep ==
    \/ \E u \in Subjects, n \in 1 .. MaxBatch + 1 : Discover(u, n)
    \/ PublishBatch \/ PublishBatchFails

StreamStep ==
    \/ AddMalformed \/ CreateGroup
    \/ \E id \in Ids : GrowStale(id)
    \/ \E c \in Consumers : ConsumerStep(c) \/ CrashConsumer(c) \/ RestartConsumer(c)

Next ==
    \/ \E u \in Subjects : SetContext(u)
    \/ \E p \in Updates : UpdateStep(p)
    \/ CrashRepository
    \/ LinkStep
    \/ StreamStep /\ UNCHANGED repoVars

Spec == Init /\ [][Next]_vars

\* A consumer that runs keeps asking, for new entries and for stale ones, and
\* goes on with what it was given; time passes.  Nobody has to restart one.
Fairness ==
    /\ WF_vars(CreateGroup /\ UNCHANGED repoVars)
    /\ \A id \in Ids : WF_vars(GrowStale(id) /\ UNCHANGED repoVars)
    /\ \A c \in Consumers :
          /\ SF_vars(Consume(c) /\ UNCHANGED repoVars)
          /\ SF_vars(ClaimStale(c) /\ UNCHANGED repoVars)
          /\ WF_vars((Handle(c) \/ Ack(c)) /\ UNCHANGED repoVars)

FairSpec == Spec /\ Fairness

--------------------------------------------------------------------------
\* No event without a write: every status event in the stream names a change that
\* was committed to the row of its URL, whatever calls failed or overlapped.
EventsAreTrue ==
    \A id \in 1 .. Len(log) :
        log[id].type \in EventTypes =>
            \E n \in 1 .. Len(due[log[id].about]) :
                due[log[id].about][n] = log[id].type

\* The status events of a URL among the first n entries of the stream.
EventsAbout(u, n) ==
    {id \in 1 .. n : log[id].about = u /\ log[id].type \in EventTypes}

Publishing(u) ==
    {p \in Updates : update[p].stage = "publishing" /\ update[p].about = u}

\* As long as no call fails and calls on one URL do not overlap, the stream has
\* the events of a URL in the order its status changed, each once: the n-th one
\* is for the n-th change.  Only the one of the call in flight may be missing.
AnnouncedInOrder ==
    (faults = 0 /\ ~overlapped) => \A u \in Subjects :
        /\ \A id \in EventsAbout(u, Len(log)) :
              LET n == Cardinality(EventsAbout(u, id))
              IN  n <= Len(due[u]) /\ log[id].type = due[u][n]
        /\ Len(due[u]) = Cardinality(EventsAbout(u, Len(log))) + Cardinality(Publishing(u))
===========================================================================
