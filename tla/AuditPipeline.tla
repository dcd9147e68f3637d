--------------------------- MODULE AuditPipeline ---------------------------
(***************************************************************************)
(* From POST /audit/events to an anchored batch: the event store, batch    *)
(* creation, the scheduler's cycle with the status GET /ops/status shows,  *)
(* the admin routes that run beside it, and a client that polls            *)
(* GET /audit/events/{event_id}/status.                                    *)
(*                                                                         *)
(* perform_batch_anchor is a call that ends with the batch's row stored or *)
(* with an exception; BatchAnchoring models what happens inside.  A step   *)
(* is one SQLite transaction and what the thread records next to it.       *)
(***************************************************************************)
EXTENDS Naturals, FiniteSets

CONSTANTS
    Events,     \* event identifiers, each with its signed content
    BatchIds,   \* batch identifiers (numbers: random UUIDs, compared as text)
    NoBatch,
    Scheduler,  \* the thread of run_auto_anchor_cycle
    Admins,     \* threads that serve the admin routes
    AdminOps,   \* the admin routes in use, a subset of {"create", "anchor"}
    MinEvents,  \* VERIAGENT_AUTO_ANCHOR_MIN_EVENTS
    Watched,    \* the events a client polls
    MaxFaults   \* bound: crashes and failed anchorings

ASSUME PipelineAssumption ==
    /\ BatchIds \subseteq Nat
    /\ IsFiniteSet(BatchIds)
    /\ NoBatch \notin BatchIds
    /\ Scheduler \notin Admins
    /\ MinEvents \in Nat \ {0}
    /\ Watched \subseteq Events
    /\ MaxFaults \in Nat

VARIABLES
    events,     \* audit_events
    members,    \* batch_events; {} when audit_batches has no such batch
    created,    \* audit_batches.created_at, 0 when there is no such batch
    anchored,   \* the batches with a batch_anchors row
    status,     \* _runtime_state: last_status, last_batch_id and last_error
    job,        \* what each thread is doing
    seen,       \* what the last poll of an event answered
    faults

vars == <<events, members, created, anchored, status, job, seen, faults>>

Threads == Admins \cup {Scheduler}

\* "anchor_succeeded" stands for "anchor_reconciled" too.
LastStatus == {"idle", "no_events", "below_threshold", "batch_created", "anchor_submitted",
               "anchor_pending", "anchor_succeeded", "anchor_failed"}

UnresolvedStatuses == {"anchor_failed", "anchor_pending", "anchor_submitted", "batch_created"}

\* todo: the batches this cycle or call still has to anchor; fresh: the one
\* in todo was created by this cycle; done: it anchored some batch;
\* leaves: the events create_batch_from_unbatched has read.
NoJob == [pc |-> "idle", todo |-> {}, fresh |-> FALSE, done |-> FALSE, leaves |-> {}]

Jobs == [pc : {"idle", "submit", "anchoring", "recheck", "count", "read", "insert"},
         todo : SUBSET BatchIds, fresh : BOOLEAN, done : BOOLEAN, leaves : SUBSET Events]

Stages == {"unknown", "submitted", "batched", "anchored"}

\* The error is the batch it is about.
FreshStatus == [last |-> "idle", batch |-> NoBatch, error |-> NoBatch]

PipelineTypeOK ==
    /\ events \subseteq Events
    /\ members \in [BatchIds -> SUBSET Events]
    /\ created \in [BatchIds -> Nat]
    /\ \A b \in BatchIds : created[b] = 0 <=> members[b] = {}
    /\ anchored \subseteq {b \in BatchIds : members[b] # {}}
    /\ status \in [last : LastStatus, batch : BatchIds \cup {NoBatch}, error : BatchIds \cup {NoBatch}]
    /\ job \in [Threads -> Jobs]
    /\ seen \in [Watched -> [stage : Stages, batch : BatchIds \cup {NoBatch}]]
    /\ faults \in 0..MaxFaults

Init ==
    /\ events = {}
    /\ members = [b \in BatchIds |-> {}]
    /\ created = [b \in BatchIds |-> 0]
    /\ anchored = {}
    /\ status = FreshStatus
    /\ job = [t \in Threads |-> NoJob]
    /\ seen = [e \in Watched |-> [stage |-> "unknown", batch |-> NoBatch]]
    /\ faults = 0

Fault == faults < MaxFaults /\ faults' = faults + 1
NoFault == UNCHANGED faults

BatchesOf(e) == {b \in BatchIds : e \in members[b]}
Batches == {b \in BatchIds : members[b] # {}}

\* list_unbatched_events, list_unanchored_batches
Unbatched == {e \in events : BatchesOf(e) = {}}
Unanchored == Batches \ anchored

Oldest(S) == {b \in S : \A c \in S : created[b] <= created[c]}

--------------------------------------------------------------------------
(* The event store and its readers. *)

\* POST /audit/events of an authenticated agent.  An event_id already there
\* is refused with 409 and nothing changes.
StoreEvent(e) ==
    /\ e \notin events
    /\ events' = events \cup {e}
    /\ NoFault
    /\ UNCHANGED <<members, created, anchored, status, job, seen>>

\* get_event_lifecycle_status: of several rows for one event fetchone takes
\* the first, and SQLite joins batch_events in the order of its primary key,
\* so it is the one with the least batch_id.
Lifecycle(e) ==
    IF e \notin events THEN {[stage |-> "unknown", batch |-> NoBatch]}
    ELSE IF BatchesOf(e) = {} THEN {[stage |-> "submitted", batch |-> NoBatch]}
    ELSE {[stage |-> IF b \in anchored THEN "anchored" ELSE "batched", batch |-> b] :
            b \in {c \in BatchesOf(e) : \A d \in BatchesOf(e) : c <= d}}

Poll(e) ==
    /\ \E answer \in Lifecycle(e) : seen' = [seen EXCEPT ![e] = answer]
    /\ NoFault
    /\ UNCHANGED <<events, members, created, anchored, status, job>>

--------------------------------------------------------------------------
(* create_batch_from_unbatched: one connection reads, another inserts. *)

\* _record_scheduler_state; last_error is written only when asked to.
Record(last, batch, error) == status' = [last |-> last, batch |-> batch, error |-> error]

Unresolved == status.last \in UnresolvedStatuses /\ status.error # NoBatch

\* No unbatched events: a failure that is still unresolved stays on show.
RecordNoEvents ==
    IF Unresolved THEN UNCHANGED status ELSE Record("no_events", status.batch, NoBatch)

\* Mutated forms: every stored event is read; no NoUnbatchedEventsError.
ReadEventsAll(t) ==
    /\ \/ t = Scheduler /\ job[t].pc = "read"
       \/ t \in Admins /\ job[t].pc = "idle" /\ "create" \in AdminOps
    /\ events # {}
    /\ job' = [job EXCEPT ![t].pc = "insert", ![t].leaves = events]
    /\ UNCHANGED <<events, members, created, anchored, seen, status, faults>>

ReadEventsEmpty(t) ==
    /\ \/ t = Scheduler /\ job[t].pc = "read"
       \/ t \in Admins /\ job[t].pc = "idle" /\ "create" \in AdminOps
    /\ job' = [job EXCEPT ![t].pc = "insert", ![t].leaves = Unbatched]
    /\ UNCHANGED <<events, members, created, anchored, seen, status, faults>>

ReadEvents(t) ==
    /\ \/ t = Scheduler /\ job[t].pc = "read"
       \/ t \in Admins /\ job[t].pc = "idle" /\ "create" \in AdminOps /\ Unbatched # {}
    /\ IF Unbatched # {}
       THEN /\ job' = [job EXCEPT ![t].pc = "insert", ![t].leaves = Unbatched]
            /\ UNCHANGED status
       ELSE /\ job' = [job EXCEPT ![t] = NoJob]
            /\ RecordNoEvents
    /\ NoFault
    /\ UNCHANGED <<events, members, created, anchored, seen>>

\* The batch row and its leaves, in one transaction.  The scheduler goes on
\* to anchor the batch it created.
InsertBatch(t) ==
    /\ job[t].pc = "insert"
    /\ \E b \in BatchIds \ Batches :
        /\ members' = [members EXCEPT ![b] = job[t].leaves]
        /\ created' = [created EXCEPT ![b] = Cardinality(Batches) + 1]
        /\ IF t = Scheduler
           THEN /\ Record("batch_created", b, NoBatch)
                /\ job' = [job EXCEPT ![t] = [NoJob EXCEPT !.pc = "submit", !.todo = {b}, !.fresh = TRUE]]
           ELSE UNCHANGED status /\ job' = [job EXCEPT ![t] = NoJob]
    /\ NoFault
    /\ UNCHANGED <<events, anchored, seen>>

--------------------------------------------------------------------------
(* perform_batch_anchor, from the scheduler and from the admin route. *)

\* A batch of todo is done: the next one, the check for what remains, or,
\* after the batch of this cycle, the end.
Advance(t, b) ==
    LET j == job[t] IN
    job' = [job EXCEPT ![t] =
        IF t # Scheduler THEN NoJob
        ELSE IF j.todo # {b} THEN [j EXCEPT !.pc = "submit", !.todo = j.todo \ {b}, !.done = TRUE]
        ELSE IF j.fresh THEN NoJob
        ELSE [j EXCEPT !.pc = "recheck", !.todo = {}, !.done = TRUE]]

AdminAnchor(t, b) ==
    /\ t \in Admins /\ job[t].pc = "idle" /\ "anchor" \in AdminOps
    /\ b \in Unanchored
    /\ job' = [job EXCEPT ![t] = [NoJob EXCEPT !.pc = "anchoring", !.todo = {b}]]
    /\ NoFault
    /\ UNCHANGED <<events, members, created, anchored, status, seen>>

\* _anchor_one_batch: the status says so, and perform_batch_anchor returns
\* at once when the row is there.
Submit ==
    /\ job[Scheduler].pc = "submit"
    /\ \E b \in Oldest(job[Scheduler].todo) :
        IF b \in anchored
        THEN Record("anchor_succeeded", b, NoBatch) /\ Advance(Scheduler, b)
        ELSE /\ Record("anchor_submitted", b, status.error)
             /\ job' = [job EXCEPT ![Scheduler].pc = "anchoring"]
    /\ NoFault
    /\ UNCHANGED <<events, members, created, anchored, seen>>

\* The row is stored (by a transaction or by reconciliation).
AnchorSucceeds(t) ==
    /\ job[t].pc = "anchoring"
    /\ \E b \in Oldest(job[t].todo) :
        /\ b \notin anchored
        /\ anchored' = anchored \cup {b}
        /\ IF t = Scheduler THEN Record("anchor_succeeded", b, NoBatch) ELSE UNCHANGED status
        /\ Advance(t, b)
    /\ NoFault
    /\ UNCHANGED <<events, members, created, seen>>

\* An exception ends the admin call, and the cycle: the batches behind wait.
AnchorRaises(t, last) ==
    /\ job[t].pc = "anchoring"
    /\ \E b \in Oldest(job[t].todo) :
        IF t = Scheduler THEN Record(last, b, b) ELSE UNCHANGED status
    /\ job' = [job EXCEPT ![t] = NoJob]
    /\ UNCHANGED <<events, members, created, anchored, seen>>

\* The other thread stored the row meanwhile: IntegrityError.
AnchorLost(t) == Oldest(job[t].todo) \subseteq anchored /\ AnchorRaises(t, "anchor_failed") /\ NoFault

\* No receipt yet, a reverted transaction, an unreachable node.
AnchorFails(t) == \E last \in {"anchor_pending", "anchor_failed"} : AnchorRaises(t, last) /\ Fault

--------------------------------------------------------------------------
(* run_auto_anchor_cycle. *)

\* Mutated form: unbatched events are looked at first.
CycleStartSkips ==
    /\ job[Scheduler].pc = "idle"
    /\ job' = [job EXCEPT ![Scheduler] = [NoJob EXCEPT !.pc = "count"]]
    /\ UNCHANGED <<events, members, created, anchored, status, seen, faults>>

CycleStart ==
    /\ job[Scheduler].pc = "idle"
    /\ job' = [job EXCEPT ![Scheduler] = [NoJob EXCEPT
                !.pc = IF Unanchored = {} THEN "count" ELSE "submit", !.todo = Unanchored]]
    /\ NoFault
    /\ UNCHANGED <<events, members, created, anchored, status, seen>>

\* A batch that appeared meanwhile ends the cycle.
Recheck ==
    /\ job[Scheduler].pc = "recheck"
    /\ job' = [job EXCEPT ![Scheduler] = IF Unanchored = {} THEN [@ EXCEPT !.pc = "count"] ELSE NoJob]
    /\ NoFault
    /\ UNCHANGED <<events, members, created, anchored, status, seen>>

\* The count of unbatched events decides.
CountNone ==
    /\ job[Scheduler].pc = "count"
    /\ Unbatched = {}
    /\ IF job[Scheduler].done THEN UNCHANGED status ELSE RecordNoEvents
    /\ job' = [job EXCEPT ![Scheduler] = NoJob]
    /\ NoFault
    /\ UNCHANGED <<events, members, created, anchored, seen>>

CountFew ==
    /\ job[Scheduler].pc = "count"
    /\ Unbatched # {}
    /\ Cardinality(Unbatched) < MinEvents
    /\ Record("below_threshold", status.batch, NoBatch)
    /\ job' = [job EXCEPT ![Scheduler] = NoJob]
    /\ NoFault
    /\ UNCHANGED <<events, members, created, anchored, seen>>

CountEnough ==
    /\ job[Scheduler].pc = "count"
    /\ Cardinality(Unbatched) >= MinEvents
    /\ job' = [job EXCEPT ![Scheduler] = [NoJob EXCEPT !.pc = "read"]]
    /\ NoFault
    /\ UNCHANGED <<events, members, created, anchored, status, seen>>

\* The process restarts: the database stays, the threads and the status go.
Crash ==
    /\ job' = [t \in Threads |-> NoJob]
    /\ status' = FreshStatus
    /\ Fault
    /\ UNCHANGED <<events, members, created, anchored, seen>>

--------------------------------------------------------------------------

Cycle ==
    \/ CycleStart \/ Submit \/ Recheck \/ CountNone \/ CountFew \/ CountEnough
    \/ ReadEvents(Scheduler) \/ InsertBatch(Scheduler)
    \/ AnchorSucceeds(Scheduler) \/ AnchorLost(Scheduler)

Answer(t) == InsertBatch(t) \/ AnchorSucceeds(t) \/ AnchorLost(t)

Next ==
    \/ Cycle
    \/ \E t \in Admins : ReadEvents(t) \/ Answer(t) \/ \E b \in BatchIds : AdminAnchor(t, b)
    \/ \E t \in Threads : AnchorFails(t)
    \/ \E e \in Events : StoreEvent(e)
    \/ \E e \in Watched : Poll(e)
    \/ Crash

Spec == Init /\ [][Next]_vars

\* The scheduler's loop goes on, and a request that began is answered.
Fairness == WF_vars(Cycle) /\ \A t \in Admins : WF_vars(Answer(t))

FairSpec == Spec /\ Fairness

--------------------------------------------------------------------------
(* Properties. *)

Stage == [unknown |-> 0, submitted |-> 1, batched |-> 2, anchored |-> 3]

\* README.md:236, Submitted -> Batched -> Anchored: two polls of an event
\* never show it going back, nor a batch giving way to another one.
SeenForward ==
    [][\A e \in Watched :
        /\ Stage[seen[e].stage] <= Stage[seen'[e].stage]
        /\ seen[e].batch # NoBatch => seen'[e].batch = seen[e].batch]_vars

\* docs/03-api.md:267, the scheduler never turns to "no_events" while a batch
\* without an anchor row exists.
NoFalseIdle ==
    [][status'.last = "no_events" /\ status.last # "no_events" => Unanchored = {}]_vars

\* docs/03-api.md:267, the error of a failed or pending anchoring is retained
\* until an anchoring succeeds or its batch is anchored by the admin: below
\* the threshold, without events or with a new batch it is never wiped while
\* that batch still waits.  Only a restart forgets it.
FailureKept ==
    [][status.error # NoBatch /\ status'.error = NoBatch =>
        \/ status'.last = "anchor_succeeded"
        \/ status.error \in anchored
        \/ status' = FreshStatus]_vars

IsAnchoredEvent(e) == BatchesOf(e) \cap anchored # {}

\* docs/08-architecture.md:189, events that reach the threshold are batched
\* and their batch is anchored, through failures, restarts and the admin's
\* concurrent requests.
EventuallyAnchored ==
    \A e \in Events :
        (e \in Unbatched /\ Cardinality(Unbatched) >= MinEvents) ~> IsAnchoredEvent(e)

Home == [e \in Events |-> BatchesOf(e)]

Promise == INSTANCE EventLifecycle WITH accepted <- events, home <- Home, done <- anchored

\* The pipeline implements the lifecycle: an event goes into one batch only.
ImplementsLifecycle == Promise!Spec

==========================================================================
