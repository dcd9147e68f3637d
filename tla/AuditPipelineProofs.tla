------------------------ MODULE AuditPipelineProofs ------------------------
(***************************************************************************)
(* Proofs about the pipeline from submission to an anchored batch, for any *)
(* events, batches, admin threads, thresholds and faults.  First what      *)
(* holds with every admin route in use, then what holds when batches are   *)
(* created by the scheduler alone.                                         *)
(***************************************************************************)
EXTENDS AuditPipeline, FiniteSetTheorems, TLAPS

USE PipelineAssumption

--------------------------------------------------------------------------
(* With every route in use. *)

\* The threads work on batches that exist, a batch about to be inserted has
\* events, and the error on show is about a batch that exists; while the
\* scheduler looks at events rather than batches, that batch is anchored.
JobOK(t) ==
    /\ job[t].todo \subseteq Batches
    /\ job[t].pc = "insert" => job[t].leaves # {}

ErrorOK ==
    status.error # NoBatch =>
        /\ status.error \in Batches
        /\ job[Scheduler].pc \in {"count", "read", "insert"} => status.error \in anchored

PInv == PipelineTypeOK /\ (\A t \in Threads : JobOK(t)) /\ ErrorOK

LEMMA NoJobType == NoJob \in Jobs
BY DEF NoJob, Jobs

\* Batches are never removed, nor emptied.
LEMMA BatchesKept ==
    ASSUME members' = members
    PROVE  Batches' = Batches
BY DEF Batches

\* A step of one thread that leaves batches and their events alone.
LEMMA ThreadStep ==
    ASSUME PInv, NEW t \in Threads,
           UNCHANGED <<members, created, seen>>, events' = events,
           anchored \subseteq anchored', anchored' \subseteq Batches, faults' \in 0..MaxFaults,
           \A x \in Threads \ {t} : job'[x] = job[x],
           job' \in [Threads -> Jobs],
           job'[t].todo \subseteq Batches,
           job'[t].pc = "insert" => job'[t].leaves # {},
           status' \in [last : LastStatus, batch : BatchIds \cup {NoBatch}, error : BatchIds \cup {NoBatch}],
           \/ status'.error = NoBatch
           \/ /\ status'.error = status.error
              /\ t = Scheduler /\ job'[t].pc \in {"count", "read", "insert"} =>
                    \/ job[t].pc \in {"count", "read", "insert"}
                    \/ status.error \in anchored
           \/ t = Scheduler /\ status'.error \in Batches /\ job'[t].pc \notin {"count", "read", "insert"}
    PROVE  PInv'
<1>1. Batches' = Batches
  BY BatchesKept
<1>2. PipelineTypeOK'
  BY DEF PInv, PipelineTypeOK, Batches
<1>3. \A x \in Threads : JobOK(x)'
  BY <1>1 DEF PInv, JobOK
<1>4. ErrorOK'
  BY <1>1 DEF PInv, ErrorOK, Threads
<1> QED BY <1>2, <1>3, <1>4 DEF PInv

\* The oldest of some batches are among them.
LEMMA OldestIn == \A S : Oldest(S) \subseteq S
BY DEF Oldest

LEMMA FaultType ==
    ASSUME PInv, Fault \/ NoFault
    PROVE  faults' \in 0..MaxFaults
BY DEF PInv, PipelineTypeOK, Fault, NoFault

LEMMA AdvanceType ==
    ASSUME PInv, NEW t \in Threads, NEW b, Advance(t, b)
    PROVE  /\ job' \in [Threads -> Jobs]
           /\ \A x \in Threads \ {t} : job'[x] = job[x]
           /\ job'[t].todo \subseteq Batches
           /\ job'[t].pc \in {"idle", "submit", "recheck"}
<1>1. job \in [Threads -> Jobs] /\ job[t].todo \subseteq Batches
  BY DEF PInv, PipelineTypeOK, JobOK
<1>2. PICK j : /\ job' = [job EXCEPT ![t] = j]
               /\ \/ j = NoJob
                  \/ j = [job[t] EXCEPT !.pc = "submit", !.todo = job[t].todo \ {b}, !.done = TRUE]
                  \/ j = [job[t] EXCEPT !.pc = "recheck", !.todo = {}, !.done = TRUE]
  <2>1. CASE t # Scheduler
    BY <2>1 DEF Advance
  <2>2. CASE t = Scheduler /\ job[t].todo # {b}
    BY <1>1, <2>2 DEF Advance
  <2>3. CASE t = Scheduler /\ job[t].todo = {b} /\ job[t].fresh
    BY <1>1, <2>3 DEF Advance
  <2>4. CASE t = Scheduler /\ job[t].todo = {b} /\ ~job[t].fresh
    BY <1>1, <2>4 DEF Advance
  <2> QED BY <2>1, <2>2, <2>3, <2>4
<1>3. /\ j \in Jobs /\ j.todo \subseteq Batches /\ j.pc \in {"idle", "submit", "recheck"}
  <2>1. job[t] \in Jobs
    BY <1>1
  <2>2. CASE j = NoJob
    BY <2>2 DEF NoJob, Jobs
  <2>3. CASE j = [job[t] EXCEPT !.pc = "submit", !.todo = job[t].todo \ {b}, !.done = TRUE]
    BY <1>1, <2>1, <2>3 DEF Jobs
  <2>4. CASE j = [job[t] EXCEPT !.pc = "recheck", !.todo = {}, !.done = TRUE]
    BY <1>1, <2>1, <2>4 DEF Jobs
  <2> QED BY <1>2, <2>2, <2>3, <2>4
<1> QED BY <1>1, <1>2, <1>3

LEMMA CycleStartStep == PInv /\ CycleStart => PInv'
<1> SUFFICES ASSUME PInv, CycleStart PROVE PInv'
  OBVIOUS
<1> DEFINE j == [NoJob EXCEPT !.pc = IF Unanchored = {} THEN "count" ELSE "submit", !.todo = Unanchored]
<1>1. j \in Jobs /\ j.todo = Unanchored /\ j.pc \in {"count", "submit"}
      /\ (j.pc = "count" => Unanchored = {})
  BY DEF NoJob, Jobs, Unanchored, Batches
<1>2. job' = [job EXCEPT ![Scheduler] = j]
  BY DEF CycleStart
<1> HIDE DEF j
<1>3. /\ job' \in [Threads -> Jobs] /\ job'[Scheduler] = j
      /\ \A x \in Threads \ {Scheduler} : job'[x] = job[x]
  BY <1>1, <1>2 DEF PInv, PipelineTypeOK, Threads
<1>4. status.error # NoBatch /\ j.pc = "count" => status.error \in anchored
  BY <1>1 DEF PInv, ErrorOK, Unanchored
<1> QED BY <1>1, <1>3, <1>4, ThreadStep, FaultType
     DEF CycleStart, NoFault, Unanchored, Threads, PInv, PipelineTypeOK, Batches

LEMMA RecheckStep == PInv /\ Recheck => PInv'
<1> SUFFICES ASSUME PInv, Recheck PROVE PInv'
  OBVIOUS
<1>1. PICK j \in {NoJob, [job[Scheduler] EXCEPT !.pc = "count"]} :
        job' = [job EXCEPT ![Scheduler] = j] /\ (j # NoJob => Unanchored = {})
  BY DEF Recheck, PInv, PipelineTypeOK, Threads
<1>2. j \in Jobs /\ j.todo \subseteq Batches /\ j.pc \in {"idle", "count"}
  <2>1. CASE j = NoJob
    BY <2>1 DEF NoJob, Jobs
  <2>2. CASE j = [job[Scheduler] EXCEPT !.pc = "count"]
    <3>1. job[Scheduler] \in Jobs /\ job[Scheduler].todo \subseteq Batches
      BY DEF PInv, PipelineTypeOK, JobOK, Threads
    <3> QED BY <2>2, <3>1 DEF Jobs
  <2> QED BY <1>1, <2>1, <2>2
<1>3. /\ job' \in [Threads -> Jobs] /\ job'[Scheduler] = j
      /\ \A x \in Threads \ {Scheduler} : job'[x] = job[x]
  BY <1>1, <1>2 DEF PInv, PipelineTypeOK, Threads
<1>4. status.error # NoBatch /\ j.pc = "count" => status.error \in anchored
  BY <1>1 DEF PInv, ErrorOK, Unanchored, NoJob
<1> QED BY <1>2, <1>3, <1>4, ThreadStep, FaultType
     DEF Recheck, Threads, PInv, PipelineTypeOK, Batches

LEMMA CountStep == PInv /\ (CountNone \/ CountFew \/ CountEnough) => PInv'
<1> SUFFICES ASSUME PInv, CountNone \/ CountFew \/ CountEnough PROVE PInv'
  OBVIOUS
<1>1. PICK j \in {NoJob, [NoJob EXCEPT !.pc = "read"]} : job' = [job EXCEPT ![Scheduler] = j]
  BY DEF CountNone, CountFew, CountEnough
<1>2. j \in Jobs /\ j.todo = {} /\ j.pc \in {"idle", "read"}
  <2>1. CASE j = NoJob
    BY <2>1 DEF NoJob, Jobs
  <2>2. CASE j = [NoJob EXCEPT !.pc = "read"]
    BY <2>2 DEF NoJob, Jobs
  <2> QED BY <1>1, <2>1, <2>2
<1>3. /\ job' \in [Threads -> Jobs] /\ job'[Scheduler] = j
      /\ \A x \in Threads \ {Scheduler} : job'[x] = job[x]
  BY <1>1, <1>2 DEF PInv, PipelineTypeOK, Threads
<1>4. /\ status' \in [last : LastStatus, batch : BatchIds \cup {NoBatch}, error : BatchIds \cup {NoBatch}]
      /\ status'.error = NoBatch \/ status' = status
  BY DEF CountNone, CountFew, CountEnough, RecordNoEvents, Record, PInv, PipelineTypeOK, LastStatus
<1>5. UNCHANGED <<events, members, created, anchored, seen>> /\ NoFault /\ job[Scheduler].pc = "count"
  BY DEF CountNone, CountFew, CountEnough
<1> QED BY <1>2, <1>3, <1>4, <1>5, ThreadStep, FaultType
     DEF Threads, PInv, PipelineTypeOK, Batches

LEMMA ReadStep == \A t \in Threads : PInv /\ ReadEvents(t) => PInv'
<1> SUFFICES ASSUME NEW t \in Threads, PInv, ReadEvents(t) PROVE PInv'
  OBVIOUS
<1>1. PICK j \in {NoJob, [job[t] EXCEPT !.pc = "insert", !.leaves = Unbatched]} :
        job' = [job EXCEPT ![t] = j] /\ (j # NoJob => Unbatched # {})
  BY DEF ReadEvents, PInv, PipelineTypeOK
<1>2. /\ j \in Jobs /\ j.todo \subseteq Batches /\ j.pc \in {"idle", "insert"}
      /\ (j.pc = "insert" => j.leaves # {})
  <2>1. CASE j = NoJob
    BY <2>1 DEF NoJob, Jobs
  <2>2. CASE j = [job[t] EXCEPT !.pc = "insert", !.leaves = Unbatched] /\ j # NoJob
    <3>1. Unbatched # {} /\ Unbatched \subseteq Events
      BY <1>1, <2>2 DEF Unbatched, PInv, PipelineTypeOK
    <3>2. job[t] \in Jobs /\ job[t].todo \subseteq Batches
      BY DEF PInv, PipelineTypeOK, JobOK
    <3> QED BY <2>2, <3>1, <3>2 DEF Jobs
  <2> QED BY <1>1, <2>1, <2>2
<1>3. /\ job' \in [Threads -> Jobs] /\ job'[t] = j
      /\ \A x \in Threads \ {t} : job'[x] = job[x]
  BY <1>1, <1>2 DEF PInv, PipelineTypeOK
<1>4. /\ status' \in [last : LastStatus, batch : BatchIds \cup {NoBatch}, error : BatchIds \cup {NoBatch}]
      /\ status'.error = NoBatch \/ status' = status
  BY DEF ReadEvents, RecordNoEvents, Record, PInv, PipelineTypeOK, LastStatus
<1>5. t = Scheduler => job[t].pc = "read"
  BY DEF ReadEvents
<1> QED BY <1>2, <1>3, <1>4, <1>5, ThreadStep, FaultType
     DEF ReadEvents, PInv, PipelineTypeOK, Batches

\* The events of a batch and its row appear together.
LEMMA InsertStep == \A t \in Threads : PInv /\ InsertBatch(t) => PInv'
<1> SUFFICES ASSUME NEW t \in Threads, PInv, InsertBatch(t) PROVE PInv'
  OBVIOUS
<1>1. PICK b \in BatchIds \ Batches :
        /\ members' = [members EXCEPT ![b] = job[t].leaves]
        /\ created' = [created EXCEPT ![b] = Cardinality(Batches) + 1]
        /\ IF t = Scheduler
           THEN /\ Record("batch_created", b, NoBatch)
                /\ job' = [job EXCEPT ![t] = [NoJob EXCEPT !.pc = "submit", !.todo = {b}, !.fresh = TRUE]]
           ELSE UNCHANGED status /\ job' = [job EXCEPT ![t] = NoJob]
  BY DEF InsertBatch
<1>2. Cardinality(Batches) \in Nat
  BY FS_Subset, FS_CardinalityType DEF Batches
<1>3. job[t].leaves # {} /\ job[t].leaves \subseteq Events
  BY DEF PInv, PipelineTypeOK, JobOK, Jobs, InsertBatch
<1>4. Batches' = Batches \cup {b}
  BY <1>1, <1>3 DEF Batches, PInv, PipelineTypeOK
<1>5. PICK j \in {NoJob, [NoJob EXCEPT !.pc = "submit", !.todo = {b}, !.fresh = TRUE]} :
        job' = [job EXCEPT ![t] = j]
  BY <1>1
<1>6. j \in Jobs /\ j.todo \subseteq {b} /\ j.pc \in {"idle", "submit"}
  <2>1. CASE j = NoJob
    BY <2>1 DEF NoJob, Jobs
  <2>2. CASE j = [NoJob EXCEPT !.pc = "submit", !.todo = {b}, !.fresh = TRUE]
    BY <2>2 DEF NoJob, Jobs
  <2> QED BY <1>5, <2>1, <2>2
<1>7. /\ job' \in [Threads -> Jobs] /\ job'[t] = j
      /\ \A x \in Threads \ {t} : job'[x] = job[x]
  BY <1>5, <1>6 DEF PInv, PipelineTypeOK
<1>8. /\ status' \in [last : LastStatus, batch : BatchIds \cup {NoBatch}, error : BatchIds \cup {NoBatch}]
      /\ status'.error = NoBatch \/ (status' = status /\ t # Scheduler)
  BY <1>1 DEF Record, PInv, PipelineTypeOK, LastStatus
<1>9. PipelineTypeOK'
  <2>1. members' \in [BatchIds -> SUBSET Events] /\ created' \in [BatchIds -> Nat]
    BY <1>1, <1>2, <1>3 DEF PInv, PipelineTypeOK
  <2>2. \A c \in BatchIds : created'[c] = 0 <=> members'[c] = {}
    BY <1>1, <1>2, <1>3 DEF PInv, PipelineTypeOK
  <2>3. anchored' \subseteq Batches'
    BY <1>4 DEF InsertBatch, PInv, PipelineTypeOK, Batches
  <2> QED BY <1>7, <1>8, <2>1, <2>2, <2>3 DEF InsertBatch, NoFault, PInv, PipelineTypeOK, Batches
<1>10. \A x \in Threads : JobOK(x)'
  BY <1>4, <1>6, <1>7 DEF PInv, JobOK
<1>11. ErrorOK'
  BY <1>4, <1>7, <1>8 DEF PInv, ErrorOK, InsertBatch, Threads
<1> QED BY <1>9, <1>10, <1>11 DEF PInv

LEMMA AdminAnchorStep ==
    \A t \in Threads, b \in BatchIds : PInv /\ AdminAnchor(t, b) => PInv'
<1> SUFFICES ASSUME NEW t \in Threads, NEW b \in BatchIds, PInv, AdminAnchor(t, b) PROVE PInv'
  OBVIOUS
<1> DEFINE j == [NoJob EXCEPT !.pc = "anchoring", !.todo = {b}]
<1>1. j \in Jobs /\ j.todo \subseteq Batches /\ j.pc = "anchoring"
  BY DEF NoJob, Jobs, AdminAnchor, Unanchored
<1>2. job' = [job EXCEPT ![t] = j] /\ t # Scheduler
  BY DEF AdminAnchor
<1> HIDE DEF j
<1>3. /\ job' \in [Threads -> Jobs] /\ job'[t] = j
      /\ \A x \in Threads \ {t} : job'[x] = job[x]
  BY <1>1, <1>2 DEF PInv, PipelineTypeOK
<1> QED BY <1>1, <1>2, <1>3, ThreadStep, FaultType DEF AdminAnchor, PInv, PipelineTypeOK, Batches

LEMMA SubmitStep == PInv /\ Submit => PInv'
<1> SUFFICES ASSUME PInv, Submit PROVE PInv'
  OBVIOUS
<1>1. PICK b \in Oldest(job[Scheduler].todo) :
        IF b \in anchored
        THEN Record("anchor_succeeded", b, NoBatch) /\ Advance(Scheduler, b)
        ELSE /\ Record("anchor_submitted", b, status.error)
             /\ job' = [job EXCEPT ![Scheduler].pc = "anchoring"]
  BY DEF Submit
<1>2. b \in BatchIds /\ job \in [Threads -> Jobs] /\ Scheduler \in Threads
      /\ job[Scheduler].todo \subseteq Batches
  BY OldestIn DEF PInv, PipelineTypeOK, Jobs, Threads, JobOK
<1>3. /\ job' \in [Threads -> Jobs]
      /\ \A x \in Threads \ {Scheduler} : job'[x] = job[x]
      /\ job'[Scheduler].todo \subseteq Batches
      /\ job'[Scheduler].pc \in {"idle", "submit", "recheck", "anchoring"}
  <2>1. CASE b \in anchored
    BY <1>1, <1>2, <2>1, AdvanceType
  <2>2. CASE b \notin anchored
    BY <1>1, <1>2, <2>2 DEF Jobs
  <2> QED BY <2>1, <2>2
<1>4. /\ status' \in [last : LastStatus, batch : BatchIds \cup {NoBatch}, error : BatchIds \cup {NoBatch}]
      /\ status'.error \in {NoBatch, status.error}
  BY <1>1, <1>2 DEF Record, PInv, PipelineTypeOK, LastStatus
<1> QED BY <1>2, <1>3, <1>4, ThreadStep, FaultType DEF Submit, PInv, PipelineTypeOK, Batches

LEMMA SucceedsStep == \A t \in Threads : PInv /\ AnchorSucceeds(t) => PInv'
<1> SUFFICES ASSUME NEW t \in Threads, PInv, AnchorSucceeds(t) PROVE PInv'
  OBVIOUS
<1>1. PICK b \in Oldest(job[t].todo) :
        /\ anchored' = anchored \cup {b}
        /\ IF t = Scheduler THEN Record("anchor_succeeded", b, NoBatch) ELSE UNCHANGED status
        /\ Advance(t, b)
  BY DEF AnchorSucceeds
<1>2. b \in Batches /\ b \in BatchIds
  BY OldestIn DEF PInv, PipelineTypeOK, Jobs, JobOK
<1>3. /\ status' \in [last : LastStatus, batch : BatchIds \cup {NoBatch}, error : BatchIds \cup {NoBatch}]
      /\ status'.error = NoBatch \/ (status' = status /\ t # Scheduler)
  BY <1>1, <1>2 DEF Record, PInv, PipelineTypeOK, LastStatus
<1> QED BY <1>1, <1>2, <1>3, AdvanceType, ThreadStep, FaultType
     DEF AnchorSucceeds, PInv, PipelineTypeOK, Batches

LEMMA RaisesStep ==
    \A t \in Threads : PInv /\ (AnchorLost(t) \/ AnchorFails(t)) => PInv'
<1> SUFFICES ASSUME NEW t \in Threads, PInv, AnchorLost(t) \/ AnchorFails(t) PROVE PInv'
  OBVIOUS
<1>1. PICK last \in {"anchor_pending", "anchor_failed"} : AnchorRaises(t, last)
  BY DEF AnchorLost, AnchorFails
<1>2. PICK b \in Oldest(job[t].todo) : IF t = Scheduler THEN Record(last, b, b) ELSE UNCHANGED status
  BY <1>1 DEF AnchorRaises
<1>3. b \in Batches /\ b \in BatchIds
  BY OldestIn DEF PInv, PipelineTypeOK, Jobs, JobOK
<1>4. /\ job' \in [Threads -> Jobs] /\ job'[t] = NoJob
      /\ \A x \in Threads \ {t} : job'[x] = job[x]
  BY <1>1, NoJobType DEF AnchorRaises, PInv, PipelineTypeOK
<1>5. /\ status' \in [last : LastStatus, batch : BatchIds \cup {NoBatch}, error : BatchIds \cup {NoBatch}]
      /\ IF t = Scheduler THEN status'.error = b ELSE status' = status
  BY <1>2, <1>3 DEF Record, PInv, PipelineTypeOK, LastStatus
<1>6. faults' \in 0..MaxFaults
  BY FaultType DEF AnchorLost, AnchorFails
<1>7. NoJob.todo = {} /\ NoJob.pc = "idle"
  BY DEF NoJob
<1> QED BY <1>1, <1>3, <1>4, <1>5, <1>6, <1>7, ThreadStep
     DEF AnchorRaises, PInv, PipelineTypeOK, Batches

LEMMA CrashStep == PInv /\ Crash => PInv'
<1> SUFFICES ASSUME PInv, Crash PROVE PInv'
  OBVIOUS
<1>1. job' = [t \in Threads |-> NoJob] /\ status' = FreshStatus
      /\ UNCHANGED <<events, members, created, anchored, seen>> /\ faults' \in 0..MaxFaults
  BY FaultType DEF Crash
<1>2. NoJob.todo = {} /\ NoJob.pc = "idle"
  BY DEF NoJob
<1>3. FreshStatus \in [last : LastStatus, batch : BatchIds \cup {NoBatch}, error : BatchIds \cup {NoBatch}]
      /\ FreshStatus.error = NoBatch
  BY DEF FreshStatus, LastStatus
<1> QED BY <1>1, <1>2, <1>3, NoJobType DEF PInv, PipelineTypeOK, JobOK, ErrorOK

LEMMA ClientStep ==
    PInv /\ ((\E e \in Events : StoreEvent(e)) \/ (\E e \in Watched : Poll(e))) => PInv'
<1> SUFFICES ASSUME PInv, (\E e \in Events : StoreEvent(e)) \/ (\E e \in Watched : Poll(e)) PROVE PInv'
  OBVIOUS
<1>1. CASE \E e \in Events : StoreEvent(e)
  BY <1>1, BatchesKept DEF StoreEvent, NoFault, PInv, PipelineTypeOK, JobOK, ErrorOK
<1>2. CASE \E e \in Watched : Poll(e)
  <2>1. \A e \in Watched : Lifecycle(e) \subseteq [stage : Stages, batch : BatchIds \cup {NoBatch}]
    BY DEF Lifecycle, Stages, BatchesOf
  <2>2. seen' \in [Watched -> [stage : Stages, batch : BatchIds \cup {NoBatch}]]
    BY <1>2, <2>1 DEF Poll, PInv, PipelineTypeOK
  <2> QED BY <1>2, <2>2, BatchesKept DEF Poll, NoFault, PInv, PipelineTypeOK, JobOK, ErrorOK
<1> QED BY <1>1, <1>2

LEMMA PipelineNext == PInv /\ [Next]_vars => PInv'
<1> SUFFICES ASSUME PInv, [Next]_vars PROVE PInv'
  OBVIOUS
<1>1. CASE Cycle
  BY <1>1, CycleStartStep, SubmitStep, RecheckStep, CountStep, ReadStep, InsertStep, SucceedsStep,
     RaisesStep DEF Cycle, Threads
<1>2. CASE \E t \in Admins : ReadEvents(t) \/ Answer(t) \/ \E b \in BatchIds : AdminAnchor(t, b)
  BY <1>2, ReadStep, InsertStep, SucceedsStep, RaisesStep, AdminAnchorStep DEF Answer, Threads
<1>3. CASE \E t \in Threads : AnchorFails(t)
  BY <1>3, RaisesStep
<1>4. CASE UNCHANGED vars
  BY <1>4, BatchesKept DEF vars, PInv, PipelineTypeOK, JobOK, ErrorOK
<1> QED BY <1>1, <1>2, <1>3, <1>4, CrashStep, ClientStep DEF Next

LEMMA PipelineInit == Init => PInv
<1> SUFFICES ASSUME Init PROVE PInv
  OBVIOUS
<1>1. FreshStatus \in [last : LastStatus, batch : BatchIds \cup {NoBatch}, error : BatchIds \cup {NoBatch}]
      /\ FreshStatus.error = NoBatch
  BY DEF FreshStatus, LastStatus
<1>2. NoJob.todo = {} /\ NoJob.pc = "idle"
  BY DEF NoJob
<1> QED BY <1>1, <1>2, NoJobType DEF Init, PInv, PipelineTypeOK, JobOK, ErrorOK, Stages

LEMMA PipelineInvariant == Spec => []PInv
BY PipelineInit, PipelineNext, PTL DEF Spec

\* Types, the agreement of audit_batches and batch_events, and no anchor row
\* without its batch.
THEOREM PipelineTypes == Spec => []PipelineTypeOK
<1>1. PInv => PipelineTypeOK
  BY DEF PInv
<1> QED BY <1>1, PipelineInvariant, PTL

\* The steps that do not touch the status of the scheduler, or set it to
\* that of an anchoring, wipe no error.
LEMMA ErrorWiped ==
    ASSUME PInv, Next, status.error # NoBatch, status'.error = NoBatch
    PROVE  \/ status'.last = "anchor_succeeded"
           \/ status' = FreshStatus
           \/ job[Scheduler].pc \in {"count", "read", "insert"}
<1>1. CASE status' = status
  BY <1>1
<1>2. CASE Submit \/ AnchorSucceeds(Scheduler)
  <2>1. CASE \E b : Record("anchor_succeeded", b, NoBatch)
    BY <2>1 DEF Record
  <2>2. CASE \E b : Record("anchor_submitted", b, status.error)
    BY <2>2 DEF Record
  <2> QED BY <1>2, <2>1, <2>2 DEF Submit, AnchorSucceeds
<1>3. ASSUME NEW t \in Threads, AnchorLost(t) \/ AnchorFails(t) PROVE FALSE
  <2>1. PICK last : AnchorRaises(t, last)
    BY <1>3 DEF AnchorLost, AnchorFails
  <2>2. PICK b \in Oldest(job[t].todo) : IF t = Scheduler THEN Record(last, b, b) ELSE UNCHANGED status
    BY <2>1 DEF AnchorRaises
  <2>3. b \in BatchIds
    BY OldestIn DEF PInv, PipelineTypeOK, Jobs
  <2> QED BY <2>2, <2>3 DEF Record
<1>4. ASSUME NEW t \in Admins, ReadEvents(t) \/ InsertBatch(t) \/ AnchorSucceeds(t) PROVE status' = status
  BY <1>4 DEF ReadEvents, InsertBatch, AnchorSucceeds
<1> QED BY <1>1, <1>2, <1>3, <1>4
     DEF Next, Cycle, Answer, CycleStart, Recheck, CountNone, CountFew, CountEnough, ReadEvents,
         InsertBatch, AdminAnchor, StoreEvent, Poll, Crash, Threads

\* docs/03-api.md: the error of a failed or pending anchoring goes from the
\* status only by a success, a restart, or when its batch is anchored; with
\* every admin route in use, whoever creates and anchors batches meanwhile.
THEOREM FailuresStayOnShow == Spec => FailureKept
<1>1. PInv /\ [Next]_vars =>
        [status.error # NoBatch /\ status'.error = NoBatch =>
            \/ status'.last = "anchor_succeeded"
            \/ status.error \in anchored
            \/ status' = FreshStatus]_vars
  <2> SUFFICES ASSUME PInv, Next, status.error # NoBatch, status'.error = NoBatch
               PROVE  \/ status'.last = "anchor_succeeded"
                      \/ status.error \in anchored
                      \/ status' = FreshStatus
    OBVIOUS
  <2> QED BY ErrorWiped DEF PInv, ErrorOK
<1> QED BY <1>1, PipelineInvariant, PTL DEF Spec, FailureKept

--------------------------------------------------------------------------
(* When only the scheduler creates batches. *)

\* An event has one batch at most, an admin's call only anchors, and while
\* the scheduler looks at events no batch waits; the events it is about to
\* batch have none yet.
OneBatch == \A e \in Events : \A b, c \in BatchesOf(e) : b = c

LoneInv ==
    /\ PInv
    /\ OneBatch
    /\ \A t \in Admins : job[t].pc \in {"idle", "anchoring"}
    /\ job[Scheduler].pc \in {"count", "read", "insert"} => Unanchored = {}
    /\ job[Scheduler].pc = "insert" => job[Scheduler].leaves \subseteq Unbatched

Lone == "create" \notin AdminOps

\* A step that leaves batches alone and does not take the scheduler to its
\* events.
LEMMA LoneFrame ==
    ASSUME LoneInv, PInv', members' = members, anchored \subseteq anchored', events \subseteq events',
           \A t \in Admins : job'[t].pc \in {"idle", "anchoring"},
           \/ job'[Scheduler].pc \notin {"count", "read", "insert"}
           \/ job'[Scheduler] = job[Scheduler]
           \/ job'[Scheduler].pc \in {"count", "read"} /\ Unanchored = {}
    PROVE  LoneInv'
<1>1. Batches' = Batches /\ Unanchored' \subseteq Unanchored /\ Unbatched \subseteq Unbatched'
  BY DEF Batches, Unanchored, Unbatched, BatchesOf
<1>2. OneBatch'
  BY DEF LoneInv, OneBatch, BatchesOf
<1> QED BY <1>1, <1>2 DEF LoneInv

LEMMA LoneInsert ==
    ASSUME LoneInv, PInv', InsertBatch(Scheduler)
    PROVE  LoneInv'
<1>1. PICK b \in BatchIds \ Batches :
        /\ members' = [members EXCEPT ![b] = job[Scheduler].leaves]
        /\ job' = [job EXCEPT ![Scheduler] = [NoJob EXCEPT !.pc = "submit", !.todo = {b}, !.fresh = TRUE]]
  BY DEF InsertBatch
<1>2. \A c \in BatchIds : members'[c] = IF c = b THEN job[Scheduler].leaves ELSE members[c]
  BY <1>1 DEF LoneInv, PInv, PipelineTypeOK
<1>3. \A e \in job[Scheduler].leaves : BatchesOf(e) = {}
  BY DEF InsertBatch, LoneInv, Unbatched
<1>4. OneBatch'
  BY <1>2, <1>3 DEF LoneInv, OneBatch, BatchesOf
<1>5. /\ \A t \in Admins : job'[t] = job[t]
      /\ job'[Scheduler].pc = "submit"
  BY <1>1 DEF LoneInv, PInv, PipelineTypeOK, Threads, NoJob
<1> QED BY <1>4, <1>5 DEF LoneInv

LEMMA LoneNext ==
    ASSUME Lone, LoneInv, [Next]_vars
    PROVE  LoneInv'
<1>1. PInv' /\ job \in [Threads -> Jobs] /\ Scheduler \in Threads /\ Admins \subseteq Threads
      /\ \A t \in Admins : t # Scheduler
  BY PipelineNext DEF LoneInv, PInv, PipelineTypeOK, Threads
<1>2. /\ NoJob.pc = "idle"
      /\ \A t \in Admins : job[t].pc \in {"idle", "anchoring"}
  BY DEF NoJob, LoneInv
<1>3. CASE InsertBatch(Scheduler)
  BY <1>1, <1>3, LoneInsert
<1>4. CASE CycleStart
  <2> DEFINE j == [NoJob EXCEPT !.pc = IF Unanchored = {} THEN "count" ELSE "submit", !.todo = Unanchored]
  <2>1. job' = [job EXCEPT ![Scheduler] = j] /\ UNCHANGED <<events, members, anchored>>
    BY <1>4 DEF CycleStart
  <2>2. j.pc = "submit" \/ (j.pc = "count" /\ Unanchored = {})
    BY DEF NoJob
  <2> HIDE DEF j
  <2>3. job'[Scheduler] = j /\ \A t \in Admins : job'[t] = job[t]
    BY <1>1, <2>1
  <2> QED BY <1>1, <1>2, <2>1, <2>2, <2>3, LoneFrame
<1>5. CASE Recheck
  <2>1. /\ \A t \in Admins : job'[t] = job[t]
        /\ UNCHANGED <<events, members, anchored>>
        /\ IF Unanchored = {} THEN job'[Scheduler].pc = "count" ELSE job'[Scheduler].pc = "idle"
    BY <1>1, <1>2, <1>5 DEF Recheck, Jobs
  <2> QED BY <1>1, <1>2, <2>1, LoneFrame
<1>6. CASE CountNone \/ CountFew \/ CountEnough
  <2>1. /\ \A t \in Admins : job'[t] = job[t]
        /\ UNCHANGED <<events, members, anchored>> /\ job[Scheduler].pc = "count"
    BY <1>1, <1>6 DEF CountNone, CountFew, CountEnough
  <2>2. job'[Scheduler].pc \in {"idle", "read"}
    BY <1>1, <1>2, <1>6 DEF CountNone, CountFew, CountEnough, NoJob
  <2> QED BY <1>1, <1>2, <2>1, <2>2, LoneFrame DEF LoneInv
<1>7. CASE ReadEvents(Scheduler)
  <2>1. /\ \A t \in Admins : job'[t] = job[t]
        /\ UNCHANGED <<events, members, anchored>> /\ job[Scheduler].pc = "read"
    BY <1>1, <1>7 DEF ReadEvents
  <2>2. CASE job' = [job EXCEPT ![Scheduler] = NoJob]
    BY <1>1, <1>2, <2>1, <2>2, LoneFrame
  <2>3. CASE job' = [job EXCEPT ![Scheduler].pc = "insert", ![Scheduler].leaves = Unbatched]
    <3>1. job'[Scheduler].pc = "insert" /\ job'[Scheduler].leaves = Unbatched
      BY <1>1, <2>3 DEF Jobs
    <3>2. Unanchored' = Unanchored /\ Unbatched' = Unbatched /\ OneBatch'
      BY <2>1 DEF Unanchored, Unbatched, Batches, BatchesOf, OneBatch, LoneInv
    <3> QED BY <1>1, <1>2, <2>1, <3>1, <3>2 DEF LoneInv
  <2> QED BY <1>7, <2>2, <2>3 DEF ReadEvents
<1>8. ASSUME NEW t \in Threads, NEW b, Advance(t, b), members' = members, events' = events,
             anchored \subseteq anchored'
      PROVE  LoneInv'
  <2>1. /\ \A x \in Threads \ {t} : job'[x] = job[x]
        /\ t # Scheduler => job'[t] = NoJob
        /\ t = Scheduler => job'[t].pc \in {"idle", "submit", "recheck"}
    BY <1>1, <1>8, AdvanceType DEF Advance, LoneInv
  <2> QED BY <1>1, <1>2, <1>8, <2>1, LoneFrame DEF Threads
<1>9. CASE Submit
  <2>1. PICK b : \/ Advance(Scheduler, b)
                 \/ job' = [job EXCEPT ![Scheduler].pc = "anchoring"]
    BY <1>9 DEF Submit
  <2>2. CASE job' = [job EXCEPT ![Scheduler].pc = "anchoring"]
    <3>1. job'[Scheduler].pc = "anchoring" /\ \A t \in Admins : job'[t] = job[t]
      BY <1>1, <2>2 DEF Jobs
    <3> QED BY <1>1, <1>2, <1>9, <3>1, LoneFrame DEF Submit
  <2> QED BY <1>1, <1>8, <1>9, <2>1, <2>2 DEF Submit
<1>10. ASSUME NEW t \in Threads, AnchorSucceeds(t) PROVE LoneInv'
  <2>1. PICK b : Advance(t, b)
    BY <1>10 DEF AnchorSucceeds
  <2> QED BY <1>8, <1>10, <2>1 DEF AnchorSucceeds
<1>11. ASSUME NEW t \in Threads, AnchorLost(t) \/ AnchorFails(t) PROVE LoneInv'
  <2>1. /\ job' = [job EXCEPT ![t] = NoJob]
        /\ UNCHANGED <<events, members, anchored>>
    BY <1>11 DEF AnchorLost, AnchorFails, AnchorRaises
  <2> QED BY <1>1, <1>2, <2>1, LoneFrame DEF Threads
<1>12. ASSUME NEW t \in Admins, ReadEvents(t) \/ InsertBatch(t) PROVE FALSE
  BY <1>1, <1>2, <1>12 DEF ReadEvents, InsertBatch, Lone
<1>13. ASSUME NEW t \in Admins, NEW b \in BatchIds, AdminAnchor(t, b) PROVE LoneInv'
  <2> DEFINE j == [NoJob EXCEPT !.pc = "anchoring", !.todo = {b}]
  <2>1. job' = [job EXCEPT ![t] = j] /\ UNCHANGED <<events, members, anchored>> /\ j.pc = "anchoring"
    BY <1>13 DEF AdminAnchor, NoJob
  <2> HIDE DEF j
  <2>2. job'[Scheduler] = job[Scheduler] /\ \A x \in Admins : job'[x].pc \in {"idle", "anchoring"}
    BY <1>1, <1>2, <2>1
  <2> QED BY <1>1, <2>1, <2>2, LoneFrame
<1>14. CASE (\E e \in Events : StoreEvent(e)) \/ (\E e \in Watched : Poll(e)) \/ UNCHANGED vars
  BY <1>1, <1>2, <1>14, LoneFrame DEF StoreEvent, Poll, vars
<1>15. CASE Crash
  BY <1>1, <1>2, <1>15, LoneFrame DEF Crash
<1> QED BY <1>1, <1>3, <1>4, <1>5, <1>6, <1>7, <1>9, <1>10, <1>11, <1>12, <1>13, <1>14, <1>15
     DEF Next, Cycle, Answer

LEMMA LoneInvariant ==
    ASSUME Lone
    PROVE  Spec => []LoneInv
<1>1. Init => LoneInv
  <2> SUFFICES ASSUME Init PROVE LoneInv
    OBVIOUS
  <2>1. PInv /\ NoJob.pc = "idle"
    BY PipelineInit DEF NoJob
  <2> QED BY <2>1 DEF Init, LoneInv, OneBatch, BatchesOf, Threads
<1>2. LoneInv /\ [Next]_vars => LoneInv'
  BY LoneNext
<1> QED BY <1>1, <1>2, PTL DEF Spec

\* Only the scheduler's look at the events sets "no_events".
LEMMA TurnsIdle ==
    ASSUME PInv, Next, status'.last = "no_events", status.last # "no_events"
    PROVE  job[Scheduler].pc \in {"count", "read"}
<1>1. CASE status' = status
  BY <1>1
<1>2. CASE \E last \in LastStatus \ {"no_events"} : \E b, error : Record(last, b, error)
  BY <1>2 DEF Record
<1>3. ASSUME NEW t \in Threads, AnchorLost(t) \/ AnchorFails(t) PROVE FALSE
  <2>1. PICK last \in {"anchor_pending", "anchor_failed"} : AnchorRaises(t, last)
    BY <1>3 DEF AnchorLost, AnchorFails
  <2> QED BY <1>1, <1>2, <2>1 DEF AnchorRaises, LastStatus, Record
<1>4. ASSUME NEW t \in Admins, ReadEvents(t) \/ InsertBatch(t) \/ AnchorSucceeds(t) PROVE status' = status
  BY <1>4 DEF ReadEvents, InsertBatch, AnchorSucceeds
<1>5. CASE Crash
  BY <1>5 DEF Crash, FreshStatus
<1>6. CASE InsertBatch(Scheduler) \/ Submit \/ AnchorSucceeds(Scheduler)
  <2>1. PICK last \in {"batch_created", "anchor_succeeded", "anchor_submitted"} :
            \E b, error : Record(last, b, error)
    BY <1>6 DEF InsertBatch, Submit, AnchorSucceeds
  <2> QED BY <2>1 DEF Record
<1> QED BY <1>1, <1>3, <1>4, <1>5, <1>6
     DEF Next, Cycle, Answer, CycleStart, Recheck, CountNone, CountFew, CountEnough, ReadEvents,
         AdminAnchor, StoreEvent, Poll, Threads

\* docs/03-api.md: when only the scheduler creates batches, it never turns to
\* "no_events" while a batch waits for its anchor row, although the admin
\* anchors batches beside it and anchorings fail.
THEOREM NeverFalselyIdle ==
    ASSUME Lone
    PROVE  Spec => NoFalseIdle
<1>1. LoneInv /\ [Next]_vars =>
        [status'.last = "no_events" /\ status.last # "no_events" => Unanchored = {}]_vars
  <2> SUFFICES ASSUME LoneInv, Next, status'.last = "no_events", status.last # "no_events"
               PROVE  Unanchored = {}
    OBVIOUS
  <2> QED BY TurnsIdle DEF LoneInv
<1> QED BY <1>1, LoneInvariant, PTL DEF Spec, NoFalseIdle

--------------------------------------------------------------------------
(* The pipeline implements the lifecycle: a stored event is Accept, the
   scheduler's insert is Group, a stored row is Anchor.  *)

LEMMA LifecycleStutter ==
    ASSUME UNCHANGED <<events, members, anchored>>
    PROVE  UNCHANGED <<events, Home, anchored>>
BY DEF Home, BatchesOf

LEMMA InsertGroups ==
    ASSUME LoneInv, InsertBatch(Scheduler)
    PROVE  Promise!Next
<1>1. PICK b \in BatchIds \ Batches : members' = [members EXCEPT ![b] = job[Scheduler].leaves]
  BY DEF InsertBatch
<1>2. PICK S \in SUBSET Events : S = job[Scheduler].leaves
  BY DEF LoneInv, PInv, PipelineTypeOK, Jobs, Threads
<1>3. S # {} /\ S \subseteq Unbatched /\ UNCHANGED <<events, anchored>>
  BY <1>2 DEF LoneInv, PInv, JobOK, InsertBatch, Threads
<1>4. \A c \in BatchIds : members'[c] = IF c = b THEN S ELSE members[c]
  BY <1>1, <1>2 DEF LoneInv, PInv, PipelineTypeOK
<1>5. members[b] = {}
  BY DEF Batches
<1>6. \A e \in Events : BatchesOf(e)' = IF e \in S THEN {b} ELSE BatchesOf(e)
  BY <1>3, <1>4, <1>5 DEF BatchesOf, Unbatched
<1>7. /\ \A e \in S : e \in events /\ Home[e] = {}
      /\ \A e \in Events : b \notin Home[e]
  BY <1>3, <1>5 DEF Home, Unbatched, BatchesOf
<1>8. Home' = [e \in Events |-> IF e \in S THEN {b} ELSE Home[e]]
  BY <1>6 DEF Home
<1>9. Promise!Group(b, S)
  BY <1>3, <1>7, <1>8 DEF Promise!Group
<1> QED BY <1>9 DEF Promise!Next

LEMMA SucceedsAnchors ==
    ASSUME PInv, NEW t \in Threads, AnchorSucceeds(t)
    PROVE  Promise!Next
<1>1. PICK b \in Oldest(job[t].todo) : b \notin anchored /\ anchored' = anchored \cup {b}
  BY DEF AnchorSucceeds
<1>2. b \in BatchIds /\ members[b] # {} /\ members[b] \subseteq Events
  BY OldestIn DEF PInv, PipelineTypeOK, JobOK, Batches
<1>3. \E e \in Events : b \in Home[e]
  BY <1>2 DEF Home, BatchesOf
<1>4. UNCHANGED <<events, Home>>
  BY DEF AnchorSucceeds, Home, BatchesOf
<1>5. Promise!Anchor(b)
  BY <1>1, <1>3, <1>4 DEF Promise!Anchor
<1> QED BY <1>2, <1>5 DEF Promise!Next

LEMMA LifecycleStep ==
    ASSUME Lone, LoneInv, [Next]_vars
    PROVE  [Promise!Next]_<<events, Home, anchored>>
<1>1. CASE UNCHANGED <<events, members, anchored>>
  BY <1>1, LifecycleStutter
<1>2. CASE \E e \in Events : StoreEvent(e)
  <2>1. PICK e \in Events : StoreEvent(e)
    BY <1>2
  <2>2. Promise!Accept(e)
    BY <2>1 DEF StoreEvent, Promise!Accept, Home, BatchesOf
  <2> QED BY <2>2 DEF Promise!Next
<1>3. CASE InsertBatch(Scheduler)
  BY <1>3, InsertGroups
<1>4. ASSUME NEW t \in Threads, AnchorSucceeds(t) PROVE Promise!Next
  BY <1>4, SucceedsAnchors DEF LoneInv
<1>5. ASSUME NEW t \in Admins, ReadEvents(t) \/ InsertBatch(t) PROVE FALSE
  BY <1>5 DEF ReadEvents, InsertBatch, Lone, LoneInv, PipelineAssumption
<1> QED BY <1>1, <1>2, <1>3, <1>4, <1>5
     DEF Next, Cycle, Answer, CycleStart, Submit, Recheck, CountNone, CountFew, CountEnough, ReadEvents,
         AnchorLost, AnchorFails, AnchorRaises, AdminAnchor, Poll, Crash, Threads, vars

LEMMA LifecycleInit == Init => Promise!Init
BY DEF Init, Promise!Init, Home, BatchesOf

\* When only the scheduler creates batches, the pipeline implements the
\* lifecycle: an event that was accepted goes into one batch, for good, and
\* what is batched stays so through crashes and failed anchorings.
THEOREM PipelineImplementsLifecycle ==
    ASSUME Lone
    PROVE  Spec => ImplementsLifecycle
<1>1. LoneInv /\ [Next]_vars => [Promise!Next]_<<events, Home, anchored>>
  BY LifecycleStep
<1> QED BY <1>1, LoneInvariant, LifecycleInit, PTL DEF Spec, ImplementsLifecycle, Promise!Spec

--------------------------------------------------------------------------
(* What a client sees. *)

\* What the last poll answered is still so, or has gone on since.
SeenOK ==
    \A e \in Watched :
        /\ seen[e].stage # "unknown" => e \in events
        /\ seen[e].stage \in {"unknown", "submitted"} => seen[e].batch = NoBatch
        /\ seen[e].stage \in {"batched", "anchored"} => seen[e].batch \in BatchesOf(e)
        /\ seen[e].stage = "anchored" => seen[e].batch \in anchored

\* No step takes a stored event, its batch or its anchor row back.
LEMMA NothingUndone ==
    ASSUME PInv, [Next]_vars
    PROVE  /\ events \subseteq events' /\ anchored \subseteq anchored'
           /\ \A e \in Events : BatchesOf(e) \subseteq BatchesOf(e)'
<1>1. CASE members' = members
  <2>1. events \subseteq events' /\ anchored \subseteq anchored'
    BY DEF Next, Cycle, Answer, CycleStart, Submit, Recheck, CountNone, CountFew, CountEnough, ReadEvents,
         InsertBatch, AnchorSucceeds, AnchorLost, AnchorFails, AnchorRaises, AdminAnchor, StoreEvent, Poll,
         Crash, vars
  <2> QED BY <1>1, <2>1 DEF BatchesOf
<1>2. CASE \E t \in Threads : InsertBatch(t)
  <2>1. PICK t \in Threads, b \in BatchIds \ Batches : members' = [members EXCEPT ![b] = job[t].leaves]
    BY <1>2 DEF InsertBatch
  <2>2. members[b] = {}
    BY DEF Batches
  <2>3. \A c \in BatchIds : members[c] \subseteq members'[c]
    BY <2>1, <2>2 DEF PInv, PipelineTypeOK
  <2> QED BY <1>2, <2>3 DEF BatchesOf, InsertBatch
<1> QED BY <1>1, <1>2
     DEF Next, Cycle, Answer, CycleStart, Submit, Recheck, CountNone, CountFew, CountEnough, ReadEvents,
         AnchorSucceeds, AnchorLost, AnchorFails, AnchorRaises, AdminAnchor, StoreEvent, Poll,
         Crash, Threads, vars

\* Only a poll answers, and it answers what is so.
LEMMA PollAnswers ==
    ASSUME PInv, [Next]_vars, NEW e \in Watched, seen'[e] # seen[e]
    PROVE  seen'[e] \in Lifecycle(e) /\ UNCHANGED <<events, members, anchored>>
<1>1. PICK f \in Watched : Poll(f)
  BY DEF Next, Cycle, Answer, CycleStart, Submit, Recheck, CountNone, CountFew, CountEnough, ReadEvents,
         InsertBatch, AnchorSucceeds, AnchorLost, AnchorFails, AnchorRaises, AdminAnchor, StoreEvent,
         Crash, vars
<1> QED BY <1>1 DEF Poll, PInv, PipelineTypeOK

LEMMA AnswerOK ==
    ASSUME NEW e, NEW answer \in Lifecycle(e)
    PROVE  /\ answer.stage \in Stages
           /\ answer.stage = "unknown" <=> e \notin events
           /\ answer.stage \in {"unknown", "submitted"} => BatchesOf(e) = {} \/ e \notin events
           /\ answer.stage \in {"unknown", "submitted"} => answer.batch = NoBatch
           /\ answer.stage \in {"batched", "anchored"} => answer.batch \in BatchesOf(e)
           /\ answer.stage = "anchored" <=> answer.batch \in anchored /\ answer.stage \in {"batched", "anchored"}
<1>1. CASE e \notin events
  BY <1>1 DEF Lifecycle, Stages
<1>2. CASE e \in events /\ BatchesOf(e) = {}
  BY <1>2 DEF Lifecycle, Stages
<1>3. CASE e \in events /\ BatchesOf(e) # {}
  <2>1. PICK b \in BatchesOf(e) :
            answer = [stage |-> IF b \in anchored THEN "anchored" ELSE "batched", batch |-> b]
    BY <1>3 DEF Lifecycle
  <2>2. answer.batch = b /\ answer.stage = IF b \in anchored THEN "anchored" ELSE "batched"
    BY <2>1
  <2> QED BY <1>3, <2>2 DEF Stages
<1> QED BY <1>1, <1>2, <1>3

LEMMA SeenNext ==
    ASSUME LoneInv, SeenOK, [Next]_vars
    PROVE  SeenOK'
<1> SUFFICES ASSUME NEW e \in Watched
             PROVE  /\ seen'[e].stage # "unknown" => e \in events'
                    /\ seen'[e].stage \in {"unknown", "submitted"} => seen'[e].batch = NoBatch
                    /\ seen'[e].stage \in {"batched", "anchored"} => seen'[e].batch \in BatchesOf(e)'
                    /\ seen'[e].stage = "anchored" => seen'[e].batch \in anchored'
  BY DEF SeenOK
<1>1. CASE seen'[e] = seen[e]
  BY <1>1, NothingUndone DEF SeenOK, LoneInv
<1>2. CASE seen'[e] # seen[e]
  <2>1. seen'[e] \in Lifecycle(e) /\ UNCHANGED <<events, members, anchored>>
    BY <1>2, PollAnswers DEF LoneInv
  <2>2. BatchesOf(e)' = BatchesOf(e)
    BY <2>1 DEF BatchesOf
  <2> QED BY <2>1, <2>2, AnswerOK
<1> QED BY <1>1, <1>2

\* When only the scheduler creates batches, two polls of an event never show
\* it going back from "anchored" or "batched", nor in another batch.
THEOREM ClientsSeeProgress ==
    ASSUME Lone
    PROVE  Spec => SeenForward
<1>1. Init => SeenOK
  BY DEF Init, SeenOK
<1>2. LoneInv /\ SeenOK /\ [Next]_vars => SeenOK'
  BY SeenNext
<1>3. LoneInv /\ SeenOK /\ [Next]_vars =>
        [\A e \in Watched :
            /\ Stage[seen[e].stage] <= Stage[seen'[e].stage]
            /\ seen[e].batch # NoBatch => seen'[e].batch = seen[e].batch]_vars
  <2> SUFFICES ASSUME LoneInv, SeenOK, Next, NEW e \in Watched
               PROVE  /\ Stage[seen[e].stage] <= Stage[seen'[e].stage]
                      /\ seen[e].batch # NoBatch => seen'[e].batch = seen[e].batch
    OBVIOUS
  <2>1. seen[e].stage \in Stages
    BY DEF LoneInv, PInv, PipelineTypeOK
  <2>2. /\ Stage["unknown"] = 0 /\ Stage["submitted"] = 1
        /\ Stage["batched"] = 2 /\ Stage["anchored"] = 3
    BY DEF Stage
  <2>3. CASE seen'[e] = seen[e]
    BY <2>1, <2>2, <2>3 DEF Stages
  <2>4. CASE seen'[e] # seen[e]
    <3>1. seen'[e] \in Lifecycle(e)
      BY <2>4, PollAnswers DEF LoneInv
    <3>2. e \in Events
      OBVIOUS
    <3>3. \A b, c \in BatchesOf(e) : b = c
      BY <3>2 DEF LoneInv, OneBatch
    <3> QED BY <2>1, <2>2, <3>1, <3>3, AnswerOK DEF SeenOK, Stages
  <2> QED BY <2>3, <2>4
<1> QED BY <1>1, <1>2, <1>3, LoneInvariant, PTL DEF Spec, SeenForward

============================================================================
