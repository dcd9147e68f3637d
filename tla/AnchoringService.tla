------------------------- MODULE AnchoringService -------------------------
(***************************************************************************)
(* Anchoring inside the process that runs it: the scheduler's cycles, its  *)
(* stop and the process's exit (backend/app/auto_anchor_scheduler.py and   *)
(* the lifespan of backend/app/main.py), backups of the database while it  *)
(* is used (scripts/backup_sqlite.sh) and restoring one of them            *)
(* (scripts/restore_sqlite.sh), while the chain keeps all it was told.     *)
(***************************************************************************)
EXTENDS BatchAnchoring

CONSTANTS
    Scheduler,  \* the actor that is the scheduler's thread
    MaxCopies   \* bound: backups taken

ASSUME ServiceAssumption == Scheduler \in Actors /\ MaxCopies \in Nat

VARIABLES
    service,    \* the systemd unit: up, stopping, down
    cycle,      \* run_auto_anchor_cycle: not running, not begun to anchor, anchoring
    copies,     \* the backup files and emergency copies
    used        \* identifiers that were given to batches (uuid4 repeats none)

serviceVars == <<service, cycle, copies, used>>
svars == <<vars, serviceVars>>

Database == [batches |-> batches, rows |-> rows, pending |-> pending]

ServiceTypeOK ==
    /\ TypeOK
    /\ service \in {"up", "stopping", "down"}
    /\ cycle \in {"none", "listing", "anchoring"}
    /\ \A c \in copies :
        /\ c.batches \in [BatchIds -> Payloads \cup {ZeroPayload}]
        /\ c.rows \in [BatchIds -> TxIds \cup {NoTx}]
        /\ c.pending \in [BatchIds -> [status : PendingStatus, tx : TxIds \cup {NoTx}]]
    /\ used \subseteq BatchIds

ServiceInit ==
    /\ Init
    /\ service = "up"
    /\ cycle = "none"
    /\ copies = {}
    /\ used = {}

Existing(bs) == {b \in BatchIds : bs[b] # ZeroPayload}
Unrecorded == {b \in Existing(batches) : rows[b] = NoTx}

\* Calls begin within a cycle, or by a request while requests are accepted;
\* batches are created by either.
MayBegin(a) == IF a = Scheduler THEN cycle # "none" ELSE service = "up"
MayCreate == service = "up" \/ cycle # "none"

Began(a) == call[a].pc = "idle" /\ call'[a].pc # "idle"
Created == Existing(batches') \ Existing(batches)

\* A step of anchoring, as far as the process lets it.  A thread in a call is
\* not interrupted by the stop of the scheduler.
Work ==
    /\ Step
    /\ \A a \in Actors : Began(a) => MayBegin(a)
    /\ Created # {} => MayCreate /\ Created \cap used = {}
    /\ used' = used \cup Created
    /\ cycle' = IF Began(Scheduler) THEN "anchoring" ELSE cycle
    /\ UNCHANGED <<service, copies>>

\* The loop runs a cycle while stop_event is not set.
StartCycle ==
    /\ service = "up" /\ cycle = "none"
    /\ cycle' = "listing"
    /\ UNCHANGED <<vars, service, copies, used>>

\* A cycle anchors the unanchored batches it finds, until one raises.
EndCycle ==
    /\ cycle # "none" /\ call[Scheduler].pc = "idle"
    /\ cycle = "listing" => Unrecorded = {}
    /\ cycle' = "none"
    /\ UNCHANGED <<vars, service, copies, used>>

\* The process dies and is started again.
Die ==
    /\ service = "up"
    /\ Crash
    /\ cycle' = "none"
    /\ UNCHANGED <<service, copies, used>>

\* systemctl stop: the lifespan ends, stop_event is set.
Stop ==
    /\ service = "up"
    /\ Fault("stop")
    /\ service' = "stopping"
    /\ UNCHANGED <<nodeVars, dbVars, call, cycle, copies, used>>

\* After the grace period the task is cancelled, but its thread and the
\* requests' threads go on; the process exits when they are done.
Exit ==
    /\ service = "stopping"
    /\ cycle = "none" /\ \A a \in Actors : call[a].pc = "idle"
    /\ service' = "down"
    /\ UNCHANGED <<vars, cycle, copies, used>>

\* systemd's patience ends before the threads do.
Kill ==
    /\ service = "stopping"
    /\ call' = [a \in Actors |-> Idle]
    /\ cycle' = "none"
    /\ service' = "down"
    /\ UNCHANGED <<nodeVars, dbVars, faults, copies, used>>

Start ==
    /\ service = "down"
    /\ service' = "up"
    /\ UNCHANGED <<vars, cycle, copies, used>>

\* backup_sqlite.sh: a consistent copy, the service running or not.
Backup ==
    /\ Cardinality(copies) < MaxCopies
    /\ copies' = copies \cup {Database}
    /\ UNCHANGED <<vars, service, cycle, used>>

\* A copy takes the place of the database, which is kept as an emergency copy.
Replace(c) ==
    /\ batches' = c.batches /\ rows' = c.rows /\ pending' = c.pending
    /\ copies' = copies \cup {Database}
    /\ UNCHANGED <<nodeVars, call, faults, cycle, used>>

\* Mutated form: the service is not stopped.
RestoreRunning == \E c \in copies : Replace(c) /\ UNCHANGED service

\* restore_sqlite.sh, or its roll back with an emergency copy: the service is
\* stopped, the file replaced, the service started.
Restore ==
    /\ service = "down"
    /\ \E c \in copies : Replace(c)
    /\ service' = "up"

ServiceNext ==
    \/ Work \/ StartCycle \/ EndCycle
    \/ Die \/ Stop \/ Exit \/ Kill \/ Start
    \/ Backup \/ Restore

ServiceSpec == ServiceInit /\ [][ServiceNext]_svars

\* Threads go on, cycles follow one another and take up the batches they
\* list, blocks are produced, and a stopped service comes back.
ServiceFairness ==
    /\ \A a \in Actors : WF_svars(Proceed(a) /\ UNCHANGED serviceVars)
    /\ WF_svars(cycle # "none" /\ cycle' = "anchoring"
                /\ (\E b \in BatchIds : Begin(Scheduler, b)) /\ UNCHANGED <<service, copies, used>>)
    /\ WF_svars((\E t \in TxIds : MineTx(t)) /\ UNCHANGED serviceVars)
    /\ WF_svars(StartCycle)
    /\ WF_svars(EndCycle)
    /\ WF_svars(Exit \/ Kill)
    /\ WF_svars(Start)

FairServiceSpec == ServiceSpec /\ ServiceFairness

--------------------------------------------------------------------------

\* Whatever is restored and rolled back, no two copies of the database, nor
\* a copy and the live one, record different anchor transactions for a batch.
CopiesAgree ==
    \A c \in copies, d \in copies \cup {Database}, b \in BatchIds :
        c.rows[b] # NoTx /\ d.rows[b] # NoTx => c.rows[b] = d.rows[b]

\* The submitted transaction of a batch is no longer in the pool and never
\* mined: its calls fail for ever, and each ends the cycle it is in.
Stranded(b) == pending[b].status = "submitted" /\ txs[pending[b].tx].status = "dropped"

\* docs/08-architecture.md, "retried on later cycles": through crashes, lost
\* answers, stops in the middle of a cycle and restored backups, a batch in
\* the database is eventually recorded as anchored, unless a restore removes
\* it or the node dropped the transaction that its row, or that of a batch
\* the scheduler takes up before it, waits for.
EventuallyRecorded ==
    \A b \in BatchIds : (batches[b] # ZeroPayload) ~>
        (rows[b] # NoTx \/ batches[b] = ZeroPayload \/ \E c \in BatchIds : Stranded(c))

(* The invariant of the copies: what holds of the live tables holds of each. *)

CopyOK(c) ==
    \A b \in BatchIds :
        /\ c.pending[b].status # "none" => Sent(c.pending[b].tx, b)
        /\ c.rows[b] # NoTx => IsAnchorTxOf(c.rows[b], b)
        /\ c.pending[b].status = "confirmed" => c.rows[b] = c.pending[b].tx /\ c.rows[b] # NoTx
        /\ c.pending[b].status = "failed" => txs[c.pending[b].tx].status \in Reverted

ServiceInv ==
    /\ ServiceTypeOK
    /\ \A c \in copies : CopyOK(c)
    /\ service = "down" => cycle = "none" /\ \A a \in Actors : call[a].pc = "idle"

==========================================================================
