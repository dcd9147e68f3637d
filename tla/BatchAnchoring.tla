-------------------------- MODULE BatchAnchoring --------------------------
(***************************************************************************)
(* backend/app/batch_anchoring.py: perform_batch_anchor, run by the        *)
(* scheduler thread and by POST /audit/batches/{batch_id}/anchor, over the *)
(* SQLite tables audit_batches, batch_anchors and                          *)
(* pending_anchor_transactions and the node of ChainNode.                  *)
(*                                                                         *)
(* A call is a record whose pc names the next access to shared state (one  *)
(* SQLite transaction or one RPC).  Chain reads that follow one another    *)
(* are one step where what they read cannot change any more.               *)
(***************************************************************************)
EXTENDS ChainNode

CONSTANTS
    Actors,     \* threads that may run perform_batch_anchor
    FaultKinds, \* the faults that may happen
    MaxFaults   \* bound: how many of them in a behaviour

\* Requests run on a bounded thread pool, so the threads are finitely many.
ASSUME AnchoringAssumption ==
    /\ IsFiniteSet(Actors)
    /\ MaxFaults \in Nat
    /\ ZeroPayload \notin Payloads

VARIABLES
    batches,    \* audit_batches: what a batch commits to, ZeroPayload if no row
    rows,       \* batch_anchors: the recorded tx_hash, NoTx if no row
    pending,    \* pending_anchor_transactions
    call,       \* the call each actor is in
    faults      \* how many faults happened

dbVars == <<batches, rows, pending>>
vars == <<owner, anchors, logs, txs, nonce, batches, rows, pending, call, faults>>

PendingStatus == {"none", "submitted", "failed", "confirmed"}
PCs == {"idle", "readPending", "isAnchored", "getNonce", "send", "persist",
        "wait", "markPending", "markFailed", "store", "confirm"}

Idle == [pc |-> "idle", batch |-> ZeroBatchId, payload |-> ZeroPayload,
         nonce |-> 0, tx |-> NoTx]

Calls == [pc : PCs, batch : AnchorKeys, payload : PayloadFields,
          nonce : Nat, tx : TxIds \cup {NoTx}]

TypeOK ==
    /\ NodeTypeOK
    /\ batches \in [BatchIds -> Payloads \cup {ZeroPayload}]
    /\ rows \in [BatchIds -> TxIds \cup {NoTx}]
    /\ pending \in [BatchIds -> [status : PendingStatus, tx : TxIds \cup {NoTx}]]
    /\ call \in [Actors -> Calls]
    /\ faults \in 0..MaxFaults

Init ==
    /\ NodeInit
    /\ batches = [b \in BatchIds |-> ZeroPayload]
    /\ rows = [b \in BatchIds |-> NoTx]
    /\ pending = [b \in BatchIds |-> [status |-> "none", tx |-> NoTx]]
    /\ call = [a \in Actors |-> Idle]
    /\ faults = 0

Fault(kind) ==
    /\ kind \in FaultKinds
    /\ faults < MaxFaults
    /\ faults' = faults + 1

NoFault == UNCHANGED faults

\* The call goes on at pc; the call ends, by a return or an exception.
Goto(a, pc) == call' = [call EXCEPT ![a].pc = pc]
GotoWith(a, pc, t) == call' = [call EXCEPT ![a].pc = pc, ![a].tx = t]
End(a) == call' = [call EXCEPT ![a] = Idle]

--------------------------------------------------------------------------
(* The steps of perform_batch_anchor. *)

\* A batch is created; its commitment is fixed in audit_batches.
CreateBatch(b) ==
    /\ batches[b] = ZeroPayload
    /\ \E p \in Payloads : batches' = [batches EXCEPT ![b] = p]
    /\ NoFault
    /\ UNCHANGED <<nodeVars, rows, pending, call>>

\* get_batch and get_batch_anchor.  A call for a batch that is missing or
\* already has its row returns without a change.
Begin(a, b) ==
    /\ call[a].pc = "idle"
    /\ batches[b] # ZeroPayload
    /\ rows[b] = NoTx
    /\ call' = [call EXCEPT ![a] =
            [pc |-> "readPending", batch |-> b, payload |-> batches[b], nonce |-> 0, tx |-> NoTx]]
    /\ NoFault
    /\ UNCHANGED <<nodeVars, dbVars>>

\* Mutated forms: a submitted transaction is not resumed; one that failed is.
ReadPendingForgets(a) ==
    /\ call[a].pc = "readPending"
    /\ Goto(a, "isAnchored")
    /\ UNCHANGED <<nodeVars, dbVars, faults>>

ReadPendingResumesFailed(a) ==
    /\ call[a].pc = "readPending"
    /\ LET row == pending[call[a].batch] IN
        IF row.status # "none" THEN GotoWith(a, "wait", row.tx) ELSE Goto(a, "isAnchored")
    /\ UNCHANGED <<nodeVars, dbVars, faults>>

\* A submitted transaction is resumed, whatever became of it.
ReadPending(a) ==
    /\ call[a].pc = "readPending"
    /\ LET row == pending[call[a].batch] IN
        IF row.status = "submitted" THEN GotoWith(a, "wait", row.tx) ELSE Goto(a, "isAnchored")
    /\ NoFault
    /\ UNCHANGED <<nodeVars, dbVars>>

\* _assert_onchain_matches_local, _assert_log_matches_local: the metadata
\* hash is not compared.
Matches(local, onchain) ==
    local.merkleRoot = onchain.merkleRoot /\ local.eventCount = onchain.eventCount

\* Mutated form: the log is not compared with the local batch.
ReconcilableLogUnchecked(b, local) == {l \in LogsOf(b) : LogsOf(b) = {l}}

\* The single BatchAnchored log of find_batch_anchored_log that passes every
\* assertion of _reconcile_onchain_anchor; none if it raises.
ReconcilableLog(b, local) ==
    {l \in LogsOf(b) : /\ LogsOf(b) = {l}
                       /\ Matches(local, anchors[b])
                       /\ Matches(local, l)
                       /\ Matches(anchors[b], l)}

\* Mutated form: the contract is not asked before a transaction is sent.
CheckChainSkipped(a) ==
    /\ call[a].pc = "isAnchored"
    /\ Goto(a, "getNonce")
    /\ UNCHANGED <<nodeVars, dbVars, faults>>

\* isAnchored; when true, the reads and assertions of
\* _reconcile_onchain_anchor up to store_batch_anchor.
CheckChain(a) ==
    /\ call[a].pc = "isAnchored"
    /\ LET b == call[a].batch
           found == ReconcilableLog(b, call[a].payload) IN
        \/ ~IsAnchored(b) /\ Goto(a, "getNonce")
        \/ IsAnchored(b) /\ \E l \in found : GotoWith(a, "store", l.tx)
        \/ IsAnchored(b) /\ found = {} /\ End(a)
    /\ NoFault
    /\ UNCHANGED <<nodeVars, dbVars>>

\* Mutated forms: the pool's transactions count; the last nonce used is read.
GetNonceOfPool(a) ==
    /\ call[a].pc = "getNonce"
    /\ call' = [call EXCEPT ![a].pc = "send", ![a].nonce = nonce + Cardinality(InPool)]
    /\ UNCHANGED <<nodeVars, dbVars, faults>>

GetNonceLastUsed(a) ==
    /\ call[a].pc = "getNonce"
    /\ call' = [call EXCEPT ![a].pc = "send", ![a].nonce = nonce - 1]
    /\ UNCHANGED <<nodeVars, dbVars, faults>>

\* get_transaction_count counts confirmed transactions only.
GetNonce(a) ==
    /\ call[a].pc = "getNonce"
    /\ call' = [call EXCEPT ![a].pc = "send", ![a].nonce = nonce]
    /\ NoFault
    /\ UNCHANGED <<nodeVars, dbVars>>

\* send_raw_transaction: the node takes the transaction and its hash comes
\* back.  A failed gas estimate does not stop the call (fallback gas).
Send(a) ==
    /\ call[a].pc = "send"
    /\ CanAccept(call[a].nonce)
    /\ \E t \in NextTx :
        /\ Accept(t, call[a].batch, call[a].payload, call[a].nonce)
        /\ GotoWith(a, "persist", t)
    /\ NoFault
    /\ UNCHANGED dbVars

\* The node refuses it: nonce too low, already known, replacement
\* underpriced.  (Out of numbers is the bound of the model.)
SendRefused(a) ==
    /\ call[a].pc = "send"
    /\ ~CanAccept(call[a].nonce)
    /\ End(a)
    /\ NoFault
    /\ UNCHANGED <<nodeVars, dbVars>>

\* The gas price has risen: the transaction replaces the one in its slot.
SendReplaces(a) ==
    /\ call[a].pc = "send"
    /\ SlotOf(call[a].nonce) # {}
    /\ \E t \in NextTx :
        /\ Accept(t, call[a].batch, call[a].payload, call[a].nonce)
        /\ GotoWith(a, "persist", t)
    /\ Fault("replace")
    /\ UNCHANGED dbVars

\* The node takes it and the answer is lost: no hash was persisted.
SendAnswerLost(a) ==
    /\ call[a].pc = "send"
    /\ CanAccept(call[a].nonce)
    /\ \E t \in NextTx : Accept(t, call[a].batch, call[a].payload, call[a].nonce)
    /\ End(a)
    /\ Fault("lost")
    /\ UNCHANGED dbVars

\* upsert_pending_anchor_transaction
UpsertPending(b, status, t) ==
    pending' = [pending EXCEPT ![b] = [status |-> status, tx |-> t]]

Persist(a) ==
    /\ call[a].pc = "persist"
    /\ UpsertPending(call[a].batch, "submitted", call[a].tx)
    /\ Goto(a, "wait")
    /\ NoFault
    /\ UNCHANGED <<nodeVars, batches, rows>>

\* Mutated forms: the batch is confirmed before its row is stored; the
\* receipt's status is not read.
ReceiptConfirms(a) ==
    /\ call[a].pc = "wait"
    /\ txs[call[a].tx].status = "ok"
    /\ IF Matches(call[a].payload, anchors[call[a].batch]) THEN Goto(a, "confirm") ELSE End(a)
    /\ UNCHANGED <<nodeVars, dbVars, faults>>

ReceiptAnyStatus(a) ==
    /\ call[a].pc = "wait"
    /\ txs[call[a].tx].status \in {"ok"} \cup Reverted
    /\ IF Matches(call[a].payload, anchors[call[a].batch]) THEN Goto(a, "store") ELSE End(a)
    /\ UNCHANGED <<nodeVars, dbVars, faults>>

\* The receipt says success: getBatch at its block is compared with the
\* local batch, and a mismatch raises with the row still "submitted".
ReceiptOk(a) ==
    /\ call[a].pc = "wait"
    /\ txs[call[a].tx].status = "ok"
    /\ IF Matches(call[a].payload, anchors[call[a].batch]) THEN Goto(a, "store") ELSE End(a)
    /\ NoFault
    /\ UNCHANGED <<nodeVars, dbVars>>

\* getBatch at that block reads as the zero value: anchoredAt and anchoredBy
\* come from the receipt's log and nothing is compared.  The local commitment
\* is not looked at again, and the call forgets it.
ReceiptOkZeroRead(a) ==
    /\ call[a].pc = "wait"
    /\ txs[call[a].tx].status = "ok"
    /\ call' = [call EXCEPT ![a].pc = "store", ![a].payload = ZeroPayload]
    /\ Fault("zeroread")
    /\ UNCHANGED <<nodeVars, dbVars>>

ReceiptReverted(a) ==
    /\ call[a].pc = "wait"
    /\ txs[call[a].tx].status \in Reverted
    /\ Goto(a, "markFailed")
    /\ NoFault
    /\ UNCHANGED <<nodeVars, dbVars>>

\* Mutated form: a timeout is a failure.
ReceiptTimeoutFails(a) ==
    /\ call[a].pc = "wait"
    /\ txs[call[a].tx].status \in {"pending", "dropped"}
    /\ Goto(a, "markFailed")
    /\ UNCHANGED <<nodeVars, dbVars, faults>>

\* No receipt within the timeout.
ReceiptTimeout(a) ==
    /\ call[a].pc = "wait"
    /\ txs[call[a].tx].status \in {"pending", "dropped"}
    /\ Goto(a, "markPending")
    /\ NoFault
    /\ UNCHANGED <<nodeVars, dbVars>>

\* Any exception of the receipt query is taken for a pending receipt.
ReceiptError(a) ==
    /\ call[a].pc = "wait"
    /\ Goto(a, "markPending")
    /\ Fault("rpc")
    /\ UNCHANGED <<nodeVars, dbVars>>

MarkPending(a) ==
    /\ call[a].pc = "markPending"
    /\ UpsertPending(call[a].batch, "submitted", call[a].tx)
    /\ End(a)
    /\ NoFault
    /\ UNCHANGED <<nodeVars, batches, rows>>

MarkFailed(a) ==
    /\ call[a].pc = "markFailed"
    /\ UpsertPending(call[a].batch, "failed", call[a].tx)
    /\ End(a)
    /\ NoFault
    /\ UNCHANGED <<nodeVars, batches, rows>>

\* store_batch_anchor: INSERT, so a row already there is an IntegrityError.
Store(a) ==
    /\ call[a].pc = "store"
    /\ IF rows[call[a].batch] = NoTx
       THEN /\ rows' = [rows EXCEPT ![call[a].batch] = call[a].tx]
            /\ Goto(a, "confirm")
       ELSE End(a) /\ UNCHANGED rows
    /\ NoFault
    /\ UNCHANGED <<nodeVars, batches, pending>>

Confirm(a) ==
    /\ call[a].pc = "confirm"
    /\ UpsertPending(call[a].batch, "confirmed", call[a].tx)
    /\ End(a)
    /\ NoFault
    /\ UNCHANGED <<nodeVars, batches, rows>>

--------------------------------------------------------------------------
(* What the environment does. *)

\* An RPC raises: the call ends and nothing is written.  At "wait" that is
\* the connection opened before the receipt query's try, or getBatch.
RpcFailure(a) ==
    /\ call[a].pc \in {"isAnchored", "getNonce", "send", "wait"}
    /\ End(a)
    /\ Fault("rpc")
    /\ UNCHANGED <<nodeVars, dbVars>>

\* The process dies and restarts; SQLite and the chain keep their state.
Crash ==
    /\ call' = [a \in Actors |-> Idle]
    /\ Fault("crash")
    /\ UNCHANGED <<nodeVars, dbVars>>

\* The operator edits a batch in SQLite.
Tamper(b) ==
    /\ batches[b] # ZeroPayload
    /\ \E p \in Payloads \ {batches[b]} : batches' = [batches EXCEPT ![b] = p]
    /\ Fault("tamper")
    /\ UNCHANGED <<nodeVars, rows, pending, call>>

MineTx(t) == Mine(t) /\ NoFault /\ UNCHANGED <<dbVars, call>>
EvictTx(t) == Evict(t) /\ Fault("evict") /\ UNCHANGED <<dbVars, call>>
ChangeOwner == Handover /\ Fault("handover") /\ UNCHANGED <<dbVars, call>>

Proceed(a) ==
    \/ ReadPending(a) \/ CheckChain(a) \/ GetNonce(a) \/ Send(a) \/ SendRefused(a)
    \/ Persist(a) \/ ReceiptOk(a) \/ ReceiptReverted(a) \/ ReceiptTimeout(a)
    \/ MarkPending(a) \/ MarkFailed(a) \/ Store(a) \/ Confirm(a)

Step ==
    \/ \E b \in BatchIds : CreateBatch(b) \/ Tamper(b)
    \/ \E a \in Actors :
        \/ \E b \in BatchIds : Begin(a, b)
        \/ Proceed(a)
        \/ SendReplaces(a) \/ SendAnswerLost(a)
        \/ ReceiptOkZeroRead(a) \/ ReceiptError(a) \/ RpcFailure(a)
    \/ \E t \in TxIds : MineTx(t) \/ EvictTx(t)
    \/ ChangeOwner

Next == Step \/ Crash

Spec == Init /\ [][Next]_vars

\* A thread in a call goes on, an actor keeps coming back for batches
\* without a row (the scheduler's loop), and blocks are produced.
Fairness ==
    /\ \A a \in Actors : WF_vars(Proceed(a))
    /\ \A a \in Actors : WF_vars(\E b \in BatchIds : Begin(a, b))
    /\ WF_vars(\E t \in TxIds : MineTx(t))

FairSpec == Spec /\ Fairness

--------------------------------------------------------------------------
(* Safety. *)

IsAnchorTxOf(t, b) ==
    /\ t \in TxIds
    /\ txs[t].status = "ok"
    /\ txs[t].batch = b
    /\ \E l \in LogsOf(b) : l.tx = t

\* A batch_anchors row names the transaction that anchored that batch: not
\* one that reverted, was replaced, is still in the pool, or anchored another
\* batch, whichever calls, crashes and retries led to the row.
AnchorRowTrue == \A b \in BatchIds : rows[b] # NoTx => IsAnchorTxOf(rows[b], b)

\* A "confirmed" pending row never stands without the anchor row it confirms,
\* and names the same transaction (store_batch_anchor comes first).
ConfirmedHasRow ==
    \A b \in BatchIds : pending[b].status = "confirmed" => rows[b] = pending[b].tx /\ rows[b] # NoTx

\* "failed" is written only for a transaction whose receipt says it reverted:
\* a timeout or an unreachable node never makes a batch look failed, so
\* nothing that may still mine is given up.
FailedMeansReverted ==
    \A b \in BatchIds : pending[b].status = "failed" => txs[pending[b].tx].status \in Reverted

\* Because the nonce is read at "latest", the operator account never has two
\* transactions in the pool, whichever batches and threads they come from.
OneInFlight == \A t, u \in InPool : t = u

Duplicates(b) == {t \in TxIds : txs[t].batch = b /\ txs[t].status = "BatchAlreadyAnchored"}

\* Each thread wastes at most one transaction on a batch: one that passed the
\* isAnchored check before another transaction anchored the batch.
DuplicatesBounded == \A b \in BatchIds : Cardinality(Duplicates(b)) <= Cardinality(Actors)

\* docs/06-threat-model.md:106, "Worst case is one extra reverted transaction".
OneExtraRevert == \A b \in BatchIds : Cardinality(Duplicates(b)) <= 1

\* Broadcasting for a batch that has a submitted transaction or an anchor row.
Rebroadcast(b) ==
    /\ \E t \in Unused : txs'[t].status = "pending" /\ txs'[t].batch = b
    /\ pending[b].status = "submitted" \/ rows[b] # NoTx

\* docs/03-api.md:274, a submitted transaction is resumed "without
\* broadcasting again", and a recorded batch is not broadcast.  It holds of
\* one thread; of two, DuplicatesBounded says what the race can cost.
NoRebroadcast == [][\A b \in BatchIds : ~Rebroadcast(b)]_vars

\* A row is written only by a call that found the batch's root and count in
\* the contract, whatever is edited in SQLite before or during the call; the
\* one exception is a getBatch that reads as zero after the receipt.
StoreVerified ==
    [][\A b \in BatchIds : rows'[b] # rows[b] =>
        \E a \in Actors :
            /\ call[a].pc = "store" /\ call'[a] # call[a]
            /\ call[a].batch = b
            /\ call[a].payload = ZeroPayload \/ Matches(call[a].payload, anchors[b])]_vars

(* The inductive invariant behind the safety properties. *)

\* The transactions and the events of the contract tell the same story.
ReceiptsMatchLogs ==
    /\ \A l \in logs : txs[l.tx].status = "ok" /\ txs[l.tx].batch = l.batch
    /\ \A t \in TxIds : txs[t].status = "ok" => \E l \in LogsOf(txs[t].batch) : l.tx = t

Sent(t, b) == t \in TxIds /\ txs[t].status # "unused" /\ txs[t].batch = b

\* What a call knows of the transaction it carries.
CallOK(c) ==
    /\ c.pc # "idle" => c.batch \in BatchIds
    /\ c.pc \in {"persist", "wait", "markPending", "markFailed", "store", "confirm"}
            => Sent(c.tx, c.batch)
    /\ c.pc = "markFailed" => txs[c.tx].status \in Reverted
    /\ c.pc \in {"store", "confirm"} => txs[c.tx].status = "ok"
    /\ c.pc = "confirm" => rows[c.batch] = c.tx

PendingOK == \A b \in BatchIds : pending[b].status # "none" => Sent(pending[b].tx, b)

NodeInv == NodeTypeOK /\ LogsMatchStorage /\ ReceiptsMatchLogs

DbInv ==
    /\ TypeOK
    /\ \A a \in Actors : CallOK(call[a])
    /\ PendingOK
    /\ AnchorRowTrue
    /\ ConfirmedHasRow
    /\ FailedMeansReverted

IInv == NodeInv /\ DbInv

\* The nonces: what is in the pool has the account's next one, and no call
\* holds a later one.
PoolInv ==
    /\ TypeOK
    /\ OneInFlight
    /\ \A t \in InPool : txs[t].nonce = nonce
    /\ \A a \in Actors : call[a].nonce <= nonce

\* The calls that found the batch not anchored and have yet to broadcast, and
\* the transactions that came, or may still come, too late.
Late(b) == {a \in Actors : call[a].pc \in {"getNonce", "send"} /\ call[a].batch = b}
Spent(b) == {t \in TxIds : txs[t].batch = b /\ txs[t].status \in {"pending", "BatchAlreadyAnchored"}}

\* Once a batch is anchored no call becomes late for it, and each late one
\* broadcasts once: what can be wasted is bounded by the threads.
DupInv ==
    \A b \in BatchIds :
        IF IsAnchored(b)
        THEN Cardinality(Spent(b)) + Cardinality(Late(b)) <= Cardinality(Actors)
        ELSE Duplicates(b) = {}

\* A call about to store has compared its commitment with the contract's, or
\* has read zero.
StoreOK ==
    \A a \in Actors : call[a].pc = "store" =>
        call[a].payload = ZeroPayload \/ Matches(call[a].payload, anchors[call[a].batch])

(* Liveness. *)

\* README.md:64, the backend "reconciles from chain when a batch is already
\* anchored": a batch the contract holds eventually has its row.
AnchoredIsReconciled ==
    \A b \in BatchIds : IsAnchored(b) ~> (rows[b] # NoTx)

(* Refinement. *)

CommittedTx == [b \in BatchIds |-> {l.tx : l \in LogsOf(b)}]
RecordedTx == [b \in BatchIds |-> IF rows[b] = NoTx THEN {} ELSE {rows[b]}]

Registry == INSTANCE AnchorRegistry WITH
    Txs <- TxIds, committed <- CommittedTx, recorded <- RecordedTx

\* Anchoring, with its pool, retries, crashes and races, implements the
\* registry: the contract commits a batch by one transaction for good, and
\* its row is written once and names that transaction.
ImplementsRegistry == Registry!Spec

==========================================================================
