----------------------- MODULE BatchAnchoringProofs -----------------------
(***************************************************************************)
(* Proofs about anchoring, for any number of threads, batches, commitments *)
(* and transactions, and any number of faults of every kind.               *)
(*                                                                         *)
(* A step either moves the node (first part: what any such step keeps of   *)
(* the transactions) or moves one call and the tables (second part).  Then *)
(* come what a row was compared with, the pool, the transactions wasted on *)
(* a batch, and the refinement of AnchorRegistry.                          *)
(***************************************************************************)
EXTENDS BatchAnchoring, VeriAgentAnchorProofs, FiniteSetTheorems

\* What a step of the node never takes back: a signed transaction stays
\* signed and keeps its batch, and a receipt is final.
Monotone ==
    \A t \in TxIds :
        /\ txs[t].status # "unused" => txs'[t].status # "unused" /\ txs'[t].batch = txs[t].batch
        /\ txs[t].status \in {"ok"} \cup Reverted => txs'[t].status = txs[t].status

USE AnchorAssumption, NodeAssumption, AnchoringAssumption DEF NoTx

--------------------------------------------------------------------------
(* The node. *)

LEMMA NodeUnchanged ==
    ASSUME NodeInv, UNCHANGED nodeVars
    PROVE  NodeInv' /\ Monotone
BY DEF NodeInv, nodeVars, NodeTypeOK, ContractTypeOK, LogsMatchStorage, ReceiptsMatchLogs,
       IsAnchored, LogsOf, Monotone

LEMMA AcceptStep ==
    ASSUME NodeInv, NEW t \in TxIds, NEW b \in BatchIds, NEW p \in PayloadFields, NEW n \in Nat,
           Accept(t, b, p, n)
    PROVE  NodeInv' /\ Monotone /\ Sent(t, b)'
<1>1. txs[t].status = "unused"
  BY DEF Accept, NextTx, Unused
<1>2. \A u \in TxIds : txs'[u] =
          IF u = t THEN [status |-> "pending", batch |-> b, payload |-> p, nonce |-> n]
          ELSE IF u \in SlotOf(n) THEN [txs[u] EXCEPT !.status = "dropped"] ELSE txs[u]
  BY DEF Accept
<1>3. NodeTypeOK'
  BY <1>2 DEF Accept, NodeInv, NodeTypeOK, ContractTypeOK, TxStatus, AnchorKeys
<1>4. \A u \in TxIds : u \in SlotOf(n) => txs[u].status = "pending"
  BY DEF SlotOf, InPool
<1>5. Monotone
  <2>1. \A u \in TxIds : txs[u].status # "unused" /\ txs[u].status # "pending" => txs'[u] = txs[u]
    BY <1>1, <1>2, <1>4
  <2>2. \A u \in TxIds : txs[u].status = "pending" =>
            txs'[u].batch = txs[u].batch /\ txs'[u].status # "unused"
    BY <1>1, <1>2 DEF NodeInv, NodeTypeOK
  <2> QED BY <2>1, <2>2 DEF Monotone, Reverted
<1>6. ReceiptsMatchLogs'
  <2>1. \A l \in logs' : txs'[l.tx].status = "ok" /\ txs'[l.tx].batch = l.batch
    BY <1>5 DEF Monotone, ReceiptsMatchLogs, NodeInv, NodeTypeOK, ContractTypeOK, Log, Accept
  <2>2. \A u \in TxIds : txs'[u].status = "ok" => txs'[u] = txs[u]
    BY <1>2, <1>3 DEF NodeInv, NodeTypeOK
  <2>3. \A u \in TxIds : txs'[u].status = "ok" => \E l \in LogsOf(txs[u].batch)' : l.tx = u
    BY <2>2 DEF ReceiptsMatchLogs, NodeInv, Accept, LogsOf
  <2> QED BY <2>1, <2>3 DEF ReceiptsMatchLogs
<1>7. LogsMatchStorage'
  BY DEF Accept, NodeInv, LogsMatchStorage, IsAnchored, LogsOf
<1>8. Sent(t, b)'
  <2>1. txs'[t] = [status |-> "pending", batch |-> b, payload |-> p, nonce |-> n]
    BY <1>2
  <2> QED BY <2>1 DEF Sent
<1> QED BY <1>3, <1>5, <1>6, <1>7, <1>8 DEF NodeInv

LEMMA MineStep ==
    ASSUME NodeInv, NEW t \in TxIds, Mine(t)
    PROVE  NodeInv' /\ Monotone
<1>1. PICK b \in AnchorKeys, p \in PayloadFields : txs[t].batch = b /\ txs[t].payload = p
  BY DEF NodeInv, NodeTypeOK
<1> DEFINE outcome == AnchorOutcome(Operator, b, p)
<1>2. txs[t].status = "pending"
  BY DEF Mine, SlotOf, InPool
<1>3. txs' = [txs EXCEPT ![t].status = outcome] /\ nonce' = nonce + 1
  BY <1>1 DEF Mine
<1>4. outcome \in {"ok"} \cup Reverted
  BY DEF AnchorOutcome, Reverted
<1> HIDE DEF outcome
<1>5. \A u \in TxIds : /\ txs'[u].batch = txs[u].batch
                       /\ txs'[u].status = IF u = t THEN outcome ELSE txs[u].status
  BY <1>3 DEF NodeInv, NodeTypeOK
<1>6. Monotone
  BY <1>2, <1>4, <1>5 DEF Monotone, Reverted
<1>7. txs' \in [TxIds -> [status : TxStatus, batch : AnchorKeys, payload : PayloadFields, nonce : Nat]]
  BY <1>3, <1>4 DEF NodeInv, NodeTypeOK, TxStatus
<1>8. \A l \in logs : l.tx \in TxIds /\ l.tx # t
  BY <1>2 DEF NodeInv, ReceiptsMatchLogs, NodeTypeOK, ContractTypeOK, Log
<1>9. CASE outcome = "ok"
  <2>1. AnchorBatch(Operator, b, p, t)
    BY <1>1, <1>9 DEF Mine, outcome
  <2>2. /\ ContractTypeOK' /\ LogsMatchStorage'
        /\ LogsOf(b)' = {[batch |-> b, merkleRoot |-> p.merkleRoot,
                          eventCount |-> p.eventCount, by |-> Operator, tx |-> t]}
    BY <2>1, AnchorBatchStep DEF NodeInv, NodeTypeOK
  <2>3. logs \subseteq logs' /\ \A l \in logs' : l \in logs \/ (l.tx = t /\ l.batch = b)
    BY <2>1 DEF AnchorBatch
  <2>4. \A l \in logs' : txs'[l.tx].status = "ok" /\ txs'[l.tx].batch = l.batch
    BY <1>1, <1>5, <1>8, <1>9, <2>3 DEF NodeInv, ReceiptsMatchLogs
  <2>5. \A u \in TxIds : txs'[u].status = "ok" => \E l \in LogsOf(txs[u].batch)' : l.tx = u
    <3>1. \A u \in TxIds \ {t} : txs'[u].status = "ok" => \E l \in logs' : l.batch = txs'[u].batch /\ l.tx = u
      BY <1>5, <2>3 DEF NodeInv, ReceiptsMatchLogs, LogsOf
    <3>2. \E l \in logs' : l.batch = txs'[t].batch /\ l.tx = t
      <4> DEFINE log == [batch |-> b, merkleRoot |-> p.merkleRoot,
                         eventCount |-> p.eventCount, by |-> Operator, tx |-> t]
      <4>1. log \in logs'
        BY <2>1 DEF AnchorBatch
      <4>2. log.batch = b /\ log.tx = t
        OBVIOUS
      <4> QED BY <1>1, <1>5, <4>1, <4>2
    <3> QED BY <3>1, <3>2 DEF LogsOf
  <2>6. ReceiptsMatchLogs'
    BY <2>4, <2>5 DEF ReceiptsMatchLogs
  <2> QED BY <1>3, <1>6, <1>7, <2>2, <2>6 DEF NodeInv, NodeTypeOK
<1>10. CASE outcome # "ok"
  <2>1. UNCHANGED contractVars
    BY <1>1, <1>10 DEF Mine, outcome
  <2>2. ContractTypeOK' /\ LogsMatchStorage'
    BY <2>1 DEF NodeInv, NodeTypeOK, contractVars, ContractTypeOK, LogsMatchStorage, IsAnchored, LogsOf
  <2>3. ReceiptsMatchLogs'
    BY <1>5, <1>8, <1>10, <2>1 DEF NodeInv, ReceiptsMatchLogs, contractVars, LogsOf
  <2> QED BY <1>3, <1>6, <1>7, <2>2, <2>3 DEF NodeInv, NodeTypeOK
<1> QED BY <1>9, <1>10

LEMMA EvictStep ==
    ASSUME NodeInv, NEW t \in TxIds, Evict(t)
    PROVE  NodeInv' /\ Monotone
<1>1. txs[t].status = "pending"
  BY DEF Evict, InPool
<1>2. \A u \in TxIds : /\ txs'[u].batch = txs[u].batch
                       /\ txs'[u].status = IF u = t THEN "dropped" ELSE txs[u].status
  BY DEF Evict, NodeInv, NodeTypeOK
<1>3. NodeTypeOK'
  BY DEF Evict, NodeInv, NodeTypeOK, ContractTypeOK, TxStatus
<1>4. Monotone
  BY <1>1, <1>2 DEF Monotone, Reverted
<1>5. ReceiptsMatchLogs'
  BY <1>1, <1>2 DEF Evict, NodeInv, NodeTypeOK, ContractTypeOK, Log, ReceiptsMatchLogs, LogsOf
<1>6. LogsMatchStorage'
  BY DEF Evict, NodeInv, LogsMatchStorage, IsAnchored, LogsOf
<1> QED BY <1>3, <1>4, <1>5, <1>6 DEF NodeInv

LEMMA HandoverStep ==
    ASSUME NodeInv, Handover
    PROVE  NodeInv' /\ Monotone
<1>1. PICK n \in Accounts : TransferOwnership(owner, n)
  BY DEF Handover
<1>2. ContractTypeOK' /\ LogsMatchStorage'
  BY <1>1, TransferStep DEF NodeInv, NodeTypeOK, ContractTypeOK
<1> QED BY <1>1, <1>2 DEF Handover, TransferOwnership, NodeInv, NodeTypeOK, ReceiptsMatchLogs,
          LogsOf, Monotone

--------------------------------------------------------------------------
(* The calls and the tables. *)

RowsKept == \A b \in BatchIds : rows[b] # NoTx => rows'[b] = rows[b]

\* What a call that does not move knows stays true.
LEMMA CallKept ==
    ASSUME NodeInv, DbInv, Monotone, RowsKept, NEW a \in Actors, call'[a] = call[a]
    PROVE  CallOK(call[a])'
<1>1. CallOK(call[a]) /\ call[a] \in Calls
  BY DEF DbInv, TypeOK
<1> QED BY <1>1 DEF CallOK, Sent, Monotone, RowsKept, Calls, TxIds

\* What the tables say stays true while the node moves.
LEMMA TablesKept ==
    ASSUME NodeInv, DbInv, NodeInv', Monotone, rows' = rows, pending' = pending
    PROVE  PendingOK' /\ AnchorRowTrue' /\ ConfirmedHasRow' /\ FailedMeansReverted'
<1>1. PendingOK'
  BY DEF DbInv, PendingOK, Sent, Monotone
<1>2. AnchorRowTrue'
  <2> SUFFICES ASSUME NEW b \in BatchIds, rows[b] # NoTx
               PROVE  IsAnchorTxOf(rows[b], b)'
    BY DEF AnchorRowTrue
  <2>1. rows[b] \in TxIds /\ txs[rows[b]].status = "ok" /\ txs[rows[b]].batch = b
    BY DEF DbInv, AnchorRowTrue, IsAnchorTxOf
  <2>2. txs'[rows[b]].status = "ok" /\ txs'[rows[b]].batch = b
    BY <2>1 DEF Monotone
  <2>3. \E l \in LogsOf(b)' : l.tx = rows[b]
    BY <2>1, <2>2 DEF NodeInv, ReceiptsMatchLogs, LogsOf
  <2> QED BY <2>1, <2>2, <2>3 DEF IsAnchorTxOf
<1>3. ConfirmedHasRow'
  BY DEF DbInv, ConfirmedHasRow
<1>4. FailedMeansReverted'
  BY DEF DbInv, FailedMeansReverted, PendingOK, Sent, Monotone
<1> QED BY <1>1, <1>2, <1>3, <1>4

\* Only the node moves.
LEMMA NodeMoves ==
    ASSUME NodeInv, DbInv, NodeInv', Monotone, UNCHANGED <<dbVars, call>>,
           faults' \in 0..MaxFaults
    PROVE  DbInv'
<1>1. \A a \in Actors : CallOK(call[a])'
  BY CallKept DEF dbVars, RowsKept
<1>2. TypeOK'
  BY DEF DbInv, TypeOK, NodeInv, dbVars
<1> QED BY <1>1, <1>2, TablesKept DEF DbInv, dbVars

\* The node and one call move.
LEMMA CallMoves ==
    ASSUME NodeInv, DbInv, NodeInv', Monotone, UNCHANGED dbVars, faults' \in 0..MaxFaults,
           NEW a \in Actors, call' \in [Actors -> Calls],
           \A x \in Actors \ {a} : call'[x] = call[x], CallOK(call[a])'
    PROVE  DbInv'
<1>1. \A x \in Actors : CallOK(call[x])'
  BY CallKept DEF dbVars, RowsKept
<1>2. TypeOK'
  BY DEF DbInv, TypeOK, NodeInv, dbVars
<1> QED BY <1>1, <1>2, TablesKept DEF DbInv, dbVars

\* A call moves and writes the pending row of its batch.
LEMMA PendingMoves ==
    ASSUME NodeInv, DbInv, UNCHANGED <<nodeVars, batches, rows, faults>>,
           NEW a \in Actors, NEW status \in PendingStatus,
           UpsertPending(call[a].batch, status, call[a].tx),
           call[a].pc \in {"persist", "markPending", "markFailed", "confirm"},
           status = "failed" => call[a].pc = "markFailed",
           status = "confirmed" => call[a].pc = "confirm",
           call' \in [Actors -> Calls],
           \A x \in Actors \ {a} : call'[x] = call[x], CallOK(call[a])'
    PROVE  IInv'
<1>1. NodeInv' /\ Monotone
  BY NodeUnchanged
<1>2. \A x \in Actors : CallOK(call[x])'
  BY <1>1, CallKept DEF RowsKept
<1>3. PICK b \in BatchIds, t \in TxIds :
        /\ call[a].batch = b /\ call[a].tx = t /\ Sent(t, b)
        /\ status = "failed" => txs[t].status \in Reverted
        /\ status = "confirmed" => rows[b] = t
  BY DEF DbInv, CallOK, Sent
<1>4. pending' = [pending EXCEPT ![b] = [status |-> status, tx |-> t]]
  BY <1>3 DEF UpsertPending
<1>5. TypeOK'
  BY <1>1, <1>4 DEF DbInv, TypeOK, NodeInv
<1>6. \A c \in BatchIds : pending'[c] = IF c = b THEN [status |-> status, tx |-> t] ELSE pending[c]
  BY <1>4 DEF DbInv, TypeOK
<1>7. txs' = txs /\ rows' = rows /\ logs' = logs
  BY DEF nodeVars
<1>8. PendingOK'
  BY <1>3, <1>6, <1>7 DEF DbInv, PendingOK, Sent
<1>9. AnchorRowTrue'
  BY <1>7 DEF DbInv, AnchorRowTrue, IsAnchorTxOf, LogsOf
<1>10. ConfirmedHasRow'
  BY <1>3, <1>6, <1>7 DEF DbInv, ConfirmedHasRow, TxIds
<1>11. FailedMeansReverted'
  BY <1>3, <1>6, <1>7 DEF DbInv, FailedMeansReverted
<1> QED BY <1>1, <1>2, <1>5, <1>8, <1>9, <1>10, <1>11 DEF IInv, DbInv

--------------------------------------------------------------------------
(* The steps that move one call only. *)

LEMMA IdleType == Idle \in Calls
BY DEF Idle, Calls, PCs, AnchorKeys, ZeroPayload, PayloadFields

\* A call ends, with or without a fault.
LEMMA EndStep ==
    ASSUME NodeInv, DbInv, NodeInv', Monotone, UNCHANGED dbVars, faults' \in 0..MaxFaults,
           NEW a \in Actors, End(a)
    PROVE  DbInv'
<1>1. /\ call' \in [Actors -> Calls] /\ call'[a] = Idle
      /\ \A x \in Actors \ {a} : call'[x] = call[x]
  BY IdleType DEF End, DbInv, TypeOK
<1>2. CallOK(call[a])'
  BY <1>1 DEF CallOK, Idle
<1> QED BY <1>1, <1>2, CallMoves

\* A call goes on to a pc that demands nothing new.
LEMMA GotoStep ==
    ASSUME NodeInv, DbInv, NodeInv', Monotone, UNCHANGED dbVars, faults' \in 0..MaxFaults,
           NEW a \in Actors, NEW pc \in PCs, Goto(a, pc), call[a].pc # "idle",
           pc # "confirm",
           pc \in {"persist", "wait", "markPending", "markFailed", "store"} => Sent(call[a].tx, call[a].batch),
           pc = "markFailed" => txs[call[a].tx].status \in Reverted,
           pc = "store" => txs[call[a].tx].status = "ok"
    PROVE  DbInv'
<1>1. /\ call' \in [Actors -> Calls]
      /\ call'[a].pc = pc /\ call'[a].batch = call[a].batch /\ call'[a].tx = call[a].tx
      /\ \A x \in Actors \ {a} : call'[x] = call[x]
  BY DEF Goto, DbInv, TypeOK, Calls
<1>2. call[a].batch \in BatchIds
  BY DEF DbInv, CallOK
<1>3. CallOK(call[a])'
  BY <1>1, <1>2 DEF CallOK, Sent, Monotone
<1> QED BY <1>1, <1>3, CallMoves

\* A call goes on to a pc with a transaction it has just learnt of.
LEMMA GotoWithStep ==
    ASSUME NodeInv, DbInv, NodeInv', Monotone, UNCHANGED dbVars, faults' \in 0..MaxFaults,
           NEW a \in Actors, NEW pc \in {"wait", "persist", "store"}, NEW t \in TxIds,
           GotoWith(a, pc, t), NEW b \in BatchIds, call[a].batch = b, Sent(t, b)',
           pc = "store" => txs'[t].status = "ok"
    PROVE  DbInv'
<1>1. /\ call' \in [Actors -> Calls]
      /\ call'[a].pc = pc /\ call'[a].batch = b /\ call'[a].tx = t
      /\ \A x \in Actors \ {a} : call'[x] = call[x]
  <2> DEFINE o == [call[a] EXCEPT !.pc = pc, !.tx = t]
  <2>1. call[a] \in Calls /\ call \in [Actors -> Calls]
    BY DEF DbInv, TypeOK
  <2>2. o \in Calls /\ o.pc = pc /\ o.batch = b /\ o.tx = t
    BY <2>1 DEF Calls, PCs
  <2>3. call' = [call EXCEPT ![a] = o]
    BY <2>1 DEF GotoWith
  <2> HIDE DEF o
  <2> QED BY <2>1, <2>2, <2>3
<1>2. CallOK(call[a])'
  BY <1>1 DEF CallOK, Sent
<1> QED BY <1>1, <1>2, CallMoves

LEMMA CreateBatchStep ==
    ASSUME IInv, NEW b \in BatchIds,
           \E p \in Payloads : batches' = [batches EXCEPT ![b] = p],
           UNCHANGED <<nodeVars, rows, pending, call>>, faults' \in 0..MaxFaults
    PROVE  IInv'
<1>1. NodeInv' /\ Monotone
  BY NodeUnchanged DEF IInv
<1>2. \A a \in Actors : CallOK(call[a])'
  BY <1>1, CallKept DEF RowsKept, IInv
<1>3. TypeOK'
  BY <1>1 DEF IInv, DbInv, TypeOK, NodeInv
<1> QED BY <1>1, <1>2, <1>3, TablesKept DEF IInv, DbInv

LEMMA BeginStep ==
    ASSUME IInv, NEW a \in Actors, NEW b \in BatchIds, Begin(a, b)
    PROVE  IInv'
<1>1. NodeInv' /\ Monotone
  BY NodeUnchanged DEF IInv, Begin
<1> DEFINE c == [pc |-> "readPending", batch |-> b, payload |-> batches[b],
                 nonce |-> 0, tx |-> NoTx]
<1>2. batches[b] \in PayloadFields
  BY DEF IInv, DbInv, TypeOK, ZeroPayload, PayloadFields
<1>3. c \in Calls
  BY <1>2 DEF Calls, PCs, AnchorKeys
<1>4. call' = [call EXCEPT ![a] = c]
  BY DEF Begin
<1>5. /\ call' \in [Actors -> Calls] /\ call'[a] = c
      /\ \A x \in Actors \ {a} : call'[x] = call[x]
  BY <1>3, <1>4 DEF IInv, DbInv, TypeOK
<1>6. CallOK(call[a])'
  BY <1>5 DEF CallOK
<1> QED BY <1>1, <1>5, <1>6, CallMoves DEF IInv, Begin, NoFault, DbInv, TypeOK

LEMMA ReadPendingStep ==
    ASSUME IInv, NEW a \in Actors, ReadPending(a)
    PROVE  IInv'
<1>1. NodeInv' /\ Monotone /\ txs' = txs
  BY NodeUnchanged DEF IInv, ReadPending, nodeVars
<1>2. call[a].pc = "readPending" /\ faults' \in 0..MaxFaults /\ UNCHANGED dbVars
  BY DEF ReadPending, NoFault, IInv, DbInv, TypeOK
<1>3. PICK b \in BatchIds : call[a].batch = b
  BY <1>2 DEF IInv, DbInv, CallOK
<1>4. CASE pending[b].status = "submitted"
  <2>1. PICK t \in TxIds : pending[b].tx = t /\ Sent(t, b)
    BY <1>4 DEF IInv, DbInv, PendingOK, Sent
  <2>2. GotoWith(a, "wait", t)
    BY <1>3, <1>4, <2>1 DEF ReadPending, GotoWith
  <2>3. Sent(t, b)'
    BY <1>1, <2>1 DEF Sent
  <2> QED BY <1>1, <1>2, <1>3, <2>2, <2>3, GotoWithStep DEF IInv
<1>5. CASE pending[b].status # "submitted"
  <2>1. Goto(a, "isAnchored")
    BY <1>3, <1>5 DEF ReadPending
  <2> QED BY <1>1, <1>2, <2>1, GotoStep DEF IInv, PCs
<1> QED BY <1>4, <1>5

LEMMA CheckChainStep ==
    ASSUME IInv, NEW a \in Actors, CheckChain(a)
    PROVE  IInv'
<1>1. NodeInv' /\ Monotone /\ txs' = txs
  BY NodeUnchanged DEF IInv, CheckChain, nodeVars
<1>2. call[a].pc = "isAnchored" /\ faults' \in 0..MaxFaults /\ UNCHANGED dbVars
  BY DEF CheckChain, NoFault, IInv, DbInv, TypeOK
<1>3. PICK b \in BatchIds : call[a].batch = b
  BY <1>2 DEF IInv, DbInv, CallOK
<1>4. CASE Goto(a, "getNonce")
  BY <1>1, <1>2, <1>4, GotoStep DEF IInv, PCs
<1>5. CASE End(a)
  BY <1>1, <1>2, <1>5, EndStep DEF IInv
<1>6. CASE \E l \in ReconcilableLog(b, call[a].payload) : GotoWith(a, "store", l.tx)
  <2>1. PICK l \in LogsOf(b) : GotoWith(a, "store", l.tx)
    BY <1>6 DEF ReconcilableLog
  <2>2. PICK t \in TxIds : l.tx = t /\ txs[t].status = "ok" /\ txs[t].batch = b
    BY <2>1 DEF LogsOf, IInv, NodeInv, ReceiptsMatchLogs, NodeTypeOK, ContractTypeOK, Log
  <2>3. Sent(t, b)' /\ txs'[t].status = "ok"
    BY <1>1, <2>2 DEF Sent
  <2>4. GotoWith(a, "store", t)
    BY <2>1, <2>2
  <2> QED BY <1>1, <1>2, <1>3, <2>3, <2>4, GotoWithStep DEF IInv
<1> QED BY <1>3, <1>4, <1>5, <1>6 DEF CheckChain

LEMMA GetNonceStep ==
    ASSUME IInv, NEW a \in Actors, GetNonce(a)
    PROVE  IInv'
<1>1. NodeInv' /\ Monotone
  BY NodeUnchanged DEF IInv, GetNonce
<1>4. nonce \in Nat /\ call \in [Actors -> Calls]
  BY DEF IInv, DbInv, TypeOK, NodeTypeOK
<1>2. /\ call' \in [Actors -> Calls]
      /\ call'[a].pc = "send" /\ call'[a].batch = call[a].batch
      /\ \A x \in Actors \ {a} : call'[x] = call[x]
  <2> DEFINE o == [call[a] EXCEPT !.pc = "send", !.nonce = nonce]
  <2>1. o \in Calls /\ o.pc = "send" /\ o.batch = call[a].batch
    BY <1>4 DEF Calls, PCs
  <2>2. call' = [call EXCEPT ![a] = o]
    BY <1>4 DEF GetNonce
  <2> HIDE DEF o
  <2> QED BY <1>4, <2>1, <2>2
<1>3. CallOK(call[a])'
  BY <1>2 DEF CallOK, GetNonce, IInv, DbInv
<1> QED BY <1>1, <1>2, <1>3, CallMoves DEF IInv, GetNonce, NoFault, DbInv, TypeOK

--------------------------------------------------------------------------
(* The steps that broadcast. *)

\* Whatever the node does with a transaction it takes, the call then either
\* holds its hash or ends.
LEMMA BroadcastStep ==
    ASSUME IInv, NEW a \in Actors, call[a].pc = "send", NEW t \in NextTx,
           Accept(t, call[a].batch, call[a].payload, call[a].nonce),
           GotoWith(a, "persist", t) \/ End(a),
           UNCHANGED dbVars, faults' \in 0..MaxFaults
    PROVE  IInv'
<1>1. PICK b \in BatchIds, p \in PayloadFields, n \in Nat :
        call[a].batch = b /\ call[a].payload = p /\ call[a].nonce = n
  BY DEF IInv, DbInv, TypeOK, Calls, CallOK
<1>2. Accept(t, b, p, n) /\ t \in TxIds
  BY <1>1 DEF NextTx, Unused
<1>3. NodeInv' /\ Monotone /\ Sent(t, b)'
  BY <1>2, AcceptStep DEF IInv
<1>4. CASE GotoWith(a, "persist", t)
  BY <1>1, <1>2, <1>3, <1>4, GotoWithStep DEF IInv
<1>5. CASE End(a)
  BY <1>3, <1>5, EndStep DEF IInv
<1> QED BY <1>4, <1>5

LEMMA FaultCount ==
    ASSUME IInv, NEW kind, Fault(kind) \/ NoFault
    PROVE  faults' \in 0..MaxFaults
BY DEF Fault, NoFault, IInv, DbInv, TypeOK

LEMMA SendStep ==
    ASSUME IInv, NEW a \in Actors, Send(a) \/ SendReplaces(a) \/ SendAnswerLost(a)
    PROVE  IInv'
<1>1. CASE Send(a)
  BY <1>1, FaultCount, BroadcastStep DEF Send
<1>2. CASE SendReplaces(a)
  BY <1>2, FaultCount, BroadcastStep DEF SendReplaces
<1>3. CASE SendAnswerLost(a)
  BY <1>3, FaultCount, BroadcastStep DEF SendAnswerLost
<1> QED BY <1>1, <1>2, <1>3

\* The steps that end a call and write nothing.
LEMMA GiveUpStep ==
    ASSUME IInv, NEW a \in Actors, SendRefused(a) \/ RpcFailure(a)
    PROVE  IInv'
<1>1. UNCHANGED <<nodeVars, dbVars>> /\ End(a) /\ faults' \in 0..MaxFaults
  BY FaultCount DEF SendRefused, RpcFailure
<1> QED BY <1>1, NodeUnchanged, EndStep DEF IInv

--------------------------------------------------------------------------
(* The steps that read a receipt. *)

\* After a zero read the call goes on without its commitment.
LEMMA ZeroReadStep ==
    ASSUME IInv, NEW a \in Actors, ReceiptOkZeroRead(a)
    PROVE  IInv'
<1>1. /\ UNCHANGED <<nodeVars, dbVars>> /\ faults' \in 0..MaxFaults
      /\ call[a].pc = "wait" /\ txs[call[a].tx].status = "ok"
  BY FaultCount DEF ReceiptOkZeroRead
<1>2. NodeInv' /\ Monotone
  BY <1>1, NodeUnchanged DEF IInv
<1>3. /\ call' \in [Actors -> Calls]
      /\ call'[a].pc = "store" /\ call'[a].batch = call[a].batch /\ call'[a].tx = call[a].tx
      /\ \A x \in Actors \ {a} : call'[x] = call[x]
  BY DEF ReceiptOkZeroRead, IInv, DbInv, TypeOK, Calls, PCs, ZeroPayload, PayloadFields
<1>4. Sent(call[a].tx, call[a].batch) /\ call[a].batch \in BatchIds
  BY <1>1 DEF IInv, DbInv, CallOK
<1>5. CallOK(call[a])'
  BY <1>1, <1>2, <1>3, <1>4 DEF CallOK, Sent, Monotone
<1> QED BY <1>1, <1>2, <1>3, <1>5, CallMoves DEF IInv

LEMMA ReceiptStep ==
    ASSUME IInv, NEW a \in Actors,
           ReceiptOk(a) \/ ReceiptReverted(a) \/ ReceiptTimeout(a) \/ ReceiptError(a)
    PROVE  IInv'
<1>1. /\ UNCHANGED <<nodeVars, dbVars>> /\ faults' \in 0..MaxFaults /\ call[a].pc = "wait"
      /\ \/ End(a)
         \/ Goto(a, "markPending")
         \/ Goto(a, "store") /\ txs[call[a].tx].status = "ok"
         \/ Goto(a, "markFailed") /\ txs[call[a].tx].status \in Reverted
  BY FaultCount DEF ReceiptOk, ReceiptReverted, ReceiptTimeout, ReceiptError
<1>2. NodeInv' /\ Monotone
  BY <1>1, NodeUnchanged DEF IInv
<1>3. Sent(call[a].tx, call[a].batch)
  BY <1>1 DEF IInv, DbInv, CallOK
<1>4. CASE End(a)
  BY <1>1, <1>2, <1>4, EndStep DEF IInv
<1>5. CASE Goto(a, "markPending")
  BY <1>1, <1>2, <1>3, <1>5, GotoStep DEF IInv, PCs
<1>6. CASE Goto(a, "store") /\ txs[call[a].tx].status = "ok"
  BY <1>1, <1>2, <1>3, <1>6, GotoStep DEF IInv, PCs
<1>7. CASE Goto(a, "markFailed") /\ txs[call[a].tx].status \in Reverted
  BY <1>1, <1>2, <1>3, <1>7, GotoStep DEF IInv, PCs
<1> QED BY <1>1, <1>4, <1>5, <1>6, <1>7

--------------------------------------------------------------------------
(* The steps that write the tables. *)

LEMMA PersistStep ==
    ASSUME IInv, NEW a \in Actors, Persist(a)
    PROVE  IInv'
<1>1. /\ call' \in [Actors -> Calls]
      /\ call'[a].pc = "wait" /\ call'[a].batch = call[a].batch /\ call'[a].tx = call[a].tx
      /\ \A x \in Actors \ {a} : call'[x] = call[x]
  BY DEF Persist, Goto, IInv, DbInv, TypeOK, Calls, PCs
<1>2. call[a].batch \in BatchIds /\ Sent(call[a].tx, call[a].batch)
  BY DEF Persist, IInv, DbInv, CallOK
<1>3. CallOK(call[a])'
  BY <1>1, <1>2 DEF CallOK, Sent, Persist, nodeVars
<1> QED BY <1>1, <1>3, PendingMoves DEF Persist, NoFault, IInv, PendingStatus

LEMMA MarkStep ==
    ASSUME IInv, NEW a \in Actors, MarkPending(a) \/ MarkFailed(a) \/ Confirm(a)
    PROVE  IInv'
<1>1. /\ call' \in [Actors -> Calls] /\ call'[a] = Idle
      /\ \A x \in Actors \ {a} : call'[x] = call[x]
  BY IdleType DEF MarkPending, MarkFailed, Confirm, End, IInv, DbInv, TypeOK
<1>2. CallOK(call[a])'
  BY <1>1 DEF CallOK, Idle
<1>3. CASE MarkPending(a)
  BY <1>1, <1>2, <1>3, PendingMoves DEF MarkPending, NoFault, IInv, PendingStatus
<1>4. CASE MarkFailed(a)
  BY <1>1, <1>2, <1>4, PendingMoves DEF MarkFailed, NoFault, IInv, PendingStatus
<1>5. CASE Confirm(a)
  BY <1>1, <1>2, <1>5, PendingMoves DEF Confirm, NoFault, IInv, PendingStatus
<1> QED BY <1>3, <1>4, <1>5

LEMMA StoreStep ==
    ASSUME IInv, NEW a \in Actors, Store(a)
    PROVE  IInv'
<1>1. NodeInv' /\ Monotone /\ txs' = txs /\ logs' = logs
  BY NodeUnchanged DEF IInv, Store, nodeVars
<1>2. PICK b \in BatchIds, t \in TxIds :
        call[a].batch = b /\ call[a].tx = t /\ txs[t].status = "ok" /\ txs[t].batch = b
  BY DEF Store, IInv, DbInv, CallOK, Sent
<1>3. CASE rows[b] = NoTx
  <2>1. rows' = [rows EXCEPT ![b] = t] /\ Goto(a, "confirm") /\ UNCHANGED <<batches, pending, faults>>
    BY <1>2, <1>3 DEF Store, NoFault
  <2>2. /\ call' \in [Actors -> Calls]
        /\ call'[a].pc = "confirm" /\ call'[a].batch = b /\ call'[a].tx = t
        /\ \A x \in Actors \ {a} : call'[x] = call[x]
    BY <1>2, <2>1 DEF Goto, IInv, DbInv, TypeOK, Calls, PCs
  <2>3. \A c \in BatchIds : rows'[c] = IF c = b THEN t ELSE rows[c]
    BY <2>1 DEF IInv, DbInv, TypeOK
  <2>4. RowsKept
    BY <1>3, <2>3 DEF RowsKept
  <2>5. CallOK(call[a])'
    BY <1>1, <1>2, <2>2, <2>3 DEF CallOK, Sent
  <2>6. \A x \in Actors : CallOK(call[x])'
    BY <1>1, <2>2, <2>4, <2>5, CallKept DEF IInv
  <2>7. TypeOK'
    BY <1>1, <2>1, <2>2 DEF IInv, DbInv, TypeOK, NodeInv
  <2>8. IsAnchorTxOf(t, b)
    BY <1>2 DEF IsAnchorTxOf, IInv, NodeInv, ReceiptsMatchLogs
  <2>9. AnchorRowTrue'
    BY <1>1, <2>3, <2>8 DEF AnchorRowTrue, IsAnchorTxOf, LogsOf, IInv, DbInv
  <2>10. PendingOK' /\ FailedMeansReverted'
    BY <1>1, <2>1 DEF IInv, DbInv, PendingOK, Sent, FailedMeansReverted
  <2>11. ConfirmedHasRow'
    BY <1>3, <2>1, <2>3 DEF IInv, DbInv, ConfirmedHasRow
  <2> QED BY <1>1, <2>6, <2>7, <2>9, <2>10, <2>11 DEF IInv, DbInv
<1>4. CASE rows[b] # NoTx
  <2>1. End(a) /\ UNCHANGED dbVars /\ faults' \in 0..MaxFaults
    BY <1>2, <1>4 DEF Store, NoFault, dbVars, IInv, DbInv, TypeOK
  <2> QED BY <1>1, <2>1, EndStep DEF IInv
<1> QED BY <1>3, <1>4

--------------------------------------------------------------------------
(* The environment, and the whole. *)

LEMMA EnvironmentStep ==
    ASSUME IInv,
           \/ \E b \in BatchIds : CreateBatch(b) \/ Tamper(b)
           \/ \E t \in TxIds : MineTx(t) \/ EvictTx(t)
           \/ Crash
           \/ ChangeOwner
    PROVE  IInv'
<1>1. CASE \E b \in BatchIds : CreateBatch(b)
  BY <1>1, FaultCount, CreateBatchStep DEF CreateBatch
<1>2. CASE \E b \in BatchIds : Tamper(b)
  BY <1>2, FaultCount, CreateBatchStep DEF Tamper
<1>3. CASE \E t \in TxIds : MineTx(t)
  BY <1>3, MineStep, NodeMoves, FaultCount DEF MineTx, IInv
<1>4. CASE \E t \in TxIds : EvictTx(t)
  BY <1>4, EvictStep, NodeMoves, FaultCount DEF EvictTx, IInv
<1>5. CASE ChangeOwner
  BY <1>5, HandoverStep, NodeMoves, FaultCount DEF ChangeOwner, IInv
<1>6. CASE Crash
  <2>1. NodeInv' /\ Monotone /\ faults' \in 0..MaxFaults /\ UNCHANGED dbVars
    BY <1>6, NodeUnchanged, FaultCount DEF Crash, IInv
  <2>2. call' = [a \in Actors |-> Idle]
    BY <1>6 DEF Crash
  <2>3. \A a \in Actors : CallOK(call[a])'
    BY <2>2 DEF CallOK, Idle
  <2>4. TypeOK'
    BY <2>1, <2>2, IdleType DEF IInv, DbInv, TypeOK, NodeInv, dbVars
  <2> QED BY <2>1, <2>3, <2>4, TablesKept DEF IInv, DbInv, dbVars
<1> QED BY <1>1, <1>2, <1>3, <1>4, <1>5, <1>6

LEMMA InitOK == Init => IInv
<1> SUFFICES ASSUME Init PROVE IInv
  OBVIOUS
<1>1. ContractTypeOK /\ LogsMatchStorage
  BY ContractInitOK DEF Init, NodeInit
<1>2. UnusedTx \in [status : TxStatus, batch : AnchorKeys, payload : PayloadFields, nonce : Nat]
  BY DEF UnusedTx, TxStatus, AnchorKeys, ZeroPayload, PayloadFields
<1>3. NodeTypeOK
  BY <1>1, <1>2 DEF NodeTypeOK, Init, NodeInit
<1>4. ReceiptsMatchLogs
  BY DEF ReceiptsMatchLogs, Init, NodeInit, ContractInit, UnusedTx
<1>5. TypeOK
  BY <1>3, IdleType DEF Init, TypeOK, PendingStatus
<1>6. \A a \in Actors : CallOK(call[a])
  BY DEF Init, CallOK, Idle
<1>7. PendingOK /\ AnchorRowTrue /\ ConfirmedHasRow /\ FailedMeansReverted
  BY DEF Init, PendingOK, AnchorRowTrue, ConfirmedHasRow, FailedMeansReverted
<1> QED BY <1>1, <1>3, <1>4, <1>5, <1>6, <1>7 DEF IInv, NodeInv, DbInv

LEMMA NextOK == IInv /\ [Next]_vars => IInv'
<1> SUFFICES ASSUME IInv, [Next]_vars PROVE IInv'
  OBVIOUS
<1>1. ASSUME NEW a \in Actors, Proceed(a) PROVE IInv'
  BY <1>1, ReadPendingStep, CheckChainStep, GetNonceStep, SendStep, GiveUpStep, PersistStep,
     ReceiptStep, MarkStep, StoreStep DEF Proceed
<1>2. ASSUME NEW a \in Actors,
             \/ \E b \in BatchIds : Begin(a, b)
             \/ SendReplaces(a) \/ SendAnswerLost(a)
             \/ ReceiptOkZeroRead(a) \/ ReceiptError(a) \/ RpcFailure(a)
      PROVE  IInv'
  BY <1>2, BeginStep, SendStep, ReceiptStep, ZeroReadStep, GiveUpStep
<1>3. CASE UNCHANGED vars
  <2>1. NodeInv' /\ Monotone /\ UNCHANGED <<dbVars, call>> /\ faults' \in 0..MaxFaults
    BY <1>3, NodeUnchanged DEF vars, nodeVars, dbVars, IInv, DbInv, TypeOK
  <2> QED BY <2>1, NodeMoves DEF IInv
<1> QED BY <1>1, <1>2, <1>3, EnvironmentStep DEF Next, Step

\* Types hold for every instance.
THEOREM AnchoringTypes == Spec => []TypeOK
<1>1. IInv => TypeOK
  BY DEF IInv, DbInv
<1> QED BY <1>1, InitOK, NextOK, PTL DEF Spec

\* Whatever calls, crashes, lost answers, replaced or forgotten transactions
\* and operator edits came before, a batch_anchors row names a transaction
\* that succeeded on chain and anchored that very batch.
THEOREM AnchorRowsAreTrue == Spec => []AnchorRowTrue
<1>1. IInv => AnchorRowTrue
  BY DEF IInv, DbInv
<1> QED BY <1>1, InitOK, NextOK, PTL DEF Spec

\* "confirmed" never precedes the row it confirms.
THEOREM ConfirmedRowsExist == Spec => []ConfirmedHasRow
<1>1. IInv => ConfirmedHasRow
  BY DEF IInv, DbInv
<1> QED BY <1>1, InitOK, NextOK, PTL DEF Spec

\* "failed" is only ever said of a transaction that reverted.
THEOREM FailedRowsReverted == Spec => []FailedMeansReverted
<1>1. IInv => FailedMeansReverted
  BY DEF IInv, DbInv
<1> QED BY <1>1, InitOK, NextOK, PTL DEF Spec

--------------------------------------------------------------------------
(* What is stored was compared. *)

\* A step of the account leaves the commitment of an anchored batch alone.
LEMMA AnchoredKept ==
    ASSUME NodeInv, NEW t \in TxIds, Mine(t), NEW b \in AnchorKeys, IsAnchored(b)
    PROVE  anchors'[b] = anchors[b]
<1>1. PICK c \in AnchorKeys, p \in PayloadFields : txs[t].batch = c /\ txs[t].payload = p
  BY DEF NodeInv, NodeTypeOK
<1>2. CASE AnchorOutcome(Operator, c, p) # "ok"
  BY <1>1, <1>2 DEF Mine, contractVars
<1>3. CASE AnchorOutcome(Operator, c, p) = "ok"
  <2>1. AnchorBatch(Operator, c, p, t)
    BY <1>1, <1>3 DEF Mine
  <2> QED BY <2>1, AnchorBatchStep DEF NodeInv, NodeTypeOK
<1> QED BY <1>2, <1>3

\* The batch of a call that is about to store is anchored.
LEMMA StoresAnchored ==
    ASSUME IInv, NEW a \in Actors, call[a].pc = "store"
    PROVE  call[a].batch \in AnchorKeys /\ IsAnchored(call[a].batch)
<1>1. PICK b \in BatchIds, t \in TxIds :
        call[a].batch = b /\ txs[t].status = "ok" /\ txs[t].batch = b
  BY DEF IInv, DbInv, CallOK, Sent
<1>2. LogsOf(b) # {}
  BY <1>1 DEF IInv, NodeInv, ReceiptsMatchLogs
<1> QED BY <1>1, <1>2 DEF IInv, NodeInv, LogsMatchStorage, AnchorKeys

\* What a call compared still holds while the contract keeps what it has.
LEMMA StoreOKKept ==
    ASSUME IInv, StoreOK, NEW a \in Actors,
           \A b \in AnchorKeys : IsAnchored(b) => anchors'[b] = anchors[b],
           \A x \in Actors \ {a} : call'[x] = call[x],
           call'[a] = call[a] \/
           (call'[a].pc = "store" =>
                \/ call'[a].payload = ZeroPayload
                \/ Matches(call'[a].payload, anchors'[call'[a].batch]))
    PROVE  StoreOK'
<1> SUFFICES ASSUME NEW x \in Actors, call'[x].pc = "store"
             PROVE  \/ call'[x].payload = ZeroPayload
                    \/ Matches(call'[x].payload, anchors'[call'[x].batch])
  BY DEF StoreOK, Matches
<1>1. CASE call'[x] = call[x]
  BY <1>1, StoresAnchored DEF StoreOK, Matches
<1> QED BY <1>1

LEMMA StoreOKNext == IInv /\ StoreOK /\ [Next]_vars => StoreOK'
<1> SUFFICES ASSUME IInv, StoreOK, [Next]_vars PROVE StoreOK'
  OBVIOUS
<1> USE DEF nodeVars
<1>1. CASE UNCHANGED <<call, anchors>>
  BY <1>1 DEF StoreOK, Matches
<1>2. CASE \E t \in TxIds : MineTx(t)
  <2>1. \A b \in AnchorKeys : IsAnchored(b) => anchors'[b] = anchors[b]
    BY <1>2, AnchoredKept DEF MineTx, IInv
  <2> QED BY <1>2, <2>1, StoresAnchored DEF MineTx, StoreOK, Matches
<1>3. CASE Crash
  BY <1>3 DEF Crash, Idle, StoreOK
<1>4. ASSUME NEW a \in Actors, Send(a) \/ SendReplaces(a) \/ SendAnswerLost(a)
      PROVE  StoreOK'
  <2>1. PICK t : /\ anchors' = anchors
                 /\ GotoWith(a, "persist", t) \/ End(a)
    BY <1>4 DEF Send, SendReplaces, SendAnswerLost, Accept
  <2> QED BY <2>1, StoreOKKept DEF GotoWith, End, Idle, IInv, DbInv, TypeOK, Calls
<1>5. ASSUME NEW a \in Actors,
             \/ \E b \in BatchIds : Begin(a, b)
             \/ ReadPending(a) \/ CheckChain(a) \/ GetNonce(a) \/ SendRefused(a) \/ Persist(a)
             \/ ReceiptOk(a) \/ ReceiptReverted(a) \/ ReceiptTimeout(a)
             \/ MarkPending(a) \/ MarkFailed(a) \/ Store(a) \/ Confirm(a)
             \/ ReceiptOkZeroRead(a) \/ ReceiptError(a) \/ RpcFailure(a)
      PROVE  StoreOK'
  <2>1. anchors' = anchors /\ call \in [Actors -> Calls]
    BY <1>5 DEF Begin, ReadPending, CheckChain, GetNonce, SendRefused, Persist, ReceiptOk,
         ReceiptReverted, ReceiptTimeout, MarkPending, MarkFailed, Store, Confirm,
         ReceiptOkZeroRead, ReceiptError, RpcFailure, IInv, DbInv, TypeOK
  <2>2. CASE \E b \in BatchIds : Begin(a, b)
    BY <2>1, <2>2, StoreOKKept DEF Begin
  <2>3. CASE End(a)
    BY <2>1, <2>3, StoreOKKept DEF End, Idle
  <2>4. CASE \E pc \in PCs \ {"store"} : Goto(a, pc)
    BY <2>1, <2>4, StoreOKKept DEF Goto, Calls
  <2>5. CASE GetNonce(a)
    BY <2>1, <2>5, StoreOKKept DEF GetNonce, Calls
  <2>6. CASE ReadPending(a)
    <3>1. PICK t : Goto(a, "isAnchored") \/ GotoWith(a, "wait", t)
      BY <2>6 DEF ReadPending
    <3> QED BY <2>1, <3>1, StoreOKKept DEF Goto, GotoWith, Calls
  <2>7. CASE CheckChain(a)
    <3>1. PICK t : \/ Goto(a, "getNonce") \/ End(a)
                   \/ GotoWith(a, "store", t) /\ Matches(call[a].payload, anchors[call[a].batch])
      BY <2>7 DEF CheckChain, ReconcilableLog
    <3>2. CASE GotoWith(a, "store", t) /\ Matches(call[a].payload, anchors[call[a].batch])
      BY <2>1, <3>2, StoreOKKept DEF GotoWith, Calls
    <3> QED BY <2>1, <2>3, <3>1, <3>2, StoreOKKept DEF Goto, Calls
  <2>8. CASE ReceiptOk(a)
    <3>1. End(a) \/ (Goto(a, "store") /\ Matches(call[a].payload, anchors[call[a].batch]))
      BY <2>8 DEF ReceiptOk
    <3> QED BY <2>1, <2>3, <3>1, StoreOKKept DEF Goto, Calls
  <2>9. CASE ReceiptOkZeroRead(a)
    BY <2>1, <2>9, StoreOKKept DEF ReceiptOkZeroRead, Calls
  <2> QED BY <1>5, <2>2, <2>3, <2>4, <2>5, <2>6, <2>7, <2>8, <2>9
       DEF SendRefused, Persist, ReceiptReverted, ReceiptTimeout, MarkPending,
           MarkFailed, Store, Confirm, ReceiptError, RpcFailure, PCs
<1> QED BY <1>1, <1>2, <1>3, <1>4, <1>5
     DEF Next, Step, Proceed, CreateBatch, Tamper, EvictTx, Evict, ChangeOwner, Handover,
         TransferOwnership, vars

\* Only store_batch_anchor writes batch_anchors.
LEMMA OnlyStoreWrites ==
    ASSUME IInv, Next, NEW b \in BatchIds, rows'[b] # rows[b]
    PROVE  \E a \in Actors : Store(a) /\ call[a].batch = b /\ call'[a] # call[a]
<1>1. PICK a \in Actors : Store(a)
  BY DEF Next, Step, Proceed, Begin, ReadPending, CheckChain, GetNonce, Send, SendRefused, Persist,
         ReceiptOk, ReceiptReverted, ReceiptTimeout, MarkPending, MarkFailed, Confirm, SendReplaces,
         SendAnswerLost, ReceiptOkZeroRead, ReceiptError, RpcFailure, Accept, CreateBatch, Tamper,
         MineTx, EvictTx, ChangeOwner, Crash, dbVars
<1>2. rows' = [rows EXCEPT ![call[a].batch] = call[a].tx] /\ Goto(a, "confirm") /\ call[a].pc = "store"
  BY <1>1 DEF Store
<1>3. call[a].batch = b
  BY <1>2 DEF IInv, DbInv, TypeOK
<1>4. call'[a].pc = "confirm"
  BY <1>2 DEF Goto, IInv, DbInv, TypeOK, Calls
<1> QED BY <1>1, <1>2, <1>3, <1>4

\* A batch_anchors row is written only by a call that found the root and the
\* count it began with in the contract, or read zero there, however the
\* batch was edited, the node restarted or the threads raced in between.
THEOREM RowsWrittenVerified == Spec => StoreVerified
<1>1. Init => StoreOK
  BY DEF Init, StoreOK, Idle
<1>2. IInv /\ StoreOK /\ [Next]_vars
        => [\A b \in BatchIds : rows'[b] # rows[b] =>
                \E a \in Actors :
                    /\ call[a].pc = "store" /\ call'[a] # call[a]
                    /\ call[a].batch = b
                    /\ call[a].payload = ZeroPayload \/ Matches(call[a].payload, anchors[b])]_vars
  <2> SUFFICES ASSUME IInv, StoreOK, Next, NEW b \in BatchIds, rows'[b] # rows[b]
               PROVE  \E a \in Actors :
                        /\ call[a].pc = "store" /\ call'[a] # call[a]
                        /\ call[a].batch = b
                        /\ call[a].payload = ZeroPayload \/ Matches(call[a].payload, anchors[b])
    BY DEF vars
  <2>1. PICK a \in Actors : Store(a) /\ call[a].batch = b /\ call'[a] # call[a]
    BY OnlyStoreWrites
  <2> QED BY <2>1 DEF Store, StoreOK
<1> QED BY <1>1, <1>2, InitOK, NextOK, StoreOKNext, PTL DEF Spec, StoreVerified

--------------------------------------------------------------------------
(* The pool.  A nonce is read at "latest", so no call holds one beyond the
   account's, and the pool keeps one transaction per nonce.  *)

\* A step of the threads alone: each keeps its nonce, drops it, or reads the
\* account's.
LEMMA PoolFrame ==
    ASSUME PoolInv, TypeOK', txs' = txs, nonce' = nonce,
           \A a \in Actors : call'[a].nonce \in {call[a].nonce, 0, nonce}
    PROVE  PoolInv'
<1>1. InPool' = InPool
  BY DEF InPool
<1>2. OneInFlight' /\ \A t \in InPool' : txs'[t].nonce = nonce'
  BY <1>1 DEF PoolInv, OneInFlight
<1>3. \A a \in Actors : call[a].nonce \in Nat /\ call[a].nonce <= nonce /\ nonce \in Nat
  BY DEF PoolInv, TypeOK, NodeTypeOK, Calls
<1>4. \A a \in Actors : call'[a].nonce <= nonce'
  BY <1>3
<1> QED BY <1>2, <1>4 DEF PoolInv

\* A broadcast: the accepted nonce is the account's, because the node refuses
\* lower ones and the call holds none higher.
LEMMA PoolBroadcast ==
    ASSUME PoolInv, TypeOK', NEW a \in Actors, NEW t \in NextTx,
           Accept(t, call[a].batch, call[a].payload, call[a].nonce),
           GotoWith(a, "persist", t) \/ End(a)
    PROVE  PoolInv'
<1>1. PICK n \in Nat : call[a].nonce = n /\ n = nonce
  <2>1. call[a].nonce >= nonce
    BY DEF Accept
  <2>2. call[a].nonce <= nonce /\ call[a].nonce \in Nat /\ nonce \in Nat
    BY DEF PoolInv, TypeOK, NodeTypeOK, Calls
  <2> QED BY <2>1, <2>2
<1>2. nonce' = nonce /\ t \in TxIds
  BY DEF Accept, NextTx, Unused
<1>3. \A u \in TxIds : u # t => (txs'[u].status = "pending" => txs[u].status = "pending" /\ u \notin SlotOf(n))
  BY <1>1 DEF Accept, TypeOK, PoolInv, NodeTypeOK
<1>4. \A u \in TxIds : txs[u].status = "pending" => u \in SlotOf(n)
  BY <1>1 DEF PoolInv, InPool, SlotOf
<1>5. InPool' \subseteq {t}
  BY <1>3, <1>4 DEF InPool
<1>6. txs'[t].nonce = n
  BY <1>1, <1>2 DEF Accept
<1>7. \A x \in Actors : call'[x].nonce = call[x].nonce \/ call'[x].nonce = 0
  BY DEF PoolInv, TypeOK, Calls, GotoWith, End, Idle
<1>8. \A x \in Actors : call'[x].nonce <= nonce'
  BY <1>1, <1>2, <1>7 DEF PoolInv
<1>9. OneInFlight' /\ \A u \in InPool' : txs'[u].nonce = nonce'
  BY <1>1, <1>2, <1>5, <1>6 DEF OneInFlight
<1> QED BY <1>8, <1>9 DEF PoolInv

LEMMA PoolMine ==
    ASSUME PoolInv, TypeOK', NEW t \in TxIds, Mine(t), call' = call
    PROVE  PoolInv'
<1>1. t \in InPool /\ nonce' = nonce + 1
  BY DEF Mine, SlotOf
<1>2. PICK outcome \in {"ok"} \cup Reverted : txs' = [txs EXCEPT ![t].status = outcome]
  BY DEF Mine, AnchorOutcome, Reverted
<1>3. InPool' = {}
  BY <1>1, <1>2 DEF InPool, PoolInv, OneInFlight, TypeOK, NodeTypeOK, Reverted
<1>4. \A x \in Actors : call'[x].nonce <= nonce'
  BY <1>1 DEF PoolInv, TypeOK, NodeTypeOK, Calls
<1> QED BY <1>3, <1>4 DEF PoolInv, OneInFlight

LEMMA PoolEvict ==
    ASSUME PoolInv, TypeOK', NEW t \in TxIds, Evict(t), call' = call
    PROVE  PoolInv'
<1>1. nonce' = nonce /\ InPool' \subseteq InPool /\ \A u \in TxIds : txs'[u].nonce = txs[u].nonce
  BY DEF Evict, InPool, PoolInv, TypeOK, NodeTypeOK
<1> QED BY <1>1 DEF PoolInv, OneInFlight, InPool

LEMMA PoolNext == PoolInv /\ TypeOK' /\ [Next]_vars => PoolInv'
<1> SUFFICES ASSUME PoolInv, TypeOK', [Next]_vars PROVE PoolInv'
  OBVIOUS
<1> USE DEF PoolInv, TypeOK, NodeTypeOK, nodeVars
<1>1. CASE \E b \in BatchIds : CreateBatch(b) \/ Tamper(b)
  BY <1>1, PoolFrame DEF CreateBatch, Tamper
<1>2. CASE \E t \in TxIds : MineTx(t)
  BY <1>2, PoolMine DEF MineTx
<1>3. CASE \E t \in TxIds : EvictTx(t)
  BY <1>3, PoolEvict DEF EvictTx
<1>4. CASE ChangeOwner
  BY <1>4, PoolFrame DEF ChangeOwner, Handover
<1>5. CASE Crash
  BY <1>5, PoolFrame DEF Crash, Idle
<1>6. ASSUME NEW a \in Actors, Send(a) \/ SendReplaces(a) \/ SendAnswerLost(a) PROVE PoolInv'
  BY <1>6, PoolBroadcast DEF Send, SendReplaces, SendAnswerLost
<1>7. ASSUME NEW a \in Actors,
             \/ \E b \in BatchIds : Begin(a, b)
             \/ ReadPending(a) \/ CheckChain(a) \/ GetNonce(a) \/ SendRefused(a) \/ Persist(a)
             \/ ReceiptOk(a) \/ ReceiptReverted(a) \/ ReceiptTimeout(a)
             \/ MarkPending(a) \/ MarkFailed(a) \/ Store(a) \/ Confirm(a)
             \/ ReceiptOkZeroRead(a) \/ ReceiptError(a) \/ RpcFailure(a)
      PROVE  PoolInv'
  <2>1. txs' = txs /\ nonce' = nonce
    BY <1>7 DEF Begin, ReadPending, CheckChain, GetNonce, SendRefused, Persist, ReceiptOk,
         ReceiptReverted, ReceiptTimeout, MarkPending, MarkFailed, Store, Confirm,
         ReceiptOkZeroRead, ReceiptError, RpcFailure
  <2>2. \A x \in Actors : call'[x].nonce \in {call[x].nonce, 0, nonce}
    <3>1. CASE \E b \in BatchIds : Begin(a, b)
      BY <3>1 DEF Begin
    <3>2. CASE GetNonce(a)
      BY <3>2 DEF GetNonce, Calls
    <3>3. CASE End(a)
      BY <3>3 DEF End, Idle
    <3>4. CASE \E pc \in PCs : Goto(a, pc)
      BY <3>4 DEF Goto, Calls
    <3>6. CASE ReadPending(a)
      <4>1. PICK t : Goto(a, "isAnchored") \/ GotoWith(a, "wait", t)
        BY <3>6 DEF ReadPending
      <4> QED BY <4>1 DEF Goto, GotoWith, Calls
    <3>7. CASE CheckChain(a)
      <4>1. PICK t : Goto(a, "getNonce") \/ End(a) \/ GotoWith(a, "store", t)
        BY <3>7 DEF CheckChain
      <4> QED BY <4>1, <3>3 DEF Goto, GotoWith, Calls
    <3>8. CASE ReceiptOkZeroRead(a)
      BY <3>8 DEF ReceiptOkZeroRead, Calls
    <3> QED BY <1>7, <3>1, <3>2, <3>3, <3>4, <3>6, <3>7, <3>8
         DEF SendRefused, Persist, ReceiptOk, ReceiptReverted, ReceiptTimeout, MarkPending,
             MarkFailed, Store, Confirm, ReceiptError, RpcFailure, PCs
  <2> QED BY <2>1, <2>2, PoolFrame
<1>8. CASE UNCHANGED vars
  BY <1>8, PoolFrame DEF vars
<1> QED BY <1>1, <1>2, <1>3, <1>4, <1>5, <1>6, <1>7, <1>8 DEF Next, Step, Proceed

\* The operator account never has two transactions in the pool, whatever
\* threads and batches they come from.
THEOREM NeverTwoInFlight == Spec => []OneInFlight
<1>1. Init => PoolInv
  BY InitOK DEF Init, NodeInit, PoolInv, OneInFlight, InPool, UnusedTx, Idle, IInv, DbInv
<1>2. PoolInv => OneInFlight
  BY DEF PoolInv
<1> QED BY <1>1, <1>2, AnchoringTypes, PoolNext, PTL DEF Spec

--------------------------------------------------------------------------
(* The transactions wasted on a batch.  *)

\* How large the two sets of DupInv are.
LEMMA DupTypes ==
    ASSUME NEW b
    PROVE  /\ IsFiniteSet(Spent(b)) /\ Cardinality(Spent(b)) \in Nat
           /\ IsFiniteSet(Late(b)) /\ Cardinality(Late(b)) \in Nat
           /\ Cardinality(Late(b)) <= Cardinality(Actors) /\ Cardinality(Actors) \in Nat
<1>1. IsFiniteSet(TxIds)
  BY FS_Interval DEF TxIds
<1>2. IsFiniteSet(Spent(b))
  BY <1>1, FS_Subset DEF Spent
<1>3. IsFiniteSet(Late(b)) /\ Cardinality(Late(b)) <= Cardinality(Actors)
  BY FS_Subset DEF Late
<1> QED BY <1>2, <1>3, FS_CardinalityType

\* No call becomes late for a batch, and nothing more is spent on it.
LEMMA DupShrinks ==
    ASSUME DupInv, NEW b \in BatchIds, IsAnchored(b),
           Spent(b)' \subseteq Spent(b), Late(b)' \subseteq Late(b)
    PROVE  Cardinality(Spent(b)') + Cardinality(Late(b)') <= Cardinality(Actors)
<1>1. PICK S, L, T, M : S = Spent(b) /\ L = Late(b) /\ T = Spent(b)' /\ M = Late(b)'
  OBVIOUS
<1>2. IsFiniteSet(S) /\ IsFiniteSet(L) /\ T \in SUBSET S /\ M \in SUBSET L
  BY <1>1, DupTypes
<1>3. /\ Cardinality(T) \in Nat /\ Cardinality(M) \in Nat
      /\ Cardinality(S) \in Nat /\ Cardinality(L) \in Nat /\ Cardinality(Actors) \in Nat
      /\ Cardinality(T) <= Cardinality(S) /\ Cardinality(M) <= Cardinality(L)
  BY <1>2, DupTypes, FS_Subset, FS_CardinalityType
<1>4. Cardinality(S) + Cardinality(L) <= Cardinality(Actors)
  BY <1>1 DEF DupInv
<1>5. Cardinality(T) + Cardinality(M) <= Cardinality(Actors)
  BY <1>3, <1>4
<1> QED BY <1>1, <1>5

\* A step that broadcasts nothing and mines nothing.
LEMMA DupFrame ==
    ASSUME DupInv,
           \A t \in TxIds : /\ txs'[t].batch = txs[t].batch
                            /\ txs'[t].status \in {txs[t].status, "dropped"},
           \A b \in AnchorKeys : anchors'[b] = anchors[b],
           \A b \in BatchIds : IsAnchored(b) => Late(b)' \subseteq Late(b)
    PROVE  DupInv'
<1> SUFFICES ASSUME NEW b \in BatchIds
             PROVE  IF IsAnchored(b)'
                    THEN Cardinality(Spent(b)') + Cardinality(Late(b)') <= Cardinality(Actors)
                    ELSE Duplicates(b)' = {}
  BY DEF DupInv
<1>1. IsAnchored(b)' = IsAnchored(b)
  BY DEF IsAnchored, AnchorKeys
<1>2. Spent(b)' \subseteq Spent(b) /\ Duplicates(b)' \subseteq Duplicates(b)
  BY DEF Spent, Duplicates
<1>3. CASE IsAnchored(b)
  BY <1>1, <1>2, <1>3, DupShrinks
<1>4. CASE ~IsAnchored(b)
  BY <1>1, <1>2, <1>4 DEF DupInv
<1> QED BY <1>3, <1>4

\* A broadcast: the call is late no more, and its transaction may be wasted.
LEMMA DupBroadcast ==
    ASSUME DupInv, TypeOK, NEW a \in Actors, call[a].pc = "send", NEW t \in NextTx,
           Accept(t, call[a].batch, call[a].payload, call[a].nonce),
           GotoWith(a, "persist", t) \/ End(a)
    PROVE  DupInv'
<1>1. t \in TxIds /\ txs[t].status = "unused" /\ anchors' = anchors
  BY DEF Accept, NextTx, Unused
<1>2. \A u \in TxIds : \/ u = t /\ txs'[u].status = "pending" /\ txs'[u].batch = call[a].batch
                       \/ u # t /\ txs'[u].batch = txs[u].batch
                                /\ txs'[u].status \in {txs[u].status, "dropped"}
  BY DEF Accept, TypeOK, NodeTypeOK
<1>3. /\ call'[a].pc \notin {"getNonce", "send"}
      /\ \A x \in Actors \ {a} : call'[x] = call[x]
  BY DEF GotoWith, End, Idle, TypeOK, Calls
<1> SUFFICES ASSUME NEW b \in BatchIds
             PROVE  IF IsAnchored(b)'
                    THEN Cardinality(Spent(b)') + Cardinality(Late(b)') <= Cardinality(Actors)
                    ELSE Duplicates(b)' = {}
  BY DEF DupInv
<1>4. IsAnchored(b)' = IsAnchored(b)
  BY <1>1 DEF IsAnchored
<1>5. Duplicates(b)' \subseteq Duplicates(b)
  BY <1>2 DEF Duplicates
<1>6. Late(b)' = Late(b) \ {a}
  BY <1>3 DEF Late
<1>7. CASE ~IsAnchored(b)
  BY <1>4, <1>5, <1>7 DEF DupInv
<1>8. CASE IsAnchored(b) /\ call[a].batch # b
  <2>1. Spent(b)' \subseteq Spent(b)
    BY <1>2, <1>8 DEF Spent
  <2> QED BY <1>4, <1>6, <1>8, <2>1, DupShrinks
<1>9. CASE IsAnchored(b) /\ call[a].batch = b
  <2>1. PICK S, L, T, M : S = Spent(b) /\ L = Late(b) /\ T = Spent(b)' /\ M = Late(b)'
    OBVIOUS
  <2>2. IsFiniteSet(S) /\ IsFiniteSet(L)
    BY <2>1, DupTypes
  <2>3. a \in L /\ M = L \ {a} /\ T \in SUBSET (S \cup {t})
    BY <1>2, <1>6, <1>9, <2>1 DEF Late, Spent
  <2>4. /\ Cardinality(S) \in Nat /\ Cardinality(L) \in Nat /\ Cardinality(Actors) \in Nat
        /\ Cardinality(M) = Cardinality(L) - 1
    BY <2>2, <2>3, DupTypes, FS_RemoveElement, FS_CardinalityType
  <2>5. IsFiniteSet(S \cup {t}) /\ Cardinality(S \cup {t}) <= Cardinality(S) + 1
    <3>1. /\ IsFiniteSet(S \cup {t})
          /\ Cardinality(S \cup {t}) = IF t \in S THEN Cardinality(S) ELSE Cardinality(S) + 1
      BY <2>2, FS_AddElement
    <3> QED BY <2>4, <3>1
  <2>6. Cardinality(T) \in Nat /\ Cardinality(T) <= Cardinality(S \cup {t})
        /\ Cardinality(S \cup {t}) \in Nat
    BY <2>3, <2>5, FS_Subset, FS_CardinalityType
  <2>7. Cardinality(S) + Cardinality(L) <= Cardinality(Actors)
    BY <1>9, <2>1 DEF DupInv
  <2>8. Cardinality(T) + Cardinality(M) <= Cardinality(Actors)
    BY <2>4, <2>5, <2>6, <2>7
  <2> QED BY <1>4, <1>9, <2>1, <2>8
<1> QED BY <1>7, <1>8, <1>9

\* A block: the transaction that anchors a batch is the only one in the pool,
\* so none of the batch is left there to be wasted.
LEMMA DupMine ==
    ASSUME DupInv, PoolInv, NEW t \in TxIds, Mine(t), call' = call
    PROVE  DupInv'
<1>1. PICK c \in AnchorKeys, p \in PayloadFields : txs[t].batch = c /\ txs[t].payload = p
  BY DEF PoolInv, TypeOK, NodeTypeOK
<1>2. PICK outcome : outcome = AnchorOutcome(Operator, c, p)
  OBVIOUS
<1>3. \A u \in TxIds : /\ txs'[u].batch = txs[u].batch
                       /\ txs'[u].status = IF u = t THEN outcome ELSE txs[u].status
  BY <1>1, <1>2 DEF Mine, PoolInv, TypeOK, NodeTypeOK
<1>4. t \in InPool /\ \A u \in TxIds : txs[u].status = "pending" => u = t
  BY DEF Mine, SlotOf, PoolInv, OneInFlight, InPool
<1> SUFFICES ASSUME NEW b \in BatchIds
             PROVE  IF IsAnchored(b)'
                    THEN Cardinality(Spent(b)') + Cardinality(Late(b)') <= Cardinality(Actors)
                    ELSE Duplicates(b)' = {}
  BY DEF DupInv
<1>5. Late(b)' = Late(b)
  BY DEF Late
<1>6. CASE IsAnchored(b)
  <2>1. IsAnchored(b)'
    <3>1. CASE outcome # "ok"
      BY <1>1, <1>2, <1>6, <3>1 DEF Mine, contractVars, IsAnchored
    <3>2. CASE outcome = "ok"
      <4>1. anchors' = [anchors EXCEPT ![c] =
                [merkleRoot |-> p.merkleRoot, eventCount |-> p.eventCount,
                 metadataHash |-> p.metadataHash, anchoredAt |-> 1, anchoredBy |-> Operator]]
        BY <1>1, <1>2, <3>2 DEF Mine, AnchorBatch
      <4> QED BY <1>6, <4>1 DEF IsAnchored, PoolInv, TypeOK, NodeTypeOK, ContractTypeOK, AnchorKeys
    <3> QED BY <3>1, <3>2
  <2>2. Spent(b)' \subseteq Spent(b)
    BY <1>3, <1>4 DEF Spent, InPool
  <2> QED BY <1>5, <1>6, <2>1, <2>2, DupShrinks
<1>7. CASE ~IsAnchored(b) /\ IsAnchored(b)'
  <2>1. outcome = "ok" /\ c = b
    <3>1. CASE outcome # "ok"
      BY <1>1, <1>2, <1>7, <3>1 DEF Mine, contractVars, IsAnchored
    <3>2. CASE outcome = "ok"
      <4>1. anchors' = [anchors EXCEPT ![c] =
                [merkleRoot |-> p.merkleRoot, eventCount |-> p.eventCount,
                 metadataHash |-> p.metadataHash, anchoredAt |-> 1, anchoredBy |-> Operator]]
        BY <1>1, <1>2, <3>2 DEF Mine, AnchorBatch
      <4> QED BY <1>7, <3>2, <4>1 DEF IsAnchored, PoolInv, TypeOK, NodeTypeOK, ContractTypeOK, AnchorKeys
    <3> QED BY <3>1, <3>2
  <2>2. Duplicates(b) = {}
    BY <1>7 DEF DupInv
  <2>3. Spent(b)' = {}
    BY <1>3, <1>4, <2>1, <2>2 DEF Spent, Duplicates
  <2>4. Cardinality(Spent(b)') = 0
    BY <2>3, FS_EmptySet
  <2>5. PICK L : L = Late(b)
    OBVIOUS
  <2>6. Cardinality(L) \in Nat /\ Cardinality(L) <= Cardinality(Actors) /\ Cardinality(Actors) \in Nat
    BY <2>5, DupTypes
  <2>7. 0 + Cardinality(L) <= Cardinality(Actors)
    BY <2>6
  <2> QED BY <1>5, <1>7, <2>4, <2>5, <2>7
<1>8. CASE ~IsAnchored(b) /\ ~IsAnchored(b)'
  <2>1. Duplicates(b) = {}
    BY <1>8 DEF DupInv
  <2>2. outcome = "BatchAlreadyAnchored" => c # b
    BY <1>2, <1>8 DEF AnchorOutcome
  <2> QED BY <1>1, <1>3, <1>8, <2>1, <2>2 DEF Duplicates
<1> QED BY <1>6, <1>7, <1>8

LEMMA DupInit == Init => DupInv
BY DEF Init, NodeInit, ContractInit, ZeroAnchor, DupInv, IsAnchored, AnchorKeys, Duplicates, UnusedTx

\* A step of one call that is not a broadcast.
LEMMA DupCall ==
    ASSUME DupInv, TypeOK, UNCHANGED nodeVars, NEW a \in Actors,
           \A x \in Actors \ {a} : call'[x] = call[x],
           \/ call'[a].pc \notin {"getNonce", "send"}
           \/ call[a].pc = "getNonce" /\ call'[a].batch = call[a].batch
           \/ call[a].pc = "isAnchored" /\ ~IsAnchored(call[a].batch) /\ call'[a].batch = call[a].batch
    PROVE  DupInv'
<1>1. \A b \in BatchIds : IsAnchored(b) => Late(b)' \subseteq Late(b)
  BY DEF Late
<1> QED BY <1>1, DupFrame DEF nodeVars

LEMMA DupNext == DupInv /\ PoolInv /\ TypeOK' /\ [Next]_vars => DupInv'
<1> SUFFICES ASSUME DupInv, PoolInv, TypeOK', [Next]_vars PROVE DupInv'
  OBVIOUS
<1>1. CASE \E b \in BatchIds : CreateBatch(b) \/ Tamper(b)
  BY <1>1, DupFrame DEF CreateBatch, Tamper, nodeVars, Late
<1>2. CASE \E t \in TxIds : MineTx(t)
  BY <1>2, DupMine DEF MineTx
<1>3. CASE \E t \in TxIds : EvictTx(t)
  BY <1>3, DupFrame DEF EvictTx, Evict, Late, PoolInv, TypeOK, NodeTypeOK
<1>4. CASE ChangeOwner
  BY <1>4, DupFrame DEF ChangeOwner, Handover, TransferOwnership, Late
<1>5. CASE Crash
  BY <1>5, DupFrame DEF Crash, Idle, Late, nodeVars
<1>6. ASSUME NEW a \in Actors, Send(a) \/ SendReplaces(a) \/ SendAnswerLost(a) PROVE DupInv'
  BY <1>6, DupBroadcast DEF Send, SendReplaces, SendAnswerLost, PoolInv
<1>7. ASSUME NEW a \in Actors,
             \/ \E b \in BatchIds : Begin(a, b)
             \/ ReadPending(a) \/ CheckChain(a) \/ GetNonce(a) \/ SendRefused(a) \/ Persist(a)
             \/ ReceiptOk(a) \/ ReceiptReverted(a) \/ ReceiptTimeout(a)
             \/ MarkPending(a) \/ MarkFailed(a) \/ Store(a) \/ Confirm(a)
             \/ ReceiptOkZeroRead(a) \/ ReceiptError(a) \/ RpcFailure(a)
      PROVE  DupInv'
  <2>1. UNCHANGED nodeVars
    BY <1>7 DEF Begin, ReadPending, CheckChain, GetNonce, SendRefused, Persist, ReceiptOk,
         ReceiptReverted, ReceiptTimeout, MarkPending, MarkFailed, Store, Confirm,
         ReceiptOkZeroRead, ReceiptError, RpcFailure
  <2>2. call \in [Actors -> Calls]
    BY DEF PoolInv, TypeOK
  <2>3. CASE \E b \in BatchIds : Begin(a, b)
    BY <2>1, <2>2, <2>3, DupCall DEF Begin, PoolInv
  <2>4. CASE End(a)
    BY <2>1, <2>2, <2>4, DupCall DEF End, Idle, PoolInv
  <2>5. CASE \E pc \in PCs \ {"getNonce", "send"} : Goto(a, pc)
    BY <2>1, <2>2, <2>5, DupCall DEF Goto, Calls, PoolInv
  <2>6. CASE GetNonce(a)
    BY <2>1, <2>2, <2>6, DupCall DEF GetNonce, Calls, PoolInv
  <2>7. CASE ReadPending(a)
    <3>1. PICK t : Goto(a, "isAnchored") \/ GotoWith(a, "wait", t)
      BY <2>7 DEF ReadPending
    <3> QED BY <2>1, <2>2, <3>1, DupCall DEF Goto, GotoWith, Calls, PoolInv
  <2>8. CASE CheckChain(a)
    <3>1. PICK t : \/ ~IsAnchored(call[a].batch) /\ call[a].pc = "isAnchored" /\ Goto(a, "getNonce")
                   \/ End(a) \/ GotoWith(a, "store", t)
      BY <2>8 DEF CheckChain
    <3>2. CASE Goto(a, "getNonce") /\ call[a].pc = "isAnchored" /\ ~IsAnchored(call[a].batch)
      BY <2>1, <2>2, <3>2, DupCall DEF Goto, Calls, PoolInv
    <3> QED BY <2>1, <2>2, <2>4, <3>1, <3>2, DupCall DEF GotoWith, Calls, PoolInv
  <2>9. CASE ReceiptOkZeroRead(a)
    BY <2>1, <2>2, <2>9, DupCall DEF ReceiptOkZeroRead, Calls, PoolInv
  <2> QED BY <1>7, <2>3, <2>4, <2>5, <2>6, <2>7, <2>8, <2>9
       DEF SendRefused, Persist, ReceiptOk, ReceiptReverted, ReceiptTimeout, MarkPending,
           MarkFailed, Store, Confirm, ReceiptError, RpcFailure, PCs
<1>8. CASE UNCHANGED vars
  BY <1>8, DupFrame DEF vars, Late
<1> QED BY <1>1, <1>2, <1>3, <1>4, <1>5, <1>6, <1>7, <1>8 DEF Next, Step, Proceed

\* What is wasted on a batch is part of what is spent on it.
LEMMA DupBound ==
    ASSUME DupInv
    PROVE  DuplicatesBounded
<1> SUFFICES ASSUME NEW b \in BatchIds PROVE Cardinality(Duplicates(b)) <= Cardinality(Actors)
  BY DEF DuplicatesBounded
<1>1. PICK S, L, D : S = Spent(b) /\ L = Late(b) /\ D = Duplicates(b)
  OBVIOUS
<1>2. /\ IsFiniteSet(S) /\ Cardinality(S) \in Nat /\ Cardinality(L) \in Nat
      /\ Cardinality(Actors) \in Nat
  BY <1>1, DupTypes
<1>3. CASE ~IsAnchored(b)
  <2>1. Duplicates(b) = {}
    BY <1>3 DEF DupInv
  <2>2. Cardinality(Duplicates(b)) = 0
    BY <2>1, FS_EmptySet
  <2> QED BY <1>2, <2>2
<1>4. CASE IsAnchored(b)
  <2>1. D \in SUBSET S
    BY <1>1 DEF Duplicates, Spent
  <2>2. Cardinality(D) \in Nat /\ Cardinality(D) <= Cardinality(S)
    BY <1>2, <2>1, FS_Subset, FS_CardinalityType
  <2>3. Cardinality(S) + Cardinality(L) <= Cardinality(Actors)
    BY <1>1, <1>4 DEF DupInv
  <2>4. Cardinality(D) <= Cardinality(Actors)
    BY <1>2, <2>2, <2>3
  <2> QED BY <1>1, <2>4
<1> QED BY <1>3, <1>4

\* However the calls of any number of threads interleave and whatever fails,
\* a batch costs each thread at most one reverted transaction.
THEOREM AtMostOneDuplicateEach == Spec => []DuplicatesBounded
<1>1. Init => PoolInv
  BY InitOK DEF Init, NodeInit, PoolInv, OneInFlight, InPool, UnusedTx, Idle, IInv, DbInv
<1>2. Spec => []PoolInv
  BY <1>1, AnchoringTypes, PoolNext, PTL DEF Spec
<1> QED BY <1>2, AnchoringTypes, DupInit, DupNext, DupBound, PTL DEF Spec

--------------------------------------------------------------------------
(* Anchoring implements AnchorRegistry: a mined anchorBatch that succeeds is
   Commit, store_batch_anchor is Record, and everything else (calls, retries,
   the pool, pending rows, crashes) is invisible.  *)

USE DEF CommittedTx, RecordedTx

\* Steps that neither emit an event nor write a row stutter.
LEMMA Stutter ==
    ASSUME logs' = logs, rows' = rows
    PROVE  CommittedTx' = CommittedTx /\ RecordedTx' = RecordedTx
BY DEF LogsOf

LEMMA MineCommits ==
    ASSUME IInv, NEW t \in TxIds, Mine(t), rows' = rows
    PROVE  [Registry!Next]_<<CommittedTx, RecordedTx>>
<1>1. PICK b \in AnchorKeys, p \in PayloadFields : txs[t].batch = b /\ txs[t].payload = p
  BY DEF IInv, NodeInv, NodeTypeOK
<1>2. CASE AnchorOutcome(Operator, b, p) # "ok"
  <2>1. logs' = logs
    BY <1>1, <1>2 DEF Mine, contractVars
  <2> QED BY <2>1, Stutter
<1>3. CASE AnchorOutcome(Operator, b, p) = "ok"
  <2>1. AnchorBatch(Operator, b, p, t)
    BY <1>1, <1>3 DEF Mine
  <2>2. b # ZeroBatchId
    BY <1>3 DEF AnchorOutcome
  <2>3. b \in BatchIds
    BY <2>2 DEF AnchorKeys
  <2> DEFINE log == [batch |-> b, merkleRoot |-> p.merkleRoot,
                     eventCount |-> p.eventCount, by |-> Operator, tx |-> t]
  <2>4. /\ ~IsAnchored(b)
        /\ LogsOf(b)' = {log}
        /\ \A c \in AnchorKeys \ {b} : LogsOf(c)' = LogsOf(c)
    BY <2>1, AnchorBatchStep DEF IInv, NodeInv, NodeTypeOK
  <2>5. LogsOf(b) = {}
    BY <2>4 DEF IInv, NodeInv, LogsMatchStorage
  <2>6. CommittedTx[b] = {}
    BY <2>3, <2>5
  <2>7. txs[t].status = "pending"
    BY DEF Mine, SlotOf, InPool
  <2>8. \A c \in BatchIds : t \notin CommittedTx[c]
    BY <2>7 DEF IInv, NodeInv, ReceiptsMatchLogs, LogsOf
  <2>9. {l.tx : l \in LogsOf(b)'} = {t}
    <3>1. log.tx = t
      OBVIOUS
    <3> QED BY <2>4, <3>1
  <2>10. CommittedTx' = [CommittedTx EXCEPT ![b] = {t}]
    <3>1. CommittedTx' = [c \in BatchIds |-> {l.tx : l \in LogsOf(c)'}]
      OBVIOUS
    <3>2. \A c \in BatchIds : {l.tx : l \in LogsOf(c)'} = IF c = b THEN {t} ELSE CommittedTx[c]
      BY <2>4, <2>9 DEF AnchorKeys
    <3> QED BY <3>1, <3>2
  <2>11. Registry!Commit(b)
    BY <2>6, <2>8, <2>10 DEF Registry!Commit
  <2> QED BY <2>3, <2>11 DEF Registry!Next
<1> QED BY <1>2, <1>3

LEMMA StoreRecords ==
    ASSUME IInv, NEW a \in Actors, Store(a)
    PROVE  [Registry!Next]_<<CommittedTx, RecordedTx>>
<1>1. PICK b \in BatchIds, t \in TxIds :
        call[a].batch = b /\ call[a].tx = t /\ txs[t].status = "ok" /\ txs[t].batch = b
  BY DEF Store, IInv, DbInv, CallOK, Sent
<1>2. logs' = logs
  BY DEF Store, nodeVars
<1>3. CASE rows[b] # NoTx
  BY <1>1, <1>2, <1>3, Stutter DEF Store
<1>4. CASE rows[b] = NoTx
  <2>1. rows' = [rows EXCEPT ![b] = t]
    BY <1>1, <1>4 DEF Store
  <2>2. PICK l \in LogsOf(b) : l.tx = t
    BY <1>1 DEF IInv, NodeInv, ReceiptsMatchLogs
  <2>3. LogsOf(b) = {l}
    BY <2>2 DEF IInv, NodeInv, LogsMatchStorage, AnchorKeys
  <2>4. CommittedTx[b] = {t}
    BY <2>2, <2>3
  <2>5. RecordedTx[b] = {}
    BY <1>4
  <2>6. RecordedTx' = [RecordedTx EXCEPT ![b] = {t}]
    <3>1. \A c \in BatchIds : rows'[c] = IF c = b THEN t ELSE rows[c]
      BY <2>1 DEF IInv, DbInv, TypeOK
    <3>2. \A c \in BatchIds : (IF rows'[c] = NoTx THEN {} ELSE {rows'[c]})
                                = IF c = b THEN {t} ELSE RecordedTx[c]
      BY <3>1 DEF TxIds
    <3> QED BY <3>2
  <2>7. CommittedTx' = CommittedTx
    BY <1>2 DEF LogsOf
  <2>8. Registry!Record(b)
    BY <2>4, <2>5, <2>6, <2>7 DEF Registry!Record
  <2> QED BY <2>8 DEF Registry!Next
<1> QED BY <1>3, <1>4

LEMMA RegistryStep ==
    IInv /\ [Next]_vars => [Registry!Next]_<<CommittedTx, RecordedTx>>
<1> SUFFICES ASSUME IInv, [Next]_vars
             PROVE  [Registry!Next]_<<CommittedTx, RecordedTx>>
  OBVIOUS
<1> USE DEF nodeVars, dbVars
<1>1. CASE \E b \in BatchIds : CreateBatch(b) \/ Tamper(b)
  BY <1>1, Stutter DEF CreateBatch, Tamper
<1>2. CASE \E t \in TxIds : MineTx(t)
  BY <1>2, MineCommits DEF MineTx
<1>3. CASE \E t \in TxIds : EvictTx(t)
  BY <1>3, Stutter DEF EvictTx, Evict
<1>4. CASE ChangeOwner \/ Crash \/ UNCHANGED vars
  BY <1>4, Stutter DEF ChangeOwner, Handover, TransferOwnership, Crash, vars
<1>5. ASSUME NEW a \in Actors, Store(a)
      PROVE  [Registry!Next]_<<CommittedTx, RecordedTx>>
  BY <1>5, StoreRecords
<1>6. ASSUME NEW a \in Actors,
             \/ \E b \in BatchIds : Begin(a, b)
             \/ ReadPending(a) \/ CheckChain(a) \/ GetNonce(a) \/ Send(a) \/ SendRefused(a)
             \/ Persist(a) \/ ReceiptOk(a) \/ ReceiptReverted(a) \/ ReceiptTimeout(a)
             \/ MarkPending(a) \/ MarkFailed(a) \/ Confirm(a)
             \/ SendReplaces(a) \/ SendAnswerLost(a)
             \/ ReceiptOkZeroRead(a) \/ ReceiptError(a) \/ RpcFailure(a)
      PROVE  [Registry!Next]_<<CommittedTx, RecordedTx>>
  <2>1. logs' = logs /\ rows' = rows
    BY <1>6 DEF Begin, ReadPending, CheckChain, GetNonce, Send, SendRefused, Persist, ReceiptOk,
         ReceiptReverted, ReceiptTimeout, MarkPending, MarkFailed, Confirm, SendReplaces,
         SendAnswerLost, ReceiptOkZeroRead, ReceiptError, RpcFailure, Accept
  <2> QED BY <2>1, Stutter
<1> QED BY <1>1, <1>2, <1>3, <1>4, <1>5, <1>6 DEF Next, Step, Proceed

LEMMA RegistryInit == Init => Registry!Init
BY DEF Init, NodeInit, ContractInit, LogsOf, Registry!Init

\* Every behaviour of anchoring is, seen through the contract's events and
\* the batch_anchors rows, a behaviour of the registry.
THEOREM AnchoringImplementsRegistry == Spec => ImplementsRegistry
<1>1. Spec => []IInv
  BY InitOK, NextOK, PTL DEF Spec
<1> QED BY <1>1, RegistryInit, RegistryStep, PTL DEF Spec, ImplementsRegistry, Registry!Spec

===========================================================================
