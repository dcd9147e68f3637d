----------------------- MODULE AnchoringServiceProofs -----------------------
(***************************************************************************)
(* Anchoring under stops, restarts, backups and restores.  A restore       *)
(* brings back tables that were true once; they still are, because the     *)
(* chain only adds: receipts are final and events are never removed.       *)
(***************************************************************************)
EXTENDS AnchoringService, BatchAnchoringProofs

USE ServiceAssumption

\* Every step of anchoring leaves receipts and signed transactions alone.
LEMMA NextMonotone ==
    ASSUME IInv, [Next]_vars
    PROVE  Monotone
<1> USE DEF IInv
<1>1. ASSUME NEW a \in Actors, Send(a) \/ SendReplaces(a) \/ SendAnswerLost(a) PROVE Monotone
  <2>1. PICK t \in NextTx : Accept(t, call[a].batch, call[a].payload, call[a].nonce) /\ call[a].pc = "send"
    BY <1>1 DEF Send, SendReplaces, SendAnswerLost
  <2>2. call[a].batch \in BatchIds /\ call[a].payload \in PayloadFields /\ call[a].nonce \in Nat
    BY <2>1 DEF DbInv, TypeOK, Calls, CallOK
  <2>3. t \in TxIds
    BY DEF NextTx, Unused
  <2> QED BY <2>1, <2>2, <2>3, AcceptStep
<1>2. CASE \E t \in TxIds : MineTx(t) \/ EvictTx(t)
  BY <1>2, MineStep, EvictStep DEF MineTx, EvictTx
<1>3. CASE ChangeOwner
  BY <1>3, HandoverStep DEF ChangeOwner
<1>4. CASE UNCHANGED nodeVars
  BY <1>4, NodeUnchanged
<1>5. ASSUME NEW a \in Actors,
             \/ \E b \in BatchIds : Begin(a, b)
             \/ ReadPending(a) \/ CheckChain(a) \/ GetNonce(a) \/ SendRefused(a) \/ Persist(a)
             \/ ReceiptOk(a) \/ ReceiptReverted(a) \/ ReceiptTimeout(a)
             \/ MarkPending(a) \/ MarkFailed(a) \/ Store(a) \/ Confirm(a)
             \/ ReceiptOkZeroRead(a) \/ ReceiptError(a) \/ RpcFailure(a)
      PROVE  UNCHANGED nodeVars
  BY <1>5 DEF Begin, ReadPending, CheckChain, GetNonce, SendRefused, Persist, ReceiptOk,
         ReceiptReverted, ReceiptTimeout, MarkPending, MarkFailed, Store, Confirm,
         ReceiptOkZeroRead, ReceiptError, RpcFailure
<1>6. CASE Crash \/ (\E b \in BatchIds : CreateBatch(b) \/ Tamper(b)) \/ UNCHANGED vars
  BY <1>4, <1>6 DEF Crash, CreateBatch, Tamper, vars, nodeVars
<1> QED BY <1>1, <1>2, <1>3, <1>4, <1>5, <1>6 DEF Next, Step, Proceed

\* A copy of the tables stays true while the chain goes on.
LEMMA CopyKept ==
    ASSUME NodeInv, NodeInv', Monotone, NEW c, CopyOK(c)
    PROVE  CopyOK(c)'
<1> SUFFICES ASSUME NEW b \in BatchIds
             PROVE  /\ c.pending[b].status # "none" => Sent(c.pending[b].tx, b)'
                    /\ c.rows[b] # NoTx => IsAnchorTxOf(c.rows[b], b)'
                    /\ c.pending[b].status = "confirmed" => c.rows[b] = c.pending[b].tx /\ c.rows[b] # NoTx
                    /\ c.pending[b].status = "failed" => txs'[c.pending[b].tx].status \in Reverted
  BY DEF CopyOK
<1>1. c.pending[b].status # "none" => Sent(c.pending[b].tx, b)'
  BY DEF CopyOK, Sent, Monotone
<1>2. c.rows[b] # NoTx => IsAnchorTxOf(c.rows[b], b)'
  <2> SUFFICES ASSUME c.rows[b] # NoTx PROVE IsAnchorTxOf(c.rows[b], b)'
    OBVIOUS
  <2>1. c.rows[b] \in TxIds /\ txs[c.rows[b]].status = "ok" /\ txs[c.rows[b]].batch = b
    BY DEF CopyOK, IsAnchorTxOf
  <2>2. txs'[c.rows[b]].status = "ok" /\ txs'[c.rows[b]].batch = b
    BY <2>1 DEF Monotone
  <2>3. \E l \in LogsOf(b)' : l.tx = c.rows[b]
    BY <2>1, <2>2 DEF NodeInv, ReceiptsMatchLogs, LogsOf
  <2> QED BY <2>1, <2>2, <2>3 DEF IsAnchorTxOf
<1>3. c.pending[b].status = "failed" => txs'[c.pending[b].tx].status \in Reverted
  <2> SUFFICES ASSUME c.pending[b].status = "failed" PROVE txs'[c.pending[b].tx].status \in Reverted
    OBVIOUS
  <2>1. c.pending[b].tx \in TxIds /\ txs[c.pending[b].tx].status \in Reverted
    BY DEF CopyOK, Sent
  <2> QED BY <2>1 DEF Monotone
<1>4. c.pending[b].status = "confirmed" => c.rows[b] = c.pending[b].tx /\ c.rows[b] # NoTx
  BY DEF CopyOK
<1> QED BY <1>1, <1>2, <1>3, <1>4

\* The live tables are as true as a copy, and a copy of them is one.
LEMMA LiveIsCopy == DbInv => CopyOK(Database)
BY DEF DbInv, CopyOK, Database, PendingOK, AnchorRowTrue, ConfirmedHasRow, FailedMeansReverted

\* Two true copies name the same transaction: the contract has one event.
LEMMA TrueCopiesAgree ==
    ASSUME NodeInv, NEW c, NEW d, CopyOK(c), CopyOK(d), NEW b \in BatchIds,
           c.rows[b] # NoTx, d.rows[b] # NoTx
    PROVE  c.rows[b] = d.rows[b]
<1>1. PICK k \in LogsOf(b), l \in LogsOf(b) : k.tx = c.rows[b] /\ l.tx = d.rows[b]
  BY DEF CopyOK, IsAnchorTxOf
<1>2. k = l
  BY <1>1 DEF NodeInv, LogsMatchStorage, AnchorKeys
<1> QED BY <1>1, <1>2

SInv == IInv /\ PoolInv /\ ServiceInv

\* The steps of anchoring itself, with the copies they leave alone.
LEMMA AnchoringPart ==
    ASSUME SInv, [Next]_vars, copies' = copies
    PROVE  IInv' /\ PoolInv' /\ \A c \in copies' : CopyOK(c)'
<1>1. IInv' /\ Monotone
  BY NextOK, NextMonotone DEF SInv
<1>2. PoolInv'
  BY <1>1, PoolNext DEF SInv, IInv, DbInv
<1>3. \A c \in copies' : CopyOK(c)'
  BY <1>1, CopyKept DEF SInv, ServiceInv, IInv
<1> QED BY <1>1, <1>2, <1>3

\* A restore, with no call under way: the copy is true, so the tables are.
LEMMA RestoreStep ==
    ASSUME SInv, Restore
    PROVE  SInv'
<1>1. PICK c \in copies : Replace(c)
  BY DEF Restore
<1>2. CopyOK(c) /\ service = "down" /\ \A a \in Actors : call[a].pc = "idle"
  BY DEF SInv, ServiceInv, Restore
<1>3. /\ batches' = c.batches /\ rows' = c.rows /\ pending' = c.pending
      /\ copies' = copies \cup {Database} /\ UNCHANGED <<nodeVars, call, faults, cycle, used>>
      /\ service' = "up"
  BY <1>1 DEF Replace, Restore
<1>4. NodeInv' /\ Monotone
  BY <1>3, NodeUnchanged DEF SInv, IInv
<1>5. TypeOK'
  BY <1>3, <1>4 DEF SInv, ServiceInv, ServiceTypeOK, TypeOK, NodeInv
<1>6. CopyOK(c)'
  BY <1>2, <1>4, CopyKept DEF SInv, IInv
<1>7. PendingOK' /\ AnchorRowTrue' /\ ConfirmedHasRow' /\ FailedMeansReverted'
  BY <1>3, <1>6 DEF CopyOK, PendingOK, AnchorRowTrue, ConfirmedHasRow, FailedMeansReverted
<1>8. \A a \in Actors : CallOK(call[a])'
  BY <1>2, <1>3 DEF CallOK, Idle
<1>9. IInv'
  BY <1>4, <1>5, <1>7, <1>8 DEF IInv, DbInv
<1>10. PoolInv'
  BY <1>3, <1>5, PoolFrame DEF SInv, nodeVars
<1>11. \A d \in copies' : CopyOK(d)'
  <2>1. CopyOK(Database)
    BY LiveIsCopy DEF SInv, IInv
  <2>2. PICK d : d = Database
    OBVIOUS
  <2>3. CopyOK(d)'
    BY <1>4, <2>1, <2>2, CopyKept DEF SInv, IInv
  <2>4. \A e \in copies : CopyOK(e)'
    BY <1>4, CopyKept DEF SInv, ServiceInv, IInv
  <2> QED BY <1>3, <2>2, <2>3, <2>4
<1>12. ServiceTypeOK'
  BY <1>3, <1>5 DEF SInv, ServiceInv, ServiceTypeOK, TypeOK, Database
<1> QED BY <1>3, <1>9, <1>10, <1>11, <1>12 DEF SInv, ServiceInv

LEMMA ServiceInitOK == ServiceInit => SInv
<1> SUFFICES ASSUME ServiceInit PROVE SInv
  OBVIOUS
<1>1. IInv
  BY InitOK DEF ServiceInit
<1>2. PoolInv
  BY <1>1 DEF ServiceInit, Init, NodeInit, PoolInv, OneInFlight, InPool, UnusedTx, Idle, IInv, DbInv
<1> QED BY <1>1, <1>2 DEF SInv, ServiceInv, ServiceTypeOK, ServiceInit, IInv, DbInv

\* One step of the service: of the process around anchoring, of anchoring
\* itself, of a backup or of a restore.
LEMMA ServiceStep == SInv /\ [ServiceNext]_svars => SInv'
<1> SUFFICES ASSUME SInv, [ServiceNext]_svars PROVE SInv'
  OBVIOUS
<1>1. CASE Work
  <2>1. IInv' /\ PoolInv' /\ \A c \in copies' : CopyOK(c)'
    BY <1>1, AnchoringPart DEF Work, Next
  <2>2. TypeOK'
    BY <2>1 DEF IInv, DbInv
  <2>3. service' = service /\ copies' = copies
    BY <1>1 DEF Work
  <2>4. used' \subseteq BatchIds
    BY <1>1 DEF Work, Created, Existing, SInv, ServiceInv, ServiceTypeOK
  <2>5. cycle' \in {"none", "listing", "anchoring"}
    BY <1>1 DEF Work, SInv, ServiceInv, ServiceTypeOK
  <2>6. service = "down" => \A a \in Actors : call'[a].pc = "idle"
    <3> SUFFICES ASSUME service = "down", NEW a \in Actors PROVE call'[a].pc = "idle"
      OBVIOUS
    <3>1. \A x \in Actors : call[x].pc = "idle"
      BY DEF SInv, ServiceInv, Idle
    <3>2. CASE \E x \in Actors : \/ \E b \in BatchIds : Begin(x, b)
                                 \/ Proceed(x) \/ SendReplaces(x) \/ SendAnswerLost(x)
                                 \/ ReceiptOkZeroRead(x) \/ ReceiptError(x) \/ RpcFailure(x)
      <4>1. PICK x \in Actors : \/ \E b \in BatchIds : Begin(x, b)
                                \/ Proceed(x) \/ SendReplaces(x) \/ SendAnswerLost(x)
                                \/ ReceiptOkZeroRead(x) \/ ReceiptError(x) \/ RpcFailure(x)
        BY <3>2
      <4>2. \E b \in BatchIds : Begin(x, b)
        BY <3>1, <4>1 DEF Proceed, ReadPending, CheckChain, GetNonce, Send, SendRefused, Persist, ReceiptOk,
           ReceiptReverted, ReceiptTimeout, MarkPending, MarkFailed, Store, Confirm,
           SendReplaces, SendAnswerLost, ReceiptOkZeroRead, ReceiptError, RpcFailure
      <4>3. call'[x].pc = "readPending"
        BY <4>2 DEF Begin, SInv, IInv, DbInv, TypeOK
      <4>4. MayBegin(x)
        BY <1>1, <3>1, <4>3 DEF Work, Began
      <4> QED BY <4>4 DEF MayBegin, SInv, ServiceInv, ServiceTypeOK
    <3>3. CASE UNCHANGED call
      BY <3>1, <3>3
    <3> QED BY <1>1, <3>2, <3>3 DEF Work, Step, CreateBatch, Tamper, MineTx, EvictTx, ChangeOwner
  <2>7. service = "down" => cycle' = "none"
    <3> SUFFICES ASSUME service = "down" PROVE cycle' = "none"
      OBVIOUS
    <3>1. call'[Scheduler].pc = "idle"
      BY <2>6 DEF Idle
    <3> QED BY <1>1, <3>1 DEF Work, Began, SInv, ServiceInv
  <2> QED BY <2>1, <2>2, <2>3, <2>4, <2>5, <2>6, <2>7 DEF SInv, ServiceInv, ServiceTypeOK
<1>2. CASE Restore
  BY <1>2, RestoreStep
<1>3. CASE Die
  <2>1. IInv' /\ PoolInv' /\ \A c \in copies' : CopyOK(c)'
    BY <1>3, AnchoringPart DEF Die, Next
  <2> QED BY <1>3, <2>1 DEF Die, SInv, ServiceInv, ServiceTypeOK, IInv, DbInv
<1>4. CASE Kill
  <2>1. call' = [a \in Actors |-> Idle] /\ UNCHANGED <<nodeVars, dbVars, faults>> /\ copies' = copies
        /\ used' = used /\ service' = "down" /\ cycle' = "none"
    BY <1>4 DEF Kill
  <2>2. NodeInv' /\ Monotone
    BY <2>1, NodeUnchanged DEF SInv, IInv
  <2>3. TypeOK'
    BY <2>1, <2>2, IdleType DEF SInv, IInv, DbInv, TypeOK, NodeInv, dbVars
  <2>4. \A a \in Actors : CallOK(call[a])'
    BY <2>1 DEF CallOK, Idle
  <2>5. IInv'
    BY <2>1, <2>2, <2>3, <2>4, TablesKept DEF SInv, IInv, DbInv, dbVars
  <2>6. PoolInv'
    BY <2>1, <2>3, PoolFrame DEF SInv, nodeVars, Idle
  <2>7. \A c \in copies' : CopyOK(c)'
    BY <2>1, <2>2, CopyKept DEF SInv, ServiceInv, IInv
  <2> QED BY <2>1, <2>3, <2>5, <2>6, <2>7 DEF SInv, ServiceInv, ServiceTypeOK, Idle
<1>5. CASE Backup
  <2>1. UNCHANGED vars /\ copies' = copies \cup {Database} /\ UNCHANGED <<service, cycle, used>>
    BY <1>5 DEF Backup
  <2>2. IInv' /\ PoolInv' /\ NodeInv' /\ Monotone
    BY <2>1, NextOK, NextMonotone, PoolNext DEF SInv, IInv, DbInv
  <2>3. \A c \in copies : CopyOK(c)'
    BY <2>2, CopyKept DEF SInv, ServiceInv, IInv
  <2>4. PICK d : d = Database
    OBVIOUS
  <2>5. CopyOK(d)'
    BY <2>2, <2>4, LiveIsCopy, CopyKept DEF SInv, IInv
  <2>6. /\ d.batches \in [BatchIds -> Payloads \cup {ZeroPayload}]
        /\ d.rows \in [BatchIds -> TxIds \cup {NoTx}]
        /\ d.pending \in [BatchIds -> [status : PendingStatus, tx : TxIds \cup {NoTx}]]
    BY <2>4 DEF Database, SInv, IInv, DbInv, TypeOK
  <2> QED BY <2>1, <2>2, <2>3, <2>4, <2>5, <2>6 DEF SInv, ServiceInv, ServiceTypeOK, IInv, DbInv, vars
<1>6. CASE UNCHANGED <<vars, copies, used>> /\ service' \in {"up", "stopping", "down"}
           /\ cycle' \in {"none", "listing", "anchoring"}
           /\ (service' = "down" => cycle' = "none" /\ \A a \in Actors : call[a].pc = "idle")
  <2>1. IInv' /\ PoolInv' /\ \A c \in copies' : CopyOK(c)'
    BY <1>6, AnchoringPart
  <2> QED BY <1>6, <2>1 DEF SInv, ServiceInv, ServiceTypeOK, IInv, DbInv, vars
<1>7. CASE StartCycle
  BY <1>6, <1>7 DEF StartCycle, SInv, ServiceInv, ServiceTypeOK
<1>8. CASE EndCycle
  BY <1>6, <1>8 DEF EndCycle, SInv, ServiceInv, ServiceTypeOK
<1>9. CASE Start
  BY <1>6, <1>9 DEF Start, SInv, ServiceInv, ServiceTypeOK
<1>10. CASE UNCHANGED svars
  BY <1>6, <1>10 DEF svars, serviceVars, SInv, ServiceInv, ServiceTypeOK
<1>11. CASE Exit
  BY <1>6, <1>11 DEF Exit, SInv, ServiceInv, ServiceTypeOK
<1>12. CASE Stop
  <2>1. UNCHANGED <<nodeVars, dbVars, call, cycle, copies, used>> /\ faults' \in 0..MaxFaults
        /\ service' = "stopping"
    BY <1>12, FaultCount DEF Stop, SInv, IInv
  <2>2. NodeInv' /\ Monotone
    BY <2>1, NodeUnchanged DEF SInv, IInv
  <2>3. IInv'
    BY <2>1, <2>2, NodeMoves DEF SInv, IInv
  <2>4. PoolInv'
    BY <2>1, <2>3, PoolFrame DEF SInv, IInv, DbInv, nodeVars
  <2>5. \A c \in copies' : CopyOK(c)'
    BY <2>1, <2>2, CopyKept DEF SInv, ServiceInv, IInv
  <2> QED BY <2>1, <2>3, <2>4, <2>5 DEF SInv, ServiceInv, ServiceTypeOK, IInv, DbInv
<1> QED BY <1>1, <1>2, <1>3, <1>4, <1>5, <1>7, <1>8, <1>9, <1>10, <1>11, <1>12 DEF ServiceNext

LEMMA ServiceInvariant == ServiceSpec => []SInv
BY ServiceInitOK, ServiceStep, PTL DEF ServiceSpec

\* Types of the service, for any threads, batches, copies and faults.
THEOREM ServiceTypes == ServiceSpec => []ServiceTypeOK
<1>1. SInv => ServiceTypeOK
  BY DEF SInv, ServiceInv
<1> QED BY <1>1, ServiceInvariant, PTL

\* Through stops, kills, restarts and restores of any copy, an anchor row
\* names the transaction that anchored its batch.
THEOREM RestoredRowsAreTrue == ServiceSpec => []AnchorRowTrue
<1>1. SInv => AnchorRowTrue
  BY DEF SInv, IInv, DbInv
<1> QED BY <1>1, ServiceInvariant, PTL

\* "confirmed" has its row, in the live tables after any restore too.
THEOREM RestoredConfirmedRowsExist == ServiceSpec => []ConfirmedHasRow
<1>1. SInv => ConfirmedHasRow
  BY DEF SInv, IInv, DbInv
<1> QED BY <1>1, ServiceInvariant, PTL

\* A restart or a restore never makes the operator account send a second
\* transaction beside one in the pool, although it may forget the first.
THEOREM NeverTwoInFlightRestored == ServiceSpec => []OneInFlight
<1>1. SInv => OneInFlight
  BY DEF SInv, PoolInv
<1> QED BY <1>1, ServiceInvariant, PTL

\* No two copies of the database, nor a copy and the live one, record
\* different anchor transactions for a batch.
THEOREM AllCopiesAgree == ServiceSpec => []CopiesAgree
<1>1. SInv => CopiesAgree
  <2> SUFFICES ASSUME SInv, NEW c \in copies, NEW d \in copies \cup {Database}, NEW b \in BatchIds,
                      c.rows[b] # NoTx, d.rows[b] # NoTx
               PROVE  c.rows[b] = d.rows[b]
    BY DEF CopiesAgree
  <2>1. CopyOK(c) /\ CopyOK(d)
    BY LiveIsCopy DEF SInv, ServiceInv, IInv
  <2> QED BY <2>1, TrueCopiesAgree DEF SInv, IInv
<1> QED BY <1>1, ServiceInvariant, PTL

--------------------------------------------------------------------------
(* What a restart or a restore can cost. *)

\* Stops, kills and restores only make calls fewer.
LEMMA ServiceDup == SInv /\ DupInv /\ [ServiceNext]_svars => DupInv'
<1> SUFFICES ASSUME SInv, DupInv, [ServiceNext]_svars PROVE DupInv'
  OBVIOUS
<1>1. CASE [Next]_vars
  <2>1. TypeOK'
    BY <1>1, NextOK DEF SInv, IInv, DbInv
  <2> QED BY <1>1, <2>1, DupNext DEF SInv
<1>2. CASE UNCHANGED nodeVars /\ \A a \in Actors : call'[a] \in {call[a], Idle}
  <2>1. \A b \in BatchIds : Late(b)' \subseteq Late(b)
    BY <1>2 DEF Late, Idle
  <2> QED BY <1>2, <2>1, DupFrame DEF nodeVars
<1>3. CASE Kill
  BY <1>2, <1>3 DEF Kill
<1>4. CASE Stop \/ Restore
  BY <1>2, <1>4 DEF Stop, Restore, Replace
<1> QED BY <1>1, <1>3, <1>4
     DEF ServiceNext, Work, Next, Die, StartCycle, EndCycle, Exit, Start, Backup, svars

LEMMA ServiceDupInvariant == ServiceSpec => []DupInv
<1>1. ServiceInit => DupInv
  BY DupInit DEF ServiceInit
<1> QED BY <1>1, ServiceInvariant, ServiceDup, PTL DEF ServiceSpec

\* Whatever is restored or killed, a batch costs each thread at most one
\* reverted transaction; where the scheduler's thread is the only one, the
\* worst case is the one of docs/06-threat-model.md.
THEOREM OneThreadOneExtraRevert ==
    ASSUME Cardinality(Actors) = 1
    PROVE  ServiceSpec => []OneExtraRevert
<1>1. DupInv => OneExtraRevert
  BY DupBound DEF DuplicatesBounded, OneExtraRevert
<1> QED BY <1>1, ServiceDupInvariant, PTL

\* What one thread has read of the tables stays so until it broadcasts.
ReadStill ==
    \A a \in Actors :
        /\ call[a].pc \in {"readPending", "isAnchored", "getNonce", "send"} =>
                rows[call[a].batch] = NoTx
        /\ call[a].pc \in {"isAnchored", "getNonce", "send"} =>
                pending[call[a].batch].status # "submitted"

LEMMA ReadStillKept ==
    ASSUME ReadStill, rows' = rows, pending' = pending,
           \A a \in Actors :
              \/ call'[a] = call[a]
              \/ call'[a].pc \notin {"readPending", "isAnchored", "getNonce", "send"}
              \/ /\ call[a].pc \in {"isAnchored", "getNonce", "send"}
                 /\ call'[a].batch = call[a].batch
              \/ /\ call'[a].pc = "readPending"
                 /\ rows[call'[a].batch] = NoTx
              \/ /\ call[a].pc = "readPending"
                 /\ call'[a].batch = call[a].batch
                 /\ pending[call[a].batch].status # "submitted"
    PROVE  ReadStill'
BY DEF ReadStill

LEMMA ReadStillStep ==
    ASSUME SInv, ReadStill, Actors = {Scheduler}, Next
    PROVE  ReadStill'
<1> USE DEF dbVars
<1>1. call \in [Actors -> Calls]
  BY DEF SInv, IInv, DbInv, TypeOK
<1>2. CASE UNCHANGED <<rows, pending, call>>
  BY <1>2, ReadStillKept
<1>3. CASE Crash
  BY <1>3, ReadStillKept DEF Crash, Idle
<1>4. ASSUME NEW a \in Actors, call'[a].pc \notin {"readPending", "isAnchored", "getNonce", "send"}
      PROVE  ReadStill'
  BY <1>4 DEF ReadStill
<1>5. ASSUME NEW a \in Actors, End(a)
      PROVE  ReadStill'
  BY <1>1, <1>4, <1>5 DEF End, Idle
<1>6. ASSUME NEW a \in Actors, NEW pc, NEW t, Goto(a, pc) \/ GotoWith(a, pc, t),
             pc \notin {"readPending", "isAnchored", "getNonce", "send"}
      PROVE  ReadStill'
  BY <1>1, <1>4, <1>6 DEF Goto, GotoWith, Calls
<1>7. ASSUME NEW a \in Actors, NEW b \in BatchIds, Begin(a, b) PROVE ReadStill'
  BY <1>1, <1>7, ReadStillKept DEF Begin
<1>8. ASSUME NEW a \in Actors, ReadPending(a) PROVE ReadStill'
  <2>1. CASE pending[call[a].batch].status = "submitted"
    BY <1>6, <1>8, <2>1 DEF ReadPending
  <2>2. CASE pending[call[a].batch].status # "submitted"
    <3>1. Goto(a, "isAnchored") /\ UNCHANGED <<rows, pending>> /\ call[a].pc = "readPending"
      BY <1>8, <2>2 DEF ReadPending
    <3> QED BY <1>1, <2>2, <3>1, ReadStillKept DEF Goto, Calls
  <2> QED BY <2>1, <2>2
<1>9. ASSUME NEW a \in Actors, CheckChain(a) PROVE ReadStill'
  <2>1. PICK t : \/ Goto(a, "getNonce") /\ UNCHANGED <<rows, pending>> /\ call[a].pc = "isAnchored"
                 \/ End(a) \/ GotoWith(a, "store", t)
    BY <1>9 DEF CheckChain
  <2>2. CASE Goto(a, "getNonce") /\ UNCHANGED <<rows, pending>> /\ call[a].pc = "isAnchored"
    BY <1>1, <2>2, ReadStillKept DEF Goto, Calls
  <2> QED BY <1>5, <1>6, <2>1, <2>2
<1>10. ASSUME NEW a \in Actors, GetNonce(a) PROVE ReadStill'
  BY <1>1, <1>10, ReadStillKept DEF GetNonce, Calls
<1>11. ASSUME NEW a \in Actors, Send(a) \/ SendReplaces(a) \/ SendAnswerLost(a) PROVE ReadStill'
  <2>1. PICK t : GotoWith(a, "persist", t) \/ End(a)
    BY <1>11 DEF Send, SendReplaces, SendAnswerLost
  <2> QED BY <1>5, <1>6, <2>1
<1>12. ASSUME NEW a \in Actors, ReceiptOkZeroRead(a) PROVE ReadStill'
  BY <1>1, <1>4, <1>12 DEF ReceiptOkZeroRead, Calls
<1>13. ASSUME NEW a \in Actors,
              \/ SendRefused(a) \/ Persist(a)
              \/ ReceiptOk(a) \/ ReceiptReverted(a) \/ ReceiptTimeout(a)
              \/ MarkPending(a) \/ MarkFailed(a) \/ Store(a) \/ Confirm(a)
              \/ ReceiptError(a) \/ RpcFailure(a)
       PROVE  ReadStill'
  <2>1. PICK pc \in {"wait", "store", "markFailed", "markPending", "confirm"} : End(a) \/ Goto(a, pc)
    BY <1>13 DEF SendRefused, Persist, ReceiptOk, ReceiptReverted, ReceiptTimeout, MarkPending,
         MarkFailed, Store, Confirm, ReceiptError, RpcFailure
  <2> QED BY <1>5, <1>6, <2>1
<1> QED BY <1>2, <1>3, <1>7, <1>8, <1>9, <1>10, <1>11, <1>12, <1>13
     DEF Next, Step, Proceed, CreateBatch, Tamper, MineTx, EvictTx, ChangeOwner

\* A restore writes the tables only where no call has read them.
LEMMA ReadStillService ==
    ASSUME SInv, ReadStill, Actors = {Scheduler}, [ServiceNext]_svars
    PROVE  ReadStill'
<1>1. CASE Next
  BY <1>1, ReadStillStep
<1>2. CASE UNCHANGED <<rows, pending, call>>
  BY <1>2, ReadStillKept
<1>3. CASE Kill
  BY <1>3 DEF Kill, ReadStill, Idle
<1>4. CASE Restore
  <2>1. \A a \in Actors : call[a].pc = "idle" /\ call' = call
    BY <1>4 DEF Restore, Replace, SInv, ServiceInv
  <2> QED BY <2>1 DEF ReadStill
<1> QED BY <1>1, <1>2, <1>3, <1>4
     DEF ServiceNext, Work, Next, Die, StartCycle, EndCycle, Stop, Exit, Start, Backup, svars, vars, dbVars

\* A transaction enters the pool by the broadcast of a call for its batch.
LEMMA BroadcastByCall ==
    ASSUME SInv, [ServiceNext]_svars, NEW t \in Unused, txs'[t].status = "pending"
    PROVE  \E a \in Actors : call[a].pc = "send" /\ call[a].batch = txs'[t].batch
<1>1. t \in TxIds /\ txs[t].status = "unused"
  BY DEF Unused
<1>2. txs \in [TxIds -> [status : TxStatus, batch : AnchorKeys, payload : PayloadFields, nonce : Nat]]
  BY DEF SInv, IInv, NodeInv, NodeTypeOK
<1>3. CASE \E u \in TxIds : MineTx(u) \/ EvictTx(u)
  <2>1. PICK u \in TxIds : /\ txs[u].status = "pending"
                           /\ \E o : txs' = [txs EXCEPT ![u].status = o]
    BY <1>3 DEF MineTx, EvictTx, Mine, Evict, SlotOf, InPool
  <2> QED BY <1>1, <1>2, <2>1
<1>4. CASE \E a \in Actors : Send(a) \/ SendReplaces(a) \/ SendAnswerLost(a)
  <2>1. PICK a \in Actors, u \in NextTx :
            call[a].pc = "send" /\ Accept(u, call[a].batch, call[a].payload, call[a].nonce)
    BY <1>4 DEF Send, SendReplaces, SendAnswerLost
  <2>2. \A v \in TxIds : v # u => txs'[v].status \in {txs[v].status, "dropped"}
    BY <1>2, <2>1 DEF Accept
  <2>3. txs'[u].batch = call[a].batch
    BY <2>1 DEF Accept, NextTx, Unused
  <2> QED BY <1>1, <2>1, <2>2, <2>3
<1>5. CASE txs' = txs
  BY <1>1, <1>5
<1> QED BY <1>3, <1>4, <1>5
     DEF ServiceNext, Work, Step, Proceed, Die, Crash, StartCycle, EndCycle, Stop, Exit, Kill, Start,
         Backup, Restore, Replace, svars, vars, nodeVars, CreateBatch, Tamper, ChangeOwner, Handover,
         Begin, ReadPending, CheckChain, GetNonce, SendRefused, Persist, ReceiptOk, ReceiptReverted,
         ReceiptTimeout, MarkPending, MarkFailed, Store, Confirm, ReceiptOkZeroRead, ReceiptError,
         RpcFailure

\* Where the scheduler's thread is the only one, a batch that has a submitted
\* transaction or a row is not broadcast, through every crash, stop, restart
\* and restore of an older copy of the tables.
THEOREM OneThreadNeverRebroadcasts ==
    ASSUME Actors = {Scheduler}
    PROVE  ServiceSpec => NoRebroadcast
<1>1. ServiceInit => ReadStill
  BY DEF ServiceInit, Init, ReadStill, Idle
<1>2. SInv /\ ReadStill /\ [ServiceNext]_svars => ReadStill'
  BY ReadStillService
<1>3. SInv /\ ReadStill /\ [ServiceNext]_svars => [\A b \in BatchIds : ~Rebroadcast(b)]_vars
  <2> SUFFICES ASSUME SInv, ReadStill, [ServiceNext]_svars, NEW b \in BatchIds, Rebroadcast(b)
               PROVE  FALSE
    OBVIOUS
  <2>1. PICK t \in Unused : txs'[t].status = "pending" /\ txs'[t].batch = b
    BY DEF Rebroadcast
  <2>2. PICK a \in Actors : call[a].pc = "send" /\ call[a].batch = b
    BY <2>1, BroadcastByCall
  <2> QED BY <2>2 DEF ReadStill, Rebroadcast
<1> QED BY <1>1, <1>2, <1>3, ServiceInvariant, PTL DEF ServiceSpec, NoRebroadcast

============================================================================
