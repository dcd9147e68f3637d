------------------------------ MODULE LogScan ------------------------------
(***************************************************************************)
(* find_batch_anchored_log of backend/app/anchoring.py: the backward scan  *)
(* for the BatchAnchored event of a batch that _reconcile_onchain_anchor   *)
(* found anchored.  The scan asks a provider of limited range for one      *)
(* chunk of blocks after another and halves the chunk when it refuses,     *)
(* while new blocks, with other events, are mined.                         *)
(***************************************************************************)
EXTENDS VeriAgentAnchor

CONSTANTS
    FromBlock,  \* from_block; the only caller leaves it at 0
    ChunkSize,  \* chunk_size, 2000 in the code
    MinChunk,   \* the size below which a failure is final, 100 in the code
    Limit,      \* how many blocks the provider accepts in one query
    MaxBlock,   \* bound: height of the chain
    MaxRpc      \* bound: provider errors not due to the range

ASSUME ScanAssumption ==
    /\ FromBlock \in Nat
    /\ MinChunk \in Nat \ {0}
    /\ ChunkSize \in Nat /\ ChunkSize >= MinChunk
    /\ Limit \in Nat
    /\ MaxBlock \in Nat
    /\ MaxRpc \in Nat

VARIABLES
    head,       \* web3.eth.block_number
    blockOf,    \* the block of each transaction that emitted an event
    scan,       \* the local variables of the call
    rpcErrors   \* how many provider errors happened

vars == <<owner, anchors, logs, head, blockOf, scan, rpcErrors>>
chainVars == <<owner, anchors, logs, head, blockOf>>

Outcomes == {"found", "none", "multiple", "raised"}

NoMatches == [t \in TxIds |-> 0]

Scans == [pc : {"idle", "scan"} \cup Outcomes, batch : AnchorKeys, end : Nat,
          chunkEnd : Nat, chunk : Nat, matches : [TxIds -> Nat]]

ScanTypeOK ==
    /\ ContractTypeOK
    /\ head \in Nat
    /\ blockOf \in [TxIds -> Nat]
    /\ scan \in Scans
    /\ rpcErrors \in 0..MaxRpc

Init ==
    /\ ContractInit
    /\ head = 0
    /\ blockOf = [t \in TxIds |-> 0]
    /\ scan = [pc |-> "idle", batch |-> ZeroBatchId, end |-> 0,
               chunkEnd |-> 0, chunk |-> ChunkSize, matches |-> NoMatches]
    /\ rpcErrors = 0

--------------------------------------------------------------------------
(* The chain. *)

Emitters(L) == {l.tx : l \in L}

\* A block with a transaction to the contract; a block without one.
MineCall ==
    /\ head < MaxBlock
    /\ ContractNext
    /\ head' = head + 1
    /\ blockOf' = [t \in TxIds |-> IF t \in Emitters(logs') \ Emitters(logs)
                                   THEN head + 1 ELSE blockOf[t]]
    /\ UNCHANGED <<scan, rpcErrors>>

MineEmpty ==
    /\ head < MaxBlock
    /\ head' = head + 1
    /\ UNCHANGED <<contractVars, blockOf, scan, rpcErrors>>

\* eth_getLogs with the batch as indexed topic.
EventsIn(b, lo, hi) == {l \in LogsOf(b) : lo <= blockOf[l.tx] /\ blockOf[l.tx] <= hi}

--------------------------------------------------------------------------
(* The scan. *)

\* The contract holds the batch, and the scan begins at the present head.
BeginScan(b) ==
    /\ scan.pc = "idle"
    /\ IsAnchored(b)
    /\ scan' = [pc |-> IF head < FromBlock THEN "none" ELSE "scan", batch |-> b,
                end |-> head, chunkEnd |-> head, chunk |-> ChunkSize, matches |-> NoMatches]
    /\ UNCHANGED <<chainVars, rpcErrors>>

\* max(start, chunk_end - active_chunk + 1)
ChunkStart ==
    IF scan.chunkEnd + 1 < scan.chunk + FromBlock THEN FromBlock ELSE scan.chunkEnd + 1 - scan.chunk

ChunkLength == scan.chunkEnd + 1 - ChunkStart

\* len(matches) > 1
Several(m) == \E t \in TxIds : m[t] > 1 \/ \E u \in TxIds \ {t} : m[t] > 0 /\ m[u] > 0

\* matches.extend(events)
Extended == [t \in TxIds |-> scan.matches[t]
    + (IF t \in Emitters(EventsIn(scan.batch, ChunkStart, scan.chunkEnd)) THEN 1 ELSE 0)]

\* Mutated forms: the chunks overlap; they leave a gap.
NextScanOverlaps(m) == IF Several(m) THEN [scan EXCEPT !.pc = "multiple", !.matches = m]
    ELSE IF ChunkStart = FromBlock THEN [scan EXCEPT !.pc = IF m = NoMatches THEN "none" ELSE "found", !.matches = m]
    ELSE [scan EXCEPT !.chunkEnd = ChunkStart, !.matches = m]

NextScanGaps(m) == IF Several(m) THEN [scan EXCEPT !.pc = "multiple", !.matches = m]
    ELSE IF ChunkStart <= FromBlock + 1
         THEN [scan EXCEPT !.pc = IF m = NoMatches THEN "none" ELSE "found", !.matches = m]
    ELSE [scan EXCEPT !.chunkEnd = ChunkStart - 2, !.matches = m]

\* What a chunk that was answered leads to.
NextScan(m) ==
    IF Several(m) THEN [scan EXCEPT !.pc = "multiple", !.matches = m]
    ELSE IF ChunkStart = FromBlock
         THEN [scan EXCEPT !.pc = IF m = NoMatches THEN "none" ELSE "found", !.matches = m]
    ELSE [scan EXCEPT !.chunkEnd = ChunkStart - 1, !.matches = m]

GetLogs ==
    /\ scan.pc = "scan"
    /\ ChunkLength <= Limit
    /\ scan' = NextScan(Extended)
    /\ UNCHANGED <<chainVars, rpcErrors>>

\* Mutated forms: the chunk is not kept above the minimum; a failure at any
\* size is final.
ShrunkToNothing == [scan EXCEPT !.chunk = scan.chunk \div 2]
ShrunkNever == [scan EXCEPT !.pc = "raised"]

\* What a chunk that was refused leads to.
Shrunk ==
    IF scan.chunk <= MinChunk THEN [scan EXCEPT !.pc = "raised"]
    ELSE [scan EXCEPT !.chunk = IF scan.chunk \div 2 < MinChunk THEN MinChunk ELSE scan.chunk \div 2]

GetLogsRefused ==
    /\ scan.pc = "scan"
    /\ ChunkLength > Limit
    /\ scan' = Shrunk
    /\ UNCHANGED <<chainVars, rpcErrors>>

\* Any other error of the provider is treated the same way.
GetLogsError ==
    /\ scan.pc = "scan"
    /\ rpcErrors < MaxRpc
    /\ rpcErrors' = rpcErrors + 1
    /\ scan' = Shrunk
    /\ UNCHANGED chainVars

\* The caller has the result, or the exception.
Return ==
    /\ scan.pc \in Outcomes
    /\ scan' = [scan EXCEPT !.pc = "idle"]
    /\ UNCHANGED <<chainVars, rpcErrors>>

Next ==
    \/ MineCall \/ MineEmpty
    \/ \E b \in AnchorKeys : BeginScan(b)
    \/ GetLogs \/ GetLogsRefused \/ GetLogsError
    \/ Return

ScanSpec == Init /\ [][Next]_vars

\* The call goes on.
FairScanSpec == ScanSpec /\ WF_vars(GetLogs \/ GetLogsRefused)

--------------------------------------------------------------------------

\* The events of the scanned range [FromBlock, end], fixed when the scan began.
InRange == EventsIn(scan.batch, FromBlock, scan.end)

\* The scan's verdict is exactly what its range holds, however it was cut
\* into chunks: no block missed or read twice at an edge, nothing from blocks
\* mined meanwhile, and no event chosen among several.
ScanExact ==
    /\ scan.pc = "found" => \E l \in InRange :
            InRange = {l} /\ \A t \in TxIds : scan.matches[t] = IF t = l.tx THEN 1 ELSE 0
    /\ scan.pc = "none" => InRange = {}
    /\ scan.pc = "multiple" => \E l, k \in InRange : l # k

\* A reconciliation never fails for want of the event: it begins after
\* isAnchored said yes, and the scan from block 0 finds one event or the
\* provider fails.
FindsAnchored == scan.pc \notin {"none", "multiple"}

\* A scan gives up only because of the provider: its limit is below the
\* smallest chunk, or it failed for another reason.
RaisedByProvider == scan.pc = "raised" => Limit < MinChunk \/ rpcErrors > 0

\* Every scan ends: each step reads a chunk or halves it, down to the minimum.
ScanEnds == (scan.pc = "scan") ~> (scan.pc # "scan")

(* The loop invariant. *)

\* The events of the blocks above chunkEnd are in matches, each once, and
\* nothing else is; at most one was found so far.
ScanInv ==
    /\ scan.pc = "scan" =>
        /\ FromBlock <= scan.chunkEnd /\ scan.chunkEnd <= scan.end
        /\ MinChunk <= scan.chunk
        /\ ~Several(scan.matches)
        /\ \A t \in TxIds : scan.matches[t] =
             IF t \in Emitters(EventsIn(scan.batch, scan.chunkEnd + 1, scan.end)) THEN 1 ELSE 0
    /\ scan.pc # "idle" => scan.end <= head /\ IsAnchored(scan.batch)
        /\ \A l \in LogsOf(scan.batch) : blockOf[l.tx] <= scan.end
    /\ \A l \in logs : blockOf[l.tx] <= head
    /\ \A l, k \in logs : l.tx = k.tx => l = k

ScanIInv == ScanTypeOK /\ LogsMatchStorage /\ ScanInv /\ ScanExact

==========================================================================
