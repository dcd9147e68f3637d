--------------------------- MODULE LogScanProofs ---------------------------
(***************************************************************************)
(* The scan for the BatchAnchored event, for any chunk sizes, provider     *)
(* limit, chain and concurrent blocks: ScanInv says that what was read so  *)
(* far is exactly what the blocks above chunkEnd hold.                     *)
(***************************************************************************)
EXTENDS LogScan, VeriAgentAnchorProofs

\* A block mined under a scan changes nothing of a batch that is anchored.
LEMMA MineStep ==
    ASSUME ScanTypeOK, LogsMatchStorage, ScanInv, MineCall
    PROVE  /\ ScanTypeOK' /\ LogsMatchStorage'
           /\ \A b \in AnchorKeys : IsAnchored(b) => IsAnchored(b)' /\ LogsOf(b)' = LogsOf(b)
           /\ \A l \in logs : blockOf'[l.tx] = blockOf[l.tx]
           /\ \A l \in logs' : blockOf'[l.tx] <= head'
           /\ \A l, k \in logs' : l.tx = k.tx => l = k
<1> USE DEF MineCall
<1>1. ContractTypeOK' /\ LogsMatchStorage'
  BY ContractStep DEF ScanTypeOK
<1>2. ScanTypeOK'
  BY <1>1 DEF ScanTypeOK
<1>3. CASE \E s \in Accounts, n \in Accounts \cup {ZeroAddress} : TransferOwnership(s, n)
  <2>1. logs' = logs /\ anchors' = anchors
    BY <1>3 DEF TransferOwnership
  <2>2. blockOf' = blockOf
    BY <2>1 DEF ScanTypeOK
  <2> QED BY <1>1, <1>2, <2>1, <2>2
          DEF ScanInv, ScanTypeOK, ContractTypeOK, Log, IsAnchored, LogsOf
<1>4. CASE \E s \in Accounts, b \in AnchorKeys, p \in Payloads, t \in TxIds :
              (\A l \in logs : l.tx < t) /\ AnchorBatch(s, b, p, t)
  <2>1. PICK s \in Accounts, b \in AnchorKeys, p \in PayloadFields, t \in TxIds :
              (\A l \in logs : l.tx < t) /\ AnchorBatch(s, b, p, t)
    BY <1>4, AnchorAssumption
  <2>2. ~IsAnchored(b) /\ \A c \in AnchorKeys \ {b} : anchors'[c] = anchors[c] /\ LogsOf(c)' = LogsOf(c)
    BY <2>1, AnchorBatchStep DEF ScanTypeOK
  <2>3. \A l \in logs : l.tx \in TxIds /\ l.tx # t
    BY <2>1 DEF ScanTypeOK, ContractTypeOK, Log, TxIds
  <2>4. PICK k : k.tx = t /\ logs' = logs \cup {k}
    BY <2>1 DEF AnchorBatch
  <2>5. t \in Emitters(logs') /\ t \notin Emitters(logs)
    BY <2>3, <2>4 DEF Emitters
  <2>6. \A l \in logs : l.tx \in Emitters(logs)
    BY DEF Emitters
  <2>7. blockOf'[t] = head + 1 /\ \A l \in logs : blockOf'[l.tx] = blockOf[l.tx]
    BY <2>3, <2>5, <2>6
  <2>8. \A l \in logs' : blockOf'[l.tx] <= head'
    BY <2>3, <2>4, <2>7 DEF ScanInv, ScanTypeOK
  <2>9. \A l, m \in logs' : l.tx = m.tx => l = m
    BY <2>3, <2>4 DEF ScanInv
  <2> QED BY <1>1, <1>2, <2>2, <2>7, <2>8, <2>9 DEF IsAnchored
<1> QED BY <1>3, <1>4 DEF ContractNext

\* The blocks a chunk covers: it starts within the range, is not empty, and is
\* no longer than the chunk size.
LEMMA ChunkBounds ==
    ASSUME ScanTypeOK, ScanInv, scan.pc = "scan"
    PROVE  /\ ChunkStart \in Nat
           /\ FromBlock <= ChunkStart /\ ChunkStart <= scan.chunkEnd
           /\ ChunkLength <= scan.chunk
BY ScanAssumption DEF ScanTypeOK, Scans, ScanInv, ChunkStart, ChunkLength

\* After a chunk the matches are those of the blocks from its start on.
LEMMA ExtendedExact ==
    ASSUME ScanTypeOK, ScanInv, scan.pc = "scan", NEW t \in TxIds
    PROVE  Extended[t] = IF t \in Emitters(EventsIn(scan.batch, ChunkStart, scan.end)) THEN 1 ELSE 0
<1> DEFINE below == EventsIn(scan.batch, ChunkStart, scan.chunkEnd)
           above == EventsIn(scan.batch, scan.chunkEnd + 1, scan.end)
           all == EventsIn(scan.batch, ChunkStart, scan.end)
<1>1. ChunkStart \in Nat /\ ChunkStart <= scan.chunkEnd /\ scan.chunkEnd <= scan.end
      /\ scan.chunkEnd \in Nat /\ scan.end \in Nat
  BY ChunkBounds DEF ScanInv, ScanTypeOK, Scans
<1>2. \A l \in LogsOf(scan.batch) : blockOf[l.tx] \in Nat
  BY DEF ScanTypeOK, ContractTypeOK, Log, LogsOf
<1>3. \A l \in LogsOf(scan.batch) : l \in all <=> (l \in below \/ l \in above)
  BY <1>1, <1>2 DEF EventsIn
<1>4. all = below \cup above
  BY <1>3 DEF EventsIn
<1>5. \A l \in below, k \in above : l.tx # k.tx
  <2> SUFFICES ASSUME NEW l \in below, NEW k \in above, l.tx = k.tx PROVE FALSE
    OBVIOUS
  <2>1. blockOf[l.tx] <= scan.chunkEnd /\ scan.chunkEnd + 1 <= blockOf[k.tx] /\ l \in LogsOf(scan.batch)
    BY DEF EventsIn
  <2> QED BY <1>1, <1>2, <2>1
<1>6. t \in Emitters(all) <=> (t \in Emitters(below) \/ t \in Emitters(above))
  BY <1>4 DEF Emitters
<1>7. ~(t \in Emitters(below) /\ t \in Emitters(above))
  BY <1>5 DEF Emitters
<1>8. scan.matches[t] = IF t \in Emitters(above) THEN 1 ELSE 0
  BY DEF ScanInv
<1>9. Extended[t] = scan.matches[t] + (IF t \in Emitters(below) THEN 1 ELSE 0)
  BY DEF Extended
<1> QED BY <1>6, <1>7, <1>8, <1>9

\* What a scan has seen of its batch does not depend on blocks mined later.
LEMMA MineKeepsScan ==
    ASSUME ScanIInv, MineCall
    PROVE  ScanIInv'
<1>1. /\ ScanTypeOK' /\ LogsMatchStorage'
      /\ \A b \in AnchorKeys : IsAnchored(b) => IsAnchored(b)' /\ LogsOf(b)' = LogsOf(b)
      /\ \A l \in logs : blockOf'[l.tx] = blockOf[l.tx]
      /\ \A l \in logs' : blockOf'[l.tx] <= head'
      /\ \A l, k \in logs' : l.tx = k.tx => l = k
  BY MineStep DEF ScanIInv
<1>2. scan' = scan /\ head' = head + 1 /\ head \in Nat
  BY DEF MineCall, ScanIInv, ScanTypeOK
<1>3. CASE scan.pc = "idle"
  BY <1>1, <1>2, <1>3 DEF ScanIInv, ScanInv, ScanExact
<1>4. CASE scan.pc # "idle"
  <2>1. scan.batch \in AnchorKeys /\ scan.end \in Nat
    BY DEF ScanIInv, ScanTypeOK, Scans
  <2>2. IsAnchored(scan.batch) /\ IsAnchored(scan.batch)' /\ LogsOf(scan.batch)' = LogsOf(scan.batch)
    BY <1>1, <1>2, <1>4, <2>1 DEF ScanIInv, ScanInv, IsAnchored
  <2>3. \A l \in LogsOf(scan.batch) : l \in logs /\ blockOf'[l.tx] = blockOf[l.tx]
    BY <1>1 DEF LogsOf
  <2>4. LogsOf(scan.batch)' = {l \in LogsOf(scan.batch) : TRUE}
    BY <2>2
  <2>5. EventsIn(scan.batch, scan.chunkEnd + 1, scan.end)' = EventsIn(scan.batch, scan.chunkEnd + 1, scan.end)
    BY <1>2, <2>2, <2>3 DEF EventsIn
  <2>6. InRange' = InRange
    BY <1>2, <2>2, <2>3 DEF EventsIn, InRange
  <2>7. ScanExact'
    BY <1>2, <2>6 DEF ScanIInv, ScanExact
  <2>8. scan'.end <= head' /\ IsAnchored(scan.batch)'
    BY <1>2, <1>4, <2>1, <2>2 DEF ScanIInv, ScanInv
  <2>9. \A l \in LogsOf(scan.batch)' : blockOf'[l.tx] <= scan'.end
    BY <1>2, <1>4, <2>2, <2>3 DEF ScanIInv, ScanInv
  <2>10. scan.pc = "scan" =>
            /\ FromBlock <= scan.chunkEnd /\ scan.chunkEnd <= scan.end
            /\ MinChunk <= scan.chunk
            /\ ~Several(scan.matches)
            /\ \A t \in TxIds : scan.matches[t] =
                 IF t \in Emitters(EventsIn(scan.batch, scan.chunkEnd + 1, scan.end)') THEN 1 ELSE 0
    BY <2>5 DEF ScanIInv, ScanInv
  <2>11. ScanInv'
    BY <1>1, <1>2, <2>8, <2>9, <2>10 DEF ScanInv, Several, Emitters
  <2> QED BY <1>1, <2>7, <2>11 DEF ScanIInv
<1> QED BY <1>3, <1>4

\* A scan begins with nothing read and nothing above the head.
LEMMA BeginScanStep ==
    ASSUME ScanIInv, NEW b \in AnchorKeys, BeginScan(b)
    PROVE  ScanIInv'
<1> USE DEF BeginScan, chainVars
<1>1. ScanTypeOK' /\ LogsMatchStorage'
  BY ScanAssumption DEF ScanIInv, ScanTypeOK, ContractTypeOK, LogsMatchStorage, IsAnchored, LogsOf, Scans, NoMatches, Outcomes
<1>2. LogsOf(b)' = LogsOf(b) /\ LogsOf(b) \subseteq logs /\ IsAnchored(b)'
  BY DEF LogsOf, IsAnchored
<1>3. \A l \in logs : blockOf[l.tx] \in Nat /\ blockOf[l.tx] <= head /\ head \in Nat
  BY DEF ScanIInv, ScanInv, ScanTypeOK, ContractTypeOK, Log
<1>4. EventsIn(b, head + 1, head) = {}
  BY <1>2, <1>3 DEF EventsIn
<1>5. EventsIn(b, head + 1, head)' = EventsIn(b, head + 1, head)
  BY <1>2, <1>3 DEF EventsIn
<1>6. ~Several(NoMatches)
  BY DEF Several, NoMatches
<1>7. scan'.batch = b /\ scan'.end = head /\ scan'.chunkEnd = head /\ scan'.chunk = ChunkSize
      /\ scan'.matches = NoMatches /\ scan'.pc = IF head < FromBlock THEN "none" ELSE "scan"
  OBVIOUS
<1>8. ScanInv'
  <2>1. scan'.pc = "scan" =>
        /\ FromBlock <= scan'.chunkEnd /\ scan'.chunkEnd <= scan'.end
        /\ MinChunk <= scan'.chunk
        /\ ~Several(scan'.matches)
        /\ \A t \in TxIds : scan'.matches[t] =
             IF t \in Emitters(EventsIn(b, head + 1, head)') THEN 1 ELSE 0
    BY <1>3, <1>4, <1>5, <1>6, <1>7, ScanAssumption DEF Emitters, NoMatches, ScanIInv, ScanTypeOK
  <2>2. scan'.end <= head' /\ IsAnchored(scan.batch)'
        /\ \A l \in LogsOf(scan.batch)' : blockOf'[l.tx] <= scan'.end
    BY <1>2, <1>3, <1>7 DEF ScanIInv, ScanTypeOK, LogsOf
  <2> QED BY <1>7, <2>1, <2>2 DEF ScanIInv, ScanInv, Several, Emitters, EventsIn, LogsOf
<1>9. ScanExact'
  <2>1. scan'.pc # "found" /\ scan'.pc # "multiple"
    BY <1>7
  <2>2. scan'.pc = "none" => head < FromBlock
    BY <1>7
  <2>3. head < FromBlock => EventsIn(b, FromBlock, head)' = {}
    BY <1>2, <1>3, ScanAssumption DEF EventsIn
  <2> QED BY <1>7, <2>1, <2>2, <2>3 DEF ScanExact, InRange
<1> QED BY <1>1, <1>8, <1>9 DEF ScanIInv

\* The verdict: with everything from FromBlock on in the matches, their
\* number decides.  Two matches anywhere decide at once.
LEMMA VerdictExact ==
    ASSUME ScanIInv, scan.pc = "scan"
    PROVE  /\ Several(Extended) => \E l, k \in InRange : l # k
           /\ ChunkStart = FromBlock /\ Extended = NoMatches => InRange = {}
           /\ ChunkStart = FromBlock /\ Extended # NoMatches /\ ~Several(Extended) =>
                \E l \in InRange : InRange = {l} /\ \A t \in TxIds : Extended[t] = IF t = l.tx THEN 1 ELSE 0
<1> DEFINE seen == EventsIn(scan.batch, ChunkStart, scan.end)
<1>1. \A t \in TxIds : Extended[t] = IF t \in Emitters(seen) THEN 1 ELSE 0
  BY ExtendedExact DEF ScanIInv
<1>2. ChunkStart \in Nat /\ FromBlock <= ChunkStart
  BY ChunkBounds DEF ScanIInv
<1>3. \A l \in seen : l \in logs /\ l.tx \in TxIds /\ blockOf[l.tx] \in Nat
  BY DEF EventsIn, LogsOf, ScanIInv, ScanTypeOK, ContractTypeOK, Log
<1>4. seen \subseteq InRange
  BY <1>2, <1>3, ScanAssumption DEF EventsIn, InRange
<1>5. Several(Extended) => \E l, k \in InRange : l # k
  <2> SUFFICES ASSUME Several(Extended) PROVE \E l, k \in InRange : l # k
    OBVIOUS
  <2>1. PICK t \in TxIds, u \in TxIds : t # u /\ Extended[t] > 0 /\ Extended[u] > 0
    BY <1>1 DEF Several
  <2>2. t \in Emitters(seen) /\ u \in Emitters(seen)
    BY <1>1, <2>1
  <2>3. PICK l \in seen, k \in seen : l.tx = t /\ k.tx = u
    BY <2>2 DEF Emitters
  <2> QED BY <1>4, <2>1, <2>3
<1>6. ChunkStart = FromBlock => seen = InRange
  BY DEF InRange
<1>7. ASSUME ChunkStart = FromBlock, Extended = NoMatches PROVE InRange = {}
  <2>1. \A t \in TxIds : t \notin Emitters(seen)
    BY <1>1, <1>7 DEF NoMatches
  <2>2. \A l \in seen : FALSE
    BY <1>3, <2>1 DEF Emitters
  <2> QED BY <1>6, <1>7, <2>2
<1>8. ASSUME ChunkStart = FromBlock, Extended # NoMatches, ~Several(Extended)
      PROVE  \E l \in InRange : InRange = {l} /\ \A t \in TxIds : Extended[t] = IF t = l.tx THEN 1 ELSE 0
  <2>1. PICK t \in TxIds : Extended[t] # 0
    <3>1. Extended = [t \in TxIds |-> Extended[t]]
      BY DEF Extended
    <3> QED BY <1>8, <3>1 DEF NoMatches
  <2>2. t \in Emitters(seen)
    BY <1>1, <2>1
  <2>3. PICK l \in seen : l.tx = t
    BY <2>2 DEF Emitters
  <2>4. \A u \in TxIds : u \in Emitters(seen) => u = t
    BY <1>1, <1>8, <2>2 DEF Several
  <2>5. \A k \in seen : k = l
    <3> SUFFICES ASSUME NEW k \in seen PROVE k = l
      OBVIOUS
    <3>1. k.tx \in Emitters(seen)
      BY DEF Emitters
    <3>2. k.tx = l.tx
      BY <1>3, <2>3, <2>4, <3>1
    <3> QED BY <1>3, <3>2 DEF ScanIInv, ScanInv
  <2>6. \A u \in TxIds : Extended[u] = IF u = l.tx THEN 1 ELSE 0
    BY <1>1, <2>2, <2>3, <2>4
  <2> QED BY <1>6, <1>8, <2>5, <2>6
<1> QED BY <1>5, <1>7, <1>8

\* The parts of the invariant that only the chain and the scanned batch decide.
LEMMA ChainPart ==
    ASSUME ScanIInv, UNCHANGED chainVars, scan'.batch = scan.batch, scan'.end = scan.end,
           scan.pc # "idle"
    PROVE  /\ LogsMatchStorage' /\ ContractTypeOK' /\ head' \in Nat /\ blockOf' \in [TxIds -> Nat]
           /\ scan'.end <= head' /\ IsAnchored(scan.batch)'
           /\ \A l \in LogsOf(scan.batch)' : blockOf'[l.tx] <= scan'.end
           /\ \A l \in logs' : blockOf'[l.tx] <= head'
           /\ \A l, k \in logs' : l.tx = k.tx => l = k
           /\ InRange' = InRange
           /\ \A lo \in Nat : EventsIn(scan.batch, lo, scan.end)' = EventsIn(scan.batch, lo, scan.end)
<1> USE DEF chainVars
<1>1. LogsMatchStorage' /\ ContractTypeOK'
  BY DEF ScanIInv, ScanTypeOK, ContractTypeOK, LogsMatchStorage, IsAnchored, LogsOf
<1>2. InRange' = InRange
  BY DEF InRange, EventsIn, LogsOf
<1>3. scan'.end <= head' /\ IsAnchored(scan.batch)'
      /\ \A l \in LogsOf(scan.batch)' : blockOf'[l.tx] <= scan'.end
  BY DEF ScanIInv, ScanInv, IsAnchored, LogsOf
<1>4. (\A l \in logs' : blockOf'[l.tx] <= head') /\ (\A l, k \in logs' : l.tx = k.tx => l = k)
  BY DEF ScanIInv, ScanInv
<1>5. head' \in Nat /\ blockOf' \in [TxIds -> Nat]
  BY DEF ScanIInv, ScanTypeOK
<1>6. \A lo \in Nat : EventsIn(scan.batch, lo, scan.end)' = EventsIn(scan.batch, lo, scan.end)
  BY DEF EventsIn, LogsOf
<1> QED BY <1>1, <1>2, <1>3, <1>4, <1>5, <1>6

\* A chunk that is answered.
LEMMA GetLogsStep ==
    ASSUME ScanIInv, GetLogs
    PROVE  ScanIInv'
<1> USE DEF GetLogs
<1>1. scan.pc = "scan" /\ scan' = NextScan(Extended) /\ UNCHANGED <<chainVars, rpcErrors>>
  OBVIOUS
<1>2. scan \in Scans /\ scan.chunkEnd \in Nat
  BY DEF ScanIInv, ScanTypeOK, Scans
<1>3. ChunkStart \in Nat /\ FromBlock <= ChunkStart /\ ChunkStart <= scan.chunkEnd /\ FromBlock \in Nat
  BY <1>1, ChunkBounds, ScanAssumption DEF ScanIInv
<1>4. Extended \in [TxIds -> Nat]
  BY <1>2 DEF Extended, Scans
<1>5. scan'.batch = scan.batch /\ scan'.end = scan.end /\ scan'.matches = Extended
      /\ scan'.chunk = scan.chunk
  BY <1>1, <1>2 DEF NextScan, Scans
<1>6. /\ LogsMatchStorage' /\ ContractTypeOK' /\ head' \in Nat /\ blockOf' \in [TxIds -> Nat]
      /\ scan'.end <= head' /\ IsAnchored(scan.batch)'
      /\ \A l \in LogsOf(scan.batch)' : blockOf'[l.tx] <= scan'.end
      /\ \A l \in logs' : blockOf'[l.tx] <= head'
      /\ \A l, k \in logs' : l.tx = k.tx => l = k
      /\ InRange' = InRange
      /\ \A lo \in Nat : EventsIn(scan.batch, lo, scan.end)' = EventsIn(scan.batch, lo, scan.end)
  BY <1>1, <1>5, ChainPart
<1>7. ScanTypeOK'
  <2>1. scan' \in Scans
    <3>1. CASE ChunkStart = FromBlock \/ Several(Extended)
      BY <1>1, <1>2, <1>4, <3>1 DEF NextScan, Scans, Outcomes
    <3>2. CASE ChunkStart # FromBlock /\ ~Several(Extended)
      <4>1. ChunkStart - 1 \in Nat
        BY <1>3, <3>2
      <4>2. scan' = [scan EXCEPT !.chunkEnd = ChunkStart - 1, !.matches = Extended]
        BY <1>1, <3>2 DEF NextScan
      <4> QED BY <1>2, <1>4, <4>1, <4>2 DEF Scans
    <3> QED BY <3>1, <3>2
  <2>2. rpcErrors' \in 0..MaxRpc
    BY <1>1 DEF ScanIInv, ScanTypeOK
  <2> QED BY <1>6, <2>1, <2>2 DEF ScanTypeOK
<1>8. CASE Several(Extended)
  <2>1. scan'.pc = "multiple"
    BY <1>1, <1>2, <1>8 DEF NextScan, Scans
  <2>2. \E l, k \in InRange : l # k
    BY <1>1, <1>8, VerdictExact
  <2>3. ScanInv'
    BY <1>5, <1>6, <2>1 DEF ScanInv, IsAnchored, LogsOf
  <2>4. ScanExact'
    BY <1>6, <2>1, <2>2 DEF ScanExact
  <2> QED BY <1>6, <1>7, <2>3, <2>4 DEF ScanIInv
<1>9. CASE ~Several(Extended) /\ ChunkStart = FromBlock
  <2>1. scan'.pc = IF Extended = NoMatches THEN "none" ELSE "found"
    BY <1>1, <1>2, <1>9 DEF NextScan, Scans
  <2>2. ScanInv'
    BY <1>5, <1>6, <2>1 DEF ScanInv, IsAnchored, LogsOf
  <2>3. ScanExact'
    BY <1>1, <1>5, <1>6, <1>9, <2>1, VerdictExact DEF ScanExact
  <2> QED BY <1>6, <1>7, <2>2, <2>3 DEF ScanIInv
<1>10. CASE ~Several(Extended) /\ ChunkStart # FromBlock
  <2>1. scan'.pc = "scan" /\ scan'.chunkEnd = ChunkStart - 1
    BY <1>1, <1>2, <1>10 DEF NextScan, Scans
  <2>2. ChunkStart - 1 + 1 = ChunkStart /\ FromBlock <= ChunkStart - 1 /\ ChunkStart - 1 <= scan.chunkEnd
    BY <1>2, <1>3, <1>10
  <2>3. \A t \in TxIds : Extended[t] =
            IF t \in Emitters(EventsIn(scan.batch, ChunkStart, scan.end)) THEN 1 ELSE 0
    BY <1>1, ExtendedExact DEF ScanIInv
  <2>4. PICK lo \in Nat : lo = ChunkStart
    BY <1>3
  <2>5. EventsIn(scan.batch, lo, scan.end)' = EventsIn(scan.batch, ChunkStart, scan.end)
    BY <1>6, <2>4
  <2>6. scan'.chunkEnd + 1 = lo /\ FromBlock <= scan'.chunkEnd /\ scan'.chunkEnd <= scan'.end
    BY <1>1, <1>2, <1>3, <1>5, <2>1, <2>2, <2>4 DEF ScanIInv, ScanInv, Scans
  <2>7. \A t \in TxIds : scan'.matches[t] =
            IF t \in Emitters(EventsIn(scan.batch, scan.chunkEnd + 1, scan.end)') THEN 1 ELSE 0
    BY <1>5, <2>3, <2>5, <2>6
  <2>8. ScanInv'
    BY <1>1, <1>5, <1>6, <1>10, <2>6, <2>7 DEF ScanIInv, ScanInv, Several, Emitters, IsAnchored, LogsOf
  <2>9. ScanExact'
    BY <2>1 DEF ScanExact
  <2> QED BY <1>6, <1>7, <2>8, <2>9 DEF ScanIInv
<1> QED BY <1>8, <1>9, <1>10

\* A chunk that fails: the same blocks are left to read.  It only raises at
\* the minimum size.
LEMMA ShrinkStep ==
    ASSUME ScanIInv, scan.pc = "scan", scan' = Shrunk, UNCHANGED chainVars, rpcErrors' \in 0..MaxRpc
    PROVE  ScanIInv' /\ (scan'.pc = "raised" => scan.chunk <= MinChunk)
<1>1. scan \in Scans /\ scan.chunk \in Nat /\ MinChunk \in Nat
  BY ScanAssumption DEF ScanIInv, ScanTypeOK, Scans
<1>2. scan'.batch = scan.batch /\ scan'.end = scan.end /\ scan'.matches = scan.matches
      /\ scan'.chunkEnd = scan.chunkEnd
  BY <1>1 DEF Shrunk, Scans
<1>3. scan'.pc \in {"scan", "raised"} /\ (scan'.pc = "raised" => scan.chunk <= MinChunk)
  BY <1>1 DEF Shrunk, Scans
<1>4. scan' \in Scans
  <2>1. CASE scan.chunk <= MinChunk
    BY <1>1, <2>1 DEF Shrunk, Scans, Outcomes
  <2>2. CASE ~(scan.chunk <= MinChunk)
    <3> DEFINE half == IF scan.chunk \div 2 < MinChunk THEN MinChunk ELSE scan.chunk \div 2
    <3>1. half \in Nat
      BY <1>1
    <3>2. scan' = [scan EXCEPT !.chunk = half]
      BY <2>2 DEF Shrunk
    <3> QED BY <1>1, <3>1, <3>2 DEF Scans
  <2> QED BY <2>1, <2>2
<1>5. scan'.pc = "scan" => MinChunk <= scan'.chunk
  BY <1>1 DEF Shrunk, Scans
<1>6. /\ LogsMatchStorage' /\ ContractTypeOK' /\ head' \in Nat /\ blockOf' \in [TxIds -> Nat]
      /\ scan'.end <= head' /\ IsAnchored(scan.batch)'
      /\ \A l \in LogsOf(scan.batch)' : blockOf'[l.tx] <= scan'.end
      /\ \A l \in logs' : blockOf'[l.tx] <= head'
      /\ \A l, k \in logs' : l.tx = k.tx => l = k
  BY <1>2, ChainPart
<1>7. ScanTypeOK'
  BY <1>4, <1>6 DEF ScanTypeOK
<1>8. EventsIn(scan.batch, scan.chunkEnd + 1, scan.end)' = EventsIn(scan.batch, scan.chunkEnd + 1, scan.end)
  BY <1>2 DEF EventsIn, LogsOf, chainVars
<1>9. ScanInv'
  BY <1>2, <1>5, <1>6, <1>8 DEF ScanIInv, ScanInv, Several, Emitters, IsAnchored, LogsOf
<1>10. ScanExact'
  BY <1>3 DEF ScanExact
<1> QED BY <1>3, <1>6, <1>7, <1>9, <1>10 DEF ScanIInv

\* Nothing read and nothing mined at the start.
LEMMA ScanInitOK == Init => ScanIInv
<1> SUFFICES ASSUME Init PROVE ScanIInv
  OBVIOUS
<1>1. ContractTypeOK /\ LogsMatchStorage /\ logs = {}
  BY ContractInitOK DEF Init, ContractInit
<1>2. ScanTypeOK
  BY <1>1, ScanAssumption DEF Init, ScanTypeOK, Scans, NoMatches, AnchorKeys
<1>3. ScanInv /\ ScanExact
  BY <1>1 DEF Init, ScanInv, ScanExact
<1> QED BY <1>1, <1>2, <1>3 DEF ScanIInv

\* Every step of the scan and of the chain keeps the invariant.
LEMMA ScanStep == ScanIInv /\ [Next]_vars => ScanIInv'
<1> SUFFICES ASSUME ScanIInv, [Next]_vars PROVE ScanIInv'
  OBVIOUS
<1>1. CASE MineCall
  BY <1>1, MineKeepsScan
<1>2. CASE MineEmpty
  <2>1. UNCHANGED <<owner, anchors, logs, blockOf, scan, rpcErrors>> /\ head' = head + 1
    BY <1>2 DEF MineEmpty, contractVars
  <2>2. ScanTypeOK' /\ LogsMatchStorage' /\ ScanExact'
    BY <2>1 DEF ScanIInv, ScanTypeOK, ScanExact, ContractTypeOK, LogsMatchStorage,
                IsAnchored, LogsOf, EventsIn, InRange
  <2>3. /\ \A l \in logs : blockOf[l.tx] <= head + 1
        /\ scan.pc # "idle" => scan.end <= head + 1
    <3>1. head \in Nat /\ scan.end \in Nat /\ \A l \in logs : blockOf[l.tx] \in Nat
      BY DEF ScanIInv, ScanTypeOK, ContractTypeOK, Log, Scans
    <3> QED BY <3>1 DEF ScanIInv, ScanInv
  <2>4. ScanInv'
    BY <2>1, <2>3 DEF ScanIInv, ScanInv, IsAnchored, LogsOf, EventsIn, Several, Emitters
  <2> QED BY <2>2, <2>4 DEF ScanIInv
<1>3. CASE \E b \in AnchorKeys : BeginScan(b)
  BY <1>3, BeginScanStep
<1>4. CASE GetLogs
  BY <1>4, GetLogsStep
<1>5. CASE GetLogsRefused
  BY <1>5, ShrinkStep DEF GetLogsRefused, ScanIInv, ScanTypeOK
<1>6. CASE GetLogsError
  BY <1>6, ShrinkStep, ScanAssumption DEF GetLogsError, ScanIInv, ScanTypeOK
<1>7. CASE Return
  BY <1>7 DEF Return, chainVars, ScanIInv, ScanTypeOK, ScanInv, ScanExact, ContractTypeOK,
              LogsMatchStorage, IsAnchored, LogsOf, Scans, Outcomes
<1>8. CASE UNCHANGED vars
  BY <1>8 DEF vars, ScanIInv, ScanTypeOK, ScanInv, ScanExact, ContractTypeOK,
              LogsMatchStorage, IsAnchored, LogsOf, EventsIn, InRange, Several, Emitters
<1> QED BY <1>1, <1>2, <1>3, <1>4, <1>5, <1>6, <1>7, <1>8 DEF Next

LEMMA ScanInvariant == ScanSpec => []ScanIInv
BY ScanInitOK, ScanStep, PTL DEF ScanSpec

\* find_batch_anchored_log: the types of a scan and its chain.
THEOREM ScanTypes == ScanSpec => []ScanTypeOK
BY ScanInvariant, PTL DEF ScanIInv

\* find_batch_anchored_log returns the one event of its range, or none, or
\* refuses several, exactly as the range has them, for every chunk size,
\* provider limit and pattern of errors, while the chain grows.
THEOREM ScansAreExact == ScanSpec => []ScanExact
BY ScanInvariant, PTL DEF ScanIInv

\* Reconciling a batch the contract holds, from block 0, never fails for want
\* of its event or because there are several.
THEOREM ReconciliationFinds == FromBlock = 0 => (ScanSpec => []FindsAnchored)
<1> SUFFICES ASSUME FromBlock = 0 PROVE ScanSpec => []FindsAnchored
  OBVIOUS
<1>1. ScanIInv => FindsAnchored
  <2> SUFFICES ASSUME ScanIInv, scan.pc \in {"none", "multiple"} PROVE FALSE
    BY DEF FindsAnchored
  <2>1. scan.batch \in AnchorKeys /\ IsAnchored(scan.batch)
    BY DEF ScanIInv, ScanInv, ScanTypeOK, Scans
  <2>2. PICK l \in logs : LogsOf(scan.batch) = {l}
    BY <2>1 DEF ScanIInv, LogsMatchStorage
  <2>3. blockOf[l.tx] \in Nat /\ blockOf[l.tx] <= scan.end
    BY <2>1, <2>2 DEF ScanIInv, ScanInv, ScanTypeOK, ContractTypeOK, Log
  <2>4. InRange = {l}
    BY <2>2, <2>3 DEF InRange, EventsIn
  <2> QED BY <2>4 DEF ScanIInv, ScanExact
<1> QED BY <1>1, ScanInvariant, PTL

\* Without an error of the provider, and with a limit no smaller than the
\* smallest chunk, a scan never gives up.
THEOREM RaisedOnlyByProvider == ScanSpec => []RaisedByProvider
<1>1. Init => RaisedByProvider
  BY DEF Init, RaisedByProvider
<1>2. ScanIInv /\ RaisedByProvider /\ [Next]_vars => RaisedByProvider'
  <2> SUFFICES ASSUME ScanIInv, RaisedByProvider, Next PROVE RaisedByProvider'
    BY DEF RaisedByProvider, vars
  <2>1. rpcErrors \in Nat /\ scan \in Scans
    BY ScanAssumption DEF ScanIInv, ScanTypeOK
  <2>2. CASE MineCall \/ MineEmpty
    BY <2>2 DEF MineCall, MineEmpty, RaisedByProvider
  <2>3. CASE (\E b \in AnchorKeys : BeginScan(b)) \/ Return
    BY <2>1, <2>3 DEF BeginScan, Return, RaisedByProvider, Scans
  <2>4. CASE GetLogs
    BY <2>1, <2>4 DEF GetLogs, NextScan, RaisedByProvider, Scans
  <2>5. CASE GetLogsRefused
    <3>1. scan'.pc = "raised" => scan.chunk <= MinChunk
      BY <2>5, ShrinkStep DEF GetLogsRefused, ScanIInv, ScanTypeOK
    <3>2. ChunkLength <= scan.chunk /\ ChunkLength > Limit /\ ChunkStart \in Nat
      BY <2>5, ChunkBounds DEF GetLogsRefused, ScanIInv
    <3>3. scan.chunkEnd \in Nat /\ scan.chunk \in Nat
      BY <2>1 DEF Scans
    <3> QED BY <2>5, <3>1, <3>2, <3>3, ScanAssumption DEF RaisedByProvider, ChunkLength
  <2>6. CASE GetLogsError
    BY <2>1, <2>6 DEF GetLogsError, RaisedByProvider
  <2> QED BY <2>2, <2>3, <2>4, <2>5, <2>6 DEF Next
<1> QED BY <1>1, <1>2, ScanInvariant, PTL DEF ScanSpec

============================================================================
