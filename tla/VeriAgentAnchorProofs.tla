---------------------- MODULE VeriAgentAnchorProofs ----------------------
(***************************************************************************)
(* Proofs about the contract, for any accounts, batches and payloads.      *)
(***************************************************************************)
EXTENDS VeriAgentAnchor, TLAPS

\* One successful anchorBatch keeps types and the agreement of storage and
\* events, and leaves every other batch alone; it only succeeds on a batch
\* that is not anchored.
LEMMA AnchorBatchStep ==
    ASSUME ContractTypeOK, LogsMatchStorage,
           NEW s \in Accounts, NEW b \in AnchorKeys, NEW p \in PayloadFields, NEW t \in TxIds,
           AnchorBatch(s, b, p, t)
    PROVE  /\ ContractTypeOK'
           /\ LogsMatchStorage'
           /\ ~IsAnchored(b)
           /\ LogsOf(b)' = {[batch |-> b, merkleRoot |-> p.merkleRoot,
                             eventCount |-> p.eventCount, by |-> s, tx |-> t]}
           /\ \A c \in AnchorKeys \ {b} :
                anchors'[c] = anchors[c] /\ LogsOf(c)' = LogsOf(c)
<1> DEFINE log == [batch |-> b, merkleRoot |-> p.merkleRoot,
                   eventCount |-> p.eventCount, by |-> s, tx |-> t]
           anchor == [merkleRoot |-> p.merkleRoot, eventCount |-> p.eventCount,
                      metadataHash |-> p.metadataHash, anchoredAt |-> 1, anchoredBy |-> s]
<1>1. anchors' = [anchors EXCEPT ![b] = anchor] /\ logs' = logs \cup {log} /\ owner' = owner
  BY DEF AnchorBatch
<1>2. ~IsAnchored(b)
  BY DEF AnchorBatch, AnchorOutcome
<1>3. log \in Log /\ anchor \in BatchAnchor
  BY DEF Log, BatchAnchor, PayloadFields
<1>4. ContractTypeOK'
  BY <1>1, <1>3 DEF ContractTypeOK
<1>5. LogsOf(b) = {}
  BY <1>2 DEF LogsMatchStorage
<1>6. LogsOf(b)' = {log}
  BY <1>1, <1>5 DEF LogsOf
<1>7. anchors'[b] = anchor
  BY <1>1 DEF ContractTypeOK
<1>8. \A c \in AnchorKeys \ {b} : anchors'[c] = anchors[c] /\ LogsOf(c)' = LogsOf(c)
  BY <1>1 DEF ContractTypeOK, LogsOf
<1>9. LogsMatchStorage'
  <2> SUFFICES ASSUME NEW c \in AnchorKeys
               PROVE  IF IsAnchored(c)'
                      THEN \E l \in logs' :
                              /\ LogsOf(c)' = {l}
                              /\ l.merkleRoot = anchors'[c].merkleRoot
                              /\ l.eventCount = anchors'[c].eventCount
                              /\ l.by = anchors'[c].anchoredBy
                      ELSE LogsOf(c)' = {}
    BY DEF LogsMatchStorage
  <2>1. CASE c = b
    <3>1. log \in logs'
      BY <1>1
    <3>2. anchor.anchoredAt = 1
      OBVIOUS
    <3>3. IsAnchored(c)'
      BY <1>7, <3>2, <2>1 DEF IsAnchored
    <3> QED BY <1>6, <1>7, <2>1, <3>1, <3>3
  <2>2. CASE c # b
    BY <1>1, <1>8, <2>2 DEF LogsMatchStorage, IsAnchored
  <2> QED BY <2>1, <2>2
<1> QED BY <1>2, <1>4, <1>6, <1>8, <1>9

\* Types and the agreement of storage and events hold at deployment.
LEMMA ContractInitOK == ContractInit => ContractTypeOK /\ LogsMatchStorage
<1> SUFFICES ASSUME ContractInit PROVE ContractTypeOK /\ LogsMatchStorage
  OBVIOUS
<1>1. ZeroAnchor \in BatchAnchor /\ ZeroAnchor.anchoredAt = 0
  BY DEF ZeroAnchor, BatchAnchor
<1>2. ContractTypeOK
  BY <1>1 DEF ContractInit, ContractTypeOK
<1>3. LogsMatchStorage
  BY <1>1 DEF ContractInit, LogsMatchStorage, IsAnchored, LogsOf
<1> QED BY <1>2, <1>3

\* A handover changes neither storage nor events.
LEMMA TransferStep ==
    ASSUME ContractTypeOK, LogsMatchStorage,
           NEW s \in Accounts, NEW n \in Accounts \cup {ZeroAddress}, TransferOwnership(s, n)
    PROVE  ContractTypeOK' /\ LogsMatchStorage'
<1>1. ContractTypeOK'
  BY DEF TransferOwnership, ContractTypeOK
<1>2. LogsMatchStorage'
  BY DEF TransferOwnership, LogsMatchStorage, IsAnchored, LogsOf
<1> QED BY <1>1, <1>2

\* The step lemma of the contract's own specification.
LEMMA ContractStep ==
    ContractTypeOK /\ LogsMatchStorage /\ [ContractNext]_contractVars
        => ContractTypeOK' /\ LogsMatchStorage'
<1> SUFFICES ASSUME ContractTypeOK, LogsMatchStorage, [ContractNext]_contractVars
             PROVE  ContractTypeOK' /\ LogsMatchStorage'
  OBVIOUS
<1>1. CASE \E s \in Accounts, n \in Accounts \cup {ZeroAddress} : TransferOwnership(s, n)
  BY <1>1, TransferStep
<1>2. CASE \E s \in Accounts, b \in AnchorKeys, p \in Payloads, t \in TxIds : AnchorBatch(s, b, p, t)
  BY <1>2, AnchorBatchStep, AnchorAssumption
<1>3. CASE UNCHANGED contractVars
  BY <1>3 DEF contractVars, ContractTypeOK, LogsMatchStorage, IsAnchored, LogsOf
<1> QED BY <1>1, <1>2, <1>3 DEF ContractNext

\* VeriAgentAnchor.sol keeps its storage and its events in agreement: an
\* anchored batch has exactly one BatchAnchored event, with its commitment.
THEOREM StorageMatchesLogs == ContractSpec => [](ContractTypeOK /\ LogsMatchStorage)
<1>1. ContractInit => ContractTypeOK /\ LogsMatchStorage
  BY ContractInitOK
<1>2. ContractTypeOK /\ LogsMatchStorage /\ [ContractNext]_contractVars
        => (ContractTypeOK /\ LogsMatchStorage)'
  BY ContractStep
<1> QED BY <1>1, <1>2, PTL DEF ContractSpec

\* No call of anchorBatch or transferOwnership changes an anchored batch.
THEOREM AnchorsWrittenOnce == ContractSpec => WriteOnce
<1>1. ContractTypeOK /\ LogsMatchStorage /\ [ContractNext]_contractVars
        => [\A b \in AnchorKeys : IsAnchored(b) => anchors'[b] = anchors[b]]_contractVars
  <2> SUFFICES ASSUME ContractTypeOK, LogsMatchStorage, ContractNext,
                      NEW c \in AnchorKeys, IsAnchored(c)
               PROVE  anchors'[c] = anchors[c]
    OBVIOUS
  <2>1. CASE \E s \in Accounts, n \in Accounts \cup {ZeroAddress} : TransferOwnership(s, n)
    BY <2>1 DEF TransferOwnership
  <2>2. CASE \E s \in Accounts, b \in AnchorKeys, p \in Payloads, t \in TxIds : AnchorBatch(s, b, p, t)
    BY <2>2, AnchorBatchStep, AnchorAssumption
  <2> QED BY <2>1, <2>2 DEF ContractNext
<1> QED BY <1>1, StorageMatchesLogs, PTL DEF ContractSpec, WriteOnce

==========================================================================
