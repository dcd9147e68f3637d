------------------------- MODULE VeriAgentAnchor -------------------------
(***************************************************************************)
(* The anchor contract, contracts/src/VeriAgentAnchor.sol: an owner, a     *)
(* mapping from batch identifiers to commitments, and the BatchAnchored    *)
(* events that the backend later reads as logs.  A hash is a number and 0  *)
(* is the zero word.                                                       *)
(***************************************************************************)
EXTENDS Naturals, FiniteSets

CONSTANTS
    Accounts,       \* addresses that may send transactions
    ZeroAddress,    \* address(0)
    BatchIds,       \* keccak256 keys of batches
    ZeroBatchId,    \* bytes32(0)
    Payloads,       \* what an anchorBatch call commits to
    MaxTx           \* bound: transactions that can exist

PayloadFields == [merkleRoot : Nat, eventCount : Nat, metadataHash : Nat]

ASSUME AnchorAssumption ==
    /\ ZeroAddress \notin Accounts
    /\ ZeroBatchId \notin BatchIds
    /\ Payloads \subseteq PayloadFields
    /\ MaxTx \in Nat

VARIABLES
    owner,      \* address public owner
    anchors,    \* mapping(bytes32 => BatchAnchor) private anchors
    logs        \* the BatchAnchored events, each with the transaction it is from

contractVars == <<owner, anchors, logs>>

TxIds == 1..MaxTx

\* The value Solidity reads for a key never written.
ZeroAnchor == [merkleRoot |-> 0, eventCount |-> 0, metadataHash |-> 0,
               anchoredAt |-> 0, anchoredBy |-> ZeroAddress]

AnchorKeys == BatchIds \cup {ZeroBatchId}

BatchAnchor == [merkleRoot : Nat, eventCount : Nat, metadataHash : Nat,
                anchoredAt : {0, 1}, anchoredBy : Accounts \cup {ZeroAddress}]

Log == [batch : AnchorKeys, merkleRoot : Nat, eventCount : Nat, by : Accounts, tx : TxIds]

ContractTypeOK ==
    /\ owner \in Accounts
    /\ anchors \in [AnchorKeys -> BatchAnchor]
    /\ logs \subseteq Log

ContractInit ==
    /\ owner \in Accounts
    /\ anchors = [b \in AnchorKeys |-> ZeroAnchor]
    /\ logs = {}

\* isAnchored
IsAnchored(b) == anchors[b].anchoredAt # 0

LogsOf(b) == {l \in logs : l.batch = b}

\* Mutated form: no BatchAlreadyAnchored check.
AnchorOutcomeOverwrites(sender, b, p) ==
    IF sender # owner THEN "NotOwner"
    ELSE IF b = ZeroBatchId \/ 0 \in {p.merkleRoot, p.metadataHash, p.eventCount}
         THEN "Invalid" ELSE "ok"

\* The first require that fails, in the order of the source; "ok" if none does.
AnchorOutcome(sender, b, p) ==
    IF sender # owner       THEN "NotOwner"             ELSE
    IF b = ZeroBatchId      THEN "InvalidBatchId"       ELSE
    IF p.merkleRoot = 0     THEN "InvalidMerkleRoot"    ELSE
    IF p.metadataHash = 0   THEN "InvalidMetadataHash"  ELSE
    IF p.eventCount = 0     THEN "InvalidEventCount"    ELSE
    IF IsAnchored(b)        THEN "BatchAlreadyAnchored" ELSE "ok"

\* Mutated form: no zero-address check.
TransferOwnershipUnchecked(sender, newOwner) ==
    sender = owner /\ owner' = newOwner /\ UNCHANGED <<anchors, logs>>

TransferOwnership(sender, newOwner) ==
    /\ sender = owner
    /\ newOwner # ZeroAddress
    /\ owner' = newOwner
    /\ UNCHANGED <<anchors, logs>>

\* A call that reverts leaves the contract as it is.  block.timestamp is
\* some nonzero time, written 1.
AnchorBatch(sender, b, p, tx) ==
    /\ AnchorOutcome(sender, b, p) = "ok"
    /\ anchors' = [anchors EXCEPT ![b] =
            [merkleRoot |-> p.merkleRoot, eventCount |-> p.eventCount,
             metadataHash |-> p.metadataHash, anchoredAt |-> 1, anchoredBy |-> sender]]
    /\ logs' = logs \cup {[batch |-> b, merkleRoot |-> p.merkleRoot,
                           eventCount |-> p.eventCount, by |-> sender, tx |-> tx]}
    /\ UNCHANGED owner

ContractNext ==
    \/ \E s \in Accounts, n \in Accounts \cup {ZeroAddress} : TransferOwnership(s, n)
    \/ \E s \in Accounts, b \in AnchorKeys, p \in Payloads, t \in TxIds :
            /\ \A l \in logs : l.tx < t
            /\ AnchorBatch(s, b, p, t)

ContractSpec == ContractInit /\ [][ContractNext]_contractVars

--------------------------------------------------------------------------
(* What the backend relies on. *)

\* The storage and the events agree: a batch is anchored exactly when one
\* BatchAnchored event was ever emitted for it, and that event carries the
\* stored commitment.  find_batch_anchored_log refuses any other count.
LogsMatchStorage ==
    \A b \in AnchorKeys :
        IF IsAnchored(b)
        THEN \E l \in logs :
                /\ LogsOf(b) = {l}
                /\ l.merkleRoot = anchors[b].merkleRoot
                /\ l.eventCount = anchors[b].eventCount
                /\ l.by = anchors[b].anchoredBy
        ELSE LogsOf(b) = {}

\* A commitment is written once: whoever owns the contract later, no call
\* changes an anchored batch (BatchAlreadyAnchored).
WriteOnce == [][\A b \in AnchorKeys : IsAnchored(b) => anchors'[b] = anchors[b]]_contractVars

==========================================================================
