---------------------------- MODULE ChainNode ----------------------------
(***************************************************************************)
(* The blockchain node behind VERIAGENT_RPC_URL, as backend/app/anchoring  *)
(* uses it: a transaction pool with one slot per nonce, the operator       *)
(* account's confirmed transaction count, and the contract the             *)
(* transactions call.  The node itself is not in the repository.           *)
(***************************************************************************)
EXTENDS VeriAgentAnchor

CONSTANT Operator   \* the account of VERIAGENT_ANCHOR_PRIVATE_KEY

ASSUME NodeAssumption == Operator \in Accounts

VARIABLES
    txs,    \* every transaction ever signed by Operator, by number
    nonce   \* get_transaction_count(Operator) at "latest"

nodeVars == <<owner, anchors, logs, txs, nonce>>

NoTx == 0
ZeroPayload == [merkleRoot |-> 0, eventCount |-> 0, metadataHash |-> 0]

UnusedTx == [status |-> "unused", batch |-> ZeroBatchId, payload |-> ZeroPayload, nonce |-> 0]

Reverted == {"NotOwner", "BatchAlreadyAnchored", "InvalidBatchId",
             "InvalidMerkleRoot", "InvalidMetadataHash", "InvalidEventCount"}
TxStatus == {"unused", "pending", "ok", "dropped"} \cup Reverted

NodeTypeOK ==
    /\ ContractTypeOK
    /\ txs \in [TxIds -> [status : TxStatus, batch : AnchorKeys,
                          payload : PayloadFields, nonce : Nat]]
    /\ nonce \in Nat

NodeInit ==
    /\ ContractInit
    /\ owner = Operator
    /\ txs = [t \in TxIds |-> UnusedTx]
    /\ nonce = 0

Unused == {t \in TxIds : txs[t].status = "unused"}
InPool == {t \in TxIds : txs[t].status = "pending"}
SlotOf(n) == {t \in InPool : txs[t].nonce = n}

NextTx == {t \in Unused : \A u \in Unused : t <= u}

\* The pool takes a transaction whose nonce is not below the account's and
\* whose slot is free.
CanAccept(n) == n >= nonce /\ SlotOf(n) = {} /\ Unused # {}

\* A free slot takes the transaction; a transaction with a higher gas price
\* takes the slot of the one before it, which never mines.
Accept(t, b, p, n) ==
    /\ t \in NextTx
    /\ n >= nonce
    /\ txs' = [u \in TxIds |->
                 IF u = t THEN [status |-> "pending", batch |-> b, payload |-> p, nonce |-> n]
                 ELSE IF u \in SlotOf(n) THEN [txs[u] EXCEPT !.status = "dropped"]
                 ELSE txs[u]]
    /\ UNCHANGED <<owner, anchors, logs, nonce>>

\* The transaction with the account's next nonce is executed in a block: its
\* receipt says success, or that it reverted and why.
Mine(t) ==
    /\ t \in SlotOf(nonce)
    /\ LET outcome == AnchorOutcome(Operator, txs[t].batch, txs[t].payload) IN
        /\ txs' = [txs EXCEPT ![t].status = outcome]
        /\ \/ /\ outcome = "ok"
              /\ AnchorBatch(Operator, txs[t].batch, txs[t].payload, t)
           \/ /\ outcome # "ok"
              /\ UNCHANGED contractVars
    /\ nonce' = nonce + 1

\* The pool forgets a transaction (a restart of the node, a full pool).
Evict(t) ==
    /\ t \in InPool
    /\ txs' = [txs EXCEPT ![t].status = "dropped"]
    /\ UNCHANGED <<owner, anchors, logs, nonce>>

\* The owner hands the contract to another account.
Handover ==
    /\ \E a \in Accounts : a # owner /\ TransferOwnership(owner, a)
    /\ UNCHANGED <<txs, nonce>>

==========================================================================
