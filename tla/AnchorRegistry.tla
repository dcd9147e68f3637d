-------------------------- MODULE AnchorRegistry --------------------------
(***************************************************************************)
(* What anchoring promises, without nodes, pools, retries or crashes: a    *)
(* batch is committed by one transaction, once and for all, and the        *)
(* backend's record of it, made once, names that transaction.              *)
(***************************************************************************)
CONSTANTS BatchIds, Txs

VARIABLES
    committed,  \* the transaction that anchored a batch, as a set of at most one
    recorded    \* the transaction the backend recorded for it, likewise

Init ==
    /\ committed = [b \in BatchIds |-> {}]
    /\ recorded = [b \in BatchIds |-> {}]

Commit(b) ==
    /\ committed[b] = {}
    /\ \E t \in Txs : /\ \A c \in BatchIds : t \notin committed[c]
                      /\ committed' = [committed EXCEPT ![b] = {t}]
    /\ UNCHANGED recorded

Record(b) ==
    /\ recorded[b] = {}
    /\ committed[b] # {}
    /\ recorded' = [recorded EXCEPT ![b] = committed[b]]
    /\ UNCHANGED committed

Next == \E b \in BatchIds : Commit(b) \/ Record(b)

Spec == Init /\ [][Next]_<<committed, recorded>>

==========================================================================
