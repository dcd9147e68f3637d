---------------------------- MODULE MerkleTree ----------------------------
(***************************************************************************)
(* backend/app/merkle.py as a batch lives through it: the root is computed *)
(* when the batch is created, an inclusion proof when a client asks for    *)
(* one.  Each loop of the source is an action that does one level per      *)
(* step, so the variables of the loops are the state.                      *)
(***************************************************************************)
EXTENDS Naturals, Sequences

CONSTANTS
    N,              \* bound: there are N event hashes, in lexicographic order
    LeafHash(_),    \* the k-th of them; 0 and N + 1 stand for other JSON
    HashPair(_, _)  \* _hash_pair

\* Different JSON has different hashes.
ASSUME MerkleAssumption ==
    /\ N \in Nat \ {0}
    /\ \A i, j \in 0..(N + 1) : LeafHash(i) = LeafHash(j) => i = j

VARIABLES
    leaves,     \* the ranks of the batch's event hashes by leaf_index
    root,       \* audit_batches.merkle_root
    pc,
    level,      \* the loop variables of merkle_root and merkle_proof
    index,
    proof,
    target      \* the leaf_index + 1 the proof is for

treeVars == <<leaves, root, pc, level, index, proof, target>>

Ranks == 1..N

\* normalize_leaves: sorted, and event hashes are distinct.  The hashes outside
\* the batch rank behind: where they would sort makes no difference to it.
SortedLists == {[i \in 1..n |-> i] : n \in Ranks}

Hashes(s) == [i \in 1..Len(s) |-> LeafHash(s[i])]

\* _normalize_level
Padded(s) == IF Len(s) % 2 = 1 THEN Append(s, s[Len(s)]) ELSE s

\* The level above one of even length.
Parents(s) == [i \in 1..(Len(s) \div 2) |-> HashPair(s[2 * i - 1], s[2 * i])]

TreeInit ==
    /\ leaves \in SortedLists
    /\ root = <<>>
    /\ pc = "root"
    /\ level = Hashes(leaves)
    /\ index = 0
    /\ proof = <<>>
    /\ target = 1

\* merkle_root: an iteration of its loop, and its return.
RootStep ==
    /\ pc = "root"
    /\ Len(level) > 1
    /\ level' = Parents(Padded(level))
    /\ UNCHANGED <<leaves, root, pc, index, proof, target>>

RootReturn ==
    /\ pc = "root"
    /\ Len(level) = 1
    /\ root' = level[1]
    /\ pc' = "stored"
    /\ UNCHANGED <<leaves, level, index, proof, target>>

\* GET /audit/batches/{batch_id}/proof/{event_id} for the event at index k.
Request(k) ==
    /\ pc \in {"stored", "served"}
    /\ k \in DOMAIN leaves
    /\ level' = Hashes(leaves)
    /\ index' = k - 1
    /\ proof' = <<>>
    /\ target' = k
    /\ pc' = "proof"
    /\ UNCHANGED <<leaves, root>>

\* The sibling of a node and its side (index counts from 0).
Sibling(nodes, i) ==
    IF i % 2 = 0 THEN [sibling |-> nodes[i + 2], side |-> "right"]
                 ELSE [sibling |-> nodes[i], side |-> "left"]

\* Mutated forms: the index is not halved; a node at the end has no sibling.
ProofStepSameIndex ==
    /\ pc = "proof"
    /\ Len(level) > 1
    /\ proof' = Append(proof, Sibling(Padded(level), index))
    /\ level' = Parents(Padded(level))
    /\ index' = IF index >= Len(level') THEN Len(level') - 1 ELSE index
    /\ UNCHANGED <<leaves, root, pc, target>>

ProofStepSkipsLast ==
    /\ pc = "proof"
    /\ Len(level) > 1
    /\ proof' = IF index + 1 = Len(level) /\ index % 2 = 0 THEN proof
                ELSE Append(proof, Sibling(Padded(level), index))
    /\ level' = Parents(Padded(level))
    /\ index' = index \div 2
    /\ UNCHANGED <<leaves, root, pc, target>>

\* merkle_proof: an iteration of its loop, and its return.
ProofStep ==
    /\ pc = "proof"
    /\ Len(level) > 1
    /\ proof' = Append(proof, Sibling(Padded(level), index))
    /\ level' = Parents(Padded(level))
    /\ index' = index \div 2
    /\ UNCHANGED <<leaves, root, pc, target>>

ProofReturn ==
    /\ pc = "proof"
    /\ Len(level) = 1
    /\ pc' = "served"
    /\ UNCHANGED <<leaves, root, level, index, proof, target>>

TreeNext ==
    \/ RootStep \/ RootReturn
    \/ \E k \in Ranks : Request(k)
    \/ ProofStep \/ ProofReturn

--------------------------------------------------------------------------
(* Properties. *)

\* Every proof served has one step per level, as many as the number of times
\* the leaves must be halved to reach one.
ProofDepth ==
    pc = "proof" /\ Len(level) = 1 =>
        /\ Len(leaves) <= 2 ^ Len(proof)
        /\ Len(proof) > 0 => 2 ^ (Len(proof) - 1) < Len(leaves)

==========================================================================
