CONSTANTS
    N = 7
    LeafHash <- Leaf
    HashPair <- Pair
    None = None
SPECIFICATION Spec
INVARIANT ProofDepth
INVARIANT PassIsEvidence
INVARIANT BlameIsRight
CHECK_DEADLOCK FALSE
