CONSTANTS
    Agents = {a1, a2}
    EventIds = {e1}
    Calls = {c1, c2, c3}
    None = None
    Second = 2
    MaxTime = 1
SPECIFICATION Spec
SYMMETRY Symmetric
INVARIANT StoredByItsAgent
INVARIANT SavedIsStored
INVARIANT ReceiptTrue
INVARIANT OneAcknowledged
CHECK_DEADLOCK FALSE
