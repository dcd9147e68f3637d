CONSTANTS
    Accounts = {op, other}
    Operator = op
    ZeroAddress = zero
    BatchIds = {b1}
    ZeroBatchId = zeroBatch
    Payloads <- TwoPayloads
    MaxTx = 4
    Actors = {scheduler, admin}
    FaultKinds = {"crash", "lost", "rpc", "evict", "replace", "handover", "tamper", "zeroread"}
    MaxFaults = 3
SPECIFICATION Spec
CHECK_DEADLOCK FALSE
INVARIANT TypeOK
INVARIANT AnchorRowTrue
INVARIANT ConfirmedHasRow
INVARIANT FailedMeansReverted
INVARIANT DuplicatesBounded
PROPERTY StoreVerified
PROPERTY ImplementsRegistry
