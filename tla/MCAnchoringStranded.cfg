CONSTANTS
    Accounts = {op, other}
    Operator = op
    ZeroAddress = zero
    BatchIds = {b1}
    ZeroBatchId = zeroBatch
    Payloads <- OnePayload
    MaxTx = 4
    Actors = {scheduler}
    FaultKinds = {"lost", "evict"}
    MaxFaults = 3
SPECIFICATION FairSpec
CHECK_DEADLOCK FALSE
PROPERTY AnchoredIsReconciled
