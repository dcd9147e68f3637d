CONSTANTS
    Accounts = {op, other}
    Operator = op
    ZeroAddress = zero
    BatchIds = {b1, b2}
    ZeroBatchId = zeroBatch
    Payloads <- OnePayload
    MaxTx = 4
    Actors = {scheduler}
    Scheduler = scheduler
    FaultKinds = {"crash", "lost", "rpc", "evict", "replace", "zeroread", "stop"}
    MaxFaults = 2
    MaxCopies = 1
SPECIFICATION FairServiceSpec
CHECK_DEADLOCK FALSE
INVARIANT OneInFlight
INVARIANT OneExtraRevert
INVARIANT ConfirmedHasRow
INVARIANT CopiesAgree
PROPERTY NoRebroadcast
PROPERTY EventuallyRecorded
