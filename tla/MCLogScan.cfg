CONSTANTS
    Accounts = {alice, bob}
    ZeroAddress = zero
    BatchIds = {b1, b2}
    ZeroBatchId = zeroBatch
    Payloads <- MCPayloads
    MaxTx = 2
    FromBlock = 0
    ChunkSize = 5
    MinChunk = 1
    Limit = 3
    MaxBlock = 6
    MaxRpc = 2
SPECIFICATION FairScanSpec
CHECK_DEADLOCK FALSE
INVARIANT ScanTypeOK
INVARIANT LogsMatchStorage
INVARIANT ScanExact
INVARIANT FindsAnchored
INVARIANT RaisedByProvider
PROPERTY WriteOnce
PROPERTY ScanEnds
