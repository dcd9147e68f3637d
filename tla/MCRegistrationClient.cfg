CONSTANTS
    Requests = {r1, r2}
    Dids = {d1}
    Workers = {w1, w2}
    None = none
    AdminKey = adminKey
    TTL = 1
    MaxTime = 3
SPECIFICATION FairClientSpec
INVARIANT RegTypeOK
INVARIANT AgentFromProof
INVARIANT KeyAccounted
INVARIANT HandedKeyWorks
INVARIANT SavedKeyWorks
PROPERTY NeverReopened
PROPERTY AbandonedIsReleased
CHECK_DEADLOCK FALSE
