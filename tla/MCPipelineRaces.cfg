CONSTANTS
    Events = {e1, e2}
    BatchIds = {1, 2, 3, 4}
    NoBatch = none
    Scheduler = scheduler
    Admins = {admin}
    AdminOps = {"create", "anchor"}
    MinEvents = 1
    Watched = {}
    MaxFaults = 1
SPECIFICATION FairSpec
INVARIANT PipelineTypeOK
PROPERTY FailureKept
PROPERTY EventuallyAnchored
