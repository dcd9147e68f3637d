CONSTANTS
    Events = {e1, e2, e3, e4}
    BatchIds = {1, 2}
    NoBatch = none
    Scheduler = scheduler
    Admins = {admin}
    AdminOps = {"anchor"}
    MinEvents = 2
    Watched = {e1}
    MaxFaults = 2
SPECIFICATION Spec
PROPERTY SeenForward
PROPERTY NoFalseIdle
PROPERTY ImplementsLifecycle
