CONSTANTS
    Events = {e1}
    BatchIds = {1, 2}
    NoBatch = none
    Scheduler = scheduler
    Admins = {admin}
    AdminOps = {"create"}
    MinEvents = 1
    Watched = {e1}
    MaxFaults = 0
SPECIFICATION Spec
PROPERTY SeenForward
