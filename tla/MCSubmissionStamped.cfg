CONSTANTS
    Agents = {a1, a2}
    EventIds = {e1, e2}
    Calls = {c1, c2}
    None = None
    Second = 2
    MaxTime = 1
SPECIFICATION Spec
INVARIANT StampedIsAccepted
CHECK_DEADLOCK FALSE
