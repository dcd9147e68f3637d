CONSTANTS
    Requests = {r1, r2}
    Dids = {d1, d2}
    Workers = {w1, w2}
    None = none
    AdminKey = adminKey
    TTL = 1
    MaxTime = 3
SYMMETRY Symmetry
SPECIFICATION Spec
PROPERTY TerminalIsFinal
