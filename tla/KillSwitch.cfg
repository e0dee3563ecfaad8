SPECIFICATION MCSpec
CONSTANTS
    p1 = p1
    p2 = p2
    a1 = a1
    a2 = a2
    b1 = b1
    Processes = {p1, p2}
    Threads = {a1, a2, b1}
    ProcessOf <- Home
    CallRoles = {"operator", "admin"}
    Trusted = Trusted
    GuardedBands = {"execute"}
    Failures = TRUE
    Free = Free
INVARIANTS
    FlagsHold
    HaltsStopCalls
    SameHaltStopsCalls
CONSTRAINT Promised
SYMMETRY Symmetry
