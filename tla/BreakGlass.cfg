SPECIFICATION MCSpec
CONSTANTS
    Threads = {t1, t2}
    Actors = {ann, bob, cat}
    Activations = {b1}
    CallRoles = {"operator", "approver"}
    TTL = 1
    MaxTime = 3
    NoActivation = NoActivation
INVARIANTS
    OverrideIsBounded
    RevokeKills
PROPERTIES
    EndHolds
SYMMETRY Symmetry
