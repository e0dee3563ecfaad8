SPECIFICATION MCSpec
CONSTANTS
    Threads = {t1, t2}
    Actors = {ann, bob, cat}
    Requests = {r1}
    Tiers = {"high", "low"}
    CallRoles = {"viewer", "admin"}
    DualControl = TRUE
    AuditMayFail = TRUE
    RequestTTL = 1
    TokenTTL = 1
    MaxTime = 2
    NoRequest = NoRequest
    Free = Free
INVARIANTS
    TypeOK
    TokensNeedQuorum
    TokensExpireInTime
    GrantsAreAudited
    QuorumIsGranted
    LockIsReleased
PROPERTIES
    ResolutionSettles
SYMMETRY Symmetry
