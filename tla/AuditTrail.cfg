SPECIFICATION MCSpec
CONSTANTS
    Trails = {p1, p2}
    Bodies = {"text", "date"}
    ReadBack <- MCReadBack
    MaxAppends = 3
    WritesMayFail = TRUE
    MaxEdits = 1
INVARIANTS
    OneRecordAtRisk
    TamperEvident
    AnchorsDetectTruncation
    NoSilentLoss
CHECK_DEADLOCK FALSE
SYMMETRY Symmetry
