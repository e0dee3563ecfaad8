SPECIFICATION BenchSpec
CONSTANTS
    Simulators <- MCSimulators
    Specs <- Governed
    Arguments <- MCArguments
    InitialRules <- MCRules
    AddedRules <- MCAddedRules
    MaxRules = 17
    DemoTwin <- MCDemo
    Events <- MCEvents
    Upserts <- MCUpserts
    ToolCalls <- MCCalls
    Callers = {"viewer", "operator"}
    MaxWrites = 2
    MaxDocuments = 2
    MaxFaults = 1
INVARIANTS
    VerdictsAreAsDocumented
    TrailMatchesOutbox
    LimitsHold
PROPERTIES
    FreezeHolds
    PlansCover
    HedgesOffset
CHECK_DEADLOCK FALSE
