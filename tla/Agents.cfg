SPECIFICATION Spec
CONSTANTS
    Objectives <- MCObjectives
    Refinements <- MCRefinements
    Requests <- MCRequests
    Size <- MCSize
    NRuns = 3
    FixedObjectives <- MCFixedObjectives
INVARIANTS
    CompleteMeansClear
    RunsFollowThePlan
    UnlockedOnEvidence
PROPERTIES
    EveryCaseCloses
CHECK_DEADLOCK FALSE
