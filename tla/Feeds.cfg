SPECIFICATION FeedsSpec
CONSTANTS
    Names <- MCNames
    Score <- MCScore
    Threshold = 1
    Episodes <- MCEpisodes
    Demo <- MCDemo
    MaxLog = 2
    Events <- MCEvents
    QueueSize = 2
    Jobs <- MCJobs
INVARIANTS
    EpisodesRebuild
    RedeliveryAddsNoFacts
    AcceptedIsKept
PROPERTIES
    DuplicatesGetNoNodes
    IdentityIsStable
CHECK_DEADLOCK FALSE
