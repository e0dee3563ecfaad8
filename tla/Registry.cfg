SPECIFICATION MCSpec
CONSTANTS
    Keys = {k1}
    NoKey = NoKey
    NoToken = NoToken
    NoResult = NoResult
    Calls = {c1}
    Tokens = {a1}
    Specs <- BothTools
    Arguments = {"good"}
    ValidArguments = {"good"}
    InitialRules <- ReviewRules
    AddedRules <- OpenAndFreeze
    MaxRules = 4
    CallRoles = {"viewer", "operator"}
    AsyncTools <- OnlyTransfer
    MalformedTools <- BothTools
    DryRuns = {TRUE, FALSE}
    Gates = {"roles", "rules"}
    Secret = TRUE
INVARIANTS
    DoneMeansRan
    OneRunPerKey
PROPERTIES
    ExecuteIsGoverned
