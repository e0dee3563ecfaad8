SPECIFICATION MCSpec
CONSTANTS
    Calls = {c1, c2}
    Keys = {k1}
    NoKey = NoKey
    Tokens = {a1}
    NoToken = NoToken
    NoResult = NoResult
    Specs <- OnlyTransfer
    Arguments = {"good"}
    ValidArguments = {"good"}
    InitialRules <- OpenRules
    AddedRules = {}
    MaxRules = 2
    CallRoles = {"operator"}
    AsyncTools <- OnlyTransfer
    MalformedTools = {}
    DryRuns = {FALSE}
    Gates = {"roles"}
    Secret = FALSE
INVARIANTS
    AtMostOnce
