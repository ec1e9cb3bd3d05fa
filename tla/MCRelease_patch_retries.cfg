SPECIFICATION Spec
CONSTANTS
    Charts <- MCCharts
    Values = {"u"}
    Patches = {"p"}
    Tagged <- NoTags
    NoURL = NoURL
    FromSource = FromSource
    NoSource = NoSource
    NoPatch = NoPatch
    NoLimit = NoLimit
    Specs <- PatchedRetrySpecs
    Broken <- A2Broken
    MaxHistory = 0
    FaultKinds = {}
    MaxFaults = 0
    MaxEdits = 0
    MaxRevision = 6
INVARIANTS RetriesLimited
CHECK_DEADLOCK FALSE
