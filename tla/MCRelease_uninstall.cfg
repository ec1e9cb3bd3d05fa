SPECIFICATION Spec
CONSTANTS
    Charts <- MCCharts
    Values = {"u"}
    Patches = {"p"}
    Tagged <- NoTags
    NoURL = NoURL
    FromSource = FromSource
    NoSource = NoSource
    NoPatch = NoPatch
    NoLimit = NoLimit
    Specs <- OneRetrySpecs
    Broken <- NoneBroken
    MaxHistory = 0
    FaultKinds = {"Deploy", "Uninstall"}
    MaxFaults = 2
    MaxEdits = 0
    MaxRevision = 5
PROPERTIES UninstallRetries
CHECK_DEADLOCK FALSE
