SPECIFICATION Spec
CONSTANTS
    Charts <- MCCharts
    Values = {"u"}
    Patches = {"p"}
    Tagged <- NoTags
    NoURL = NoURL
    FromSource = FromSource
    NoSource = NoSource
    NoPatch = NoPatch
    NoLimit = NoLimit
    Specs <- OwningSpecs
    Broken <- NoneBroken
    MaxHistory = 0
    FaultKinds = {}
    MaxFaults = 0
    MaxEdits = 1
    MaxRevision = 5
PROPERTIES OwnershipTakenOnce
CHECK_DEADLOCK FALSE
