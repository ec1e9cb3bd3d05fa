SPECIFICATION Spec
CONSTANTS
    Charts <- MCCharts
    Values = {"u"}
    Patches = {"p"}
    Tagged <- NoTags
    NoURL = NoURL
    FromSource = FromSource
    NoSource = NoSource
    NoPatch = NoPatch
    NoLimit = NoLimit
    Specs <- PlainPatchSpecs
    Broken <- NoneBroken
    MaxHistory = 0
    FaultKinds = {}
    MaxFaults = 0
    MaxEdits = 2
    MaxRevision = 5
PROPERTIES UpToDateMeansDeployed
CHECK_DEADLOCK FALSE
