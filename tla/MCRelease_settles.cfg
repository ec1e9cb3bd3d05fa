SPECIFICATION Spec
CONSTANTS
    Charts <- ThreeCharts
    Values = {"u", "v"}
    Patches = {"p"}
    Tagged <- NoTags
    NoURL = NoURL
    FromSource = FromSource
    NoSource = NoSource
    NoPatch = NoPatch
    NoLimit = NoLimit
    Specs <- SettlingSpecs
    Broken <- A3Broken
    MaxHistory = 0
    FaultKinds = {"StaleRead", "Publish", "Deploy", "Helm", "Details"}
    MaxFaults = 1
    MaxEdits = 2
    MaxRevision = 10
PROPERTIES Settles
CHECK_DEADLOCK FALSE
