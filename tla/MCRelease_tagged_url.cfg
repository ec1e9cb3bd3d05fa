SPECIFICATION Spec
CONSTANTS
    Charts <- MCCharts
    Values = {"u", "v"}
    Patches = {"p"}
    Tagged <- A1Tagged
    NoURL = NoURL
    FromSource = FromSource
    NoSource = NoSource
    NoPatch = NoPatch
    NoLimit = NoLimit
    Specs <- TaggedSpecs
    Broken <- NoneBroken
    MaxHistory = 0
    FaultKinds = {}
    MaxFaults = 0
    MaxEdits = 1
    MaxRevision = 5
PROPERTIES URLOverrides
CHECK_DEADLOCK FALSE
