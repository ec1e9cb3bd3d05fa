SPECIFICATION Spec
CONSTANTS
    Charts <- MCCharts
    Values = {"u"}
    Patches = {"p"}
    Tagged <- NoTags
    NoURL = NoURL
    FromSource = FromSource
    NoSource = NoSource
    NoPatch = NoPatch
    NoLimit = NoLimit
    Specs <- PatchSpecs
    Broken <- NoneBroken
    MaxHistory = 2
    FaultKinds = {"StaleRead", "Publish", "Crash", "Deploy", "Helm"}
    MaxFaults = 1
    MaxEdits = 2
    MaxRevision = 6
INVARIANTS HistoryBounded
PROPERTIES AvailableIsTrue NoNeedlessUpgrade
CHECK_DEADLOCK FALSE
