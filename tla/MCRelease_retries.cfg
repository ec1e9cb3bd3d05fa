SPECIFICATION Spec
CONSTANTS
    Charts <- WithBad
    Values = {"u"}
    Patches = {"p"}
    Tagged <- NoTags
    NoURL = NoURL
    FromSource = FromSource
    NoSource = NoSource
    NoPatch = NoPatch
    NoLimit = NoLimit
    Specs <- RetryAndPolicySpecs
    Broken <- B1Broken
    MaxHistory = 0
    FaultKinds = {"StaleRead", "Crash", "Publish", "Helm", "Deploy", "Uninstall", "Details"}
    MaxFaults = 2
    MaxEdits = 1
    MaxRevision = 12
INVARIANTS TypeOK RetryBudget NoOrphan
PROPERTIES RetryKeepsDeployed DeletionCompletes LifeSpec
CHECK_DEADLOCK FALSE
