SPECIFICATION Spec
CONSTANTS
    Charts <- OneRepo
    Refs <- OneRepoRefs
    OCIRepos <- OCI
    NoURL = NoURL
    Workers = {w1, w2}
    NoRef = NoRef
    NoChart = NoChart
    Partial = Partial
    MaxCalls = 3
INVARIANTS TypeOK LoadsWholeFiles
PROPERTIES SourceSpec DirRaceEnds
CHECK_DEADLOCK FALSE
