SPECIFICATION Spec
CONSTANTS
    Charts <- TwoRepos
    Refs <- TwoRepoRefs
    OCIRepos <- OCI
    NoURL = NoURL
    Workers = {w1, w2}
    NoRef = NoRef
    NoChart = NoChart
    Partial = Partial
    MaxCalls = 2
PROPERTIES RepositoryHonoured
CHECK_DEADLOCK FALSE
