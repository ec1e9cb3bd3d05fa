SPECIFICATION Spec
CONSTANTS
    Releases = {r1}
    Configs = {c1, c2}
    None = None
    MaxEdits = 2
    MaxFaults = 2
INVARIANTS TypeOK UseIsKept
PROPERTIES DeletedReleasesGo ConfigsGo
