SPECIFICATION Spec
CONSTANTS
    one = one
    two = two
    secret = secret
    v1 = v1
    v2 = v2
    s1 = s1
    p1 = p1
    p2 = p2
    pull = pull
    d1 = d1
    d2 = d2
    Scalars <- MCScalars
    Map = Map
    Keys = {"a", "b"}
    Depth = 2
    Objects <- MCObjects
    Holds <- MCHolds
    Start <- MCStart
    Specs <- MCSpecs
    NoLocation = NoLocation
    Tokens <- MCTokens
    Foreign <- MCForeign
    Endings <- MCEndings
    Missing = Missing
    NoData = NoData
    NoKey = NoKey
    Blank = Blank
    Garbled = Garbled
    None = None
    Anonymous = Anonymous
    MaxEdits = 2
    MaxFaults = 1
INVARIANTS TypeOK LastLayerWins CredentialsFit
PROPERTIES UpgradeHasCause InputsSettle
