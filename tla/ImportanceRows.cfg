SPECIFICATION IndexSpec
CONSTANTS
    Files = {1}
    Namesakes = {}
    Missing = Missing
    NoMtime = NoMtime
    Idle = Idle
    MaxWrites = 0
    MaxStops = 0
    MaxExcludes = 0
    Ranked = {1, 2, 3}
    TypeScore <- MCTypeScore
    PlaceScore <- MCPlaceScore
    NameScore <- MCNameScore
    Packaged = {2}
    NoRow = NoRow
    Unseen = Unseen
    MaxHalts = 0
    MaxVersion = 1
    MaxChanges = 1
    MaxManual = 0
CHECK_DEADLOCK FALSE
INVARIANT ScoresFollowTheGraph
