SPECIFICATION IndexSpec
CONSTANTS
    Files = {1, 2}
    Namesakes = {1, 2}
    Missing = Missing
    NoMtime = NoMtime
    Idle = Idle
    MaxWrites = 3
    MaxStops = 1
    MaxExcludes = 1
    Ranked = {1, 2, 3}
    TypeScore <- MCTypeScore
    PlaceScore <- MCPlaceScore
    NameScore <- MCNameScore
    Packaged = {2}
    NoRow = NoRow
    Unseen = Unseen
    MaxHalts = 1
    MaxVersion = 2
    MaxChanges = 2
    MaxManual = 1
CHECK_DEADLOCK FALSE
INVARIANTS NoGhostCallers CommunitiesSeeEveryEdge IndexMatchesDisk ChangesAreListed AnswersAreSound
    ScoresAreSound IncrementalIsFull
