SPECIFICATION Spec
CONSTANTS
    Files = {1, 2}
    Namesakes = {}
    Missing = Missing
    NoMtime = NoMtime
    Idle = Idle
    MaxWrites = 1
    MaxStops = 0
    MaxExcludes = 0
CHECK_DEADLOCK FALSE
INVARIANT CallersAreFound
