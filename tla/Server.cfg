SPECIFICATION ServerSpec
CONSTANTS
    Watchers = {w1, w2, w3}
    None = None
    ErrorLimit = 1
    MaxErrors = 6
    Servers = {s1, s2}
    Sources = {1, 2, 3}
    Languages <- MCLanguages
    LangOf <- MCLangOf
    CallsOf <- MCCallsOf
    t1 = t1
    t2 = t2
    JsonTrees = {t1, t2}
    TreeOf <- MCTreeOf
    MaxFaults = 1
    Projects = {p, q, r}
    Paths = {x}
    Inits = {1, 2, 3}
    NoProject = NoProject
    Refused = {r}
    MaxEvents = 2
    Requests = {q1, q2, q3}
    MaxBreaks = 2
    Repos <- MCRepos
    MaxExits = 3
    MaxLost = 1
INVARIANTS WatchersAreSound BootIsSound SwitchIsSound SupervisorIsSound PendingIsWaiting
PROPERTIES WatchingGoesOn CallsEnd
CHECK_DEADLOCK FALSE
