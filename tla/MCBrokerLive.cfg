SPECIFICATION LiveSpec
CONSTANTS
    JobIds = {j1, j2}
    Keys = {k1, k2}
    Conns = {c1}
    Importances = {0}
    Times = {0}
    NoJob = NoJob
    MaxQueueSize = 1
    TimerIds = {t1, t2}
    NoTimer = NoTimer
    MaxStatus = 1
    Pids = {p1, p2, p3}
    Clients = {m1, m2}
    None = None
    Empty = Empty
    MaxFailures = 2
    MaxLeaves = 1
INVARIANTS ProcessesAreSound
PROPERTIES LiveBrokersAreRespected ClientsServed WorkGoesOn
CHECK_DEADLOCK FALSE
