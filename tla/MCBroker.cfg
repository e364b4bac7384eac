SPECIFICATION Spec
CONSTANTS
    JobIds = {j1, j2, j3}
    Keys = {k1, k2, k3}
    Conns = {c1, c2}
    Importances = {0}
    Times = {0}
    NoJob = NoJob
    MaxQueueSize = 2
    TimerIds = {t1, t2}
    NoTimer = NoTimer
    MaxStatus = 0
SYMMETRY Symmetry
INVARIANTS OneLoop PromptPickup BrokerIsSound NoSilentLoss AnswersAreRight
PROPERTIES NoPickupAfterStop
