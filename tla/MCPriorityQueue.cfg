SPECIFICATION Spec
CONSTANTS
    JobIds = {j1, j2, j3, j4, j5}
    Keys = {k1, k2}
    Conns = {c1}
    Importances = {0, 1, 2}
    Times = {0}
    NoJob = NoJob
    MaxHeap = 5
SYMMETRY Symmetry
INVARIANTS QueueIsSound
PROPERTIES ImplementsJobQueue
