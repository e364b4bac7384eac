SPECIFICATION Spec
CONSTANTS
    Importances = {0}
    NoUpdate = NoUpdate
    Manual = Manual
    NoSummary = NoSummary
    MaxVersion = 1
    MaxScans = 0
    MaxErrors = 0
    MaxDrops = 0
    MaxRestarts = 1
INVARIANT RestartKeepsFreshness
