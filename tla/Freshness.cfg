SPECIFICATION FairSpec
CONSTANTS
    Importances = {0, 1}
    NoUpdate = NoUpdate
    Manual = Manual
    NoSummary = NoSummary
    MaxVersion = 2
    MaxScans = 1
    MaxErrors = 1
    MaxDrops = 1
    MaxRestarts = 1
INVARIANTS NothingForgotten FreshMeansCurrent
PROPERTIES LatestContentWins 
