SPECIFICATION AnalysisSpec
CONSTANTS
    Files = {f0, f1, f2}
    Root = f0
    MaxDepth = 2
    Unreadable <- DeletedRoot
    Nodes = {n1}
    SelfEdges = {n1}
    Here = Here
    Package = Package
    None = None
    ResolvesTo <- MCResolves
    Barrels <- MCBarrels
    Texts <- MCTexts
    Rows <- MCRows
    MaxEdits = 3
    MaxKills = 1
    Docs = {d1}
    Words = {"u"}
    Short = {}
    NoQuery = NoQuery
    Ranks = {0, 10}
    Weights = {0}
    PerTokenLimit = 1
    MaxItems = 1
INVARIANT DependentsMarked
CHECK_DEADLOCK FALSE
