SPECIFICATION AnalysisSpec
CONSTANTS
    Files = {f0, f1, f2, f3}
    Root = f0
    MaxDepth = 2
    Unreadable <- AnyFile
    Nodes = {n1, n2, n3, n4}
    SelfEdges = {n1}
    Here = Here
    Package = Package
    None = None
    ResolvesTo <- MCResolves
    Barrels <- MCBarrels
    Texts <- MCTexts
    Rows <- MCRows
    MaxEdits = 3
    Docs = {d1, d2, d3}
    Words = {"u", "v"}
    Short = {"v"}
    NoQuery = NoQuery
    Ranks = {0, 10, 100}
    Weights = {0, 1}
    PerTokenLimit = 2
    MaxItems = 2
    MaxKills = 1
INVARIANTS WalkIsExact CyclesAreSound CallsAreResolved SearchIsRanked
PROPERTIES CascadesFollowExports
SYMMETRY Symmetric
CHECK_DEADLOCK FALSE
