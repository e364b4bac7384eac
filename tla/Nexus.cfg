SPECIFICATION NexusSpec
CONSTANTS
    LogFiles <- MCLogFiles
    Writers = {"b1", "m1", "m2"}
    FileOf <- MCFileOf
    Off = Off
    Clients = {"c1"}
    RingSize = 2
    LogMaxSize = 1
    MaxLines = 4
    MaxStarts = 1
    MaxConnects = 1
    Projects = {"a", "x/b", "y/b"}
    NameOf <- MCNameOf
    Distant = {"y/b"}
    NoRepo = NoRepo
    Torn = Torn
    MaxDiskSteps = 3
    MaxKills = 2
INVARIANTS LogIsShown StoreIsSound
PROPERTIES WrittenIsShown RegistryKeepsProjects NexusAnswers
CHECK_DEADLOCK FALSE
