SPECIFICATION Spec
CONSTANTS
    c1 = c1
    c2 = c2
    c3 = c3
    None = None
    Site <- MCSite
    Options <- MCOptions
    Tracks = {"/track"}
    Wrap = 16
    Clients = {c1, c2, c3}
    Scripts <- MCScripts
    Workers = {1, 2}
    MaxThreads = 2
    QueueSize = 1
    MaxPieces = 3
    MaxSpawnFails = 1
    Stops = TRUE
INVARIANTS TypeOK OnePlaceEach OneAnswer MemorySound
PROPERTIES ConnectionsEnd StopReturns
CHECK_DEADLOCK FALSE
