CONSTANTS
    k1 = k1
    k2 = k2
    v1 = v1
    p1 = p1
    p2 = p2
    None = None
    Keys <- MCKeys
    Volumes <- MCVolumes
    Paths <- MCPaths
    VolumeOf <- MCVolumeOf
    PathOf <- MCPathOf
    Workers = {w1, w2}
    Deleters = {}
    Versions = {a, b}
    QueueSize = 2
    MaxJobs = 3
    Faults = {"database", "source", "stop"}
SPECIFICATION LiveSpec
INVARIANTS RowsHaveFiles
PROPERTIES DoneMeansStored WorkersReturn QueueGetsRoom ImplementsCatalogue
CHECK_DEADLOCK FALSE
