CONSTANTS
    k1 = k1
    k2 = k2
    v1 = v1
    p1 = p1
    p2 = p2
    None = None
    Keys <- MCKeys
    Volumes <- MCVolumes
    Paths <- MCPaths
    VolumeOf <- MCVolumeOf
    PathOf <- MCPathOf
    Workers = {w1}
    Deleters = {d1, d2}
    Versions = {a}
    QueueSize = 1
    MaxJobs = 4
    Faults = {}
SPECIFICATION Spec
PROPERTY DeletesAskedChapter
CHECK_DEADLOCK FALSE
