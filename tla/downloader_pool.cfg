CONSTANTS
    k1 = k1
    k2 = k2
    v1 = v1
    p1 = p1
    p2 = p2
    None = None
    Keys <- MCKeys
    Volumes <- MCVolumes
    Paths <- MCPaths
    VolumeOf <- MCVolumeOf
    PathOf <- MCPathOf
    w1 = w1
    w2 = w2
    Workers = {w1, w2}
    Deleters = {d1}
    Versions = {a, b}
    QueueSize = 2
    MaxJobs = 3
    Faults = {"database", "empty", "unlink", "file_lost", "stop"}
SYMMETRY WorkerSymmetry
SPECIFICATION Spec
INVARIANTS TypeOK UniqueRows PagesMatchRows HeldJobs DoneRowDescribesFile
PROPERTIES EndedJobsStay SameRow
CHECK_DEADLOCK FALSE
