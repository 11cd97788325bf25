SPECIFICATION Spec
CONSTANTS
    root = root  folder = folder  inner = inner  v1 = v1  v2 = v2
    Paths <- MCPaths  Root = root  Parent <- MCParent
    Versions <- MCOneVersions  Absent = Absent
    NumJobs = 1  Runners = {r1}  NoRunner = NoRunner  Orphan = Orphan
    LeaseTicks = 2  BatchSize = 2  MaxRevision = 1  MaxChanges = 0  MaxFaults = 0
INVARIANTS PauseReleasesLease
CHECK_DEADLOCK FALSE
