SPECIFICATION Spec
CONSTANTS
    root = root  folder = folder  inner = inner  v1 = v1  v2 = v2
    Paths <- MCPaths  Root = root  Parent <- MCParent
    Versions <- MCTwoVersions  Absent = Absent
    NumJobs = 2  Runners = {r1}  NoRunner = NoRunner  Orphan = Orphan
    LeaseTicks = 1  BatchSize = 2  MaxRevision = 2  MaxChanges = 1  MaxFaults = 0
INVARIANTS LiveJobIsCurrent PolicyRespected
PROPERTIES ImplementsAtomicManifest PublishIsHonest
CHECK_DEADLOCK FALSE
