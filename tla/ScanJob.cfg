SPECIFICATION Spec
CONSTANTS
    root = root  folder = folder  inner = inner  v1 = v1  v2 = v2
    Paths <- MCPaths  Root = root  Parent <- MCParent
    Versions <- MCOneVersions  Absent = Absent
    NumJobs = 1  Runners = {r1, r2}  NoRunner = NoRunner  Orphan = Orphan
    LeaseTicks = 1  BatchSize = 2  MaxRevision = 1  MaxChanges = 1  MaxFaults = 1
INVARIANTS TypeOK NoStrandedEntry OwnerKnowsEntry
PROPERTIES DoneStaysDone PublishIsComplete
SYMMETRY RunnerSymmetry
CHECK_DEADLOCK FALSE
