SPECIFICATION PartsLiveSpec
CONSTANTS
    Operations = {"content"}  Absent = Absent
    NumJobs = 1  Runners = {r1, r2}  NoRunner = NoRunner  Orphan = Orphan
    MaxVersion = 1  MaxRevision = 1  MaxFaults = 0
    Paths = {p}  Identities = {i}  Kinds = {"gone"}
    Coordinator = c  NumEvents = 2
    root = root  folder = folder  v1 = v1  survivor = survivor
    Unread = Unread  NoPath = NoPath  NoProcess = NoProcess
PROPERTIES LeaseReleased CancelHonoured ScanEnds Converges ChangeIsServed
CHECK_DEADLOCK FALSE
