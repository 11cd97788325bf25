SPECIFICATION ComponentsSpec
CONSTANTS
    Paths = {p}  Identities = {i}  Kinds = {"gone", "link", "fifo"}
    Coordinator = c  Users = {u}  NumEvents = 2  MaxVersion = 1  MaxCalls = 1  MaxFaults = 0
    Unread = Unread  NoPath = NoPath  NoProcess = NoProcess
    Readers = {r1, r2}  Changers = {"c1"}  MaxPolicies = 2  MaxReplaced = 1
    Files = {"a", "b"}  InFolder = {"b"}  Folder = "d"  MaxDerived = 3
    Nodes = {n1, n2}  FolderNode = FolderNode  NoNode = NoNode
    Jobs = {j1, j2}  NoOwner = NoOwner  Platforms = {"windows", "macos"}
    Callers = {c1, c2}  NoCaller = NoCaller  MaxPending = 1  MaxPreviews = 1  MaxRevision = 2
    NoFile = NoFile
    FileSet <- ReaderFiles  LimitSet <- ReaderLimits  ProbeBytes = 3  MaxEntries = 2
INVARIANTS
    TypesOK HintIsKept RevocationIsComplete FenceHolds NobodyWaitsInACircle PurgeIsComplete
    EvidenceIsCurrent PlanIsBound AnswerIsPermitted SlotIsNeverLost OutputIsWhole
PROPERTIES ManifestNeverRegresses
CHECK_DEADLOCK FALSE
