SPECIFICATION PartsSpec
CONSTANTS
    Operations = {"content", "screenshot_ocr"}  Absent = Absent
    NumJobs = 2  Runners = {r1, r2}  NoRunner = NoRunner  Orphan = Orphan
    MaxVersion = 2  MaxRevision = 2  MaxFaults = 1
SYMMETRY RunnerSymmetry
INVARIANTS TypeOK ContentIsCurrent ContentIsComplete LiveJobIsCurrent
PROPERTIES FinalStaysFinal ImplementsAtomicContent
CHECK_DEADLOCK FALSE
