SPECIFICATION Spec
CONSTANTS
    Operations <- MCContent  Absent = Absent
    NumJobs = 1  Runners = {r1, r2}  NoRunner = NoRunner  Orphan = Orphan
    MaxVersion = 1  MaxRevision = 1  MaxFaults = 0
SYMMETRY RunnerSymmetry
PROPERTIES SuccessorIsPreserved
