SPECIFICATION RelationsSpec
CONSTANTS
    Files = {"a", "b"}  Placed <- MCPlaced  Number <- MCNumber  NoFile = NoFile
    Callers = {c}  Kinds = {"version"}
    MaxObservations = 3  MaxDecisions = 1  MaxPlans = 0  MaxTime = 0  MaxChanges = 3
INVARIANTS DirectionIsNotInherited
CHECK_DEADLOCK FALSE
