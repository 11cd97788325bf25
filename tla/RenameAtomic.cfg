SPECIFICATION LiveSpec
CONSTANTS
  a = a
  b = b
  x = x
  y = y
  z = z
  Plans = {a}
  Requests = {r1, r2}
  Processes = {e1, e2}
  Names = {x, y}
  Source <- OneSource
  Destination <- OneDestination
  Target = Target
  Other = Other
  Nothing = Nothing
  NoProcess = NoProcess
  Lost = Lost
  NoRequest = NoRequest
  StalledOwners = FALSE
  MaxChanges = 0
  MaxFaults = 1
INVARIANTS
  ExecutedIsInPlace
PROPERTIES
  ImplementsAtomicRename
  Resolved
CHECK_DEADLOCK FALSE
