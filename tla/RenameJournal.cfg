SPECIFICATION Spec
CONSTANTS
  a = a
  b = b
  x = x
  y = y
  z = z
  Plans = {a}
  Requests = {r1, r2}
  Processes = {e1, e2}
  Names = {x, y}
  Source <- OneSource
  Destination <- OneDestination
  Target = Target
  Other = Other
  Nothing = Nothing
  NoProcess = NoProcess
  Lost = Lost
  NoRequest = NoRequest
  StalledOwners = TRUE
  MaxChanges = 1
  MaxFaults = 0
INVARIANTS
  TypeOK
  LegalHistory
  OneRenamePerRequest
  AnswersAreWitnessed
PROPERTIES
  OutcomeIsFinal
SYMMETRY Interchangeable
CHECK_DEADLOCK FALSE
