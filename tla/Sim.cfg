SPECIFICATION SimSpec
CONSTANTS
  a = a
  b = b
  Nil = Nil
  None = None
  Peer = {1, 2, 3}
  Data = {a, b}
  MaxTerm = 2
  Scenarios <- AllScenarios
  Client = {1, 2, 3}
  Key = {1, 2}
  Value = {a, b}
  Scripts <- AllScripts
  MaxTime = 4
INVARIANTS
  VerdictIsExact
  CheckIsExact
CHECK_DEADLOCK FALSE
