SPECIFICATION Spec
CONSTANTS
  a = a
  b = b
  Nil = Nil
  Value = {a, b}
  Key = {1}
  Client = {1, 2}
  Node = {1, 2}
  Scenarios <- AllScenarios
INVARIANTS
  TypeOK
  ExactlyOnce
  Linearizable
  NoCallIsForgotten
CHECK_DEADLOCK FALSE
