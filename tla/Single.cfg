SPECIFICATION Spec
CONSTANTS
  n1 = n1
  n2 = n2
  n3 = n3
  Node = {n1}
  None = None
  Command = {a, b}
  Noop = Noop
  PreVote = FALSE
  MaxEntriesPerAppend = 0
  SnapshotEntries = 2
  MaxTerm = 3
  Campaigners <- Anyone
  HeartbeatTerms = {}
  MaxIndex = 4
  MaxReads <- ReadsInSecond
  MaxRestarts = 2
CHECK_DEADLOCK FALSE
INVARIANTS
  StateMachineSafety
PROPERTIES
  CommittedIsStable
