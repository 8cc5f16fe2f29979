SPECIFICATION LedSpec
CONSTANTS
  n1 = n1
  n2 = n2
  n3 = n3
  Node = {n1, n2, n3}
  None = None
  Command = {a}
  Noop = Noop
  PreVote = FALSE
  MaxEntriesPerAppend = 0
  SnapshotEntries = 2
  MaxTerm = 2
  Campaigners <- Alternating
  HeartbeatTerms = {}
  MaxIndex = 2
  MaxReads <- NoReads
  MaxRestarts = 1
VIEW LiveView
CHECK_DEADLOCK FALSE
INVARIANTS
  TypeOK
  LeaderCompleteness
  StateMachineSafety
  MatchIsStored
