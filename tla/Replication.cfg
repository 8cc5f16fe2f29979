SPECIFICATION StagedSpec
CONSTANTS
  n1 = n1
  n2 = n2
  n3 = n3
  Node = {n1, n2, n3}
  None = None
  Command = {}
  Noop = Noop
  PreVote = FALSE
  MaxEntriesPerAppend = 1
  SnapshotEntries = 0
  MaxTerm = 10
  Campaigners <- Staged
  HeartbeatTerms = {9, 10}
  MaxIndex = 0
  MaxReads <- StagedReads
  MaxRestarts = 0
VIEW LiveView
CHECK_DEADLOCK FALSE
INVARIANTS
  LeaderCompleteness
  StateMachineSafety
  LogMatching
  MatchIsStored
  ReadsAreFresh
PROPERTIES
  CommittedIsStable
