SPECIFICATION ProgressSpec
CONSTANTS
  n1 = n1
  n2 = n2
  n3 = n3
  Node = {n1, n2, n3}
  None = None
  Command = {}
  Noop = Noop
  PreVote = FALSE
  MaxEntriesPerAppend = 1
  SnapshotEntries = 1
  MaxTerm = 5
  Campaigners <- NoCampaigns
  HeartbeatTerms = {3, 5}
  MaxIndex = 2
  MaxReads <- OneRead
  MaxRestarts = 0
  MaxLate = 1
CHECK_DEADLOCK FALSE
PROPERTIES
  LeaderCatchesUp
  ReadsEnd
