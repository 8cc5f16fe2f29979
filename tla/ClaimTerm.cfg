SPECIFICATION Spec
CONSTANTS
  n1 = n1
  n2 = n2
  n3 = n3
  Node = {n1, n2, n3}
  None = None
  Command = {}
  Noop = Noop
  PreVote = TRUE
  MaxEntriesPerAppend = 0
  SnapshotEntries = 0
  MaxTerm = 2
  Campaigners <- Anyone
  HeartbeatTerms = {}
  MaxIndex = 0
  MaxReads <- NoReads
  MaxRestarts = 0
VIEW LiveView
CHECK_DEADLOCK FALSE
INVARIANTS
  TermsAreCampaigned
