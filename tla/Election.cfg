SPECIFICATION Spec
CONSTANTS
  n1 = n1
  n2 = n2
  n3 = n3
  Node = {n1, n2, n3}
  None = None
  Command = {}
  Noop = Noop
  PreVote = TRUE
  MaxEntriesPerAppend = 0
  SnapshotEntries = 0
  MaxTerm = 1
  Campaigners <- Contested
  HeartbeatTerms = {}
  MaxIndex = 0
  MaxReads <- NoReads
  MaxRestarts = 1
VIEW LiveView
SYMMETRY Contenders
CHECK_DEADLOCK FALSE
INVARIANTS
  ElectionSafety
  OneVotePerTerm
  CandidacyIsBacked
PROPERTIES
  TermNeverDecreases
