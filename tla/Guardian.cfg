SPECIFICATION FairSpec
CONSTANTS
  None = None
  MaxChunks = 2
INVARIANTS
  OneEscalation
  NothingLeftBehind
  SignalledOnlyInShutdown
PROPERTY DeadParentsGroupEnds
CHECK_DEADLOCK FALSE
