SPECIFICATION FairSpec
CONSTANTS
  None = None
  MaxChunks = 0
PROPERTY ManagedShutdownEndsGroup
CHECK_DEADLOCK FALSE
