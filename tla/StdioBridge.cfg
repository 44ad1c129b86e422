SPECIFICATION ReadingSpec
CONSTANTS
  None = None
  Suspended = Suspended
  MaxFrames = 2
  MaxFaults = 1
  MaxEvents = 1
  PipeSize = 1
INVARIANTS
  AuditBeforeEffect
  StdinEndsAfterLastFrame
  CleanExitLosesNothing
  ExitCodeTellsAuditFailure
PROPERTIES
  EveryShutdownReturns
  OperationsEnd
CHECK_DEADLOCK FALSE
