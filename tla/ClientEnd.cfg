SPECIFICATION FairSpec
CONSTANTS
  None = None
  Suspended = Suspended
  MaxFrames = 2
  MaxFaults = 0
  MaxEvents = 1
  PipeSize = 1
PROPERTY
  ClientEndEndsProxy
CHECK_DEADLOCK FALSE
