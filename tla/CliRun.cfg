SPECIFICATION FairSpec
CONSTANTS
  None = None
  Usable = {a, b}
  Missing = {m}
  OtherAudit = {}
  Malformed = {x}
  MaxWrites = 2
  MaxFrames = 1
  MaxFlagChanges = 2
  Requested <- OneResourceEach
INVARIANTS
  QuietPolicyIsTheFile
  OpsEventsTellAll
  AppliedReportsAreTrue
  UpstreamIsContained
  NothingLeftOpen
PROPERTY NoStageHangs
CHECK_DEADLOCK FALSE
