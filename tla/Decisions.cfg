SPECIFICATION Spec
CONSTANTS
  Absent = Absent
  Malformed = Malformed
  Oversized = Oversized
  Json <- MCJson
  Rules <- MCRules
  Policies <- MCPolicies
  SessionPolicies <- MCSessionPolicies
  Tools <- MCTools
  Arguments <- MCArguments
  FrameLimit = 3
  Streams <- MCStreams
  CommandLines <- MCCommandLines
  Files <- MCFiles
  Numeral <- MCNumeral
  ControlText = {"bell"}
  ServerName = {"srv", "my_srv"}
  HyphenOnly = {"srv"}
  ClientFrames <- MCFrames
  ServerFrames <- MCFrames
  MaxFrameBytes = 1
  MaxJsonDepth = 1
  Adapters <- MCAdapters
  Timeouts <- MCTimeouts
  MaximumTimeout = 4
  Pinned <- MCPinned
  EvidenceKind <- MCKind
  EvidenceId = {"one", "two"}
  ForbiddenSegment = {"node_modules", ".env"}
  RedactedName = {"redacted.jsonl"}
  Commit <- MCCommit
  Package <- MCPublic
  PrivatePackage = {"testkit"}
  Validation = {"test", "check"}
  ScopeDecision <- MCScopeDecision
  SdkPackage = {"sdk"}
  Bootstrap = "0.0.0-bootstrap.0"
  NamesNpm = {"npmjs.org", "mirror of npmjs.org"}
  Channel <- MCChannel
  RequiredV2 = "0.1.0"
  Trees <- MCTrees
  TagVersions = {"0.1.0", "0.2.0", "0.3.0-alpha.1"}
  Publications <- MCPublications
  Options <- MCOptions
  Environments <- MCEnvironments
INVARIANTS
  AllowedCallsStayInBounds
  DenyRulesStand
  FramesAreTheLines
  ForwardedIsClean
  SnippetRuns
  ConformanceTellsTheHook
  TaggedReleaseIsApproved
  ReceiptsValidate
