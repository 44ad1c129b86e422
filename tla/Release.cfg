SPECIFICATION Spec
CONSTANTS
  None = None
  v1 = v1
  v2 = v2
  Version <- MCVersion
  Package <- MCPackage
  Depends <- MCDepends
  Trees <- MCTrees
  s1 = s1
  s2 = s2
  o1 = o1
  o2 = o2
  SmokeRun <- MCSmokeRun
  Operator <- MCOperator
  MaxReruns = 1
  MaxReading = 1
INVARIANTS
  PublishedIsInstallable
  ReceiptIsTrue
PROPERTY
  ReceiptsAreImmutable
SYMMETRY MCSymmetry
CHECK_DEADLOCK FALSE
