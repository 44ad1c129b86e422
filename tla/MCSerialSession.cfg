SPECIFICATION FairSerialSpec
CONSTANTS
  i1 = i1
  i2 = i2
  h1 = h1
  h2 = h2
  None = None
  Spent = Spent
  Id = {i1, i2}
  ServerId = {"s1"}
  Tool = {"t1"}
  Caps <- MCCaps
  Args = {"plain", "blocked"}
  Policy = {"open", "strict"}
  InitialPolicy = "open"
  AllowedMethods <- MCMethods
  Discoverable <- MCDiscoverable
  Verdict <- MCVerdict
  MaxPending = 2
  TTL = 1
  Call = {"c1"}
  Handle = {h1, h2}
INVARIANTS
  PendingApprovalsUnderPolicyInForce
  ForwardedCallIsCurrent
PROPERTIES
  NoCorrelationOverwritten
  ImplementsToolGate
  EveryApprovalEnds
  NoRequestBlocksForever
