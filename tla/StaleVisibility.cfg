SPECIFICATION Spec
CONSTANTS
  i1 = i1
  i2 = i2
  i3 = i3
  c1 = c1
  c2 = c2
  h1 = h1
  h2 = h2
  None = None
  Spent = Spent
  Id <- MCIds2
  ServerId <- MCServerId
  Tool <- MCTool
  Caps <- MCCaps
  Args <- MCArgs
  Policy = {"open"}
  InitialPolicy = "open"
  AllowedMethods <- MCToolMethods
  Discoverable <- MCDiscoverable
  Verdict <- MCVerdict
  MaxPending = 2
  TTL = 1
  Call = {c1}
  Handle = {}
INVARIANTS
  ForwardedToolIsVisible
