--------------------------- MODULE MCSerialSession ----------------------------
(***************************************************************************)
(* SerialSession for TLC: the policies of MCProxySession and a second tool  *)
(* name in the gate's catalogue.                                            *)
(***************************************************************************)
EXTENDS SerialSession, TLC

CONSTANTS i1, i2, h1, h2

MCTool == {"t1", "t2"}
MCCaps == {"read", "write"}
MCMethods(p) == IF p = "open" THEN Method ELSE Method \ {"ping"}
MCDiscoverable(p, t, c) == p = "open" \/ c = "read"
MCVerdict(p, t, c, a) ==
  IF a = "blocked" THEN "deny"
  ELSE IF c = "read" THEN "allow"
  ELSE IF p = "open" THEN "approval_required" ELSE "deny"
=============================================================================
