---------------------------- MODULE MCProxySession ----------------------------
(***************************************************************************)
(* ProxySession for TLC.  Two policies: "open" shows both tools and wants   *)
(* approval for writing, "strict" shows only readers and denies the rest.   *)
(***************************************************************************)
EXTENDS ProxySession, TLC

CONSTANTS i1, i2, i3, c1, c2, h1, h2

MCIds2 == {i1, i2}
MCIds3 == {i1, i2, i3}
MCServerId == {"s1"}
MCTool == {"t1"}
MCCaps == {"read", "write"}
MCArgs == {"plain", "blocked"}
MCPolicy == {"open", "strict"}

MCAllMethods(p) == Method
MCToolMethods(p) == {"tools/list", "tools/call"}

MCDiscoverable(p, t, c) == p = "open" \/ c = "read"

MCVerdict(p, t, c, a) ==
  IF a = "blocked" THEN "deny"
  ELSE IF c = "read" THEN "allow"
  ELSE IF p = "open" THEN "approval_required" ELSE "deny"

MCSymmetry2 == Permutations(MCIds2) \cup Permutations({c1, c2}) \cup Permutations({h1, h2})
MCSymmetry3 == Permutations(MCIds3) \cup Permutations({c1, c2}) \cup Permutations({h1, h2})
=============================================================================
