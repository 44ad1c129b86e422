----------------------------- MODULE MCRelease ------------------------------
(***************************************************************************)
(* Two versions of three of the five packages.  The first tag names a tree  *)
(* approved for it, the second one such a tree, the first one's tree, or    *)
(* one changed after its approval.                                         *)
(***************************************************************************)
EXTENDS Release, TLC

CONSTANTS v1, v2, s1, s2, o1, o2

MCVersion == {v1, v2}
MCSmokeRun == {s1, s2}
MCOperator == {o1, o2}

MCPackage == <<"contracts", "core", "cli">>
MCDepends == [contracts |-> {}, core |-> {"contracts"}, cli |-> {"contracts", "core"}]

\* Smoke runs are alike, and so are imports.
MCSymmetry == Permutations(MCSmokeRun) \cup Permutations(MCOperator)

MCItems == [i \in DOMAIN MCPackage |-> [name |-> MCPackage[i], workspacePath |-> MCPackage[i]]]

MCTree(version, changed) ==
  [records |-> {[status |-> "approved", releaseVersion |-> version, path |-> "record",
                 reachable |-> TRUE, changed |-> changed, npm |-> TRUE,
                 ownerApproves |-> TRUE, packages |-> MCItems]},
   manifests |-> [p \in ToSet(MCPackage) |->
                    [name |-> p, version |-> version, private |-> FALSE]]]

MCTrees ==
  {v1 :> MCTree(v1, {"record"}) @@ v2 :> second :
     second \in {MCTree(v2, {}), MCTree(v1, {}), MCTree(v2, {"source"})}}
=============================================================================
