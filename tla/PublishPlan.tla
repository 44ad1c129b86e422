---------------------------- MODULE PublishPlan -----------------------------
(***************************************************************************)
(* What the Release workflow asks of the tree its tag names, before it      *)
(* publishes a version of it: check-release-publish-plan.mjs.              *)
(*                                                                         *)
(* A record is [status, releaseVersion, path, reachable, changed, npm,      *)
(* ownerApproves, packages]: whether its target commit is in the history of *)
(* the tag, the paths changed between the two, whether it names npmjs.org,  *)
(* and the packages, each with its name and path.                          *)
(***************************************************************************)
EXTENDS SequencesExt, Integers

Approved(records, version) ==
  {r \in records : r.status = "approved" /\ r.releaseVersion = version}

\* The same names, in any order.
NamesAll(items, names) ==
  Len(items) = Len(names) /\ {items[i].name : i \in DOMAIN items} = ToSet(names)

ManifestOk(manifests, item, version) ==
  LET manifest == manifests[item.workspacePath]
  IN  /\ item.workspacePath \in DOMAIN manifests
      /\ manifest.name = item.name /\ manifest.version = version /\ ~manifest.private

PublishPlanOk(records, manifests, names, version) ==
  \E record \in Approved(records, version) :
    /\ Approved(records, version) = {record}
    /\ record.reachable /\ record.changed \subseteq {record.path}
    /\ record.npm /\ record.ownerApproves
    /\ NamesAll(record.packages, names)
    /\ \A item \in ToSet(record.packages) : ManifestOk(manifests, item, version)
=============================================================================
