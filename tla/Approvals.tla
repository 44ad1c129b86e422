----------------------------- MODULE Approvals ------------------------------
(***************************************************************************)
(* What the scripts ask of the release records, the package manifests and   *)
(* the bootstrap plan of a tree of the repository, before a tag of it is    *)
(* published: check-release-readiness.mjs, check-package-surface.mjs,       *)
(* check-npm-bootstrap-plan.mjs, prepare-npm-bootstrap-artifacts.mjs and    *)
(* check-release-publish-plan.mjs.                                         *)
(*                                                                         *)
(* Of a tree t this module reads t.records, the release records in the      *)
(* order of their file names, t.head, t.ancestors, git's relation between   *)
(* commits, t.changed, per commit the paths changed since, t.root and       *)
(* t.manifests, the package manifests, t.dist, the built files of each      *)
(* package, t.decisions, the external dependencies decided on, and t.plan.  *)
(* A package's name stands for the name of its directory too.              *)
(***************************************************************************)
EXTENDS Evidence, PublishPlan

CONSTANTS
  Commit,            \* the full SHAs
  Package,           \* the public packages, in the order they are published
  PrivatePackage,    \* the other packages of the workspace
  Validation,        \* the validations a release record has evidence of
  ScopeDecision,     \* per decision on the scope, the paths that exclude it
  SdkPackage,        \* packages no manifest may depend on
  Bootstrap,         \* the version of the bootstrap plan
  NamesNpm           \* the registry targets with npmjs.org in them

Ancestor(t, older, newer) == <<older, newer>> \in t.ancestors

Reachable(t, commit) == commit \in Commit /\ Ancestor(t, commit, t.head)

Workspace(name) == <<"packages", name>>

PackageItems == [i \in DOMAIN Package |-> [name |-> Package[i], workspacePath |-> Workspace(Package[i])]]

-----------------------------------------------------------------------------
(* A release record.                                                       *)

AtHead(t, record) == record.targetCommit = t.head

TargetCommitOk(t, record) ==
  IF record.targetCommit = None THEN record.status # "approved"
  ELSE /\ record.targetCommit \in Commit
       /\ record.status = "approved" => Reachable(t, record.targetCommit)

HasTarget(t, id) == \E target \in ToSet(t.evidence.targets) : target.id = id

HasOtherTransport(t) == \E target \in ToSet(t.evidence.targets) : target.transport # "stdio"

ScopeEvidenceOk(t, item, excluding) ==
  /\ item.evidence # None /\ Safe(item.evidence) /\ item.evidence \in t.files
  /\ \E folder \in {"adr", "architecture", "ops"} : Under(item.evidence, <<"docs", folder>>)
  /\ item.status = "included" => item.evidence \notin excluding

ScopeOk(t, record) ==
  /\ \A name \in DOMAIN ScopeDecision :
       /\ record.scope[name].status \in {"included", "excluded"}
       /\ ScopeEvidenceOk(t, record.scope[name], ScopeDecision[name])
  /\ record.scope["externalMcpFixture"].status = "included" =>
       HasTarget(t, "external-filesystem-stdio")
  /\ record.scope["httpTransport"].status = "included" => HasOtherTransport(t)

FieldUnique(items, field) == IsInjective([i \in DOMAIN items |-> items[i][field]])

NamesOf(items) == {items[i].name : i \in DOMAIN items}

VersionStays(t, record, item) ==
  LET manifest == t.manifests[item.workspacePath]
  IN  /\ item.workspacePath \in DOMAIN t.manifests
      /\ manifest.name = item.name
      /\ manifest.version = IF record.status = "approved" THEN record.releaseVersion ELSE "0.0.0"

PublicPackagesOk(t, record) ==
  /\ record.packages # <<>>
  /\ \A field \in {"name", "workspacePath", "artifactName"} : FieldUnique(record.packages, field)
  /\ \A item \in ToSet(record.packages) :
       /\ None \notin {item.name, item.workspacePath, item.artifactName}
       /\ Safe(item.workspacePath) /\ Under(item.workspacePath, <<"packages">>)
       /\ item.artifactName \in NamesOf(record.artifacts)
       /\ AtHead(t, record) => VersionStays(t, record, item)

ArtifactsOk(t, record) ==
  /\ record.artifacts # <<>> /\ FieldUnique(record.artifacts, "name")
  /\ \A item \in ToSet(record.artifacts) :
       /\ None \notin {item.name, item.source} /\ Safe(item.source)
       /\ AtHead(t, record) => item.source \in t.files

\* The evidence names the command that was run, and its exit 0.
ValidationsOk(record) ==
  \A name \in Validation :
    /\ record.validation[name] # None
    /\ record.status = "approved" => record.validation[name] = [command |-> name, exit |-> 0]

RollbackOk(t, record) ==
  /\ None \notin {record.rollback.good, record.rollback.procedure}
  /\ record.status = "approved" =>
       /\ record.rollback.good # record.releaseVersion
       /\ Safe(record.rollback.procedure) /\ record.rollback.procedure \in t.files
       /\ Under(record.rollback.procedure, <<"docs", "ops">>)

ReleaseRecordOk(t, record) ==
  /\ record.schemaVersion = "msp.release-readiness.v1"
  /\ record.status \in {"proposed", "approved", "blocked"}
  /\ record.releaseVersion # None
  /\ record.status = "approved" => record.releaseVersion # "0.0.0"
  /\ None \notin {record.registryTarget, record.owner}
  /\ TargetCommitOk(t, record) /\ ScopeOk(t, record)
  /\ PublicPackagesOk(t, record) /\ ArtifactsOk(t, record)
  /\ ValidationsOk(record) /\ RollbackOk(t, record)

\* Before the first record.
PrivatePosture(t) ==
  \A manifest \in {t.root} \cup {t.manifests[path] : path \in DOMAIN t.manifests} :
    manifest.private /\ manifest.version = "0.0.0"

ReadinessOk(t) ==
  IF t.records = <<>> THEN PrivatePosture(t)
  ELSE \A record \in ToSet(t.records) : ReleaseRecordOk(t, record)

\* What check-artifact-safety.mjs asks of the paths in a record.
RecordIsPublic(t, record) ==
  /\ record.path \notin t.marked
  /\ \A item \in ToSet(record.packages) :
       item.workspacePath = None \/ RepositoryPathOk(item.workspacePath)
  /\ \A item \in ToSet(record.artifacts) :
       \/ item.source = None
       \/ /\ RepositoryPathOk(item.source)
          /\ (record.status # "approved" \/ AtHead(t, record)) => item.source \in t.files

ArtifactSafetyOk(t) ==
  /\ PublicFixturesOk(t) /\ EvidenceReferencesOk(t)
  /\ \A record \in ToSet(t.records) : RecordIsPublic(t, record)

-----------------------------------------------------------------------------
(* Of the approved records of a package, the one whose target is the        *)
(* latest, and whether the history seemed linear on the way to it.         *)

\* Mutant: a target that is on no line with the latest goes unnoticed.
Later_AnyHistory(t, found, record) ==
  LET last == found.latest.targetCommit
  IN  IF found.latest = None THEN [found EXCEPT !.latest = record]
      ELSE IF last = record.targetCommit
      THEN [found EXCEPT !.linear = @ /\ found.latest.releaseVersion = record.releaseVersion]
      ELSE IF Ancestor(t, last, record.targetCommit) THEN [found EXCEPT !.latest = record]
      ELSE found

Later(t, found, record) ==
  LET last == found.latest.targetCommit
  IN  IF found.latest = None THEN [found EXCEPT !.latest = record]
      ELSE IF last = record.targetCommit
      THEN [found EXCEPT !.linear = @ /\ found.latest.releaseVersion = record.releaseVersion]
      ELSE IF Ancestor(t, last, record.targetCommit) THEN [found EXCEPT !.latest = record]
      ELSE [found EXCEPT !.linear = @ /\ Ancestor(t, record.targetCommit, last)]

\* Among the records that count.
LatestApproval(t, counting) ==
  LET found[i \in 0..Len(t.records)] ==
        IF i = 0 THEN [latest |-> None, linear |-> TRUE]
        ELSE IF t.records[i] \in counting THEN Later(t, found[i - 1], t.records[i])
        ELSE found[i - 1]
  IN  found[Len(t.records)]

VersionOf(found) == IF found.latest = None THEN None ELSE found.latest.releaseVersion

ApprovedInHistory(t, record) ==
  record.status = "approved" /\ Reachable(t, record.targetCommit)

-----------------------------------------------------------------------------
(* The surface of the packages.                                            *)

SurfaceApproval(t, path) ==
  LatestApproval(t, {record \in ToSet(t.records) :
    /\ ApprovedInHistory(t, record) /\ record.releaseVersion # None
    /\ \E item \in ToSet(record.packages) : item.workspacePath = path})

\* The fields that never change are one, the layout.
LayoutOk(manifest) == manifest.layout = "as recorded"

SurfaceManifestOk(t, path) ==
  LET manifest == t.manifests[path]
      version == VersionOf(SurfaceApproval(t, path))
  IN  /\ LayoutOk(manifest)
      /\ manifest.private = (version = None)
      /\ manifest.version = IF version = None THEN "0.0.0" ELSE version

NoSdk(manifest) == \A dependency \in manifest.dependencies : dependency.name \notin SdkPackage

Decides(decision, path, dependency) ==
  decision.workspacePath = path /\ decision.group = dependency.group
    /\ decision.name = dependency.name

DependenciesOk(t, path) ==
  LET inWorkspace == {t.manifests[p].name : p \in DOMAIN t.manifests}
  IN  /\ NoSdk(t.manifests[path])
      /\ \A dependency \in t.manifests[path].dependencies :
           \/ dependency.group = "devDependencies"
           \/ dependency.name \in inWorkspace /\ dependency.version = "workspace:*"
           \/ /\ dependency.name \notin inWorkspace
              /\ \E decision \in t.decisions :
                   /\ Decides(decision, path, dependency)
                   /\ decision.version = dependency.version

\* Every decision is about a dependency there is, and none is made twice.
DecisionsOk(t) ==
  \A decision \in t.decisions :
    /\ Under(decision.workspacePath, <<"packages">>) /\ decision.group = "dependencies"
    /\ decision.exact /\ decision.evidence \in t.files
    /\ Under(decision.evidence, <<"docs", "adr">>)
    /\ \A other \in t.decisions : Decides(decision, other.workspacePath, other) => other = decision
    /\ \E dependency \in t.manifests[decision.workspacePath].dependencies :
         Decides(decision, decision.workspacePath, dependency)

RootOk(t) ==
  /\ LayoutOk(t.root) /\ t.root.private /\ t.root.version = "0.0.0" /\ NoSdk(t.root)
  /\ \A dependency \in t.root.dependencies : dependency.group = "devDependencies"

DistOk(t, path) == "index.test.js" \notin t.dist[path] /\ {"index.js", "index.d.ts"} \subseteq t.dist[path]

PackageSurfaceOk(t) ==
  /\ RootOk(t) /\ DecisionsOk(t)
  /\ \A record \in ToSet(t.records) : \A item \in ToSet(record.packages) :
       item.workspacePath # None => SurfaceApproval(t, item.workspacePath).linear
  /\ DOMAIN t.manifests = {Workspace(name) : name \in ToSet(Package) \cup PrivatePackage}
  /\ \A path \in DOMAIN t.manifests :
       SurfaceManifestOk(t, path) /\ DependenciesOk(t, path) /\ DistOk(t, path)

-----------------------------------------------------------------------------
(* The bootstrap plan.                                                     *)

ApprovalOk(plan) ==
  IF plan.status \in {"approved", "completed"}
  THEN plan.approval.by = plan.owner /\ plan.approval.commit \in Commit
  ELSE plan.approval = [by |-> None, commit |-> None]

CompletionOk(plan) ==
  LET done == plan.completion
  IN  IF plan.status = "completed"
      THEN /\ done.by = plan.owner /\ done.commit \in Commit
           /\ done.artifactCommits # {} /\ done.artifactCommits \subseteq Commit
           /\ done.evidence # None /\ done.publisher /\ done.credentialRemoved
      ELSE done = [by |-> None, commit |-> None, artifactCommits |-> {}, evidence |-> None,
                   publisher |-> FALSE, credentialRemoved |-> FALSE]

BootstrapPlanOk(plan) ==
  /\ plan.schemaVersion = "msp.npm-bootstrap.v1"
  /\ plan.status \in {"blocked", "approved", "completed"}
  /\ plan.bootstrapVersion = Bootstrap /\ plan.distTag = "bootstrap"
  /\ plan.registry = "npmjs.org" /\ plan.layout = "as recorded"
  /\ plan.packages = PackageItems
  /\ (plan.blockers = {}) = (plan.status = "completed")
  /\ ApprovalOk(plan) /\ CompletionOk(plan)

\* The version of the product, from the records that name all its packages.
ProductApproval(t) ==
  LatestApproval(t, {record \in ToSet(t.records) :
    ApprovedInHistory(t, record) /\ NamesAll(record.packages, Package)})

WorkspaceManifestsOk(t) ==
  LET version == VersionOf(ProductApproval(t))
  IN  \A item \in ToSet(PackageItems) :
        LET manifest == t.manifests[item.workspacePath]
        IN  /\ item.workspacePath \in DOMAIN t.manifests /\ manifest.name = item.name
            /\ \/ manifest.private /\ manifest.version = "0.0.0"
               \/ version # None /\ ~manifest.private /\ manifest.version = version
            /\ LayoutOk(manifest)

BootstrapOk(t) ==
  /\ BootstrapPlanOk(t.plan) /\ ProductApproval(t).linear /\ WorkspaceManifestsOk(t)

\* The versions that begin with "workspace:".
WorkspaceProtocol == {"workspace:*", "workspace:^"}

\* The manifest of a bootstrap package.
Staged(manifest) ==
  LET shipped == {"dependencies", "peerDependencies", "optionalDependencies"}
      stage(dependency) ==
        IF dependency.group \in shipped /\ dependency.version \in WorkspaceProtocol
        THEN [dependency EXCEPT !.version = Bootstrap] ELSE dependency
  IN  [manifest EXCEPT !.version = Bootstrap, !.private = FALSE,
                       !.dependencies = {stage(dependency) : dependency \in @}]

ArchiveOk(t, item) ==
  LET packed == Staged(t.manifests[item.workspacePath])
  IN  /\ DistOk(t, item.workspacePath)
      /\ packed.name = item.name /\ packed.version = Bootstrap /\ ~packed.private
      /\ \A dependency \in packed.dependencies : dependency.version \notin WorkspaceProtocol

\* prepare-npm-bootstrap-artifacts.mjs --dry-run
DryRunOk(t) == BootstrapOk(t) /\ \A item \in ToSet(PackageItems) : ArchiveOk(t, item)

-----------------------------------------------------------------------------
(* The tag.                                                                *)

PlanView(t, record) ==
  [status |-> record.status, releaseVersion |-> record.releaseVersion, path |-> record.path,
   reachable |-> Reachable(t, record.targetCommit),
   changed |-> IF Reachable(t, record.targetCommit) THEN t.changed[record.targetCommit] ELSE {},
   npm |-> record.registryTarget \in NamesNpm, ownerApproves |-> record.owner = "approves",
   packages |-> record.packages]

TagPlanOk(t, version) ==
  PublishPlanOk({PlanView(t, record) : record \in ToSet(t.records)}, t.manifests, Package, version)

\* What the scripts of `pnpm check` that are modelled here ask of the tagged tree.
ChecksOk(t) ==
  /\ PackageSurfaceOk(t) /\ ArtifactSafetyOk(t) /\ CompatibilityOk(t)
  /\ ReadinessOk(t) /\ DryRunOk(t)
=============================================================================
