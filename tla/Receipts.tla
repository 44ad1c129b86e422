------------------------------ MODULE Receipts ------------------------------
(***************************************************************************)
(* The receipt of a publication: how it is made from a release record, the  *)
(* bootstrap plan and the answers of GitHub and the registry                *)
(* (generate-publication-receipt.mjs), and what is asked of it before it is *)
(* imported and ever after (lib/publication-record-validation.mjs, the      *)
(* schemas, check-publication-records.mjs).                                *)
(*                                                                         *)
(* The answers are a world w: [runs, tagCommit, release, registry].  A      *)
(* moment is [at, spelled]: "date-time" as RFC 3339 has it, "date" as only  *)
(* Date.parse takes it, or "other".  A tag stands for its version, and an   *)
(* address for what it is the address of.                                  *)
(***************************************************************************)
EXTENDS Approvals

CONSTANTS
  Channel,     \* per exact version, whether it is a prerelease
  RequiredV2   \* the version that has to have a receipt of schema v2

V1 == "msp.publication-record.v1"
V2 == "msp.publication-record.v2"

Exact(version) == version \in DOMAIN Channel

ReleaseRecordPath(version) == <<"docs", "ops", "release-records", version \o ".approved.release.json">>

PublicationPath(version) == <<"docs", "ops", "publications", version \o ".publication.json">>

IsoDate(moment) == moment.spelled # "other"

Precedes(earlier, later) == earlier.at < later.at

PositiveInteger(value) == value \in Nat \ {0}

-----------------------------------------------------------------------------
(* What to make a receipt of: options, and the title and the id of the      *)
(* smoke run in the environment.  What is not given is None; of a title     *)
(* that is no receipt request the version is None.                         *)

Merge(values) ==
  LET given == values \ {None}
  IN  IF Cardinality(given) = 1 THEN CHOOSE value \in given : TRUE ELSE None

FirstGiven(values) ==
  LET at == SelectInSeq(values, LAMBDA value : value # None)
  IN  IF at = 0 THEN None ELSE values[at]

Requested(title, field) == IF title = None THEN None ELSE title[field]

ResolveInput(given, environment) ==
  LET title == environment.request
      version == Merge({given.version, Requested(title, "version")})
      input == [version |-> version, requestTitle |-> title,
                releaseRunId |-> Merge({given.releaseRunId, Requested(title, "releaseRunId")}),
                registrySmokeRunId |-> Merge({given.registrySmokeRunId,
                                              environment.registrySmokeRunId}),
                recordedAt |-> FirstGiven(<<given.recordedAt, environment.now>>),
                \* The version in the name of the file.
                output |-> FirstGiven(<<given.output, environment.output,
                                        IF environment.hasOutputDir THEN version ELSE None>>)]
  IN  IF /\ title # None => title.version # None
         /\ PositiveInteger(input.releaseRunId) /\ PositiveInteger(input.registrySmokeRunId)
         /\ Exact(version) /\ IsoDate(input.recordedAt) /\ input.output = version
      THEN input ELSE None

-----------------------------------------------------------------------------
(* What the receipt has to be made of.                                     *)

RecordsAt(t, path) == {record \in ToSet(t.records) : record.path = path}

ApprovesVersion(record, version) ==
  /\ record.schemaVersion = "msp.release-readiness.v1" /\ record.status = "approved"
  /\ record.releaseVersion = version /\ record.registryTarget = "npmjs.org"
  /\ [i \in DOMAIN record.packages |-> record.packages[i].name] = Package

BootstrapCompleted(plan, record) ==
  /\ plan.schemaVersion = "msp.npm-bootstrap.v1" /\ plan.status = "completed"
  /\ plan.distTag = "bootstrap" /\ plan.registry = "npmjs.org" /\ Exact(plan.bootstrapVersion)
  /\ [i \in DOMAIN plan.packages |-> plan.packages[i].name]
       = [i \in DOMAIN record.packages |-> record.packages[i].name]

WorkflowRunOk(w, expected) ==
  LET found == w.runs[expected.id]
  IN  /\ expected.id \in DOMAIN w.runs /\ found.id = expected.id /\ found.ours
      /\ found.workflow = expected.workflow /\ found.event = expected.event
      /\ expected.headBranch # None => found.headBranch = expected.headBranch
      /\ expected.displayTitle # None => found.displayTitle = expected.displayTitle
      /\ found.conclusion = "success" /\ found.headCommit \in Commit
      /\ found.url = expected.id /\ IsoDate(found.updatedAt)

RunsOk(w, input) ==
  /\ WorkflowRunOk(w, [id |-> input.releaseRunId, workflow |-> "release.yml", event |-> "push",
                       headBranch |-> input.version, displayTitle |-> None])
  /\ WorkflowRunOk(w, [id |-> input.registrySmokeRunId, workflow |-> "registry-smoke.yml",
                       event |-> "workflow_dispatch", headBranch |-> None,
                       displayTitle |-> input.requestTitle])
  /\ w.runs[input.releaseRunId].headCommit = w.tagCommit

GitHubReleaseOk(w, input) ==
  LET release == w.release
  IN  /\ release # None /\ PositiveInteger(release.id) /\ release.tag = input.version
      /\ w.tagCommit \in Commit /\ ~release.draft
      /\ release.prerelease = Channel[input.version] /\ release.url = release.tag
      /\ IsoDate(release.publishedAt) /\ ~Precedes(input.recordedAt, release.publishedAt)

PublishedMetadataOk(metadata, version) ==
  /\ metadata.version = version /\ metadata.integrity # None
  /\ metadata.tarballAtNpm /\ metadata.provenance

RegistryPackageOk(found, version) ==
  PublishedMetadataOk(found, version) /\ found.shasum /\ IsoDate(found.publishedAt)

\* Mutant: recordedAt is compared with nothing.
TimesOk_AnyRecordedAt(w, input) ==
  LET smoked == w.runs[input.registrySmokeRunId].updatedAt
  IN  \A name \in ToSet(Package) : ~Precedes(smoked, w.registry[name].publishedAt)

TimesOk(w, input) ==
  LET smoked == w.runs[input.registrySmokeRunId].updatedAt
  IN  /\ \A name \in ToSet(Package) : ~Precedes(smoked, w.registry[name].publishedAt)
      /\ ~Precedes(input.recordedAt, smoked)

DistTagsOk(t, w, version) ==
  \A name \in ToSet(Package) :
    w.registry[name].distTags = [latest |-> version, bootstrap |-> t.plan.bootstrapVersion]

ReceiptRun(found) ==
  [workflow |-> found.workflow, id |-> found.id, headCommit |-> found.headCommit,
   conclusion |-> found.conclusion, url |-> found.url]

Earliest(moments) == CHOOSE m \in moments : \A other \in moments : m.at <= other.at

ReceiptRelease(w, recordedAt) ==
  [id |-> w.release.id, tag |-> w.release.tag, tagCommit |-> w.tagCommit,
   draft |-> w.release.draft, prerelease |-> w.release.prerelease,
   publishedAt |-> w.release.publishedAt, observedAt |-> recordedAt, url |-> w.release.url]

BuildReceipt(w, input) ==
  [schemaVersion |-> V2, status |-> "completed",
   releaseVersion |-> input.version, tag |-> input.version, releaseCommit |-> w.tagCommit,
   releaseRecord |-> ReleaseRecordPath(input.version), registryTarget |-> "npmjs.org",
   observedDistTags |-> w.registry[Package[1]].distTags,
   publishedAt |-> Earliest({w.registry[name].publishedAt : name \in ToSet(Package)}),
   recordedAt |-> input.recordedAt,
   githubRelease |-> ReceiptRelease(w, input.recordedAt),
   releaseRun |-> ReceiptRun(w.runs[input.releaseRunId]),
   registrySmokeRun |-> ReceiptRun(w.runs[input.registrySmokeRunId]),
   packages |->
     [i \in DOMAIN Package |->
        [name |-> Package[i], version |-> input.version,
         integrity |-> w.registry[Package[i]].integrity, shasum |-> w.registry[Package[i]].shasum,
         verifiedByRunId |-> input.registrySmokeRunId]]]

\* The receipt, or None when the script fails.
GenerateReceipt(t, given, environment, w) ==
  LET input == ResolveInput(given, environment)
  IN  IF /\ input # None
         /\ \E record \in RecordsAt(t, ReleaseRecordPath(input.version)) :
              ApprovesVersion(record, input.version) /\ BootstrapCompleted(t.plan, record)
         /\ \A name \in ToSet(Package) : RegistryPackageOk(w.registry[name], input.version)
         /\ RunsOk(w, input) /\ GitHubReleaseOk(w, input) /\ TimesOk(w, input)
         /\ DistTagsOk(t, w, input.version)
      THEN BuildReceipt(w, input) ELSE None

-----------------------------------------------------------------------------
(* What is asked of a receipt, r, in the tree t.                           *)

DateTime(moment) == moment.spelled = "date-time"

\* The JSON Schemas, as far as they ask more than the rest: v1 has no GitHub
\* Release, and v2 has one.
ShapeOk(r) ==
  /\ r.schemaVersion \in {V1, V2} /\ (r.schemaVersion = V2) = (r.githubRelease # None)
  /\ \E version \in DOMAIN Channel : r.releaseRecord = ReleaseRecordPath(version)
  /\ Exact(r.observedDistTags.bootstrap)
  /\ DateTime(r.publishedAt) /\ DateTime(r.recordedAt)
  /\ r.schemaVersion = V2 =>
       DateTime(r.githubRelease.publishedAt) /\ DateTime(r.githubRelease.observedAt)
  /\ NamesAll(r.packages, Package)

PublicationRunOk(found, workflow) ==
  /\ found.workflow = workflow /\ PositiveInteger(found.id) /\ found.conclusion = "success"
  /\ found.headCommit \in Commit /\ found.url = found.id

PublicationReleaseOk(r) ==
  LET release == r.githubRelease
  IN  /\ PositiveInteger(release.id) /\ release.tag = r.tag
      /\ release.tagCommit = r.releaseCommit /\ ~release.draft
      /\ release.prerelease = Channel[r.releaseVersion] /\ release.url = r.tag
      /\ ~Precedes(release.observedAt, release.publishedAt)
      /\ ~Precedes(release.observedAt, r.recordedAt)

PublicationPackagesOk(r, record) ==
  /\ NamesAll(r.packages, [i \in DOMAIN record.packages |-> record.packages[i].name])
  /\ FieldUnique(r.packages, "name")
  /\ \A item \in ToSet(r.packages) :
       /\ item.version = r.releaseVersion /\ item.integrity = "one" /\ item.shasum
       /\ item.verifiedByRunId = r.registrySmokeRun.id

\* validatePublicationRecord
PublicationOk(t, path, r) ==
  /\ ShapeOk(r)
  /\ r.status = "completed" /\ Exact(r.releaseVersion) /\ r.tag = r.releaseVersion
  /\ path = PublicationPath(r.releaseVersion)
  /\ r.releaseCommit \in Commit /\ r.registryTarget = "npmjs.org"
  /\ r.observedDistTags = [latest |-> r.releaseVersion, bootstrap |-> t.plan.bootstrapVersion]
  /\ ~Precedes(r.recordedAt, r.publishedAt)
  /\ PublicationRunOk(r.releaseRun, "release.yml")
  /\ PublicationRunOk(r.registrySmokeRun, "registry-smoke.yml")
  /\ r.releaseRun.headCommit = r.releaseCommit
  /\ r.schemaVersion = V2 => PublicationReleaseOk(r)
  /\ \E record \in RecordsAt(t, r.releaseRecord) :
       /\ record.status = "approved" /\ record.releaseVersion = r.releaseVersion
       /\ PublicationPackagesOk(r, record)

\* t.publications is a function from paths to receipts.
PublicationsOk(t) ==
  /\ \A path \in DOMAIN t.publications : PublicationOk(t, path, t.publications[path])
  /\ \E path \in DOMAIN t.publications :
       /\ t.publications[path].releaseVersion = RequiredV2
       /\ t.publications[path].schemaVersion = V2
=============================================================================
