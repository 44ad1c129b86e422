------------------------------ MODULE Evidence ------------------------------
(***************************************************************************)
(* The evidence of compatibility that a tree of the repository keeps, and   *)
(* what its scripts ask of it: check-compatibility-evidence.mjs and         *)
(* check-artifact-safety.mjs.                                              *)
(*                                                                         *)
(* A path is the sequence of its segments.  Of a tree t this module reads   *)
(* t.files, the tracked files, t.marked, those with a text marker that may  *)
(* not be public, t.evidence, the manifest of the evidence, and t.external  *)
(* and t.summaries, the manifests and summaries of external fixtures by     *)
(* their path.                                                             *)
(***************************************************************************)
EXTENDS SequencesExt, Integers, FiniteSets

CONSTANTS
  None,             \* no value, and a placeholder for one
  Pinned,           \* per external target, what the scripts pin it to
  EvidenceKind,     \* per kind of evidence, the command its entries run, or None
  EvidenceId,       \* the entries there have to be
  ForbiddenSegment, \* names no public path may have in it
  RedactedName      \* names of files marked as redacted

LocalTarget == "local-stdio-mvp"

Safe(path) == path # <<>> /\ ToSet(path) \cap {"", ".", ".."} = {}

Under(path, folder) == IsStrictPrefix(folder, path)

-----------------------------------------------------------------------------
(* The targets.                                                            *)

ReferenceOk(t, path) == path = None \/ (Safe(path) /\ path \in t.files)

LocalTargetOk(target) ==
  target.transport = "stdio" /\ target.fixtureSource = "synthetic-local"
    /\ target.evidence = "inline"

ExternalTargetOk(t, target) ==
  LET pin == Pinned[target.id]
  IN  /\ target.transport = "stdio" /\ target.fixtureSource = "external-mcp"
      /\ target.client = pin.client /\ target.server = pin.server
      /\ \A field \in {"manifest", "summary", "harness"} :
           target[field] = pin[field] /\ ReferenceOk(t, target[field])
      /\ target.command = <<"node", pin.harness>>

TargetOk(t, target) ==
  IF target.id = LocalTarget THEN LocalTargetOk(target) ELSE ExternalTargetOk(t, target)

\* Each target once, and no other.
TargetsOk(t) ==
  LET targets == t.evidence.targets
      ids == [i \in DOMAIN targets |-> targets[i].id]
  IN  /\ IsInjective(ids) /\ ToSet(ids) = {LocalTarget} \cup DOMAIN Pinned
      /\ \A i \in DOMAIN targets : TargetOk(t, targets[i])

-----------------------------------------------------------------------------
(* The fixtures of external targets: the manifest of one agrees with its    *)
(* target, and the summary of its last run with the manifest.              *)

Refused(scenario, code) == scenario # None /\ code \in scenario

FilesystemSummaryOk(scenarios) ==
  /\ "read_text_file" \in scenarios.shows
  /\ "list_allowed_directories" \notin scenarios.shows
  /\ scenarios.allowed
  /\ Refused(scenarios.deniedPrivateRead, "policy.rule_deny")
  /\ Refused(scenarios.hiddenToolDirectCall, "tool.not_visible")
  /\ {"discovery.filtered", "policy.rule_allow", "policy.rule_deny", "tool.not_visible"}
       \subseteq scenarios.auditCodes

FetchSummaryOk(scenarios) ==
  /\ scenarios.shows = {"fetch"} /\ scenarios.allowed
  /\ Refused(scenarios.deniedExternalFetch, "policy.default_deny")
  /\ scenarios.upstreamHttpError
  /\ {"policy.rule_allow", "policy.default_deny"} \subseteq scenarios.auditCodes

SummaryOk(summary, manifest, profile) ==
  /\ \A field \in {"target", "transport", "fixtureSource", "client", "server"} :
       summary[field] = manifest[field]
  /\ summary.normalized
  /\ summary.scenarios.connected /\ summary.scenarios.accepted /\ summary.scenarios.closed
  /\ ~summary.scenarios.auditHasRoot
  /\ CASE profile = "filesystem" -> FilesystemSummaryOk(summary.scenarios)
       [] profile = "fetch" -> FetchSummaryOk(summary.scenarios)
       [] OTHER -> FALSE

ExternalManifestOk(t, target) ==
  LET pin == Pinned[target.id]
      manifest == t.external[target.manifest]
  IN  /\ target.manifest \in t.files
      /\ manifest.target = target.id
      /\ manifest.transport = "stdio" /\ manifest.fixtureSource = "external-mcp"
      /\ manifest.client = pin.client /\ manifest.server = pin.server
      /\ \A field \in {"transport", "fixtureSource", "client", "server", "harness", "summary"} :
           manifest[field] = target[field]
      /\ ReferenceOk(t, manifest.harness) /\ ReferenceOk(t, manifest.summary)
      /\ Under(manifest.harness, <<"scripts">>)
      /\ Under(manifest.summary, <<"fixtures", "compatibility">>)
      /\ manifest.scenarios # <<>>
      /\ manifest.summary \in t.files =>
           SummaryOk(t.summaries[manifest.summary], manifest, pin.profile)

-----------------------------------------------------------------------------
(* The entries.  entry.command is None or [head, options], with the value   *)
(* of an option None where it has none; entry.agrees says that what the     *)
(* entry computes is what its fixture has.                                 *)

OptionsOk(t, command, required) ==
  /\ required \subseteq DOMAIN command.options
  /\ \A option \in {"policy", "input"} \cap DOMAIN command.options :
       ReferenceOk(t, command.options[option])

CommandOk(t, entry) ==
  LET expected == EvidenceKind[entry.kind]
  IN  \/ expected = None
      \/ /\ entry.command # None /\ entry.command.head = expected.head
         /\ OptionsOk(t, entry.command, expected.options)

LiveSmokeOk(t, entry) == CommandOk(t, entry) /\ entry.command.head[2] \in t.files

EntryOk(t, entry) ==
  /\ \A path \in {entry.path, entry.policy, entry.call, entry.envelope} : ReferenceOk(t, path)
  /\ entry.kind \in DOMAIN EvidenceKind
  /\ IF entry.kind = "runtime.live-smoke" THEN LiveSmokeOk(t, entry)
     ELSE entry.path # None /\ CommandOk(t, entry)
  /\ entry.agrees

EntriesOk(t) ==
  LET entries == t.evidence.entries
      ids == [i \in DOMAIN entries |-> entries[i].id]
  IN  /\ IsInjective(ids) /\ EvidenceId \subseteq ToSet(ids)
      /\ DOMAIN EvidenceKind \subseteq {entries[i].kind : i \in DOMAIN entries}
      /\ \A i \in DOMAIN entries : EntryOk(t, entries[i])

CompatibilityOk(t) ==
  /\ t.evidence.target = LocalTarget
  /\ t.evidence.transport = "stdio" /\ t.evidence.fixtureSource = "synthetic-local"
  /\ TargetsOk(t) /\ EntriesOk(t)
  /\ \A target \in ToSet(t.evidence.targets) :
       target.id \in DOMAIN Pinned => ExternalManifestOk(t, target)

-----------------------------------------------------------------------------
(* What may be public.                                                     *)

RepositoryPathOk(path) == Safe(path) /\ ToSet(path) \cap ForbiddenSegment = {}

RedactedOk(path) == Under(path, <<"fixtures", "audit">>) => Last(path) \in RedactedName

PublicFixturesOk(t) ==
  \A path \in {path \in t.files : Under(path, <<"fixtures">>)} :
    RepositoryPathOk(path) /\ RedactedOk(path) /\ path \notin t.marked

PublicReferenceOk(t, path, folder) ==
  RepositoryPathOk(path) /\ Under(path, folder) /\ path \in t.files

EvidenceReferencesOk(t) ==
  /\ \A target \in {x \in ToSet(t.evidence.targets) : x.id # LocalTarget} :
       /\ PublicReferenceOk(t, target.harness, <<"scripts">>)
       /\ \A field \in {"manifest", "summary"} :
            PublicReferenceOk(t, target[field], <<"fixtures", "compatibility">>)
  /\ \A entry \in ToSet(t.evidence.entries) :
       \A path \in {entry.path, entry.policy, entry.call, entry.envelope} \ {None} :
         PublicReferenceOk(t, path, <<"fixtures">>) /\ RedactedOk(path)
=============================================================================
