---------------------------- MODULE MCRepository ----------------------------
(***************************************************************************)
(* Trees of the repository with two public packages and a private one, and  *)
(* the answers of GitHub and the registry about version 0.2.0.             *)
(***************************************************************************)
EXTENDS Decisions

MCCommit == {"c1", "c2", "c3", "h"}
MCPublic == <<"contracts", "cli">>
MCPackagePath(name) == <<"packages", name>>
MCChannel == "0.1.0" :> FALSE @@ "0.2.0" :> FALSE @@ "0.3.0-alpha.1" :> TRUE
               @@ "0.0.0-bootstrap.0" :> TRUE
MCScopeDecision ==
  "externalMcpFixture" :> {<<"docs", "architecture", "09.md">>}
    @@ "httpTransport" :> {<<"docs", "architecture", "07.md">>}
MCKind ==
  "mcp.discovery" :> Absent
    @@ "cli.json.eval-call" :> [head |-> <<"eval-call">>, options |-> {"policy", "input"}]
    @@ "runtime.live-smoke" :> [head |-> <<"node", <<"scripts", "smoke.mjs">> >>, options |-> {}]

MCFixture(id, file) == <<"fixtures", "compatibility", file>>
MCPin(id, profile) ==
  [client |-> "sdk 1", server |-> id, harness |-> <<"scripts", "check.mjs">>, profile |-> profile,
   manifest |-> MCFixture(id, id \o ".manifest"), summary |-> MCFixture(id, id \o ".summary")]
MCPinned == "external-filesystem-stdio" :> MCPin("filesystem", "filesystem")
              @@ "external-fetch-stdio" :> MCPin("fetch", "fetch")

MCTarget(id, transport) ==
  [id |-> id, transport |-> transport, fixtureSource |-> "external-mcp",
   client |-> MCPinned[id].client, server |-> MCPinned[id].server,
   manifest |-> MCPinned[id].manifest, summary |-> MCPinned[id].summary,
   harness |-> MCPinned[id].harness, command |-> <<"node", MCPinned[id].harness>>]
MCLocal == [id |-> "local-stdio-mvp", transport |-> "stdio", fixtureSource |-> "synthetic-local",
            evidence |-> "inline"]
MCEntry(id, kind, command) ==
  [id |-> id, kind |-> kind, path |-> <<"fixtures", "a.json">>, policy |-> Absent,
   call |-> Absent, envelope |-> Absent, command |-> command, agrees |-> TRUE]
MCPolicyOption == [policy |-> <<"fixtures", "a.json">>, input |-> <<"fixtures", "a.json">>]
MCEvidence ==
  [target |-> "local-stdio-mvp", transport |-> "stdio", fixtureSource |-> "synthetic-local",
   targets |-> <<MCLocal, MCTarget("external-filesystem-stdio", "stdio"),
                 MCTarget("external-fetch-stdio", "stdio")>>,
   entries |->
     <<MCEntry("one", "mcp.discovery", Absent),
       MCEntry("two", "cli.json.eval-call", [head |-> <<"eval-call">>, options |-> MCPolicyOption]),
       MCEntry("three", "runtime.live-smoke",
               [head |-> <<"node", <<"scripts", "smoke.mjs">> >>, options |-> <<>>])>>]
MCExternal ==
  [path \in {MCPinned[id].manifest : id \in DOMAIN MCPinned} |->
     LET id == CHOOSE id \in DOMAIN MCPinned : MCPinned[id].manifest = path
     IN  [target |-> id, transport |-> "stdio", fixtureSource |-> "external-mcp",
          client |-> MCPinned[id].client, server |-> MCPinned[id].server,
          harness |-> MCPinned[id].harness, summary |-> MCPinned[id].summary,
          scenarios |-> <<"s">>]]
MCScenarios ==
  [connected |-> TRUE, accepted |-> TRUE, closed |-> TRUE, auditHasRoot |-> FALSE,
   allowed |-> TRUE, shows |-> {"read_text_file"},
   deniedPrivateRead |-> {"policy.rule_deny"}, hiddenToolDirectCall |-> {"tool.not_visible"},
   deniedExternalFetch |-> Absent, upstreamHttpError |-> FALSE,
   auditCodes |-> {"discovery.filtered", "policy.rule_allow", "policy.rule_deny",
                   "tool.not_visible"}]
MCFetchScenarios ==
  [MCScenarios EXCEPT !.shows = {"fetch"}, !.deniedPrivateRead = Absent,
                      !.hiddenToolDirectCall = Absent,
                      !.deniedExternalFetch = {"policy.default_deny"}, !.upstreamHttpError = TRUE,
                      !.auditCodes = {"policy.rule_allow", "policy.default_deny"}]
MCSummary(id, scenarios) ==
  [target |-> id, transport |-> "stdio", fixtureSource |-> "external-mcp",
   client |-> MCPinned[id].client, server |-> MCPinned[id].server, normalized |-> TRUE,
   scenarios |-> scenarios]
MCSummaries ==
  MCPinned["external-filesystem-stdio"].summary :> MCSummary("external-filesystem-stdio", MCScenarios)
    @@ MCPinned["external-fetch-stdio"].summary :> MCSummary("external-fetch-stdio", MCFetchScenarios)

MCDocs == {<<"docs", "adr", "0004.md">>, <<"docs", "ops", "rollback.md">>,
           <<"docs", "architecture", "07.md">>, <<"docs", "architecture", "09.md">>}
MCRepositoryFiles ==
  MCDocs \cup {<<"scripts", "check.mjs">>, <<"scripts", "smoke.mjs">>, <<"fixtures", "a.json">>}
    \cup DOMAIN MCExternal \cup DOMAIN MCSummaries
    \cup {MCPackagePath(name) \o <<"package.json">> : name \in {"contracts", "cli"}}

-----------------------------------------------------------------------------
(* Records, manifests, the plan.                                           *)

MCItem(name) == [name |-> name, workspacePath |-> MCPackagePath(name), artifactName |-> name]
MCApproval(file, version, target) ==
  [path |-> <<"docs", "ops", "release-records", file>>,
   schemaVersion |-> "msp.release-readiness.v1", status |-> "approved",
   releaseVersion |-> version, targetCommit |-> target, registryTarget |-> "npmjs.org",
   owner |-> "approves", packages |-> <<MCItem("contracts"), MCItem("cli")>>,
   artifacts |-> <<[name |-> "contracts", source |-> MCPackagePath("contracts") \o <<"package.json">>],
                   [name |-> "cli", source |-> MCPackagePath("cli") \o <<"package.json">>]>>,
   scope |-> [externalMcpFixture |-> [status |-> "included", evidence |-> <<"docs", "adr", "0004.md">>],
              httpTransport |-> [status |-> "excluded", evidence |-> <<"docs", "architecture", "07.md">>]],
   validation |-> [name \in {"test", "check"} |-> [command |-> name, exit |-> 0]],
   rollback |-> [good |-> "none", procedure |-> <<"docs", "ops", "rollback.md">>]]

MCFirst == MCApproval("0.1.0.approved.release.json", "0.1.0", "c1")
MCFile(version) == version \o ".approved.release.json"
MCSecond(target) == MCApproval(MCFile("0.2.0"), "0.2.0", target)
MCThird(target) == MCApproval(MCFile("0.3.0-alpha.1"), "0.3.0-alpha.1", target)

MCManifest(name, version, private, dependencies) ==
  [name |-> name, version |-> version, private |-> private, layout |-> "as recorded",
   dependencies |-> dependencies]
MCDependency(group, name, version) == [group |-> group, name |-> name, version |-> version]
MCManifests(version) ==
  MCPackagePath("contracts") :> MCManifest("contracts", version, FALSE, {})
    @@ MCPackagePath("cli") :>
         MCManifest("cli", version, FALSE, {MCDependency("dependencies", "contracts", "workspace:*"),
                                            MCDependency("dependencies", "openfeature", "1.0.0")})
    @@ MCPackagePath("testkit") :> MCManifest("testkit", "0.0.0", TRUE, {})
MCDecision == [workspacePath |-> MCPackagePath("cli"), group |-> "dependencies",
               name |-> "openfeature", version |-> "1.0.0", exact |-> TRUE,
               evidence |-> <<"docs", "adr", "0004.md">>]
MCPlan ==
  [schemaVersion |-> "msp.npm-bootstrap.v1", status |-> "completed",
   bootstrapVersion |-> "0.0.0-bootstrap.0", distTag |-> "bootstrap", registry |-> "npmjs.org",
   layout |-> "as recorded", owner |-> "owner", blockers |-> {},
   packages |-> <<[name |-> "contracts", workspacePath |-> MCPackagePath("contracts")],
                  [name |-> "cli", workspacePath |-> MCPackagePath("cli")]>>,
   approval |-> [by |-> "owner", commit |-> "c1"],
   completion |-> [by |-> "owner", commit |-> "c1", artifactCommits |-> {"c1"},
                   evidence |-> "run", publisher |-> TRUE, credentialRemoved |-> TRUE]]

-----------------------------------------------------------------------------
(* The world of version 0.2.0, at rest, and its receipt.                   *)

MCAt(n) == [at |-> n, spelled |-> "date-time"]
MCRun(id, workflow, event, branch, title, commit) ==
  [id |-> id, ours |-> TRUE, workflow |-> workflow, event |-> event, headBranch |-> branch,
   displayTitle |-> title, conclusion |-> "success", headCommit |-> commit, url |-> id,
   updatedAt |-> MCAt(3)]
MCTitle(version) == [version |-> version, releaseRunId |-> 1]
MCPackument(version, at) ==
  [version |-> version, integrity |-> "one", tarballAtNpm |-> TRUE, provenance |-> TRUE,
   shasum |-> TRUE, publishedAt |-> MCAt(at),
   distTags |-> [latest |-> version, bootstrap |-> "0.0.0-bootstrap.0"]]
MCWorld(version) ==
  [runs |-> <<MCRun(1, "release.yml", "push", version, Absent, "c2"),
              MCRun(2, "registry-smoke.yml", "workflow_dispatch", "main", MCTitle(version), "c3")>>,
   tagCommit |-> "c2",
   release |-> [id |-> 7, tag |-> version, draft |-> FALSE, prerelease |-> MCChannel[version],
                url |-> version, publishedAt |-> MCAt(2)],
   registry |-> "contracts" :> MCPackument(version, 1) @@ "cli" :> MCPackument(version, 2)]
=============================================================================
