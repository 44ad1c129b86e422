---------------------------- MODULE MCDecisions -----------------------------
(***************************************************************************)
(* The questions asked of Decisions.                                       *)
(***************************************************************************)
EXTENDS MCRepository

-----------------------------------------------------------------------------
(* Arguments.                                                              *)

MCPath(plain, absolute, segments) ==
  [plain |-> plain, absolute |-> absolute, segments |-> segments]
MCHost(ip, host) == [ok |-> TRUE, ip |-> ip, host |-> host]
MCExecutable(dir, base) ==
  [dir |-> dir,
   base |-> IF base = "python3.11.exe"
            THEN [program |-> "python", version |-> <<"3", "11">>, exe |-> TRUE]
            ELSE [program |-> base, version |-> <<>>, exe |-> FALSE]]

MCString(text, looks, value) ==
  [json |-> "string", text |-> text, looks |-> looks, value |-> value,
   executable |-> MCExecutable(Absent, text)]
MCArray(items) == [json |-> "array", items |-> items]
MCRecord(fields) == [json |-> "record", fields |-> fields]
MCField(key, value) == [key |-> key, value |-> value]

MCRoot == <<"ws", "pub">>
MCPaths ==
  {MCPath(TRUE, FALSE, MCRoot \o <<"a">>), MCPath(TRUE, FALSE, <<"ws", "priv">>),
   MCPath(TRUE, FALSE, <<"ws", "public">>), MCPath(TRUE, TRUE, MCRoot),
   MCPath(TRUE, FALSE, <<".", "ws", ".", "pub">>),
   MCPath(TRUE, FALSE, MCRoot \o <<"..", "priv">>), MCPath(FALSE, FALSE, MCRoot)}

MCPathStrings == {MCString("p", looks, path) : looks \in {"path", "fileUrl"}, path \in MCPaths}
MCUrls ==
  {MCString("u", "url", host) :
     host \in {MCHost(FALSE, <<"api", "example">>), MCHost(FALSE, <<"apiexample">>),
               MCHost(TRUE, <<"10.0.0.1">>), [ok |-> FALSE, ip |-> FALSE, host |-> <<>>]}}
MCWord(text) == MCString(text, "word", Absent)
MCWords == {MCWord(text) : text \in {"git", "push", "status", "sh", "python3.11.exe", "-c"}}
MCCommands ==
  {MCRecord(<<MCField("executable", MCWord(w[1])), MCField("argv", MCArray(<<MCWord(w[2])>>))>>) :
     w \in {<<"git", "push">>, <<"git", "status">>, <<"sh", "-c">>, <<"python3.11.exe", "-c">>}}

MCShallow ==
  {MCRecord(<<MCField("path", v)>>) : v \in MCPathStrings}
    \cup {MCRecord(<<MCField("url", v)>>) : v \in MCUrls}
    \cup {MCRecord(<<MCField("token", MCWord("git"))>>), MCRecord(<<>>)}

MCSomePath == MCString("p", "path", MCPath(TRUE, FALSE, MCRoot \o <<"a">>))
MCOtherPath == MCString("p", "path", MCPath(TRUE, FALSE, <<"ws", "priv">>))
MCLists == {MCArray(<<MCSomePath, MCOtherPath>>)}
MCNested ==
  {MCRecord(<<MCField("path", MCSomePath), MCField("more", v)>>) :
     v \in {MCOtherPath, MCWord("git")} \cup MCLists
             \cup {MCRecord(<<MCField("token", MCWord("git"))>>)}}

\* Schemas of tools, and what is left of them.
MCSchemas ==
  LET clean == MCRecord(<<MCField("type", MCWord("git"))>>)
      noted == MCRecord(<<MCField("type", MCWord("git")), MCField("default", MCWord("push"))>>)
  IN  {clean, noted, MCRecord(<<MCField("items", MCArray(<<noted>>))>>),
       MCRecord(<<MCField("items", MCArray(<<clean>>))>>),
       MCArray(<<noted>>), MCArray(<<clean>>)}

MCArguments == MCShallow \cup MCNested \cup MCCommands

MCJson ==
  MCArguments \cup MCPathStrings \cup MCUrls \cup MCWords \cup MCLists \cup MCSchemas
    \cup {MCRecord(<<MCField("token", MCWord("git"))>>)}
    \cup {MCArray(<<w>>) : w \in MCWords}

-----------------------------------------------------------------------------
(* Rules and policies.                                                     *)

MCRule(id, action) ==
  [id |-> id, action |-> action, other |-> FALSE, tools |-> Absent, capabilities |-> Absent,
   methods |-> Absent, path |-> Absent, command |-> Absent, network |-> Absent,
   secret |-> Absent]
MCPathRule(allowed, denied) == [allowedRoots |-> allowed, deniedRoots |-> denied, other |-> FALSE]
MCNetworkRule(domains, ips) == {[domains |-> domains, ips |-> ips, other |-> FALSE]}
MCLabels(labels) == [labels |-> labels, other |-> FALSE]

MCWs == MCPath(TRUE, FALSE, <<"ws">>)
MCPub == MCPath(TRUE, FALSE, MCRoot)
MCPriv == MCPath(TRUE, FALSE, <<"ws", ".", "priv">>)
MCDot == MCPath(TRUE, FALSE, <<".">>)
MCUp == MCPath(TRUE, FALSE, <<"ws", "..">>)
MCExample == [canonical |-> TRUE, ip |-> FALSE, host |-> <<"example">>]
MCAddress == [canonical |-> TRUE, ip |-> TRUE, host |-> <<"10.0.0.1">>]

MCRules ==
  {[MCRule("pub", "allow") EXCEPT !.tools = {"read"}, !.path = MCPathRule({MCPub}, Absent)],
   [MCRule("ws", "allow") EXCEPT !.capabilities = {"file-read"},
                                 !.path = MCPathRule({MCWs, MCDot}, {MCPriv})],
   [MCRule("ask", "approval_required") EXCEPT !.capabilities = {"file-read"},
                                              !.path = MCPathRule({MCWs}, Absent)],
   [MCRule("priv", "deny") EXCEPT !.path = MCPathRule(Absent, {MCPriv})],
   [MCRule("no", "deny") EXCEPT !.tools = {"read"}, !.methods = {"tools/call"}],
   [MCRule("net", "allow") EXCEPT !.capabilities = {"network"},
                                  !.network = MCNetworkRule({MCExample}, {MCAddress})],
   [MCRule("git", "allow") EXCEPT
      !.capabilities = {"shell"},
      !.command = {[executable |-> MCExecutable(Absent, "git"), argv |-> <<"*">>, other |-> FALSE]}],
   [MCRule("python", "allow") EXCEPT
      !.capabilities = {"shell"},
      !.command = {[executable |-> MCExecutable(Absent, "python3.11.exe"), argv |-> <<"*">>, other |-> FALSE]}],
   [MCRule("push", "deny") EXCEPT
      !.command = {[executable |-> MCExecutable(Absent, "git"), argv |-> <<"push">>, other |-> FALSE]}],
   [MCRule("key", "allow") EXCEPT !.capabilities = {"file-read", "secret"},
                                  !.path = MCPathRule({MCPub}, Absent),
                                  !.secret = MCLabels({"token"})],
   [MCRule("up", "allow") EXCEPT !.path = MCPathRule({MCWs, MCUp}, Absent)],
   [MCRule("none", "deny") EXCEPT !.methods = Absent],
   [MCRule("all", "deny") EXCEPT !.capabilities = {}]}

MCAudit(destination, path) ==
  [destination |-> destination, path |-> path, onFailure |-> "fail_closed",
   includeRawArguments |-> FALSE, includeFullPaths |-> FALSE, other |-> FALSE]
MCFileAudit == MCAudit("file", "audit.jsonl")
MCProfile(id, rules, audit) ==
  [id |-> id, defaultAction |-> "deny", rules |-> rules, audit |-> audit, other |-> FALSE]
MCPolicy(profiles) ==
  [schemaVersion |-> "msp.policy.v1", defaultAction |-> "deny", other |-> FALSE,
   methodPolicy |-> [allowedMethods |-> <<"initialize", "ping", "tools/list", "tools/call">>,
                     denyUnsupported |-> TRUE, other |-> FALSE],
   profiles |-> profiles, redaction |-> Absent]
MCOf(rules) == MCPolicy(<<MCProfile("p", rules, MCFileAudit)>>)

MCPolicies ==
  {MCOf(<<>>)} \cup {MCOf(<<rule>>) : rule \in MCRules}
    \cup {MCOf(<<first, second>>) : first, second \in MCRules}

MCTool(name, keywords) ==
  [name |-> name, keywords |-> keywords, description |-> Absent, title |-> Absent,
   inputSchema |-> Absent, outputSchema |-> Absent, annotations |-> Absent, extra |-> {}]
MCTools ==
  {MCTool("read", {"file"}), MCTool("run", {"command"}), MCTool("get", {"url"}),
   MCTool("key", {"file", "token"}), MCTool("odd", {})}

-----------------------------------------------------------------------------
(* Streams: texts of a few characters, cut in every way in two, and the     *)
(* shorter ones in three.                                                  *)

MCCharacters == {<<"x">>, <<"w1", "w2", "w3">>, <<CR>>, <<LF>>}
MCTorn == {<<>>, <<"w1">>, <<"w1", "w2">>}
MCTexts(n) ==
  {FlattenSeq(characters) \o torn : characters \in BoundedSeq(MCCharacters, n), torn \in MCTorn}
MCCuts(text, ends) ==
  {<<SubSeq(text, 1, i), SubSeq(text, i + 1, j), SubSeq(text, j + 1, Len(text))>> :
     i \in 0..Len(text), j \in ends}
MCStreams ==
  UNION {MCCuts(t, {Len(t)}) : t \in MCTexts(4)} \cup UNION {MCCuts(t, 0..Len(t)) : t \in MCTexts(3)}

-----------------------------------------------------------------------------
(* Command lines and files.                                                *)

MCGood == MCPolicy(<<MCProfile("p", <<>>, MCFileAudit),
                     MCProfile("q", <<>>, MCAudit("stdout", Absent))>>)
MCFiles ==
  "good" :> MCGood
    @@ "bad" :> [MCGood EXCEPT !.defaultAction = "allow"]
    @@ "broken" :> Malformed
    @@ "twice" :> MCPolicy(<<MCProfile("p", <<>>, MCFileAudit), MCProfile("p", <<>>, MCFileAudit)>>)
    @@ "quiet" :> MCPolicy(<<MCProfile("p", <<>>, MCAudit("file", Absent))>>)
    @@ "plain" :> [MCGood EXCEPT !.methodPolicy.allowedMethods = <<"ping", "ping">>]
    @@ "marks" :> [MCGood EXCEPT !.redaction =
         [detectors |-> <<[id |-> "d", kind |-> "prompt", replacement |-> "", other |-> FALSE]>>,
          other |-> FALSE]]
    @@ "list" :> [tools |-> <<MCTool("read", {"file"})>>]
    @@ "call" :> [method |-> "tools/call", tool |-> "read", capabilities |-> <<"file-read">>,
                  facts |-> <<[kind |-> "secret", label |-> "token"]>>]

MCFlagged(name, value) == <<Flag(name), Word(value)>>
MCSnippets ==
  {<<Word("config-snippet")>> \o MCFlagged("target", target) \o name
     \o MCFlagged("policy", policy) \o MCFlagged("profile", profile)
     \o stray \o <<Separator>> \o upstream :
     target \in {"stdio-json", "codex-cli-json", "gemini-cli-json", "other"},
     name \in {<<>>, MCFlagged("name", "srv"), MCFlagged("name", "my_srv"), <<Flag("name")>>},
     policy \in {"good", "bad", "missing"}, profile \in {"p", "q", "r"},
     stray \in {<<>>, <<Word("stray")>>, MCFlagged("proxy-command", "msp"), <<Flag("json")>>},
     upstream \in {<<>>, <<Word("srv")>>, <<Word("srv"), Separator, Flag("help"), Word("")>>,
                   <<Word("srv"), Word("bell")>>}}
MCRuns ==
  {MCFlagged("max-json-depth", depth) \o <<Word("run")>> \o MCFlagged("policy", policy)
     \o MCFlagged("profile", "p") \o flags \o <<Separator, Word("srv")>> :
     depth \in {"8", "0", "x"},
     policy \in {"good", "broken", "twice", "quiet", "plain", "marks"},
     flags \in {<<>>, <<Flag("json")>>, MCFlagged("watch-policy", "yes"),
                MCFlagged("ops-feature-flags", "f"), MCFlagged("audit-log", "-")}}
MCOthers ==
  {<<>>, <<Flag("help")>>, <<Word("help"), Word("run")>>, <<Separator, Word("frob")>>,
   <<Word("check-policy")>> \o MCFlagged("policy", "good"),
   <<Word("check-policy")>> \o MCFlagged("policy", "bad"),
   <<Word("check-policy"), Flag("policy")>>,
   <<Word("inspect-tools")>> \o MCFlagged("input", "list") \o MCFlagged("policy", "good"),
   <<Word("inspect-tools")>> \o MCFlagged("input", "missing"),
   <<Word("eval-call")>> \o MCFlagged("input", "call") \o MCFlagged("policy", "good"),
   <<Word("eval-call")>> \o MCFlagged("input", "missing") \o MCFlagged("policy", "broken")}
MCCommandLines == MCSnippets \cup MCRuns \cup MCOthers

MCNumeral == "8" :> 8 @@ "0" :> 0

-----------------------------------------------------------------------------
(* Frames.                                                                 *)

MCEnvelope == [id |-> Absent, method |-> Absent, params |-> Absent, result |-> Absent,
               error |-> Absent, extra |-> {}]
MCIds == {Absent, Malformed, [type |-> "number", value |-> "1"]}
MCParams == {Absent, Malformed, EmptyParams, [EmptyParams EXCEPT !.name = "read"],
             [EmptyParams EXCEPT !.name = "read", !.extra = {"_meta"}]}
MCRequests ==
  {[MCEnvelope EXCEPT !.id = id, !.method = method, !.params = params, !.extra = extra] :
     id \in MCIds, method \in {"", "ping", "tools/list", "tools/call", "resources/list"},
     params \in MCParams, extra \in {{}, {"_meta"}}}
MCErrors ==
  {[message |-> [text |-> "m", kinds |-> kinds], data |-> data, extra |-> extra] :
     kinds \in {{}, {"path"}, {"prompt"}}, data \in BOOLEAN, extra \in {{}, {"x"}}}
MCListed ==
  LET read == MCTool("read", {"file"})
  IN  {<<>>, <<read, read>>, <<Malformed, read>>,
       <<[read EXCEPT !.extra = {"_meta"}, !.title = Malformed], MCTool("odd", {})>>}
        \cup {<<[read EXCEPT !.inputSchema = schema]>> : schema \in MCSchemas}
MCResults ==
  {EmptyResult, Malformed, [EmptyResult EXCEPT !.extra = {"x"}],
   [EmptyResult EXCEPT !.tools = Malformed]}
    \cup {[EmptyResult EXCEPT !.tools = tools, !.nextCursor = "c", !.extra = {"x"}] :
            tools \in MCListed}
MCResponses ==
  {[MCEnvelope EXCEPT !.id = id, !.result = outcome[1], !.error = outcome[2],
                      !.params = params, !.extra = extra] :
     id \in MCIds, params \in {Absent, EmptyParams}, extra \in {{}, {"x"}},
     outcome \in ({Absent} \X ({Absent, Malformed} \cup MCErrors))
                   \cup (MCResults \X {Absent})}
MCDetector(kind) == [id |-> kind, kind |-> kind, replacement |-> "x", other |-> FALSE]
MCSessionPolicies ==
  LET shows == [MCRule("shows", "allow") EXCEPT !.tools = {"read", "odd"}]
      allMethods == MCOf(<<shows>>)
  IN  {allMethods,
       [allMethods EXCEPT !.redaction =
          [detectors |-> <<MCDetector("path")>>, other |-> FALSE]],
       [allMethods EXCEPT !.methodPolicy.allowedMethods = <<"tools/list">>]}
MCFrame(envelope) ==
  [bytes |-> 1, newline |-> FALSE, json |-> TRUE, depth |-> 1, envelope |-> envelope]
MCBadFrames ==
  {[MCFrame(Malformed) EXCEPT !.bytes = 2], [MCFrame(Malformed) EXCEPT !.newline = TRUE],
   [MCFrame(Malformed) EXCEPT !.json = FALSE], [MCFrame(Malformed) EXCEPT !.depth = 2],
   MCFrame(Malformed)}
MCFrames == {MCFrame(e) : e \in MCRequests \cup MCResponses} \cup MCBadFrames

-----------------------------------------------------------------------------
(* Approval hooks.                                                         *)

MCTimeouts == {0, 2, 4}
MCValues == {[approved |-> approved, reason |-> Absent] : approved \in BOOLEAN}
              \cup {[approved |-> TRUE, reason |-> Malformed], Malformed}
MCAnswer(status, value, at) ==
  [status |-> status, value |-> value, at |-> at, byAbort |-> FALSE]
MCAnswers ==
  {MCAnswer("fulfilled", value, at) : value \in MCValues, at \in {1, 3}}
    \cup {MCAnswer("rejected", Absent, at) : at \in {1, 3}} \cup {MCAnswer("never", Absent, 0)}
MCMade == MCAnswer("fulfilled", TRUE, 1)
MCGives(created, answers) == [created |-> created, answers |-> answers]
MCYes == MCAnswer("fulfilled", [approved |-> TRUE, reason |-> Absent], 1)
MCNo == MCAnswer("fulfilled", [approved |-> FALSE, reason |-> Absent], 1)
MCThrow == MCAnswer("rejected", Absent, 1)
MCGoodAdapter ==
  [approve |-> MCGives(MCMade, <<MCYes>>), reject |-> MCGives(MCMade, <<MCNo>>),
   error |-> MCGives(MCMade, <<MCThrow>>),
   abort |-> MCGives(MCMade, <<[MCThrow EXCEPT !.byAbort = TRUE]>>),
   concurrent |-> MCGives(MCMade, <<MCYes, MCNo>>)]
MCUnmade == {MCAnswer("fulfilled", FALSE, 1), MCAnswer("rejected", FALSE, 1),
             MCAnswer("never", FALSE, 0), MCAnswer("fulfilled", TRUE, 3)}
MCAdapters ==
  UNION {{[MCGoodAdapter EXCEPT ![scenario].answers[1] = a] : a \in MCAnswers} :
           scenario \in Approval!Scenario}
    \cup {[MCGoodAdapter EXCEPT !.abort.answers[1] = [a EXCEPT !.byAbort = TRUE]] : a \in MCAnswers}
    \cup {[MCGoodAdapter EXCEPT !.concurrent.answers[2] = a] : a \in MCAnswers}
    \cup {[MCGoodAdapter EXCEPT ![scenario].created = c] :
            scenario \in Approval!Scenario, c \in MCUnmade}

-----------------------------------------------------------------------------
(* Tagged trees: three records in histories with and without a fork, and    *)
(* one tree with each of its parts changed.                                *)

MCLine == {<<"c1", "c2">>, <<"c1", "c3">>, <<"c2", "c3">>}
MCFork == {<<"c1", "c2">>, <<"c1", "c3">>}
MCAncestors(before) ==
  before \cup {<<c, "h">> : c \in MCCommit} \cup {<<c, c>> : c \in MCCommit}
MCChanged(records, more) ==
  [c \in MCCommit |-> more \cup {r.path : r \in {r \in ToSet(records) : r.targetCommit = c}}]

MCPublished ==
  Repository!BuildReceipt(MCWorld("0.1.0"),
    [version |-> "0.1.0", releaseRunId |-> 1, registrySmokeRunId |-> 2, recordedAt |-> MCAt(4)])

MCTree(records, before, version) ==
  [files |-> MCRepositoryFiles, marked |-> {}, evidence |-> MCEvidence, external |-> MCExternal,
   summaries |-> MCSummaries, records |-> records, head |-> "h",
   ancestors |-> MCAncestors(before), changed |-> MCChanged(records, {}),
   root |-> MCManifest("workspace", "0.0.0", TRUE, {MCDependency("devDependencies", "tsc", "6")}),
   manifests |-> MCManifests(version),
   dist |-> [path \in DOMAIN MCManifests(version) |-> {"index.js", "index.d.ts"}],
   decisions |-> {MCDecision}, plan |-> MCPlan,
   publications |-> Repository!PublicationPath("0.1.0") :> MCPublished]

MCBase == MCTree(<<MCFirst, MCSecond("c2")>>, MCLine, "0.2.0")

MCHistories ==
  {MCTree(records, before, version) :
     before \in {MCLine, MCFork}, version \in {"0.1.0", "0.2.0", "0.3.0-alpha.1"},
     records \in
       {<<MCFirst, MCSecond(second), [MCThird(third) EXCEPT !.status = status]>> :
          second \in MCCommit \cup {Absent}, third \in MCCommit, status \in {"approved", "proposed"}}}

MCLast == Len(MCBase.records)
MCWithRecord(record) == [MCBase EXCEPT !.records[MCLast] = record]
MCRecords ==
  LET r == MCBase.records[MCLast]
  IN  {MCWithRecord(changed) : changed \in
         {[r EXCEPT !.schemaVersion = "other"], [r EXCEPT !.status = "blocked"],
          [r EXCEPT !.registryTarget = Absent], [r EXCEPT !.registryTarget = "mirror of npmjs.org"],
          [r EXCEPT !.registryTarget = "elsewhere"], [r EXCEPT !.owner = "blocked"],
          [r EXCEPT !.packages = <<>>], [r EXCEPT !.packages = Reverse(@)],
          [r EXCEPT !.packages = Tail(@)], [r EXCEPT !.packages[1].artifactName = "ghost"],
          [r EXCEPT !.packages[1].workspacePath = <<"packages", "..", "x">>],
          [r EXCEPT !.packages[2].name = "contracts"], [r EXCEPT !.artifacts = <<>>],
          [r EXCEPT !.artifacts[1].source = <<".env">>],
          [r EXCEPT !.scope["externalMcpFixture"].evidence = <<"docs", "architecture", "09.md">>],
          [r EXCEPT !.scope["externalMcpFixture"] =
             [status |-> "excluded", evidence |-> <<"docs", "architecture", "09.md">>]],
          [r EXCEPT !.scope["httpTransport"] =
             [status |-> "included", evidence |-> <<"docs", "adr", "0004.md">>]],
          [r EXCEPT !.scope["httpTransport"].evidence = Absent],
          [r EXCEPT !.validation["test"].exit = 1], [r EXCEPT !.validation["check"] = Absent],
          [r EXCEPT !.rollback.good = "0.2.0"], [r EXCEPT !.rollback.procedure = <<"docs", "gone.md">>],
          [r EXCEPT !.path = <<"docs", "ops", "release-records", "other.release.json">>]}}

MCEvidences ==
  LET summary == MCPinned["external-filesystem-stdio"].summary
      manifest == MCPinned["external-filesystem-stdio"].manifest
  IN  {[MCBase EXCEPT !.files = @ \ {summary}], [MCBase EXCEPT !.files = @ \ {manifest}],
       [MCBase EXCEPT !.marked = {summary}], [MCBase EXCEPT !.marked = {MCFirst.path}],
       [MCBase EXCEPT !.files = @ \cup {<<"fixtures", "audit", "raw.jsonl">>}],
       [MCBase EXCEPT !.summaries[summary].client = "sdk 2"],
       [MCBase EXCEPT !.summaries[summary].normalized = FALSE],
       [MCBase EXCEPT !.summaries[summary].scenarios.deniedPrivateRead = Absent],
       [MCBase EXCEPT !.summaries[summary].scenarios.shows = {}],
       [MCBase EXCEPT !.summaries[summary].scenarios.auditHasRoot = TRUE],
       [MCBase EXCEPT !.external[manifest].server = "other"],
       [MCBase EXCEPT !.external[manifest].scenarios = <<>>],
       [MCBase EXCEPT !.evidence.targets = SubSeq(@, 1, 2)],
       [MCBase EXCEPT !.evidence.targets = <<@[1], @[2], @[2]>>],
       [MCBase EXCEPT !.evidence.targets[2].transport = "http",
                      !.records[MCLast].scope["httpTransport"] =
                        [status |-> "included", evidence |-> <<"docs", "adr", "0004.md">>]],
       [MCBase EXCEPT !.evidence.targets[2].command = <<"node">>],
       [MCBase EXCEPT !.evidence.targets[1].evidence = "file"],
       [MCBase EXCEPT !.evidence.entries = Tail(@)],
       [MCBase EXCEPT !.evidence.entries[1].agrees = FALSE],
       [MCBase EXCEPT !.evidence.entries[1].path = Absent],
       [MCBase EXCEPT !.evidence.entries[1].id = "two"],
       [MCBase EXCEPT !.evidence.entries[1].kind = "other"],
       [MCBase EXCEPT !.evidence.entries[1].call = <<"..", "x">>],
       [MCBase EXCEPT !.evidence.entries[2].command.head = <<"run">>],
       [MCBase EXCEPT !.evidence.entries[2].command.options = [policy |-> Absent]],
       [MCBase EXCEPT !.evidence.entries[3].command = Absent]}

MCPlansOf(plan) ==
  {[plan EXCEPT !.status = "approved"], [plan EXCEPT !.status = "other"],
   [plan EXCEPT !.status = "approved", !.blockers = {"credential"}],
   [plan EXCEPT !.status = "blocked", !.blockers = {"credential"},
                !.approval = [by |-> Absent, commit |-> Absent],
                !.completion = [by |-> Absent, commit |-> Absent, artifactCommits |-> {},
                                evidence |-> Absent, publisher |-> FALSE,
                                credentialRemoved |-> FALSE]],
   [plan EXCEPT !.approval.by = "somebody"], [plan EXCEPT !.completion.publisher = FALSE],
   [plan EXCEPT !.completion.artifactCommits = {}], [plan EXCEPT !.distTag = "latest"],
   [plan EXCEPT !.packages = Reverse(@)]}

MCSurfaces ==
  LET cli == MCPackagePath("cli")
  IN  {[MCBase EXCEPT !.manifests[cli].version = "0.1.0"],
       [MCBase EXCEPT !.manifests[cli].private = TRUE],
       [MCBase EXCEPT !.manifests[cli].private = TRUE, !.manifests[cli].version = "0.0.0"],
       [MCBase EXCEPT !.manifests[cli].layout = "other"],
       [MCBase EXCEPT !.manifests[cli].dependencies = {}],
       [MCBase EXCEPT !.manifests[cli].dependencies = @ \cup {MCDependency("dependencies", "sdk", "1")}],
       [MCBase EXCEPT !.manifests[cli].dependencies =
          @ \cup {MCDependency("devDependencies", "testkit", "workspace:*")}],
       [MCBase EXCEPT !.manifests[cli].dependencies =
          {MCDependency("dependencies", "contracts", "workspace:^")}],
       [MCBase EXCEPT !.manifests[cli].dependencies =
          @ \cup {MCDependency("devDependencies", "testkit", "workspace:^")}],
       [MCBase EXCEPT !.dist[cli] = {"index.js"}], [MCBase EXCEPT !.root.private = FALSE],
       [MCBase EXCEPT !.root.dependencies = {MCDependency("dependencies", "openfeature", "1.0.0")}],
       [MCBase EXCEPT !.decisions = {[MCDecision EXCEPT !.version = "2.0.0"]}],
       [MCBase EXCEPT !.decisions = @ \cup {[MCDecision EXCEPT !.name = "unused"]}],
       [MCBase EXCEPT !.changed["c2"] = @ \cup {<<"packages", "cli", "index.ts">>}],
       [MCBase EXCEPT !.records = <<>>, !.manifests = [p \in DOMAIN @ |->
          [@[p] EXCEPT !.private = TRUE, !.version = "0.0.0"]]],
       [MCBase EXCEPT !.publications = << >>]}

MCVariations ==
  {MCBase} \cup MCRecords \cup MCEvidences \cup MCSurfaces
    \cup {[MCBase EXCEPT !.plan = plan] : plan \in MCPlansOf(MCPlan)}
MCTrees == MCVariations \cup MCHistories

-----------------------------------------------------------------------------
(* Receipts of version 0.2.0.                                              *)

MCManual ==
  [version |-> "0.2.0", releaseRunId |-> 1, registrySmokeRunId |-> 2, recordedAt |-> MCAt(4),
   output |-> "0.2.0"]
MCNone == [field \in DOMAIN MCManual |-> Absent]
MCOptions ==
  {MCNone, MCManual, [MCManual EXCEPT !.version = "0.1.0"], [MCManual EXCEPT !.version = "latest"],
   [MCManual EXCEPT !.version = Absent], [MCManual EXCEPT !.releaseRunId = 2],
   [MCManual EXCEPT !.releaseRunId = 0], [MCManual EXCEPT !.registrySmokeRunId = 3],
   [MCManual EXCEPT !.output = "0.1.0"], [MCManual EXCEPT !.output = Absent]}
    \cup {[MCNone EXCEPT !.recordedAt = [at |-> at, spelled |-> spelled]] :
            at \in 0..4, spelled \in {"date-time", "date", "other"}}
MCByWorkflow ==
  [request |-> MCTitle("0.2.0"), registrySmokeRunId |-> 2, output |-> Absent,
   hasOutputDir |-> TRUE, now |-> MCAt(5)]
MCByHand ==
  [MCByWorkflow EXCEPT !.request = Absent, !.registrySmokeRunId = Absent, !.hasOutputDir = FALSE]
MCEnvironments ==
  {MCByWorkflow, MCByHand, [MCByWorkflow EXCEPT !.request = MCTitle(Absent)],
   [MCByWorkflow EXCEPT !.request = MCTitle("0.1.0")],
   [MCByWorkflow EXCEPT !.registrySmokeRunId = 1], [MCByHand EXCEPT !.output = "0.2.0"],
   [MCByWorkflow EXCEPT !.output = "0.1.0"]}

MCNow == MCWorld("0.2.0")
MCWorlds ==
  {MCNow, MCWorld("0.1.0"), [MCNow EXCEPT !.tagCommit = "c3"], [MCNow EXCEPT !.tagCommit = Absent],
   [MCNow EXCEPT !.release = Absent], [MCNow EXCEPT !.release.id = 0],
   [MCNow EXCEPT !.release.draft = TRUE], [MCNow EXCEPT !.release.prerelease = TRUE],
   [MCNow EXCEPT !.release.url = "0.1.0"], [MCNow EXCEPT !.release.publishedAt = MCAt(0)],
   [MCNow EXCEPT !.release.publishedAt = MCAt(4)],
   [MCNow EXCEPT !.release.publishedAt.spelled = "date"],
   [MCNow EXCEPT !.runs[1].conclusion = "failure"], [MCNow EXCEPT !.runs[1].headBranch = "v"],
   [MCNow EXCEPT !.runs[1].workflow = "ci.yml"], [MCNow EXCEPT !.runs[1].event = "schedule"],
   [MCNow EXCEPT !.runs[1].headCommit = "c3"], [MCNow EXCEPT !.runs[1].ours = FALSE],
   [MCNow EXCEPT !.runs[1].id = 2], [MCNow EXCEPT !.runs[1].url = 2],
   [MCNow EXCEPT !.runs[2].displayTitle = MCTitle("0.1.0")],
   [MCNow EXCEPT !.runs[2].conclusion = Absent], [MCNow EXCEPT !.runs[2].updatedAt = MCAt(1)],
   [MCNow EXCEPT !.registry["cli"].version = Absent],
   [MCNow EXCEPT !.registry["cli"].integrity = "several"],
   [MCNow EXCEPT !.registry["cli"].integrity = Absent],
   [MCNow EXCEPT !.registry["cli"].provenance = FALSE],
   [MCNow EXCEPT !.registry["cli"].shasum = FALSE],
   [MCNow EXCEPT !.registry["cli"].publishedAt = MCAt(4)],
   [MCNow EXCEPT !.registry["cli"].publishedAt.spelled = "date"],
   [MCNow EXCEPT !.registry["cli"].distTags.latest = "0.3.0-alpha.1"],
   [MCNow EXCEPT !.registry["cli"].distTags.bootstrap = Absent]}

MCPublications ==
  {[trees |-> {MCBase}, worlds |-> MCWorlds], [trees |-> MCVariations, worlds |-> {MCNow}]}
=============================================================================
