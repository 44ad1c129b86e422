----------------------------- MODULE Decisions ------------------------------
(***************************************************************************)
(* The parts of the proxy that only compute, asked one question at a time:  *)
(* the decision on a tool call, the frames in a byte stream, what is handed *)
(* on of an envelope, the commands of the CLI, the conformance of an        *)
(* approval hook; and the repository's scripts, asked about a tagged tree   *)
(* and for the receipt of a publication.  Each is compared with what it is  *)
(* for, said another way.                                                  *)
(***************************************************************************)
EXTENDS CommandLine, Envelopes, Framing

CONSTANTS
  Rules,        \* rules as the policy files have them
  Policies,     \* policy files, with the profile "p"
  SessionPolicies, \* those a session's frames are handed on under
  Tools,        \* tool descriptors
  Arguments,    \* JSON values a call may have for its arguments
  Streams,      \* sequences of chunks
  CommandLines, \* sequences of arguments
  Files,        \* the files the commands read
  ClientFrames,
  ServerFrames,
  Adapters,     \* approval hooks, with how they are made
  Timeouts,     \* settle timeouts of the conformance check
  MaximumTimeout,
  \* The repository, its releases and its scripts.
  Pinned, EvidenceKind, EvidenceId, ForbiddenSegment, RedactedName, Commit, Package,
  PrivatePackage, Validation, ScopeDecision, SdkPackage, Bootstrap, NamesNpm, Channel, RequiredV2,
  Trees,        \* trees that are tagged
  TagVersions,
  Publications, \* sets of trees, each with the worlds a receipt is asked for in
  Options,      \* what is given to the receipt's script
  Environments

Approval == INSTANCE Conformance

Repository == INSTANCE Receipts WITH None <- Absent

\* What is a path or a host has the parts of one.
IsPath(path) == path.absolute \in BOOLEAN /\ IsList(path.segments)

IsString(v) ==
  /\ v.looks \in {"path", "fileUrl"} => IsPath(v.value)
  /\ v.looks = "url" => IsList(v.value.host)

\* A rule is an object with every key its parser reads.
IsRule(rule) ==
  /\ Selectors \cup {"id", "action", "other"} \subseteq DOMAIN rule
  /\ rule.path # Absent =>
       \A roots \in {rule.path.allowedRoots, rule.path.deniedRoots} :
         \A root \in Members(roots) : IsPath(root)
  /\ \A network \in Members(rule.network) :
       \A domain \in Members(network.domains) : IsList(domain.host)

IsPolicy(policy) ==
  /\ IsList(policy.profiles)
  /\ \A profile \in ToSet(policy.profiles) :
       IsList(profile.rules) /\ \A rule \in ToSet(profile.rules) : IsRule(rule)

\* The answers of a hook come at a time, and the check and the session wait a while.
IsTimed(adapter) ==
  \A scenario \in Approval!Scenario :
    \A i \in 1..(IF scenario = "concurrent" THEN 2 ELSE 1) :
      adapter[scenario].answers[i].at \in Int

\* What the scripts are given: a tree has its parts, a version's receipt a path of its
\* own, what is spelled as a date has a time, and a GitHub Release is something.
IsTree(t) == {"plan", "records", "publications"} \subseteq DOMAIN t

\* Git's history is a partial order, and the records are files.
IsHistory(t) ==
  LET before(older, newer) == <<older, newer>> \in t.ancestors
  IN  /\ \A a \in Commit : before(a, a)
      /\ \A a, b, c \in Commit : before(a, b) /\ before(b, c) => before(a, c)
      /\ IsList(t.records) /\ Absent \notin ToSet(t.records)
      /\ \A record, other \in ToSet(t.records) : record.path = other.path => record = other

IsTime(moment) == Repository!IsoDate(moment) => moment.at \in Nat

Recorded ==
  {given.recordedAt : given \in Options}
    \cup {environment.now : environment \in Environments}

IsWorld(w) ==
  /\ \A id \in DOMAIN w.runs : IsTime(w.runs[id].updatedAt)
  /\ \A name \in ToSet(Package) : IsTime(w.registry[name].publishedAt)
  /\ w.release # Absent => \A at \in Recorded : Repository!ReceiptRelease(w, at) # Absent

ASSUME RepositoryAssumption ==
  /\ IsList(Package) /\ Package # <<>> /\ IsInjective(Package)
  /\ \A version, other \in DOMAIN Channel :
       Repository!PublicationPath(version) = Repository!PublicationPath(other)
         => version = other
  /\ "external-filesystem-stdio" \in DOMAIN Pinned
  /\ Pinned["external-filesystem-stdio"].profile = "filesystem"
  /\ {"externalMcpFixture", "httpTransport"} \subseteq DOMAIN ScopeDecision
  /\ \A t \in Trees : IsHistory(t)
  /\ \A asked \in Publications :
       (\A t \in asked.trees : IsTree(t)) /\ (\A w \in asked.worlds : IsWorld(w))
  /\ \A given \in Options : given.recordedAt = Absent \/ IsTime(given.recordedAt)
  /\ \A environment \in Environments : environment.now # Absent /\ IsTime(environment.now)

VARIABLES question, answer
vars == <<question, answer>>

Nothing == [kind |-> "none"]

Init == question = Nothing /\ answer = Nothing

Ask(q, a) == question' = q /\ answer' = a

\* The proxy decides under a policy file it has accepted.
Accepted(policies) == {policy \in policies : PolicyOk(policy)}

CallOf(tool, arguments) ==
  [tool |-> tool.name, capabilities |-> Classify(tool, <<>>), facts |-> ExtractFacts[arguments]]

ASSUME DecisionsAssumption ==
  /\ Arguments \subseteq Json
  /\ \A v \in Json : v.json = "string" => IsString(v)
  /\ \A policy \in Accepted(Policies) : IsPolicy(policy)
  /\ \A adapter \in Adapters : IsTimed(adapter)
  /\ Timeouts \subseteq Int /\ MaximumTimeout \in Int

\* A frame and a message have their parts.
EnvelopeField == {"id", "method", "params", "result", "error", "extra"}

HasFields(envelope) == envelope = [field \in EnvelopeField |-> envelope[field]]

IsEnvelope(envelope) ==
  /\ HasFields(envelope)
  /\ Given(envelope.result) /\ Given(envelope.result.tools) =>
       /\ IsList(envelope.result.tools)
       /\ \A tool \in ToSet(envelope.result.tools) : tool = Malformed \/ IsTool(tool)

\* What the session makes of a message or of its parts.
Made(envelope, policy) ==
  LET unerring == SanitizeError(envelope, policy.redaction)
      response == SanitizeResponse(unerring)
      filtered == FilterToolList(response.result, ProfileRules(policy, "p"))
  IN  {SanitizeRequest(envelope), SanitizeResponse(envelope), response, filtered, filtered.tools,
       [response EXCEPT !.result = filtered]}
        \cup (IF envelope.error = Absent THEN {} ELSE {unerring.error})
        \cup ToSet(filtered.tools)

\* Absent and Malformed are no texts, no objects and no lists.
ASSUME FramesAssumption ==
  /\ Absent \notin {"jsonrpc.frame_too_large", "jsonrpc.invalid", "jsonrpc.too_deep"}
  /\ \A frame \in ClientFrames \cup ServerFrames :
       /\ {"bytes", "newline", "json", "depth", "envelope"} \subseteq DOMAIN frame
       /\ EnvelopeOk(frame.envelope) =>
            /\ IsEnvelope(frame.envelope)
            /\ \A policy \in Accepted(SessionPolicies) :
                 {Absent, Malformed} \cap Made(frame.envelope, policy) = {}

\* A stream is a list of chunks, each a list of bytes.
ASSUME StreamsAssumption ==
  /\ FrameLimit \in Nat
  /\ \A chunks \in Streams : IsList(chunks) /\ \A i \in DOMAIN chunks : IsList(chunks[i])

\* A command line is a list of arguments, and a policy that it names has its profiles in
\* a list.
ASSUME CommandsAssumption ==
  /\ Absent \notin CommandName
  /\ \A argv \in CommandLines :
       LET path == Value(ParseArgs(argv), "policy", "")
       IN  /\ IsList(argv)
           /\ path \in DOMAIN Files /\ Files[path] # Malformed /\ Given(Files[path].profiles) =>
                IsList(Files[path].profiles)

EvaluateCall(policy, tool, arguments, approvalHook) ==
  LET rules == ProfileRules(policy, "p")
      call == CallOf(tool, arguments)
  IN  Ask([kind |-> "call", rules |-> rules, call |-> call,
           arguments |-> arguments, approvalHook |-> approvalHook],
          EvaluateToolCall(rules, call, approvalHook))

ReadStream(chunks) ==
  Ask([kind |-> "stream", chunks |-> chunks],
      [frames |-> ConsumeFrames(chunks)])

RunCommand(argv) ==
  Ask([kind |-> "command", argv |-> argv], RunCli(argv, Files, TRUE))

HandOnFromClient(frame, policy, matched) ==
  Ask([kind |-> "client frame", frame |-> frame, policy |-> policy, matched |-> matched],
      FromClient(frame, policy, matched))

HandOnFromServer(frame, policy, matched) ==
  Ask([kind |-> "server frame", frame |-> frame, policy |-> policy, matched |-> matched],
      FromServer(frame, policy, ProfileRules(policy, "p"), matched))

CheckHook(adapter, abortAfter, timeout) ==
  Ask([kind |-> "hook", adapter |-> adapter, timeout |-> timeout],
      Approval!RunConformance(adapter, abortAfter, timeout))

CheckTag(t, version) ==
  Ask([kind |-> "tag", tree |-> t, version |-> version],
      [checked |-> Repository!ChecksOk(t) /\ Repository!PublicationsOk(t),
       planned |-> Repository!TagPlanOk(t, version)])

MakeReceipt(t, given, environment, world) ==
  Ask([kind |-> "receipt", tree |-> t],
      [receipt |-> Repository!GenerateReceipt(t, given, environment, world)])

Forget == question # Nothing /\ question' = Nothing /\ answer' = Nothing

Next ==
  \/ /\ question = Nothing
     /\ \/ \E policy \in Accepted(Policies), tool \in Tools, arguments \in Arguments,
             approvalHook \in BOOLEAN : EvaluateCall(policy, tool, arguments, approvalHook)
        \/ \E chunks \in Streams : ReadStream(chunks)
        \/ \E argv \in CommandLines : RunCommand(argv)
        \/ \E policy \in Accepted(SessionPolicies), frame \in ClientFrames,
             matched \in {Absent, "ping"} : HandOnFromClient(frame, policy, matched)
        \/ \E policy \in Accepted(SessionPolicies), frame \in ServerFrames,
             matched \in {Absent, "ping", "tools/list"} : HandOnFromServer(frame, policy, matched)
        \/ \E adapter \in Adapters, abortAfter, timeout \in Timeouts :
             CheckHook(adapter, abortAfter, timeout)
        \/ \E t \in Trees, version \in TagVersions : CheckTag(t, version)
        \/ \E asked \in Publications : \E t \in asked.trees, world \in asked.worlds,
             given \in Options, environment \in Environments :
             MakeReceipt(t, given, environment, world)
  \/ Forget

Spec == Init /\ [][Next]_vars

-----------------------------------------------------------------------------
(* The decision on a call, from its arguments as they were sent.           *)

Inside[v \in Json] == {v} \cup UNION {Inside[w] : w \in Parts(v)}

Strings(arguments, looks) ==
  {v.value : v \in {v \in Inside[arguments] : v.json = "string" /\ v.looks \in looks}}

KeysInside(arguments) ==
  UNION {{f.key : f \in ToSet(v.fields)} : v \in {v \in Inside[arguments] : v.json = "record"}}

Commands(arguments) ==
  UNION {ToSet(CommandFacts(v)) : v \in {v \in Inside[arguments] : v.json = "record"}}

SecretLabels == {"api-key", "token", "password", "credential", "secret"}

\* The rule names the program, in this directory if it names one, and each argument.
AllowsCommand(rule, command) ==
  /\ rule.executable.base = command.executable.base
  /\ rule.executable.dir \in {Absent, command.executable.dir}
  /\ Len(IF rule.argv = Absent THEN <<>> ELSE rule.argv) = Len(command.argv)
  /\ \A i \in DOMAIN command.argv : rule.argv[i] \in {"*", command.argv[i]}

\* A path as the places one passes on the way to it.
Way(path) ==
  <<path.absolute>> \o Only(path.segments, ToSet(path.segments) \ {"."})

Below(path, root) ==
  /\ Len(Way(root)) <= Len(Way(path))
  /\ \A i \in DOMAIN Way(root) : Way(root)[i] = Way(path)[i]

\* The root "." is taken for every absolute path and for no other.
Takes(root, path) ==
  IF Way(root) = <<FALSE>> THEN path.absolute \/ Way(path) = <<FALSE>> ELSE Below(path, root)

PermitsEverything(rule, arguments) ==
  /\ \A path \in Strings(arguments, {"path", "fileUrl"}) :
       /\ path.plain /\ ".." \notin ToSet(path.segments)
       /\ rule.path # Absent
       /\ \E root \in Members(rule.path.allowedRoots) : Takes(root, path)
       /\ ~\E root \in Members(rule.path.deniedRoots) : Takes(root, path)
  /\ \A target \in Strings(arguments, {"url"}) :
       /\ target.ok
       /\ \E network \in Members(rule.network) :
            \/ target.ip /\ target.host \in Members(network.ips)
            \/ Members(network.domains) \cap Suffixes(target.host) # {}
  /\ \A command \in Commands(arguments) :
       /\ ~DeniedShell(command)
       /\ \E named \in Members(rule.command) : AllowsCommand(named, command)
  /\ KeysInside(arguments) \cap SecretLabels \subseteq Members(rule.secret)

\* A call that a policy file allows has, for each of its capabilities, a rule that
\* allows it for this tool and within whose roots, hosts, commands and labels every
\* path, URL, command and secret key of the arguments as they were sent lies,
\* however deep; and no interpreter in them is handed its program.
AllowedCallsStayInBounds ==
  question.kind = "call" /\ answer.action = "allow" =>
    \A capability \in ToSet(question.call.capabilities) :
      \E rule \in ToSet(question.rules) :
        /\ rule.action = "allow"
        /\ rule.tools = Absent \/ question.call.tool \in rule.tools
        /\ rule.capabilities = Absent \/ capability \in rule.capabilities
        /\ PermitsEverything(rule, question.arguments)

MoreRules(rules) ==
  {Reverse(rules)} \cup
    {InsertAt(rules, i, ParsedRule(rule)) : i \in 1..Len(rules) + 1,
                                            rule \in {rule \in Rules : RuleOk(rule)}}

MoreFacts(facts) ==
  {facts} \cup UNION {{facts \o ExtractFacts[v], ExtractFacts[v] \o facts} : v \in Arguments}

\* What a deny rule denies stays denied: no further rule, no other order of the
\* rules, and no further argument of the call lifts it.
DenyRulesStand ==
  question.kind = "call" /\ answer.action = "deny" =>
    (answer.evidence[1].code = "policy.rule_deny" =>
       /\ \A rules \in MoreRules(question.rules) :
            EvaluateToolCall(rules, question.call, question.approvalHook).action = "deny"
       /\ \A facts \in MoreFacts(question.call.facts) :
            EvaluateToolCall(question.rules, [question.call EXCEPT !.facts = facts],
                             question.approvalHook).action = "deny")

-----------------------------------------------------------------------------
(* The frames in a stream: its lines, wherever the chunks end.             *)

Characters(chunks) ==
  FlattenSeq([i \in DOMAIN chunks |-> Decoded(chunks[i])]) \o Remaining(chunks)

LineOf(text, from, to) ==
  LET raw == SubSeq(text, from, to)
  IN  IF Bytes(raw) > FrameLimit THEN Oversized
      ELSE IF to >= from /\ text[to] = CR THEN SubSeq(text, from, to - 1) ELSE raw

Lines(text) ==
  LET ends == {i \in DOMAIN text : text[i] = LF}
      end(k) == CHOOSE e \in ends : Cardinality({d \in ends : d <= e}) = k
      begin(k) == IF k = 1 THEN 1 ELSE end(k - 1) + 1
      rest == begin(Cardinality(ends) + 1)
  IN  [k \in 1..Cardinality(ends) |-> LineOf(text, begin(k), end(k) - 1)]
        \o (IF rest <= Len(text) THEN <<LineOf(text, rest, Len(text))>> ELSE <<>>)

\* The bridge reads the lines of its input: each once and in order, one too long
\* as Oversized and without disturbing the next, wherever the chunks end.
FramesAreTheLines ==
  question.kind = "stream" => answer.frames = Lines(Characters(question.chunks))

-----------------------------------------------------------------------------
(* What is handed on.                                                      *)

HandOnAgain(forward) ==
  LET frame == [question.frame EXCEPT !.envelope = forward]
  IN  IF question.kind = "client frame"
      THEN FromClient(frame, question.policy, question.matched)
      ELSE FromServer(frame, question.policy, ProfileRules(question.policy, "p"),
                      question.matched)

CleanMetadata(value) ==
  value = Absent \/ \A v \in Inside[value] :
    v.json = "record" => {f.key : f \in ToSet(v.fields)} \cap MetadataRedactionKeys = {}

ToolsClean(tools) ==
  /\ \A i \in DOMAIN tools :
       CleanMetadata(tools[i].inputSchema) /\ CleanMetadata(tools[i].annotations)
  /\ IsInjective([i \in DOMAIN tools |-> tools[i].name])

\* What is handed on is a message the other side can parse, with the id and method
\* it came with and nothing more that the session would take out; whatever was
\* taken out of an envelope or an error, the audit tells.
ForwardedIsClean ==
  question.kind \in {"client frame", "server frame"} /\ answer.forward # Absent =>
    LET sent == question.frame.envelope
        forward == answer.forward
        again == HandOnAgain(forward)
    IN  /\ EnvelopeOk(forward)
        /\ forward.id = sent.id /\ forward.method = sent.method
        /\ again = [forward |-> forward, audits |-> <<>>]
        /\ [forward EXCEPT !.result = sent.result] # sent => answer.audits # <<>>
        /\ (question.kind = "server frame" /\ question.matched = "tools/list"
            /\ forward.result # Absent) => ToolsClean(forward.result.tools)

-----------------------------------------------------------------------------
(* The commands.                                                           *)

\* A printed snippet works: the host that is given it starts `run` with the same
\* policy, profile and upstream command, and `run` has nothing to say about its
\* arguments, or at most that the profile does not audit to a file.
SnippetRuns ==
  question.kind = "command" /\ answer.says = "snippet" =>
    LET given == ParseArgs(question.argv)
        invocation == HostInvocation(given.flags["target"], answer.descriptor)
        outcome == RunCli(Tail(invocation), Files, TRUE)
        profile == ProfileOf(Files[given.flags["policy"]], given.flags["profile"])
    IN  /\ Head(invocation) = Word(Value(given, "proxy-command", "mcp-security-proxy"))
        /\ IF profile.audit.destination = "stdout" THEN outcome = Failure(3)
           ELSE /\ outcome.says = "proxy"
                /\ outcome.policy = Files[given.flags["policy"]]
                /\ outcome.profile = profile.id
                /\ outcome.upstream = given.positionals

-----------------------------------------------------------------------------
(* The approval hooks.                                                     *)

\* A hook that passes the conformance check does in a session what it did there,
\* if the session waits as long for its answers: its approval lets the call
\* through, its refusal and its failure do not, two calls at once are kept apart,
\* and an aborted call is not approved and not left hanging.
ConformanceTellsTheHook ==
  question.kind = "hook" /\ answer.passed =>
    \A approvalTimeout \in {t \in Timeouts : t >= question.timeout} :
      LET outcome(scenario, i) ==
            Approval!SessionOutcome(question.adapter[scenario].answers[i], approvalTimeout)
          aborted == question.adapter["abort"].answers[1]
      IN  /\ outcome("approve", 1) = "approval_granted"
          /\ outcome("reject", 1) = "approval_denied"
          /\ outcome("error", 1) = "approval_hook_failed"
          /\ outcome("concurrent", 1) = "approval_granted"
          /\ outcome("concurrent", 2) = "approval_denied"
          /\ aborted.status # "never"
          /\ aborted.status = "fulfilled" => ~aborted.value.approved

-----------------------------------------------------------------------------
(* The repository.                                                         *)

\* A release on whose packages another one has been approved is older than it.
NewestApproval(t, record) ==
  \A other \in ToSet(t.records) :
    /\ other.status = "approved" /\ Repository!Reachable(t, other.targetCommit)
    /\ \E mine \in ToSet(record.packages), theirs \in ToSet(other.packages) :
         mine.workspacePath = theirs.workspacePath
    => <<other.targetCommit, record.targetCommit>> \in t.ancestors

\* The summary of the external fixture is of the pinned client and server, and a
\* private file was refused in it.
FixtureRefuses(t) ==
  \E target \in ToSet(t.evidence.targets) :
    LET summary == t.summaries[target.summary]
    IN  /\ target.id = "external-filesystem-stdio" /\ target.summary \in t.files
        /\ summary.client = Pinned[target.id].client /\ summary.server = Pinned[target.id].server
        /\ "policy.rule_deny" \in summary.scenarios.deniedPrivateRead

\* What `pnpm check` and the publish plan let through together is the newest
\* approval: no other approved record in the history of the tag names one of its
\* packages, unless for an older commit, its validations all passed, and what it
\* says of its scope is so.
TaggedReleaseIsApproved ==
  question.kind = "tag" => (answer.checked /\ answer.planned =>
    \E record \in ToSet(question.tree.records) :
      /\ record.status = "approved" /\ record.releaseVersion = question.version
      /\ NewestApproval(question.tree, record)
      /\ \A name \in Validation : record.validation[name].exit = 0
      /\ record.scope["externalMcpFixture"].status = "included" => FixtureRefuses(question.tree)
      /\ record.scope["httpTransport"].status = "excluded")

\* The registry gives one hash, and times are spelled as RFC 3339 has them.
SpelledAsEver(receipt) ==
  /\ \A item \in ToSet(receipt.packages) : item.integrity = "one"
  /\ \A moment \in {receipt.publishedAt, receipt.recordedAt, receipt.githubRelease.publishedAt} :
       moment.spelled = "date-time"

\* The tree with a receipt put where its version says.
Imported(t, receipt) ==
  LET path == Repository!PublicationPath(receipt.releaseVersion)
      publications == t.publications
  IN  [t EXCEPT !.publications = [p \in DOMAIN publications \cup {path} |->
                                    IF p = path THEN receipt ELSE publications[p]]]

\* A generated receipt can be imported, and the tree it is imported into stays
\* valid: generator, validator and schema agree, though each has rules of its own.
ReceiptsValidate ==
  question.kind = "receipt" => (answer.receipt # Absent =>
    (SpelledAsEver(answer.receipt) /\ Repository!PublicationsOk(question.tree) =>
       Repository!PublicationsOk(Imported(question.tree, answer.receipt))))
=============================================================================
