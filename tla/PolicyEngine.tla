---------------------------- MODULE PolicyEngine ----------------------------
(***************************************************************************)
(* How a policy decides a tool call (packages/core): the classifier gives   *)
(* a tool its capabilities, the adapter reduces the arguments to facts, and *)
(* the evaluator asks the profile's rules for every capability.             *)
(*                                                                         *)
(* A text is what the matchers tell apart in it: a path its segments, a     *)
(* host its labels, an executable its directory and its base name, which is *)
(* [program, version, exe] ("python3.11.exe" is the program "python" in      *)
(* version <<"3", "11">>), a description the keywords it mentions.  Letter case and surrounding       *)
(* blanks, which the matchers fold, are left out.                           *)
(***************************************************************************)
EXTENDS Lists

CONSTANTS
  Absent,  \* a field that is not there
  Json     \* JSON values, with every value nested in one of them

\* The values an array or a record consists of.
Parts(v) ==
  CASE v.json = "array" -> ToSet(v.items)
    [] v.json = "record" -> {f.value : f \in ToSet(v.fields)}
    [] OTHER -> {}

Nesting[v \in Json] ==
  IF Parts(v) = {} THEN 0 ELSE 1 + Max({Nesting[w] : w \in Parts(v)})

\* What was parsed from a text is nested finitely.
ASSUME JsonAssumption ==
  \A v \in Json :
    /\ v.json = "array" => IsList(v.items) /\ v = [json |-> "array", items |-> v.items]
    /\ v.json = "record" => IsList(v.fields) /\ v = [json |-> "record", fields |-> v.fields]
    /\ Nesting[v] \in Nat
    /\ \A w \in Parts(v) : w \in Json /\ Nesting[w] < Nesting[v]

FactKind == {"path", "command", "network", "secret"}
Shells == {"sh", "bash", "zsh"}
PowerShells == {"powershell", "pwsh"}
Interpreters == {"node", "deno", "bun", "ruby", "perl", "lua"}

-----------------------------------------------------------------------------
(* Paths: [plain, absolute, segments]; a path that is not plain is empty,   *)
(* in the UNC or home form, percent-encoded, or not in NFC.                 *)

PathOk(p) == p.plain /\ ".." \notin ToSet(p.segments)

NormalPath(p) ==
  [absolute |-> p.absolute,
   segments |-> Only(p.segments, ToSet(p.segments) \ {"."})]

Roots(roots) ==
  IF roots = Absent THEN {} ELSE {NormalPath(r) : r \in {r \in roots : PathOk(r)}}

\* The text of `path` is that of `root` or begins with it and a slash.
WithinRoot(path, root) ==
  \/ path = root
  \/ root.segments = <<>> /\ path.absolute
  \/ /\ root.segments # <<>>
     /\ path.absolute = root.absolute
     /\ IsStrictPrefix(root.segments, path.segments)

PathMatches(rule, path, mode) ==
  LET within(roots) == \E root \in Roots(roots) : WithinRoot(NormalPath(path), root)
  IN  IF mode = "deny"
      THEN \/ ~PathOk(path)
           \/ within(rule.deniedRoots)
           \/ Roots(rule.deniedRoots) = {} /\ within(rule.allowedRoots)
      ELSE PathOk(path) /\ within(rule.allowedRoots) /\ ~within(rule.deniedRoots)

-----------------------------------------------------------------------------
(* Commands, hosts and secret labels.                                      *)

ExecutableMatches(pattern, executable) ==
  IF pattern.dir # Absent THEN pattern = executable ELSE pattern.base = executable.base

ArgvMatches(pattern, argv) ==
  IF pattern = Absent THEN argv = <<>>
  ELSE Len(pattern) = Len(argv) /\ \A i \in DOMAIN argv : pattern[i] \in {"*", argv[i]}

CommandMatches(rules, command) ==
  \E r \in rules : /\ ExecutableMatches(r.executable, command.executable)
                   /\ ArgvMatches(r.argv, command.argv)

\* An interpreter that is handed its program text as an argument.  A trailing
\* ".exe" is ignored; a version is looked for after "python" alone.
DeniedShell(command) ==
  LET base == command.executable.base
      named(programs) == base.program \in programs /\ base.version = <<>>
      arg(i) == IF i \in DOMAIN command.argv THEN command.argv[i] ELSE Absent
  IN  \/ named(Shells) /\ arg(1) = "-c"
      \/ named(PowerShells) /\ arg(1) \in {"-command", "-c"}
      \/ named({"cmd"}) /\ arg(1) = "/c"
      \/ base.program = "python" /\ Len(base.version) <= 2 /\ "-c" \in {arg(1), arg(2)}
      \/ named(Interpreters) /\ arg(1) = "-e"
      \/ named({"php"}) /\ arg(1) = "-r"

HostMatches(host, domain) == domain # <<>> /\ IsSuffix(domain, host)

NetworkMatches(rules, target) ==
  /\ target.ok
  /\ \E r \in rules :
       \/ r.domains # Absent /\ \E d \in r.domains : HostMatches(target.host, d)
       \/ r.ips # Absent /\ target.ip /\ target.host \in r.ips

-----------------------------------------------------------------------------
(* The facts of an argument value, in document order.                      *)

StringFacts(s) ==
  CASE s.looks \in {"path", "fileUrl"} -> <<[kind |-> "path", value |-> s.value]>>
    [] s.looks = "url" -> <<[kind |-> "network", value |-> s.value]>>
    [] OTHER -> <<>>

Field(record, key) == Only(record.fields, {f \in ToSet(record.fields) : f.key = key})

CommandFacts(record) ==
  LET executable == Field(record, "executable")
      argv == Field(record, "argv")
  IN  IF /\ executable # <<>> /\ executable[1].value.json = "string"
         /\ argv # <<>> /\ argv[1].value.json = "array"
         /\ \A i \in DOMAIN argv[1].value.items : argv[1].value.items[i].json = "string"
      THEN <<[kind |-> "command", executable |-> executable[1].value.executable,
              argv |-> [i \in DOMAIN argv[1].value.items |->
                          argv[1].value.items[i].text]]>>
      ELSE <<>>

SecretFacts(key) ==
  IF key \in {"api-key", "token", "password", "credential", "secret"}
  THEN <<[kind |-> "secret", label |-> key]>> ELSE <<>>

ExtractFacts[v \in Json] ==
  CASE v.json = "array" -> FlattenSeq([i \in DOMAIN v.items |-> ExtractFacts[v.items[i]]])
    [] v.json = "record" ->
         CommandFacts(v)
           \o FlattenSeq([i \in DOMAIN v.fields |->
                            SecretFacts(v.fields[i].key) \o ExtractFacts[v.fields[i].value]])
    [] v.json = "string" -> StringFacts(v)
    [] OTHER -> <<>>

-----------------------------------------------------------------------------
(* A rule: [id, action, tools, capabilities, methods] and one matcher per   *)
(* kind of fact, each Absent or a set; path is [allowedRoots, deniedRoots]. *)

FactMatches(matcher, fact, mode) ==
  CASE fact.kind = "path"    -> PathMatches(matcher, fact.value, mode)
    [] fact.kind = "command" -> CommandMatches(matcher, fact)
    [] fact.kind = "network" -> NetworkMatches(matcher, fact.value)
    [] fact.kind = "secret"  -> fact.label \in matcher

\* Mutant: one fact that matches is enough for every rule.
MatcherMatches_OneIsEnough(kind, rule, facts) ==
  LET ofKind == {f \in ToSet(facts) : f.kind = kind}
      mode == IF rule.action = "deny" THEN "deny" ELSE "allow"
  IN  IF rule[kind] = Absent THEN ofKind = {} \/ rule.action = "deny"
      ELSE \E f \in ofKind : FactMatches(rule[kind], f, mode)

\* Mutant: a deny rule, too, needs all facts to match.
MatcherMatches_AllForDeny(kind, rule, facts) ==
  LET ofKind == {f \in ToSet(facts) : f.kind = kind}
      mode == IF rule.action = "deny" THEN "deny" ELSE "allow"
  IN  IF rule[kind] = Absent THEN ofKind = {} \/ rule.action = "deny"
      ELSE ofKind # {} /\ \A f \in ofKind : FactMatches(rule[kind], f, mode)

\* A deny rule without a matcher takes every fact, any other rule none; with a
\* matcher a deny rule needs one fact to match, any other rule all of them.
MatcherMatches(kind, rule, facts) ==
  LET ofKind == {f \in ToSet(facts) : f.kind = kind}
  IN  IF rule[kind] = Absent THEN ofKind = {} \/ rule.action = "deny"
      ELSE /\ ofKind # {}
           /\ IF rule.action = "deny"
              THEN \E f \in ofKind : FactMatches(rule[kind], f, "deny")
              ELSE \A f \in ofKind : FactMatches(rule[kind], f, "allow")

RuleMatches(rule, call, capability) ==
  /\ rule.tools = Absent \/ call.tool \in rule.tools
  /\ rule.capabilities = Absent \/ capability \in rule.capabilities
  /\ rule.methods = Absent \/ "tools/call" \in rule.methods
  /\ \A kind \in FactKind : MatcherMatches(kind, rule, call.facts)

FirstRule(rules, action, call, capability) ==
  SelectInSeq(rules, LAMBDA r : r.action = action /\ RuleMatches(r, call, capability))

Decision(action, code, rule, capability) ==
  [action |-> action,
   evidence |-> <<[code |-> code, rule |-> rule, capability |-> capability]>>]

DenyFor(code, capability) == Decision("deny", code, Absent, capability)

EvaluateCapability(rules, call, capability, approvalHook) ==
  LET first(action) == FirstRule(rules, action, call, capability)
      by(action, decided, code) ==
        Decision(decided, code, rules[first(action)].id, capability)
  IN  CASE first("deny") # 0 -> by("deny", "deny", "policy.rule_deny")
        [] first("deny") = 0 /\ first("approval_required") # 0 ->
             IF approvalHook
             THEN by("approval_required", "approval_required", "policy.rule_approval_required")
             ELSE by("approval_required", "deny", "policy.approval_hook_missing")
        [] first("deny") = 0 /\ first("approval_required") = 0 /\ first("allow") # 0 ->
             by("allow", "allow", "policy.rule_allow")
        [] OTHER -> DenyFor("policy.default_deny", capability)

-----------------------------------------------------------------------------
(* The evaluator.                                                          *)

Blocked(fact) ==
  CASE fact.kind = "path"    -> ~PathOk(fact.value)
    [] fact.kind = "command" -> DeniedShell(fact)
    [] fact.kind = "network" -> ~fact.value.ok
    [] fact.kind = "secret"  -> FALSE

BlockedFor(fact) ==
  CASE fact.kind = "path"    -> DenyFor("policy.ambiguous_path", "file-read")
    [] fact.kind = "command" -> DenyFor("policy.free_form_shell", "shell")
    [] fact.kind = "network" -> DenyFor("policy.ambiguous_network", "network")

Distinct(seq) ==
  FoldLeft(LAMBDA kept, e : IF e \in ToSet(kept) THEN kept ELSE Append(kept, e), <<>>, seq)

\* What the decisions on the capabilities come to.
Combined(decisions) ==
  LET denied == SelectInSeq(decisions, LAMBDA d : d.action = "deny")
      of(action) == Only(decisions, {d \in ToSet(decisions) : d.action = action})
      joined(action) == [action |-> action,
                         evidence |-> [i \in DOMAIN of(action) |-> of(action)[i].evidence[1]]]
  IN  IF denied # 0 THEN decisions[denied]
      ELSE IF \E d \in ToSet(decisions) : d.action = "approval_required"
           THEN joined("approval_required")
      ELSE joined("allow")

\* `rules` is Absent when the policy has no such profile.
EvaluateToolCall(rules, call, approvalHook) ==
  LET blocked == SelectInSeq(call.facts, Blocked)
      capabilities == Distinct(call.capabilities)
  IN  IF rules = Absent THEN DenyFor("policy.profile_not_found", Absent)
      ELSE IF blocked # 0 THEN BlockedFor(call.facts[blocked])
      ELSE IF /\ \E f \in ToSet(call.facts) : f.kind = "secret"
              /\ "secret" \notin ToSet(call.capabilities)
           THEN DenyFor("policy.secret_capability_required", "secret")
      ELSE IF "unknown" \in ToSet(call.capabilities)
           THEN DenyFor("policy.unknown_capability", "unknown")
      ELSE IF call.capabilities = <<>> THEN DenyFor("policy.default_deny", Absent)
      ELSE Combined([i \in DOMAIN capabilities |->
                       EvaluateCapability(rules, call, capabilities[i], approvalHook)])

-----------------------------------------------------------------------------
(* What a tool needs, and whether a policy shows it at all.                 *)

\* A tool is [name, keywords, description]: the keywords its name mentions, and
\* those of its description, Absent when it has none.
Mentions(tool) ==
  LET text == tool.keywords \cup (IF tool.description = Absent THEN {} ELSE tool.description)
  IN  [capability \in {"file-read", "file-write", "shell", "network", "secret"} |->
         CASE capability = "file-read"  -> text \cap {"file", "path"} # {}
           [] capability = "file-write" -> "write" \in text
           [] capability = "shell"      -> text \cap {"shell", "command"} # {}
           [] capability = "network"    -> text \cap {"http", "url", "network"} # {}
           [] capability = "secret"     ->
                text \cap {"secret", "token", "password", "credential", "api-key"} # {}]

\* `explicit` are the capabilities a fixture gives; the proxy has none.
Classify(tool, explicit) ==
  LET inferred == Only(<<"file-read", "file-write", "shell", "network", "secret">>,
                       {c \in DOMAIN Mentions(tool) : Mentions(tool)[c]})
      capabilities == Distinct(explicit \o inferred)
  IN  IF capabilities = <<>> THEN <<"unknown">> ELSE capabilities

Covered(rules, tool, capabilities) ==
  /\ capabilities # <<>> /\ "unknown" \notin ToSet(capabilities)
  /\ \A c \in ToSet(capabilities) : \E r \in ToSet(rules) :
       /\ r.action # "deny"
       /\ \/ r.tools # Absent /\ tool \in r.tools
          \/ r.capabilities # Absent /\ c \in r.capabilities
=============================================================================
