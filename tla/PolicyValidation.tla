-------------------------- MODULE PolicyValidation --------------------------
(***************************************************************************)
(* What the contracts accept (packages/contracts/src/validation.ts): a      *)
(* policy document, a captured tool call and a captured tool list.          *)
(*                                                                         *)
(* A JSON object is a record with every key its parser reads, Absent when   *)
(* the object does not have it, and `other`: whether it has one more.  An   *)
(* array whose order and repetitions no parser looks at is a set.  A value   *)
(* is Malformed when its parser does not take it: one of another JSON type,  *)
(* or an empty text where a name is wanted.  The errors a parser collects    *)
(* are left out: it accepts when it has none.                               *)
(***************************************************************************)
EXTENDS PolicyEngine

CONSTANT Malformed

Capability ==
  {"file-read", "file-write", "shell", "network", "secret", "database",
   "browser", "workflow", "unknown"}
AllowedMethods ==
  {"initialize", "notifications/initialized", "ping", "tools/list", "tools/call"}

Given(value) == value \notin {Absent, Malformed}

\* A list that may be left out, but is not empty when it is there.
ListOk(list) == list = Absent \/ (list \notin {Malformed, {}} /\ Malformed \notin list)

Members(list) == IF list = Absent THEN {} ELSE list

-----------------------------------------------------------------------------
(* The matchers of a rule.                                                 *)

PathsOk(paths) ==
  \/ paths = Absent
  \/ /\ paths # Malformed /\ ~paths.other
     /\ \A roots \in {paths.allowedRoots, paths.deniedRoots} :
          ListOk(roots) /\ \A root \in Members(roots) : PathOk(root)
     /\ paths.allowedRoots # Absent \/ paths.deniedRoots # Absent

\* argv is a sequence of texts, which may be empty or left out.
CommandOk(command) ==
  ~command.other /\ Given(command.executable) /\ command.argv # Malformed

\* A domain is a host that is no address, an ip an address, each in the form
\* the URL parser gives back.
CanonicalDomain(domain) == domain.canonical /\ ~domain.ip
CanonicalIp(ip) == ip.canonical /\ ip.ip

NetworkOk(network) ==
  /\ ~network.other
  /\ ListOk(network.domains) /\ \A domain \in Members(network.domains) : CanonicalDomain(domain)
  /\ ListOk(network.ips) /\ \A ip \in Members(network.ips) : CanonicalIp(ip)
  /\ network.domains # Absent \/ network.ips # Absent

SecretsOk(secrets) ==
  \/ secrets = Absent
  \/ secrets # Malformed /\ ~secrets.other /\ secrets.labels # Absent /\ ListOk(secrets.labels)

-----------------------------------------------------------------------------
(* A rule, a profile, a document.                                          *)

Selectors == {"tools", "capabilities", "methods"} \cup FactKind

RuleOk(rule) ==
  /\ rule # Malformed /\ ~rule.other
  /\ Given(rule.id)
  /\ rule.action \in {"allow", "deny", "approval_required"}
  /\ \A field \in {"tools", "capabilities", "methods", "command", "network"} : ListOk(rule[field])
  /\ Members(rule.capabilities) \subseteq Capability
  /\ Members(rule.methods) \subseteq {"tools/call"}
  /\ PathsOk(rule.path)
  /\ \A command \in Members(rule.command) : CommandOk(command)
  /\ \A network \in Members(rule.network) : NetworkOk(network)
  /\ SecretsOk(rule.secret)
  /\ \E selector \in Selectors : rule[selector] # Absent

RulesOk(rules) ==
  /\ Given(rules)
  /\ \A i \in DOMAIN rules : RuleOk(rules[i])
  /\ IsInjective([i \in DOMAIN rules |-> rules[i].id])

\* Audit keeps no raw arguments and no full paths, and a path with "file" only.
AuditOk(audit) ==
  /\ Given(audit) /\ ~audit.other
  /\ audit.destination \in {"file", "stdout"}
  /\ audit.onFailure \in {"fail_closed", "warn_and_continue"}
  /\ ~audit.includeRawArguments /\ ~audit.includeFullPaths
  /\ IF audit.destination = "file" THEN Given(audit.path) ELSE audit.path = Absent

ProfileOk(profile) ==
  /\ profile # Malformed /\ ~profile.other
  /\ Given(profile.id)
  /\ profile.defaultAction = "deny"
  /\ RulesOk(profile.rules)
  /\ AuditOk(profile.audit)

MethodPolicyOk(methods) ==
  /\ Given(methods) /\ ~methods.other
  /\ methods.allowedMethods \notin {Absent, Malformed, <<>>}
  /\ ToSet(methods.allowedMethods) \subseteq AllowedMethods
  /\ IsInjective(methods.allowedMethods)
  /\ methods.denyUnsupported

DetectorKind == {"secret_like", "environment_value", "path", "prompt"}

RedactionOk(redaction) ==
  \/ redaction = Absent
  \/ /\ redaction # Malformed /\ ~redaction.other
     /\ Given(redaction.detectors)
     /\ \A d \in ToSet(redaction.detectors) :
          /\ d # Malformed /\ ~d.other
          /\ Given(d.id) /\ d.kind \in DetectorKind
          /\ Given(d.replacement)
     /\ IsInjective([i \in DOMAIN redaction.detectors |-> redaction.detectors[i].id])

PolicyOk(policy) ==
  /\ policy # Malformed /\ ~policy.other
  /\ policy.schemaVersion = "msp.policy.v1"
  /\ policy.defaultAction = "deny"
  /\ MethodPolicyOk(policy.methodPolicy)
  /\ policy.profiles \notin {Absent, Malformed, <<>>}
  /\ \A i \in DOMAIN policy.profiles : ProfileOk(policy.profiles[i])
  /\ IsInjective([i \in DOMAIN policy.profiles |-> policy.profiles[i].id])
  /\ RedactionOk(policy.redaction)

-----------------------------------------------------------------------------
(* What a parsed document is to the evaluator.                             *)

HostsOf(hosts) == IF hosts = Absent THEN Absent ELSE {h.host : h \in hosts}

ParsedRule(rule) ==
  [rule EXCEPT
     !.network = IF @ = Absent THEN Absent
                 ELSE {[domains |-> HostsOf(n.domains), ips |-> HostsOf(n.ips)] : n \in @},
     !.secret = IF @ = Absent THEN Absent ELSE @.labels]

\* The rules of a profile of an accepted policy; Absent when it has no such profile.
ProfileRules(policy, profile) ==
  LET at == SelectInSeq(policy.profiles, LAMBDA p : p.id = profile)
      rules == policy.profiles[at].rules
  IN  IF at = 0 THEN Absent ELSE [i \in DOMAIN rules |-> ParsedRule(rules[i])]

-----------------------------------------------------------------------------
(* Captures: a normalized tool call and a tool list.                       *)

FactOk(fact) ==
  /\ fact # Malformed
  /\ CASE fact.kind \in {"path", "network"} -> Given(fact.value)
       [] fact.kind = "command" -> Given(fact.executable) /\ Given(fact.argv)
       [] fact.kind = "secret" -> Given(fact.label)
       [] OTHER -> FALSE

ToolCallOk(call) ==
  /\ call # Malformed
  /\ call.method = "tools/call" /\ Given(call.tool)
  /\ call.capabilities \notin {Absent, Malformed, <<>>}
  /\ ToSet(call.capabilities) \subseteq Capability
  /\ Given(call.facts)
  /\ \A i \in DOMAIN call.facts : FactOk(call.facts[i])

\* A description may be left out; keys the parser does not read are dropped.
ToolListOk(capture) ==
  /\ capture # Malformed
  /\ Given(capture.tools)
  /\ \A i \in DOMAIN capture.tools :
       LET tool == capture.tools[i]
       IN  tool # Malformed /\ Given(tool.name) /\ tool.description # Malformed
=============================================================================
