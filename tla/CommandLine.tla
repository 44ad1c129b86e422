---------------------------- MODULE CommandLine -----------------------------
(***************************************************************************)
(* The commands of the CLI that end by themselves, and what `run` asks of   *)
(* its arguments before it starts a proxy (packages/cli/src/commands.ts;    *)
(* CliRun has what follows).                                                *)
(*                                                                         *)
(* An argument is [dashes, text]: whether it begins with "--", and the      *)
(* rest.  What a command prints is a record of what it says; wording is     *)
(* left out.                                                                *)
(***************************************************************************)
EXTENDS PolicyValidation, Integers

CONSTANTS
  Numeral,     \* a function: the texts that are digits only, to their numbers
  ControlText, \* the texts with a control character in them
  ServerName,  \* the texts that can name a server on every host
  HyphenOnly   \* those of ServerName that have no underscore

Word(text) == [dashes |-> FALSE, text |-> text]
Flag(name) == [dashes |-> TRUE, text |-> name]
Separator == Flag("")

\* The value of a flag that has none.
On == "(on)"

CommandName == {"run", "config-snippet", "check-policy", "inspect-tools", "eval-call"}

AllowedFlags(command) ==
  CASE command = "run" ->
         {"policy", "profile", "audit-log", "ops-log", "ops-feature-flags",
          "shutdown-grace-ms", "max-frame-bytes", "max-json-depth",
          "approval-hook", "watch-policy", "json", "help"}
    [] command = "config-snippet" ->
         {"target", "name", "policy", "profile", "proxy-command", "codex-command",
          "gemini-command", "help"}
    [] command = "check-policy" -> {"policy", "json", "help"}
    [] command = "inspect-tools" -> {"input", "policy", "profile", "json", "help"}
    [] command = "eval-call" ->
         {"policy", "input", "profile", "approval-hook", "json", "help"}

-----------------------------------------------------------------------------
(* The parser: flags may come before and after the command, a flag takes    *)
(* the next argument as its value unless that is empty or begins with "--", *)
(* and everything after a separator is the upstream's.                      *)

NoArguments ==
  [next |-> 1, command |-> Absent, flags |-> <<>>, positionals |-> <<>>, separatorSeen |-> FALSE]

ReadFlag(parsed, argv, i) ==
  LET hasValue == i < Len(argv) /\ ~argv[i + 1].dashes /\ argv[i + 1].text # ""
      value == IF hasValue THEN argv[i + 1].text ELSE On
  IN  IF argv[i].text = "" THEN [parsed EXCEPT !.next = i + 1]
      ELSE [parsed EXCEPT !.next = IF hasValue THEN i + 2 ELSE i + 1,
                          !.flags = [flag \in DOMAIN @ \cup {argv[i].text} |->
                                       IF flag = argv[i].text THEN value ELSE @[flag]]]

ReadArgument(parsed, argv, i) ==
  CASE i < parsed.next -> parsed
    [] i >= parsed.next /\ parsed.separatorSeen ->
         [parsed EXCEPT !.positionals = Append(@, argv[i])]
    [] i >= parsed.next /\ ~parsed.separatorSeen /\ argv[i].dashes ->
         IF argv[i] = Separator /\ parsed.command # Absent
         THEN [parsed EXCEPT !.separatorSeen = TRUE]
         ELSE ReadFlag(parsed, argv, i)
    [] OTHER ->
         IF argv[i].text = "" THEN parsed
         ELSE IF parsed.command = Absent THEN [parsed EXCEPT !.command = argv[i].text]
         ELSE [parsed EXCEPT !.positionals = Append(@, argv[i])]

ParseArgs(argv) ==
  FoldLeft(LAMBDA parsed, i : ReadArgument(parsed, argv, i),
           NoArguments, [i \in DOMAIN argv |-> i])

-----------------------------------------------------------------------------
(* Reading the flags.                                                      *)

Has(parsed, flag) == flag \in DOMAIN parsed.flags
Switched(parsed, flag) == Has(parsed, flag) /\ parsed.flags[flag] = On
Valued(parsed, flag) == Has(parsed, flag) /\ parsed.flags[flag] # On
Value(parsed, flag, fallback) == IF Valued(parsed, flag) THEN parsed.flags[flag] ELSE fallback

\* There is a separator, and after it (or before it) a command.
UpstreamGiven(parsed) ==
  /\ parsed.separatorSeen
  /\ parsed.positionals # <<>> /\ Head(parsed.positionals) # Word("")

IntegerFlagOk(parsed, flag, range) ==
  Has(parsed, flag) => parsed.flags[flag] \in DOMAIN Numeral /\ Numeral[parsed.flags[flag]] \in range

Failure(exit) == [exit |-> exit, says |-> "error"]
Success(says) ==
  [field \in DOMAIN says \cup {"exit"} |-> IF field = "exit" THEN 0 ELSE says[field]]

\* `files` maps a path to what is in it; a path that is not there cannot be read,
\* and what does not parse is Malformed.
Readable(files, path) == path \in DOMAIN files
PolicyAt(files, path) == IF Readable(files, path) THEN files[path] ELSE Malformed

ProfileOf(policy, id) ==
  LET at == SelectInSeq(policy.profiles, LAMBDA p : p.id = id)
  IN  IF at = 0 THEN Absent ELSE policy.profiles[at]

-----------------------------------------------------------------------------
(* check-policy, inspect-tools, eval-call.                                 *)

CheckPolicy(parsed, files) ==
  IF ~Valued(parsed, "policy") THEN Failure(2)
  ELSE LET policy == PolicyAt(files, parsed.flags["policy"])
       IN  IF PolicyOk(policy)
           THEN Success([says |-> "policy ok",
                         profiles |-> [i \in DOMAIN policy.profiles |-> policy.profiles[i].id]])
           ELSE Failure(3)

InspectTools(parsed, files) ==
  LET capture == PolicyAt(files, parsed.flags["input"])
      policy == PolicyAt(files, parsed.flags["policy"])
      rules == IF Valued(parsed, "policy")
               THEN ProfileRules(policy, Value(parsed, "profile", "default")) ELSE Absent
      seen(tool) ==
        [name |-> tool.name,
         capabilities |-> Classify(tool, <<>>),
         covered |-> rules # Absent /\ Covered(rules, tool.name, Classify(tool, <<>>))]
  IN  IF ~Valued(parsed, "input") \/ ~ToolListOk(capture) THEN Failure(2)
      ELSE IF Valued(parsed, "policy") /\ ~PolicyOk(policy) THEN Failure(3)
      ELSE Success([says |-> "tools",
                    tools |-> [i \in DOMAIN capture.tools |-> seen(capture.tools[i])]])

EvalCall(parsed, files) ==
  IF ~Valued(parsed, "policy") \/ ~Valued(parsed, "input") THEN Failure(2)
  ELSE LET policy == PolicyAt(files, parsed.flags["policy"])
           call == PolicyAt(files, parsed.flags["input"])
       IN  IF ~PolicyOk(policy) THEN Failure(3)
           ELSE IF ~ToolCallOk(call) THEN Failure(2)
           ELSE Success([says |-> "decision",
                         decision |-> EvaluateToolCall(
                           ProfileRules(policy, Value(parsed, "profile", "default")),
                           call, Switched(parsed, "approval-hook"))])

-----------------------------------------------------------------------------
(* config-snippet: the invocation a host is to be given.                   *)

HostTarget == {"codex-cli-json", "gemini-cli-json"}

SnippetUsageOk(parsed) ==
  LET target == parsed.flags["target"]
      name == parsed.flags["name"]
  IN  /\ Valued(parsed, "target") /\ target \in HostTarget \cup {"stdio-json"}
      /\ Valued(parsed, "policy") /\ Valued(parsed, "profile")
      /\ target = "stdio-json" => ~Has(parsed, "name")
      /\ target # "codex-cli-json" => ~Has(parsed, "codex-command")
      /\ target # "gemini-cli-json" => ~Has(parsed, "gemini-command")
      /\ target \in HostTarget => Valued(parsed, "name") /\ name \in ServerName
      /\ target = "gemini-cli-json" => name \in HyphenOnly
      /\ UpstreamGiven(parsed)
      /\ \A word \in ToSet(parsed.positionals) : word.text \notin ControlText
      /\ \A flag \in {"policy", "profile", "proxy-command", "codex-command", "gemini-command"} :
           Valued(parsed, flag) => parsed.flags[flag] \notin ControlText

RunArguments(parsed) ==
  <<Word("run"), Flag("policy"), Word(parsed.flags["policy"]),
    Flag("profile"), Word(parsed.flags["profile"]), Separator>>

Words(texts) == [i \in DOMAIN texts |-> Word(texts[i])]

\* Mutant: Gemini is given the one separator that `run` needs.
Descriptor_OneSeparator(parsed) ==
  LET proxy == Value(parsed, "proxy-command", "mcp-security-proxy")
      proxyArgs == RunArguments(parsed) \o parsed.positionals
  IN  CASE parsed.flags["target"] = "stdio-json" -> [command |-> proxy, args |-> proxyArgs]
        [] parsed.flags["target"] = "codex-cli-json" ->
             [command |-> Value(parsed, "codex-command", "codex"),
              args |-> Words(<<"mcp", "add", parsed.flags["name"]>>)
                         \o <<Separator, Word(proxy)>> \o proxyArgs]
        [] parsed.flags["target"] = "gemini-cli-json" ->
             [command |-> Value(parsed, "gemini-command", "gemini"),
              args |-> Words(<<"mcp", "add">>)
                         \o <<Flag("scope"), Word("project"), Flag("transport"), Word("stdio")>>
                         \o <<Word(parsed.flags["name"]), Word(proxy)>> \o proxyArgs]

\* Gemini takes a separator of its own before the first one it finds.
Descriptor(parsed) ==
  LET proxy == Value(parsed, "proxy-command", "mcp-security-proxy")
      proxyArgs == RunArguments(parsed) \o parsed.positionals
      at == SelectInSeq(proxyArgs, LAMBDA a : a = Separator)
  IN  CASE parsed.flags["target"] = "stdio-json" -> [command |-> proxy, args |-> proxyArgs]
        [] parsed.flags["target"] = "codex-cli-json" ->
             [command |-> Value(parsed, "codex-command", "codex"),
              args |-> Words(<<"mcp", "add", parsed.flags["name"]>>)
                         \o <<Separator, Word(proxy)>> \o proxyArgs]
        [] parsed.flags["target"] = "gemini-cli-json" ->
             [command |-> Value(parsed, "gemini-command", "gemini"),
              args |-> Words(<<"mcp", "add">>)
                         \o <<Flag("scope"), Word("project"), Flag("transport"), Word("stdio")>>
                         \o <<Word(parsed.flags["name"]), Word(proxy)>>
                         \o InsertAt(proxyArgs, at, Separator)]

ConfigSnippet(parsed, files) ==
  IF ~SnippetUsageOk(parsed) THEN Failure(2)
  ELSE LET policy == PolicyAt(files, parsed.flags["policy"])
       IN  IF ~PolicyOk(policy) \/ ProfileOf(policy, parsed.flags["profile"]) = Absent
           THEN Failure(3)
           ELSE Success([says |-> "snippet", descriptor |-> Descriptor(parsed)])

\* What a host makes of the descriptor: the command it will start, and with what.
HostInvocation(target, descriptor) ==
  LET args == descriptor.args
      at == SelectInSeq(args, LAMBDA a : a = Separator)
      kept == SubSeq(args, 8, Len(args))
      own == SelectInSeq(kept, LAMBDA a : a = Separator)
  IN  CASE target = "stdio-json" -> <<Word(descriptor.command)>> \o args
        [] target = "codex-cli-json" -> SubSeq(args, at + 1, Len(args))
        [] target = "gemini-cli-json" -> RemoveAt(kept, own)

-----------------------------------------------------------------------------
(* run: what it asks of its arguments before it starts the proxy.          *)

maximumShutdownGraceMs == 2147483647
maximumFrameBytes == 16777216
maximumJsonDepth == 256

RunUsageOk(parsed) ==
  /\ ~Switched(parsed, "json")
  /\ Valued(parsed, "policy") /\ Valued(parsed, "profile")
  /\ IntegerFlagOk(parsed, "shutdown-grace-ms", 0..maximumShutdownGraceMs)
  /\ IntegerFlagOk(parsed, "max-frame-bytes", 1..maximumFrameBytes)
  /\ IntegerFlagOk(parsed, "max-json-depth", 1..maximumJsonDepth)
  /\ ~Valued(parsed, "watch-policy")
  /\ ~Switched(parsed, "approval-hook")
  /\ \A flag \in {"audit-log", "ops-log", "ops-feature-flags"} : Value(parsed, flag, "") # "-"
  /\ Valued(parsed, "ops-feature-flags") => Valued(parsed, "ops-log")
  /\ UpstreamGiven(parsed)

RunProxy(parsed, files) ==
  IF ~RunUsageOk(parsed) THEN Failure(2)
  ELSE LET policy == PolicyAt(files, parsed.flags["policy"])
           profile == ProfileOf(policy, parsed.flags["profile"])
       IN  IF ~PolicyOk(policy) THEN Failure(3)
           ELSE IF profile = Absent THEN Failure(3)
           ELSE IF profile.audit.destination # "file" THEN Failure(3)
           ELSE Success([says |-> "proxy", policy |-> policy, profile |-> profile.id,
                         upstream |-> parsed.positionals,
                         auditLog |-> Value(parsed, "audit-log", profile.audit.path)])

-----------------------------------------------------------------------------
(* The command line.                                                       *)

HelpTopic(parsed) ==
  LET topic == IF parsed.command # "help" THEN parsed.command
               ELSE IF parsed.positionals = <<>> THEN Absent ELSE Head(parsed.positionals).text
  IN  IF topic \in CommandName THEN topic ELSE Absent

\* `live` when the caller can run a proxy (runCliAsync), else runCli.
RunCli(argv, files, live) ==
  LET parsed == ParseArgs(argv)
  IN  IF Switched(parsed, "help") \/ parsed.command \in {Absent, "help"}
      THEN Success([says |-> "help", topic |-> HelpTopic(parsed)])
      ELSE IF parsed.command \notin CommandName THEN Failure(2)
      ELSE IF ~(DOMAIN parsed.flags \subseteq AllowedFlags(parsed.command)) THEN Failure(2)
      ELSE CASE parsed.command = "run" ->
                  IF live THEN RunProxy(parsed, files) ELSE Failure(2)
             [] parsed.command = "config-snippet" -> ConfigSnippet(parsed, files)
             [] parsed.command = "check-policy" -> CheckPolicy(parsed, files)
             [] parsed.command = "inspect-tools" -> InspectTools(parsed, files)
             [] parsed.command = "eval-call" -> EvalCall(parsed, files)
=============================================================================
