--------------------------- MODULE Decisions_proofs ---------------------------
(***************************************************************************)
(* Proofs about Decisions: what is told of an approval hook, a deny rule, a *)
(* receipt and a tag is so for every hook, policy, call, tree and world.   *)
(***************************************************************************)
EXTENDS Decisions, Pure_proofs

-----------------------------------------------------------------------------
(* Every answer is the one its question has.                               *)

HookTold ==
  question.kind = "hook" =>
    /\ question.adapter \in Adapters /\ question.timeout \in Timeouts
    /\ \E abortAfter \in Timeouts :
         answer = Approval!RunConformance(question.adapter, abortAfter, question.timeout)

CallTold ==
  question.kind = "call" =>
    /\ \E policy \in Accepted(Policies) : question.rules = ProfileRules(policy, "p")
    /\ question.arguments \in Arguments
    /\ \E tool \in Tools : question.call = CallOf(tool, question.arguments)
    /\ answer = EvaluateToolCall(question.rules, question.call, question.approvalHook)

ReceiptTold ==
  question.kind = "receipt" =>
    \E asked \in Publications :
      /\ question.tree \in asked.trees
      /\ \E w \in asked.worlds, given \in Options, environment \in Environments :
           answer = [receipt |-> Repository!GenerateReceipt(question.tree, given, environment, w)]

TagTold ==
  question.kind = "tag" =>
    /\ question.tree \in Trees
    /\ answer.checked => Repository!ChecksOk(question.tree)
    /\ answer.planned => Repository!TagPlanOk(question.tree, question.version)

FrameTold ==
  /\ question.kind \in {"client frame", "server frame"} =>
       question.policy \in Accepted(SessionPolicies)
  /\ question.kind = "client frame" =>
       /\ question.frame \in ClientFrames
       /\ answer = FromClient(question.frame, question.policy, question.matched)
  /\ question.kind = "server frame" =>
       /\ question.frame \in ServerFrames
       /\ answer = FromServer(question.frame, question.policy, ProfileRules(question.policy, "p"),
                              question.matched)

StreamTold ==
  question.kind = "stream" =>
    question.chunks \in Streams /\ answer = [frames |-> ConsumeFrames(question.chunks)]

CommandTold ==
  question.kind = "command" =>
    question.argv \in CommandLines /\ answer = RunCli(question.argv, Files, TRUE)

Told ==
  HookTold /\ CallTold /\ ReceiptTold /\ TagTold /\ FrameTold /\ StreamTold /\ CommandTold

\* All hold of the answers of Spec: a question is answered at once, by the operator
\* the property is about, and with inputs from the constants.
LEMMA AnswersAreTold == Spec => []Told
<1>1. Init => Told
  BY DEF Init, Nothing, Told, HookTold, CallTold, ReceiptTold, TagTold,
                     FrameTold, StreamTold, CommandTold
<1>2. Told /\ [Next]_vars => Told'
  <2> SUFFICES ASSUME Told, [Next]_vars PROVE Told'
    OBVIOUS
  <2>1. CASE UNCHANGED vars
    BY <2>1 DEF vars, Told, HookTold, CallTold, ReceiptTold, TagTold,
                     FrameTold, StreamTold, CommandTold
  <2>2. CASE question' = Nothing
    BY <2>2 DEF Nothing, Told, HookTold, CallTold, ReceiptTold, TagTold,
                     FrameTold, StreamTold, CommandTold
  <2>3. ASSUME NEW policy \in Accepted(Policies), NEW tool \in Tools, NEW arguments \in Arguments,
               NEW approvalHook \in BOOLEAN, EvaluateCall(policy, tool, arguments, approvalHook)
        PROVE  Told'
    BY <2>3 DEF EvaluateCall, Ask, Told, HookTold, CallTold, ReceiptTold, TagTold,
                     FrameTold, StreamTold, CommandTold
  <2>4. ASSUME NEW adapter \in Adapters, NEW abortAfter \in Timeouts, NEW timeout \in Timeouts,
               CheckHook(adapter, abortAfter, timeout)
        PROVE  Told'
    BY <2>4 DEF CheckHook, Ask, Told, HookTold, CallTold, ReceiptTold, TagTold,
                     FrameTold, StreamTold, CommandTold
  <2>6. ASSUME NEW chunks \in Streams, ReadStream(chunks) PROVE Told'
    BY <2>6 DEF ReadStream, Ask, Told, HookTold, CallTold, ReceiptTold, TagTold,
                FrameTold, StreamTold, CommandTold
  <2>7. ASSUME NEW argv \in CommandLines, RunCommand(argv) PROVE Told'
    BY <2>7 DEF RunCommand, Ask, Told, HookTold, CallTold, ReceiptTold, TagTold,
                FrameTold, StreamTold, CommandTold
  <2>8. ASSUME NEW policy \in Accepted(SessionPolicies), NEW frame \in ClientFrames, NEW matched,
               HandOnFromClient(frame, policy, matched)
        PROVE  Told'
    BY <2>8 DEF HandOnFromClient, Ask, Told, HookTold, CallTold, ReceiptTold, TagTold,
                FrameTold, StreamTold, CommandTold
  <2>5. ASSUME NEW policy \in Accepted(SessionPolicies), NEW frame \in ServerFrames, NEW matched,
               HandOnFromServer(frame, policy, matched)
        PROVE  Told'
    BY <2>5 DEF HandOnFromServer, Ask, Told, HookTold, CallTold, ReceiptTold, TagTold,
                FrameTold, StreamTold, CommandTold
  <2>9. ASSUME NEW t \in Trees, NEW version \in TagVersions, CheckTag(t, version)
        PROVE  Told'
    BY <2>9 DEF CheckTag, Ask, Told, HookTold, CallTold, ReceiptTold, TagTold,
                     FrameTold, StreamTold, CommandTold
  <2>10. ASSUME NEW asked \in Publications, NEW t \in asked.trees, NEW w \in asked.worlds,
                NEW given \in Options, NEW environment \in Environments,
                MakeReceipt(t, given, environment, w)
         PROVE  Told'
    BY <2>10 DEF MakeReceipt, Ask, Told, HookTold, CallTold, ReceiptTold, TagTold,
                     FrameTold, StreamTold, CommandTold
  <2> QED
    BY <2>1, <2>2, <2>3, <2>4, <2>5, <2>6, <2>7, <2>8, <2>9, <2>10 DEF Next, Forget
<1> QED
  BY <1>1, <1>2, PTL DEF Spec

-----------------------------------------------------------------------------
(* The approval hooks.                                                     *)

\* A check that passed is five cases that passed.
LEMMA PassedCases ==
  ASSUME NEW adapter, NEW abortAfter, NEW timeout,
         Approval!RunConformance(adapter, abortAfter, timeout).passed
  PROVE  /\ Approval!CheckExpectedResult(adapter, "approve", TRUE, "explicit-approval",
                                         "approve_valid", timeout).passed
         /\ Approval!CheckExpectedResult(adapter, "reject", FALSE, "explicit-rejection",
                                         "reject_valid", timeout).passed
         /\ Approval!CheckExpectedError(adapter, timeout).passed
         /\ Approval!CheckAbort(adapter, abortAfter, timeout).passed
         /\ Approval!CheckConcurrentIsolation(adapter, timeout).passed
<1> DEFINE cases ==
      <<Approval!CheckExpectedResult(adapter, "approve", TRUE, "explicit-approval",
                                     "approve_valid", timeout),
        Approval!CheckExpectedResult(adapter, "reject", FALSE, "explicit-rejection",
                                     "reject_valid", timeout),
        Approval!CheckExpectedError(adapter, timeout),
        Approval!CheckAbort(adapter, abortAfter, timeout),
        Approval!CheckConcurrentIsolation(adapter, timeout)>>
<1>1. Approval!TimeoutOk(abortAfter) /\ Approval!TimeoutOk(timeout)
  BY DEF Approval!RunConformance
<1>2. Approval!RunConformance(adapter, abortAfter, timeout).passed
        = (\A i \in DOMAIN cases : cases[i].passed)
  BY <1>1 DEF Approval!RunConformance
<1>3. \A i \in DOMAIN cases : cases[i].passed
  BY <1>2
<1>4. DOMAIN cases = 1..5
  OBVIOUS
<1>5. /\ cases[1].passed /\ cases[2].passed /\ cases[3].passed
      /\ cases[4].passed /\ cases[5].passed
  <2> HIDE DEF cases
  <2> QED
    BY <1>3, <1>4
<1> QED
  BY <1>5

\* A case that passed is one whose hook answered as the case wants it.
LEMMA ResultPassed ==
  ASSUME NEW adapter, NEW scenario, NEW expected \in BOOLEAN, NEW id, NEW passCode, NEW timeout,
         Approval!CheckExpectedResult(adapter, scenario, expected, id, passCode, timeout).passed
  PROVE  LET given == adapter[scenario].answers[1]
         IN  /\ Approval!SettledWithin(given, timeout) /\ given.status # "rejected"
             /\ Approval!IsApprovalResult(given.value) /\ given.value.approved = expected
BY DEF Approval!CheckExpectedResult, Approval!Case

\* A passed error case had the hook reject.
LEMMA ErrorPassed ==
  ASSUME NEW adapter, NEW timeout, Approval!CheckExpectedError(adapter, timeout).passed
  PROVE  adapter["error"].answers[1].status = "rejected"
BY DEF Approval!CheckExpectedError, Approval!Case

\* A passed abort case had the hook settle without an approval.
LEMMA AbortPassed ==
  ASSUME NEW adapter, NEW abortAfter, NEW timeout,
         Approval!CheckAbort(adapter, abortAfter, timeout).passed
  PROVE  LET given == adapter["abort"].answers[1]
         IN  /\ given.status # "never"
             /\ given.status = "rejected" \/ ~given.value.approved
BY DEF Approval!CheckAbort, Approval!Case, Approval!SettledWithin

\* A passed concurrent case had two answers in time, each to its own request.
LEMMA ConcurrentPassed ==
  ASSUME NEW adapter, NEW timeout, Approval!CheckConcurrentIsolation(adapter, timeout).passed
  PROVE  LET given == adapter["concurrent"].answers
         IN  /\ \A i \in 1..2 :
                  /\ Approval!SettledWithin(given[i], timeout) /\ given[i].status # "rejected"
                  /\ Approval!IsApprovalResult(given[i].value)
             /\ given[1].value.approved = TRUE /\ given[2].value.approved = FALSE
<1> DEFINE given == adapter["concurrent"].answers
           tells(i, approved) == /\ given[i].status = "fulfilled"
                                 /\ Approval!IsApprovalResult(given[i].value)
                                 /\ given[i].value.approved = approved
<1>1. /\ ~\E i \in 1..2 : ~Approval!SettledWithin(given[i], timeout)
      /\ tells(1, TRUE) /\ tells(2, FALSE)
  BY DEF Approval!CheckConcurrentIsolation, Approval!Case
<1>2. \A i \in 1..2 : i = 1 \/ i = 2
  OBVIOUS
<1> QED
  BY <1>1, <1>2

\* What a session makes of an answer that came in time for the check.
LEMMA SessionTakesAnswer ==
  ASSUME NEW given, given.at \in Int, NEW short \in Int, NEW long \in Int, short <= long,
         Approval!SettledWithin(given, short), given.status # "rejected",
         Approval!IsApprovalResult(given.value), NEW approved \in BOOLEAN,
         given.value.approved = approved
  PROVE  Approval!SessionOutcome(given, long)
           = IF approved THEN "approval_granted" ELSE "approval_denied"
<1>1. Approval!SettledWithin(given, long)
  BY DEF Approval!SettledWithin
<1> QED
  BY <1>1 DEF Approval!SessionOutcome, Approval!SessionTakes, Approval!IsApprovalResult

\* A hook that passes the conformance check (approval-conformance.ts) does in every
\* session that waits as long (session.ts) what it did there, whatever the timeouts
\* and the hook: its approval lets a call through, its refusal and failure do not.
THEOREM PassedHooksHold == Spec => []ConformanceTellsTheHook
<1>1. ASSUME Told PROVE ConformanceTellsTheHook
  <2> SUFFICES ASSUME question.kind = "hook", answer.passed,
                      NEW approvalTimeout \in {t \in Timeouts : t >= question.timeout}
               PROVE  LET outcome(scenario, i) ==
                            Approval!SessionOutcome(question.adapter[scenario].answers[i],
                                                    approvalTimeout)
                          aborted == question.adapter["abort"].answers[1]
                      IN  /\ outcome("approve", 1) = "approval_granted"
                          /\ outcome("reject", 1) = "approval_denied"
                          /\ outcome("error", 1) = "approval_hook_failed"
                          /\ outcome("concurrent", 1) = "approval_granted"
                          /\ outcome("concurrent", 2) = "approval_denied"
                          /\ aborted.status # "never"
                          /\ aborted.status = "fulfilled" => ~aborted.value.approved
    BY DEF ConformanceTellsTheHook
  <2> DEFINE adapter == question.adapter
             timeout == question.timeout
             given(scenario, i) == adapter[scenario].answers[i]
             outcome(scenario, i) == Approval!SessionOutcome(given(scenario, i), approvalTimeout)
  <2>1. PICK abortAfter \in Timeouts :
               answer = Approval!RunConformance(adapter, abortAfter, timeout)
    BY <1>1 DEF Told, HookTold
  <2>2. Approval!RunConformance(adapter, abortAfter, timeout).passed
    BY <2>1
  <2>3. /\ adapter \in Adapters /\ timeout \in Int /\ approvalTimeout \in Int
        /\ timeout <= approvalTimeout
    BY <1>1, DecisionsAssumption DEF Told, HookTold
  <2>4. /\ given("approve", 1).at \in Int /\ given("reject", 1).at \in Int
        /\ given("concurrent", 1).at \in Int /\ given("concurrent", 2).at \in Int
    BY <2>3, DecisionsAssumption DEF IsTimed, Approval!Scenario
  <2> HIDE DEF adapter, timeout
  <2>5. outcome("approve", 1) = "approval_granted"
    <3>1. /\ Approval!SettledWithin(given("approve", 1), timeout)
          /\ given("approve", 1).status # "rejected"
          /\ Approval!IsApprovalResult(given("approve", 1).value)
          /\ given("approve", 1).value.approved = TRUE
      <4>1. Approval!CheckExpectedResult(adapter, "approve", TRUE, "explicit-approval",
                                         "approve_valid", timeout).passed
        BY <2>2, PassedCases
      <4> QED
        BY <4>1, ResultPassed
    <3> QED
      BY <2>3, <2>4, <3>1, SessionTakesAnswer
  <2>6. outcome("reject", 1) = "approval_denied"
    <3>1. /\ Approval!SettledWithin(given("reject", 1), timeout)
          /\ given("reject", 1).status # "rejected"
          /\ Approval!IsApprovalResult(given("reject", 1).value)
          /\ given("reject", 1).value.approved = FALSE
      <4>1. Approval!CheckExpectedResult(adapter, "reject", FALSE, "explicit-rejection",
                                         "reject_valid", timeout).passed
        BY <2>2, PassedCases
      <4> QED
        BY <4>1, ResultPassed
    <3> QED
      BY <2>3, <2>4, <3>1, SessionTakesAnswer
  <2>7. outcome("error", 1) = "approval_hook_failed"
    BY <2>2, PassedCases, ErrorPassed DEF Approval!SessionOutcome
  <2>8. /\ outcome("concurrent", 1) = "approval_granted"
        /\ outcome("concurrent", 2) = "approval_denied"
    <3>1. /\ \A i \in 1..2 : /\ Approval!SettledWithin(given("concurrent", i), timeout)
                             /\ given("concurrent", i).status # "rejected"
                             /\ Approval!IsApprovalResult(given("concurrent", i).value)
          /\ given("concurrent", 1).value.approved = TRUE
          /\ given("concurrent", 2).value.approved = FALSE
      BY <2>2, PassedCases, ConcurrentPassed
    <3>2. 1 \in 1..2 /\ 2 \in 1..2
      OBVIOUS
    <3>3. outcome("concurrent", 1) = "approval_granted"
      BY <2>3, <2>4, <3>1, <3>2, SessionTakesAnswer
    <3>4. outcome("concurrent", 2) = "approval_denied"
      BY <2>3, <2>4, <3>1, <3>2, SessionTakesAnswer
    <3> QED
      BY <3>3, <3>4
  <2>9. /\ given("abort", 1).status # "never"
        /\ given("abort", 1).status = "fulfilled" => ~given("abort", 1).value.approved
    BY <2>2, PassedCases, AbortPassed
  <2> QED
    BY <2>5, <2>6, <2>7, <2>8, <2>9 DEF adapter
<1> QED
  BY <1>1, AnswersAreTold, PTL

-----------------------------------------------------------------------------
(* The calls and the rules.                                                *)

\* A call has lists of capabilities and of facts.
LEMMA CallIsTyped ==
  ASSUME NEW tool \in Tools, NEW arguments \in Arguments
  PROVE  /\ IsList(CallOf(tool, arguments).capabilities)
         /\ IsFacts(CallOf(tool, arguments).facts)
<1>1. IsList(Classify(tool, <<>>))
  <2> DEFINE inferred == Only(<<"file-read", "file-write", "shell", "network", "secret">>,
                              {c \in DOMAIN Mentions(tool) : Mentions(tool)[c]})
  <2>1. IsList(<<>>) /\ IsList(<<"unknown">>)
        /\ IsList(<<"file-read", "file-write", "shell", "network", "secret">>)
    BY DEF IsList, ToSet
  <2>2. IsList(inferred)
    BY <2>1, OnlyKeeps
  <2>3. Classify(tool, <<>>) = IF Distinct(<<>> \o inferred) = <<>> THEN <<"unknown">>
                               ELSE Distinct(<<>> \o inferred)
    BY DEF Classify
  <2> HIDE DEF inferred
  <2>4. IsList(Distinct(<<>> \o inferred))
    BY <2>1, <2>2, ListConcat, DistinctKeeps
  <2> QED
    BY <2>1, <2>3, <2>4
<1> QED
  BY <1>1, DecisionsAssumption, FactsAreKept DEF CallOf, FactsKept

\* The rules of a policy that was accepted are accepted rules.
Parsed(rule) == \E given : IsRule(given) /\ RuleOk(given) /\ rule = ParsedRule(given)

\* The rules of an accepted policy are a list of rules the parser made.
LEMMA ProfileRulesAreOk ==
  ASSUME NEW policy \in Accepted(Policies)
  PROVE  \/ ProfileRules(policy, "p") = Absent
         \/ /\ IsList(ProfileRules(policy, "p"))
            /\ \A rule \in ToSet(ProfileRules(policy, "p")) : Parsed(rule)
<1> DEFINE at == SelectInSeq(policy.profiles, LAMBDA p : p.id = "p")
           I == {i \in 1..Len(policy.profiles) : policy.profiles[i].id = "p"}
           rules == policy.profiles[at].rules
           parsed == [i \in DOMAIN rules |-> ParsedRule(rules[i])]
<1>1. ProfileRules(policy, "p") = IF at = 0 THEN Absent ELSE parsed
  BY DEF ProfileRules
<1>2. CASE at = 0
  BY <1>1, <1>2
<1>3. CASE at # 0
  <2>1. IsList(policy.profiles) /\ PolicyOk(policy)
    BY DecisionsAssumption DEF Accepted, IsPolicy
  <2>2. at = IF I # {} THEN Min(I) ELSE 0
    BY DEF SelectInSeq
  <2>3. at \in DOMAIN policy.profiles
    <3>1. Len(policy.profiles) \in Nat /\ DOMAIN policy.profiles = 1..Len(policy.profiles)
      BY <2>1, ListDomain
    <3>2. I # {} => Min(I) \in I
      BY <3>1, LeastPlace
    <3> HIDE DEF at
    <3> QED
      BY <1>3, <2>2, <3>1, <3>2
  <2> HIDE DEF at
  <2>4. /\ policy.profiles[at] \in ToSet(policy.profiles)
        /\ ProfileOk(policy.profiles[at])
    BY <2>1, <2>3 DEF ToSet, PolicyOk
  <2>5. IsList(rules) /\ \A rule \in ToSet(rules) : IsRule(rule)
    BY <2>4, DecisionsAssumption DEF Accepted, IsPolicy
  <2>6. \A i \in DOMAIN rules : RuleOk(rules[i])
    BY <2>4 DEF ProfileOk, RulesOk
  <2>7. IsList(parsed) /\ DOMAIN parsed = DOMAIN rules
    BY <2>5, MappedList
  <2>8. ASSUME NEW i \in DOMAIN rules PROVE Parsed(parsed[i])
    <3>1. IsRule(rules[i]) /\ RuleOk(rules[i]) /\ parsed[i] = ParsedRule(rules[i])
      BY <2>5, <2>6 DEF ToSet
    <3> HIDE DEF rules, parsed
    <3> QED
      BY <3>1 DEF Parsed
  <2> HIDE DEF rules, parsed
  <2> QED
    BY <1>1, <1>3, <2>7, <2>8 DEF ToSet
<1> QED
  BY <1>2, <1>3

-----------------------------------------------------------------------------
(* The deny rules.                                                         *)

\* More rules, or the same in another order, keep every rule.
LEMMA MoreRulesKeep ==
  ASSUME NEW rules, IsList(rules), NEW more \in MoreRules(rules)
  PROVE  /\ Len(more) \in Nat
         /\ \A i \in 1..Len(rules) : \E j \in 1..Len(more) : more[j] = rules[i]
<1> DEFINE n == Len(rules)
<1>1. n \in Nat /\ DOMAIN rules = 1..n /\ rules \in Seq(ToSet(rules))
  BY ListDomain
<1>2. CASE more = Reverse(rules)
  <2>1. Len(more) = n /\ \A j \in 1..n : more[j] = rules[(n - j) + 1]
    BY <1>1, <1>2 DEF Reverse
  <2>2. \A i \in 1..n : (n - i) + 1 \in 1..n /\ (n - ((n - i) + 1)) + 1 = i
    BY <1>1
  <2> QED
    BY <1>1, <2>1, <2>2
<1>3. ASSUME NEW at \in 1..n + 1, NEW rule, more = InsertAt(rules, at, rule)
      PROVE  /\ Len(more) \in Nat
             /\ \A i \in 1..n : \E j \in 1..Len(more) : more[j] = rules[i]
  <2> DEFINE T == ToSet(rules) \cup {rule}
             before == SubSeq(rules, 1, at - 1)
             after == SubSeq(rules, at, n)
  <2>1. rules \in Seq(T)
    BY <1>1
  <2>2. before \in Seq(T) /\ Len(before) = at - 1 /\ \A i \in 1..at - 1 : before[i] = rules[i]
    BY <1>1, <1>3, <2>1
  <2>3. after \in Seq(T) /\ Len(after) = n + 1 - at
          /\ \A i \in 1..n + 1 - at : after[i] = rules[at + i - 1]
    BY <1>1, <1>3, <2>1
  <2>4. <<rule>> \in Seq(T) /\ Len(<<rule>>) = 1
    OBVIOUS
  <2> HIDE DEF before, after, T
  <2>5. before \o <<rule>> \in Seq(T) /\ Len(before \o <<rule>>) = at
          /\ \A i \in 1..at - 1 : (before \o <<rule>>)[i] = before[i]
    BY <2>2, <2>4
  <2>6. more = (before \o <<rule>>) \o after
    BY <1>3 DEF InsertAt, before, after
  <2>7. /\ Len(more) = at + (n + 1 - at)
        /\ \A i \in 1..at : more[i] = (before \o <<rule>>)[i]
        /\ \A i \in 1..n + 1 - at : more[at + i] = after[i]
    <3> DEFINE first == before \o <<rule>>
    <3>1. /\ first \in Seq(T) /\ Len(first) = at
          /\ after \in Seq(T) /\ Len(after) = n + 1 - at /\ more = first \o after
      BY <2>3, <2>5, <2>6
    <3> HIDE DEF first
    <3>2. /\ Len(more) = at + (n + 1 - at)
          /\ \A i \in 1..at + (n + 1 - at) :
               more[i] = IF i <= at THEN first[i] ELSE after[i - at]
      <4> HIDE DEF after
      <4>1. /\ Len(first \o after) = Len(first) + Len(after)
            /\ \A i \in 1..Len(first) + Len(after) :
                 (first \o after)[i] = IF i <= Len(first) THEN first[i]
                                       ELSE after[i - Len(first)]
        BY <3>1, ConcatProperties, Zenon
      <4> QED
        BY <3>1, <4>1
    <3>3. \A i \in 1..at : more[i] = first[i]
      BY <1>1, <3>2
    <3>4. ASSUME NEW i \in 1..n + 1 - at PROVE more[at + i] = after[i]
      <4>1. at + i \in 1..at + (n + 1 - at) /\ ~(at + i <= at) /\ (at + i) - at = i
        BY <1>1
      <4> QED
        BY <3>2, <4>1
    <3> QED
      BY <3>2, <3>3, <3>4 DEF first
  <2>8. \A i \in 1..at - 1 : more[i] = rules[i]
    BY <2>2, <2>5, <2>7
  <2>9. ASSUME NEW i \in at..n PROVE more[i + 1] = rules[i]
    <3>1. /\ i + 1 - at \in 1..n + 1 - at
          /\ at + (i + 1 - at) = i + 1 /\ at + (i + 1 - at) - 1 = i
      BY <1>1
    <3> QED
      BY <2>3, <2>7, <3>1
  <2>10. ASSUME NEW i \in 1..n PROVE \E j \in 1..n + 1 : more[j] = rules[i]
    <3>1. CASE i \in 1..at - 1
      BY <1>1, <2>8, <3>1
    <3>2. CASE i \in at..n
      BY <1>1, <2>9, <3>2
    <3> QED
      BY <1>1, <3>1, <3>2
  <2> QED
    BY <1>1, <2>7, <2>10
<1> QED
  BY <1>2, <1>3 DEF MoreRules

\* More facts are facts, with all that were there.
LEMMA MoreFactsKeep ==
  ASSUME NEW facts, IsFacts(facts), NEW more \in MoreFacts(facts)
  PROVE  IsFacts(more) /\ ToSet(facts) \subseteq ToSet(more)
<1>1. CASE more = facts
  BY <1>1
<1>2. ASSUME NEW v \in Arguments, more \in {facts \o ExtractFacts[v], ExtractFacts[v] \o facts}
      PROVE  IsFacts(more) /\ ToSet(facts) \subseteq ToSet(more)
  <2>1. IsFacts(ExtractFacts[v])
    BY DecisionsAssumption, FactsAreKept DEF FactsKept
  <2> QED
    BY <1>2, <2>1, FactsConcat
<1> QED
  BY <1>1, <1>2 DEF MoreFacts

\* What a deny rule denies (core/evaluator.ts) stays denied, for every policy, tool
\* and arguments: no further rule, no other order of the rules and no further fact
\* of the call lifts it.
THEOREM DeniedStaysDenied == Spec => []DenyRulesStand
<1>1. ASSUME Told PROVE DenyRulesStand
  <2> SUFFICES ASSUME question.kind = "call", answer.action = "deny",
                      answer.evidence[1].code = "policy.rule_deny"
               PROVE  /\ \A rules \in MoreRules(question.rules) :
                           EvaluateToolCall(rules, question.call,
                                            question.approvalHook).action = "deny"
                      /\ \A facts \in MoreFacts(question.call.facts) :
                           EvaluateToolCall(question.rules,
                                            [question.call EXCEPT !.facts = facts],
                                            question.approvalHook).action = "deny"
    BY DEF DenyRulesStand
  <2> DEFINE rules == question.rules
             call == question.call
             capabilities == Distinct(call.capabilities)
  <2>1. answer = EvaluateToolCall(rules, call, question.approvalHook)
    BY <1>1 DEF Told, CallTold
  <2>2. PICK tool \in Tools : call = CallOf(tool, question.arguments)
    BY <1>1 DEF Told, CallTold
  <2>3. IsList(capabilities) /\ IsFacts(call.facts)
    BY <1>1, <2>2, CallIsTyped, DistinctKeeps DEF Told, CallTold
  <2>4. rules = Absent \/ IsList(rules)
    BY <1>1, ProfileRulesAreOk DEF Told, CallTold
  <2> HIDE DEF rules, call
  <2>5. /\ rules # Absent
        /\ \E i \in DOMAIN capabilities : FirstRule(rules, "deny", call, capabilities[i]) # 0
    BY <2>1, <2>3, DeniedByDenyRule
  <2>6. PICK i \in DOMAIN capabilities : FirstRule(rules, "deny", call, capabilities[i]) # 0
    BY <2>5
  <2>7. IsList(rules) /\ Len(rules) \in Nat
    BY <2>4, <2>5, ListDomain
  <2>8. PICK k \in 1..Len(rules) : /\ rules[k].action = "deny"
                                   /\ RuleMatches(rules[k], call, capabilities[i])
    BY <2>6, <2>7, FirstFound
  <2>9. ASSUME NEW more \in MoreRules(rules)
        PROVE  EvaluateToolCall(more, call, question.approvalHook).action = "deny"
    <3>1. Len(more) \in Nat /\ \E j \in 1..Len(more) : more[j] = rules[k]
      BY <2>7, MoreRulesKeep
    <3>2. FirstRule(more, "deny", call, capabilities[i]) # 0
      BY <2>8, <3>1, FirstFound
    <3> QED
      BY <2>3, <3>2, DenyRuleDenies
  <2>10. ASSUME NEW facts \in MoreFacts(call.facts)
         PROVE  EvaluateToolCall(rules, [call EXCEPT !.facts = facts],
                                 question.approvalHook).action = "deny"
    <3> DEFINE other == [call EXCEPT !.facts = facts]
    <3>1. other.tool = call.tool /\ other.capabilities = call.capabilities
            /\ other.facts = facts
      BY <2>2 DEF CallOf
    <3>2. IsFacts(facts) /\ ToSet(call.facts) \subseteq ToSet(facts)
      BY <2>3, MoreFactsKeep
    <3> HIDE DEF other
    <3>3. RuleMatches(rules[k], other, capabilities[i])
      BY <2>8, <3>1, <3>2, DenyTakesMore
    <3>4. FirstRule(rules, "deny", other, capabilities[i]) # 0
      BY <2>7, <2>8, <3>3, FirstFound
    <3>5. EvaluateToolCall(rules, other, question.approvalHook).action = "deny"
      BY <2>3, <3>1, <3>2, <3>4, DenyRuleDenies
    <3> QED
      BY <3>5 DEF other
  <2> QED
    BY <2>9, <2>10 DEF rules, call
<1> QED
  BY <1>1, AnswersAreTold, PTL

-----------------------------------------------------------------------------
(* The bounds of an allowed call.                                          *)

\* What is inside v, given what is inside its parts.
InsideOf(f, v) == {v} \cup UNION {f[w] : w \in Parts(v)}

\* What is inside a value is told by its parts.
LEMMA InsideOfParts ==
  ASSUME NEW v \in Json, NEW f, NEW g, \A w \in Parts(v) : f[w] = g[w]
  PROVE  InsideOf(f, v) = InsideOf(g, v)
BY DEF InsideOf

\* As the extraction of facts, this is defined for every value.
LEMMA InsideUnfold ==
  ASSUME NEW v \in Json
  PROVE  Inside[v] = InsideOf(Inside, v)
<1> DEFINE Until(k, f) == f = [w \in Shallower(k) |-> InsideOf(f, w)]
           Missing == {k \in Nat : ~\E f : Until(k, f)}
           upto(k) == CHOOSE f : Until(k, f)
           all == [w \in Json |-> upto(Nesting[w] + 1)[w]]
<1>1. \E f : Until(0, f)
  <2>1. Shallower(0) = {}
    BY NestingOfParts DEF Shallower
  <2>2. [w \in {} |-> 0] = [w \in {} |-> InsideOf([u \in {} |-> 0], w)]
    OBVIOUS
  <2> QED
    BY <2>1, <2>2
<1>2. ASSUME NEW k \in Nat, \E g : Until(k, g) PROVE \E f : Until(k + 1, f)
  <2>1. PICK g : Until(k, g)
    BY <1>2
  <2> DEFINE f == [w \in Shallower(k + 1) |-> InsideOf(g, w)]
  <2>2. \A w \in Shallower(k) : w \in Shallower(k + 1)
    BY NestingOfParts DEF Shallower
  <2>3. \A w \in Shallower(k) : f[w] = g[w]
    BY <2>1, <2>2
  <2>4. \A w \in Shallower(k + 1) : \A u \in Parts(w) : u \in Shallower(k)
    BY NestingOfParts DEF Shallower
  <2> HIDE DEF f
  <2>5. ASSUME NEW w \in Shallower(k + 1) PROVE InsideOf(f, w) = InsideOf(g, w)
    BY <2>3, <2>4, InsideOfParts DEF Shallower
  <2>6. f = [w \in Shallower(k + 1) |-> InsideOf(f, w)]
    BY <2>5 DEF f
  <2> QED
    BY <2>6
<1> HIDE DEF Until
<1>3. Missing = {}
  <2> SUFFICES ASSUME Missing # {} PROVE FALSE
    OBVIOUS
  <2>1. PICK k \in Missing : \A other \in Missing : k <= other
    BY LeastNumber
  <2>2. k # 0 /\ k - 1 \in Nat /\ (k - 1) + 1 = k
    BY <1>1, <2>1
  <2>3. \E g : Until(k - 1, g)
    BY <2>1, <2>2
  <2> QED
    BY <1>2, <2>1, <2>2, <2>3
<1>4. \A k \in Nat : Until(k, upto(k))
  BY <1>3
<1> HIDE DEF upto
<1>5. ASSUME NEW k \in Nat, NEW w \in Shallower(k) PROVE upto(k)[w] = InsideOf(upto(k), w)
  BY <1>4, <1>5 DEF Until
<1>6. ASSUME NEW j \in Nat, NEW k \in Nat
      PROVE  \A w \in Shallower(j) \cap Shallower(k) : upto(j)[w] = upto(k)[w]
  <2> DEFINE Wrong == {w \in Shallower(j) \cap Shallower(k) : upto(j)[w] # upto(k)[w]}
             depths == {Nesting[w] : w \in Wrong}
  <2> SUFFICES ASSUME Wrong # {} PROVE FALSE
    OBVIOUS
  <2>1. depths \in SUBSET Nat /\ depths # {}
    BY NestingOfParts DEF Shallower
  <2>2. PICK d \in depths : \A other \in depths : d <= other
    BY <2>1, LeastNumber
  <2>3. PICK w \in Wrong : d = Nesting[w]
    OBVIOUS
  <2>4. \A u \in Parts(w) : u \in Shallower(j) \cap Shallower(k) /\ u \notin Wrong
    <3>1. w \in Json /\ Nesting[w] < j /\ Nesting[w] < k
      BY DEF Shallower
    <3> SUFFICES ASSUME NEW u \in Parts(w)
                 PROVE  u \in Shallower(j) \cap Shallower(k) /\ u \notin Wrong
      OBVIOUS
    <3>2. u \in Json /\ Nesting[u] \in Nat /\ Nesting[w] \in Nat /\ Nesting[u] < Nesting[w]
      BY <3>1, NestingOfParts
    <3>3. u \in Shallower(j) \cap Shallower(k)
      BY <3>1, <3>2 DEF Shallower
    <3>4. ~(d <= Nesting[u])
      BY <2>3, <3>2
    <3> QED
      BY <2>2, <3>3, <3>4
  <2>5. InsideOf(upto(j), w) = InsideOf(upto(k), w)
    BY <2>4, InsideOfParts DEF Shallower
  <2> QED
    BY <1>5, <2>5
<1>7. ASSUME NEW w \in Json PROVE all[w] = InsideOf(all, w)
  <2>1. Nesting[w] + 1 \in Nat /\ w \in Shallower(Nesting[w] + 1)
    BY NestingOfParts DEF Shallower
  <2>2. all[w] = InsideOf(upto(Nesting[w] + 1), w)
    BY <1>5, <2>1
  <2>3. ASSUME NEW u \in Parts(w) PROVE upto(Nesting[w] + 1)[u] = all[u]
    <3>1. /\ u \in Json /\ Nesting[u] + 1 \in Nat
          /\ u \in Shallower(Nesting[w] + 1) \cap Shallower(Nesting[u] + 1)
      BY NestingOfParts DEF Shallower
    <3> QED
      BY <1>6, <2>1, <3>1
  <2> HIDE DEF all
  <2> QED
    BY <2>2, <2>3, InsideOfParts
<1>8. all = [w \in Json |-> InsideOf(all, w)]
  <2>1. \A w \in Json : all[w] = InsideOf(all, w)
    BY <1>7
  <2>2. all = [w \in Json |-> all[w]]
    OBVIOUS
  <2> HIDE DEF all
  <2> QED
    BY <2>1, <2>2
<1> HIDE DEF all
<1>9. Inside = CHOOSE f : f = [w \in Json |-> InsideOf(f, w)]
  BY DEF Inside, InsideOf
<1>10. Inside = [w \in Json |-> InsideOf(Inside, w)]
  BY <1>8, <1>9
<1> QED
  BY <1>10

\* Whatever lies inside a value, its facts are among those of the value: a value of
\* least nesting for which this fails has parts for which it does not.
FactsInside(v) ==
  \A w \in Inside[v] : w \in Json /\ ToSet(ExtractFacts[w]) \subseteq ToSet(ExtractFacts[v])

\* A value has the facts of everything inside it, however deep.
LEMMA FactsOfAllInside ==
  ASSUME NEW v \in Json
  PROVE  FactsInside(v)
<1> DEFINE Wrong == {w \in Json : ~FactsInside(w)}
           depths == {Nesting[w] : w \in Wrong}
<1> SUFFICES ASSUME Wrong # {} PROVE FALSE
  OBVIOUS
<1>1. depths \in SUBSET Nat /\ depths # {}
  BY NestingOfParts
<1>2. PICK d \in depths : \A other \in depths : d <= other
  BY <1>1, LeastNumber
<1>3. PICK w \in Wrong : d = Nesting[w]
  OBVIOUS
<1>4. ASSUME NEW u \in Parts(w) PROVE FactsInside(u)
  <2>1. u \in Json /\ Nesting[u] \in Nat /\ Nesting[w] \in Nat /\ Nesting[u] < Nesting[w]
    BY NestingOfParts
  <2> QED
    BY <1>2, <1>3, <2>1
<1>5. Inside[w] = {w} \cup UNION {Inside[u] : u \in Parts(w)}
  BY InsideUnfold DEF InsideOf
<1>6. FactsInside(w)
  BY <1>4, <1>5, FactsAreKept DEF FactsInside, FactsKept
<1> QED
  BY <1>6

\* Every string inside that looks like a path or a URL is a fact of the value.
LEMMA StringsAreFacts ==
  ASSUME NEW v \in Json
  PROVE  /\ \A path \in Strings(v, {"path", "fileUrl"}) :
              IsPath(path) /\ [kind |-> "path", value |-> path] \in ToSet(ExtractFacts[v])
         /\ \A target \in Strings(v, {"url"}) :
              /\ IsList(target.host)
              /\ [kind |-> "network", value |-> target] \in ToSet(ExtractFacts[v])
<1>1. ASSUME NEW s \in Inside[v], s.json = "string"
      PROVE  /\ IsString(s) /\ ToSet(StringFacts(s)) \subseteq ToSet(ExtractFacts[v])
  <2>1. s \in Json /\ ToSet(ExtractFacts[s]) \subseteq ToSet(ExtractFacts[v])
    BY FactsOfAllInside DEF FactsInside
  <2>2. ExtractFacts[s] = StringFacts(s)
    BY <1>1, <2>1, FactsUnfold DEF FactsOf
  <2> QED
    BY <1>1, <2>1, <2>2, DecisionsAssumption
<1>2. ASSUME NEW path \in Strings(v, {"path", "fileUrl"})
      PROVE  IsPath(path) /\ [kind |-> "path", value |-> path] \in ToSet(ExtractFacts[v])
  <2> DEFINE fact == [kind |-> "path", value |-> path]
  <2>1. PICK s \in Inside[v] :
               s.json = "string" /\ s.looks \in {"path", "fileUrl"} /\ s.value = path
    BY DEF Strings
  <2>2. StringFacts(s) = <<fact>>
    BY <2>1 DEF StringFacts
  <2>3. fact \in ToSet(StringFacts(s))
    <3>1. fact.kind \in FactKind
      BY DEF FactKind
    <3> HIDE DEF fact
    <3> QED
      BY <2>2, <3>1, OneFact
  <2> QED
    BY <1>1, <2>1, <2>3 DEF IsString
<1>3. ASSUME NEW target \in Strings(v, {"url"})
      PROVE  /\ IsList(target.host)
             /\ [kind |-> "network", value |-> target] \in ToSet(ExtractFacts[v])
  <2> DEFINE fact == [kind |-> "network", value |-> target]
  <2>1. PICK s \in Inside[v] : s.json = "string" /\ s.looks = "url" /\ s.value = target
    BY DEF Strings
  <2>2. StringFacts(s) = <<fact>>
    BY <2>1 DEF StringFacts
  <2>3. fact \in ToSet(StringFacts(s))
    <3>1. fact.kind \in FactKind
      BY DEF FactKind
    <3> HIDE DEF fact
    <3> QED
      BY <2>2, <3>1, OneFact
  <2> QED
    BY <1>1, <2>1, <2>3 DEF IsString
<1> QED
  BY <1>2, <1>3

\* Every key inside that names a secret is a fact of the value.
LEMMA KeysAreFacts ==
  ASSUME NEW v \in Json, NEW key \in KeysInside(v) \cap SecretLabels
  PROVE  [kind |-> "secret", label |-> key] \in ToSet(ExtractFacts[v])
<1> DEFINE fact == [kind |-> "secret", label |-> key]
<1>1. PICK record \in Inside[v] :
             record.json = "record" /\ \E field \in ToSet(record.fields) : field.key = key
  BY DEF KeysInside
<1>2. record \in Json /\ ToSet(ExtractFacts[record]) \subseteq ToSet(ExtractFacts[v])
  BY FactsOfAllInside DEF FactsInside
<1>3. ToSet(SecretFacts(key)) \subseteq ToSet(ExtractFacts[record])
  BY <1>1, <1>2, FactsAreKept DEF FactsKept
<1>4. SecretFacts(key) = <<fact>>
  BY DEF SecretFacts, SecretLabels
<1>5. fact.kind \in FactKind
  BY DEF FactKind
<1> HIDE DEF fact
<1>6. fact \in ToSet(SecretFacts(key))
  BY <1>4, <1>5, OneFact
<1> QED
  BY <1>2, <1>3, <1>6 DEF fact

\* Every command inside is a fact of the value.
LEMMA CommandsAreFacts ==
  ASSUME NEW v \in Json, NEW command \in Commands(v)
  PROVE  command \in ToSet(ExtractFacts[v]) /\ command.kind = "command"
<1>1. PICK record \in Inside[v] : record.json = "record" /\ command \in ToSet(CommandFacts(record))
  BY DEF Commands
<1>2. record \in Json /\ ToSet(ExtractFacts[record]) \subseteq ToSet(ExtractFacts[v])
  BY FactsOfAllInside DEF FactsInside
<1>3. ToSet(CommandFacts(record)) \subseteq ToSet(ExtractFacts[record])
  BY <1>1, <1>2, FactsAreKept DEF FactsKept
<1>4. command.kind = "command"
  <2> DEFINE executable == Field(record, "executable")
             argv == Field(record, "argv")
             fact == [kind |-> "command", executable |-> executable[1].value.executable,
                      argv |-> [i \in DOMAIN argv[1].value.items |->
                                  argv[1].value.items[i].text]]
  <2>1. fact.kind = "command" /\ fact.kind \in FactKind
    BY DEF FactKind
  <2>2. CommandFacts(record) \in {<<fact>>, <<>>}
    BY DEF CommandFacts
  <2> HIDE DEF fact
  <2>3. ToSet(<<fact>>) = {fact} /\ ToSet(<<>>) = {}
    BY <2>1, OneFact, NoFact
  <2> QED
    BY <1>1, <2>1, <2>2, <2>3
<1> QED
  BY <1>1, <1>2, <1>3, <1>4

\* A rule that takes a command names it.
LEMMA CommandIsNamed ==
  ASSUME NEW rules, NEW command, CommandMatches(rules, command)
  PROVE  \E named \in rules : AllowsCommand(named, command)
<1>1. PICK named \in rules : /\ ExecutableMatches(named.executable, command.executable)
                             /\ ArgvMatches(named.argv, command.argv)
  BY DEF CommandMatches
<1>2. /\ named.executable.base = command.executable.base
      /\ named.executable.dir \in {Absent, command.executable.dir}
  BY <1>1 DEF ExecutableMatches
<1>3. /\ Len(IF named.argv = Absent THEN <<>> ELSE named.argv) = Len(command.argv)
      /\ \A i \in DOMAIN command.argv : named.argv[i] \in {"*", command.argv[i]}
  BY <1>1 DEF ArgvMatches
<1> QED
  BY <1>2, <1>3 DEF AllowsCommand

\* A root of the evaluator takes the paths that have its way as the first part of theirs.
LEMMA RootTakes ==
  ASSUME NEW root, IsPath(root), NEW path, IsPath(path)
  PROVE  WithinRoot(NormalPath(path), NormalPath(root)) <=> Takes(root, path)
<1> DEFINE r == NormalPath(root).segments
           p == NormalPath(path).segments
           m == Len(r)
           n == Len(p)
<1>1. Way(root) = <<root.absolute>> \o r /\ Way(path) = <<path.absolute>> \o p
  BY DEF Way, NormalPath
<1>2. /\ NormalPath(root) = [absolute |-> root.absolute, segments |-> r]
      /\ NormalPath(path) = [absolute |-> path.absolute, segments |-> p]
  BY DEF NormalPath
<1>3. root.absolute \in BOOLEAN /\ path.absolute \in BOOLEAN /\ IsList(r) /\ IsList(p)
  BY OnlyKeeps DEF IsPath, NormalPath
<1> HIDE DEF r, p
<1>4. m \in Nat /\ n \in Nat /\ DOMAIN r = 1..m /\ DOMAIN p = 1..n
  BY <1>3, ListDomain
<1>5. /\ Len(Way(root)) = m + 1 /\ DOMAIN Way(root) = 1..m + 1
      /\ Way(root)[1] = root.absolute /\ \A i \in 1..m : Way(root)[i + 1] = r[i]
  <2> DEFINE T == ToSet(r) \cup BOOLEAN
  <2>1. r \in Seq(T) /\ <<root.absolute>> \in Seq(T) /\ Len(<<root.absolute>>) = 1
    BY <1>3, ListDomain
  <2> QED
    BY <1>1, <1>4, <2>1
<1>6. /\ Len(Way(path)) = n + 1 /\ DOMAIN Way(path) = 1..n + 1
      /\ Way(path)[1] = path.absolute /\ \A i \in 1..n : Way(path)[i + 1] = p[i]
  <2> DEFINE T == ToSet(p) \cup BOOLEAN
  <2>1. p \in Seq(T) /\ <<path.absolute>> \in Seq(T) /\ Len(<<path.absolute>>) = 1
    BY <1>3, ListDomain
  <2> QED
    BY <1>1, <1>4, <2>1
<1> HIDE DEF m, n
<1>7. Below(path, root)
        <=> m <= n /\ root.absolute = path.absolute /\ \A i \in 1..m : r[i] = p[i]
  <2>1. ASSUME m <= n
        PROVE  (\A i \in 1..m + 1 : Way(root)[i] = Way(path)[i])
                 <=> root.absolute = path.absolute /\ \A i \in 1..m : r[i] = p[i]
    <3>1. ASSUME \A i \in 1..m + 1 : Way(root)[i] = Way(path)[i]
          PROVE  root.absolute = path.absolute /\ \A i \in 1..m : r[i] = p[i]
      <4>1. 1 \in 1..m + 1 /\ \A i \in 1..m : i + 1 \in 1..m + 1 /\ i \in 1..n
        BY <1>4, <2>1
      <4> QED
        BY <1>5, <1>6, <3>1, <4>1
    <3>2. ASSUME root.absolute = path.absolute, \A i \in 1..m : r[i] = p[i],
                 NEW i \in 1..m + 1
          PROVE  Way(root)[i] = Way(path)[i]
      <4>1. CASE i = 1
        BY <1>5, <1>6, <3>2, <4>1
      <4>2. CASE i # 1
        <5>1. i - 1 \in 1..m /\ i - 1 \in 1..n /\ (i - 1) + 1 = i
          BY <1>4, <2>1, <4>2
        <5> QED
          BY <1>5, <1>6, <3>2, <5>1
      <4> QED
        BY <4>1, <4>2
    <3> QED
      BY <3>1, <3>2
  <2>2. Below(path, root)
          <=> m + 1 <= n + 1 /\ \A i \in 1..m + 1 : Way(root)[i] = Way(path)[i]
    BY <1>5, <1>6 DEF Below
  <2>3. m + 1 <= n + 1 <=> m <= n
    BY <1>4
  <2> QED
    BY <2>1, <2>2, <2>3
<1>8. IsPrefix(r, p) <=> m <= n /\ \A i \in 1..m : r[i] = p[i]
  <2>1. ASSUME m <= n
        PROVE  SubSeq(r, 1, m) = SubSeq(p, 1, m) <=> \A i \in 1..m : r[i] = p[i]
    <3>1. /\ SubSeq(r, 1, m) = [i \in 1..m |-> r[i]]
          /\ SubSeq(p, 1, m) = [i \in 1..m |-> p[i]]
      BY <1>3, <1>4, <2>1, ListDomain
    <3> QED
      BY <3>1
  <2> QED
    BY <1>4, <2>1 DEF IsPrefix, m, n
<1>9. r = p => m = n /\ \A i \in 1..m : r[i] = p[i]
  BY DEF m, n
<1>10. r = <<>> <=> m = 0
  BY <1>3, <1>4, ListDomain DEF m
<1>11. p = <<>> <=> n = 0
  BY <1>3, <1>4, ListDomain DEF n
<1>12. Way(root) = <<FALSE>> <=> m = 0 /\ root.absolute = FALSE
  <2>1. Way(root) = <<FALSE>> => Len(Way(root)) = 1 /\ Way(root)[1] = FALSE
    OBVIOUS
  <2>2. ASSUME m = 0, root.absolute = FALSE PROVE Way(root) = <<FALSE>>
    <3>1. Way(root) = <<FALSE>> \o <<>>
      BY <1>1, <1>10, <2>2
    <3>2. <<FALSE>> \o <<>> = <<FALSE>>
      OBVIOUS
    <3> QED
      BY <3>1, <3>2
  <2>3. m + 1 = 1 => m = 0
    BY <1>4
  <2> QED
    BY <1>5, <2>1, <2>2, <2>3
<1>13. Way(path) = <<FALSE>> <=> n = 0 /\ path.absolute = FALSE
  <2>1. Way(path) = <<FALSE>> => Len(Way(path)) = 1 /\ Way(path)[1] = FALSE
    OBVIOUS
  <2>2. ASSUME n = 0, path.absolute = FALSE PROVE Way(path) = <<FALSE>>
    <3>1. Way(path) = <<FALSE>> \o <<>>
      BY <1>1, <1>11, <2>2
    <3>2. <<FALSE>> \o <<>> = <<FALSE>>
      OBVIOUS
    <3> QED
      BY <3>1, <3>2
  <2>3. n + 1 = 1 => n = 0
    BY <1>4
  <2> QED
    BY <1>6, <2>1, <2>2, <2>3
<1>14. WithinRoot(NormalPath(path), NormalPath(root))
         <=> \/ path.absolute = root.absolute /\ p = r
             \/ r = <<>> /\ path.absolute
             \/ r # <<>> /\ path.absolute = root.absolute /\ IsPrefix(r, p) /\ r # p
  BY <1>2 DEF WithinRoot, IsStrictPrefix
<1>15. CASE m = 0
  <2>1. m <= n /\ \A i : i \notin 1..m
    BY <1>4, <1>15
  <2>2. Below(path, root) <=> root.absolute = path.absolute
    BY <1>7, <2>1
  <2>3. p = r <=> n = 0
    BY <1>10, <1>11, <1>15
  <2> QED
    BY <1>3, <1>10, <1>12, <1>13, <1>14, <1>15, <2>2, <2>3 DEF Takes
<1>16. CASE m # 0
  <2>1. Takes(root, path) <=> root.absolute = path.absolute /\ IsPrefix(r, p)
    BY <1>7, <1>8, <1>12, <1>16 DEF Takes
  <2>2. p = r => IsPrefix(r, p)
    BY <1>4, <1>8, <1>9
  <2> QED
    BY <1>10, <1>14, <1>16, <2>1, <2>2
<1> QED
  BY <1>15, <1>16

\* What ends a host is one of its suffixes.
LEMMA SuffixIsOne ==
  ASSUME NEW d, IsList(d), NEW h, IsList(h), IsSuffix(d, h)
  PROVE  d \in Suffixes(h)
<1> DEFINE m == Len(d)
           n == Len(h)
           R == Reverse(d)
           S == Reverse(h)
<1>1. /\ m \in Nat /\ n \in Nat /\ d \in Seq(ToSet(d)) /\ h \in Seq(ToSet(h))
      /\ DOMAIN d = 1..m /\ DOMAIN h = 1..n
  BY ListDomain
<1>2. /\ Len(R) = m /\ Len(S) = n
      /\ R = [i \in 1..m |-> d[(m - i) + 1]] /\ S = [i \in 1..n |-> h[(n - i) + 1]]
  BY <1>1 DEF Reverse
<1>3. /\ \A i \in 1..m : (m - i) + 1 \in 1..m
      /\ \A i \in 1..n : (n - i) + 1 \in 1..n
  BY <1>1
<1>4. R \in Seq(ToSet(d)) /\ S \in Seq(ToSet(h))
  BY <1>1, <1>2, <1>3
<1>5. m <= n /\ SubSeq(R, 1, m) = SubSeq(S, 1, m)
  BY <1>2 DEF IsSuffix, IsPrefix
<1> HIDE DEF m, n, R, S
<1>6. \A i \in 1..m : R[i] = S[i]
  <2>1. /\ SubSeq(R, 1, m) = [i \in 1..m |-> R[i]]
        /\ SubSeq(S, 1, m) = [i \in 1..m |-> S[i]]
    BY <1>1, <1>2, <1>4, <1>5
  <2> QED
    BY <1>5, <2>1
<1>7. ASSUME NEW j \in 1..m PROVE d[j] = h[(n - m) + j]
  <2>1. /\ (m - j) + 1 \in 1..m /\ (m - j) + 1 \in 1..n
        /\ (m - ((m - j) + 1)) + 1 = j
        /\ (n - ((m - j) + 1)) + 1 = (n - m) + j
    BY <1>1, <1>5
  <2> QED
    BY <1>2, <1>6, <2>1
<1>8. CASE m = 0
  BY <1>1, <1>8 DEF Suffixes, m
<1>9. CASE m # 0
  <2>1. (n - m) + 1 \in 1..n /\ n - ((n - m) + 1) + 1 = m
    BY <1>1, <1>5, <1>9
  <2>2. SubSeq(h, (n - m) + 1, n) = [i \in 1..m |-> h[(n - m) + i]]
    BY <1>1, <1>5, <2>1
  <2>3. d = [i \in 1..m |-> d[i]]
    BY <1>1
  <2>4. d = SubSeq(h, (n - m) + 1, n)
    BY <1>7, <2>2, <2>3
  <2> QED
    BY <2>1, <2>4 DEF Suffixes, n
<1> QED
  BY <1>8, <1>9

\* A rule other than a deny rule matches only when it has a matcher that takes the fact,
\* for every fact of the call.
LEMMA FactIsTaken ==
  ASSUME NEW rule, rule.action = "allow", NEW call, NEW capability,
         RuleMatches(rule, call, capability),
         NEW fact \in ToSet(call.facts), fact.kind \in FactKind
  PROVE  rule[fact.kind] # Absent /\ FactMatches(rule[fact.kind], fact, "allow")
<1>1. MatcherMatches(fact.kind, rule, call.facts)
  BY DEF RuleMatches
<1> QED
  BY <1>1 DEF MatcherMatches

\* What the matchers of an accepted rule take lies within its roots and hosts.
LEMMA PathInRoots ==
  ASSUME NEW rule, Parsed(rule), rule.path # Absent, NEW path, IsPath(path),
         PathMatches(rule.path, path, "allow")
  PROVE  /\ path.plain /\ ".." \notin ToSet(path.segments)
         /\ \E root \in Members(rule.path.allowedRoots) : Takes(root, path)
         /\ ~\E root \in Members(rule.path.deniedRoots) : Takes(root, path)
<1>1. PICK given : IsRule(given) /\ RuleOk(given) /\ rule = ParsedRule(given)
  BY DEF Parsed
<1>2. rule.path = given.path
  BY <1>1 DEF ParsedRule, IsRule, Selectors, FactKind
<1> DEFINE allowed == rule.path.allowedRoots
           denied == rule.path.deniedRoots
<1>3. \A root \in Members(allowed) \cup Members(denied) : IsPath(root)
  BY <1>1, <1>2 DEF IsRule
<1>4. \A root \in Members(denied) : PathOk(root)
  BY <1>1, <1>2 DEF RuleOk, PathsOk
<1>5. /\ PathOk(path)
      /\ \E root \in Roots(allowed) : WithinRoot(NormalPath(path), root)
      /\ ~\E root \in Roots(denied) : WithinRoot(NormalPath(path), root)
  BY DEF PathMatches
<1> HIDE DEF allowed, denied
<1>6. \E root \in Members(allowed) : Takes(root, path)
  <2>1. PICK root \in Members(allowed) : WithinRoot(NormalPath(path), NormalPath(root))
    BY <1>5 DEF Roots, Members
  <2> QED
    BY <1>3, <2>1, RootTakes
<1>7. ASSUME NEW root \in Members(denied) PROVE ~Takes(root, path)
  <2>1. NormalPath(root) \in Roots(denied)
    BY <1>4 DEF Roots, Members
  <2> QED
    BY <1>3, <1>5, <2>1, RootTakes
<1> QED
  BY <1>5, <1>6, <1>7 DEF PathOk, allowed, denied

\* A rule that takes a host names it, or a domain it ends in.
LEMMA HostInDomains ==
  ASSUME NEW rule, Parsed(rule), rule.network # Absent, NEW target, IsList(target.host),
         NetworkMatches(rule.network, target)
  PROVE  /\ target.ok
         /\ \E network \in Members(rule.network) :
              \/ target.ip /\ target.host \in Members(network.ips)
              \/ Members(network.domains) \cap Suffixes(target.host) # {}
<1>1. PICK given : IsRule(given) /\ RuleOk(given) /\ rule = ParsedRule(given)
  BY DEF Parsed
<1> DEFINE parsed(network) ==
             [domains |-> HostsOf(network.domains), ips |-> HostsOf(network.ips)]
<1>2. rule.network = IF given.network = Absent THEN Absent
                     ELSE {parsed(network) : network \in given.network}
  BY <1>1 DEF ParsedRule, IsRule, Selectors, FactKind
<1>3. PICK network \in rule.network :
             \/ network.domains # Absent
                  /\ \E d \in network.domains : HostMatches(target.host, d)
             \/ network.ips # Absent /\ target.ip /\ target.host \in network.ips
  BY DEF NetworkMatches
<1>4. PICK from \in given.network : network = parsed(from)
  BY <1>2
<1>5. given.network # Absent
  BY <1>2
<1>6. \A domain \in Members(from.domains) : IsList(domain.host)
  BY <1>1, <1>4, <1>5 DEF IsRule, Members
<1>7. CASE network.ips # Absent /\ target.ip /\ target.host \in network.ips
  BY <1>3, <1>7 DEF Members, NetworkMatches
<1>8. ASSUME network.domains # Absent, NEW d \in network.domains, HostMatches(target.host, d)
      PROVE  Members(network.domains) \cap Suffixes(target.host) # {}
  <2>1. network.domains = HostsOf(from.domains)
    BY <1>4
  <2>2. PICK domain \in from.domains : d = domain.host
    BY <1>8, <2>1 DEF HostsOf
  <2>3. IsList(d)
    BY <1>6, <1>8, <2>1, <2>2 DEF HostsOf, Members
  <2>4. d \in Suffixes(target.host)
    BY <1>8, <2>3, SuffixIsOne DEF HostMatches
  <2> QED
    BY <1>8, <2>4 DEF Members
<1> QED
  BY <1>3, <1>7, <1>8 DEF Members, NetworkMatches

\* A call the evaluator allows (core/evaluator.ts) stays in the bounds of the rules that
\* allow it, for every accepted policy, every tool and arguments nested however deep: for
\* each of its capabilities one rule permits every path, URL, command and secret key.
THEOREM AllowedStaysInBounds == Spec => []AllowedCallsStayInBounds
<1>1. ASSUME Told PROVE AllowedCallsStayInBounds
  <2> SUFFICES ASSUME question.kind = "call", answer.action = "allow",
                      NEW capability \in ToSet(question.call.capabilities)
               PROVE  \E rule \in ToSet(question.rules) :
                        /\ rule.action = "allow"
                        /\ rule.tools = Absent \/ question.call.tool \in rule.tools
                        /\ rule.capabilities = Absent \/ capability \in rule.capabilities
                        /\ PermitsEverything(rule, question.arguments)
    BY DEF AllowedCallsStayInBounds
  <2> DEFINE rules == question.rules
             call == question.call
             arguments == question.arguments
  <2>1. answer = EvaluateToolCall(rules, call, question.approvalHook)
    BY <1>1 DEF Told, CallTold
  <2>2. arguments \in Arguments /\ \E tool \in Tools : call = CallOf(tool, arguments)
    BY <1>1 DEF Told, CallTold
  <2>3. PICK tool \in Tools : call = CallOf(tool, arguments)
    BY <2>2
  <2>4. arguments \in Json /\ call.facts = ExtractFacts[arguments]
    BY <2>2, <2>3, DecisionsAssumption DEF CallOf
  <2>5. IsList(call.capabilities) /\ IsFacts(call.facts)
    BY <2>2, <2>3, CallIsTyped
  <2>6. \/ rules = Absent
        \/ IsList(rules) /\ \A rule \in ToSet(rules) : Parsed(rule)
    BY <1>1, ProfileRulesAreOk DEF Told, CallTold
  <2> HIDE DEF rules, call, arguments
  <2>7. /\ rules # Absent
        /\ \E rule \in ToSet(rules) :
             rule.action = "allow" /\ RuleMatches(rule, call, capability)
    BY <2>1, <2>5, <2>6, AllowedByRules DEF call
  <2>8. PICK rule \in ToSet(rules) : rule.action = "allow" /\ RuleMatches(rule, call, capability)
    BY <2>7
  <2>9. Parsed(rule)
    BY <2>6, <2>7
  <2>10. ASSUME NEW path \in Strings(arguments, {"path", "fileUrl"})
         PROVE  /\ path.plain /\ ".." \notin ToSet(path.segments)
                /\ rule.path # Absent
                /\ \E root \in Members(rule.path.allowedRoots) : Takes(root, path)
                /\ ~\E root \in Members(rule.path.deniedRoots) : Takes(root, path)
    <3> DEFINE fact == [kind |-> "path", value |-> path]
    <3>1. IsPath(path) /\ fact \in ToSet(call.facts)
      BY <2>4, StringsAreFacts
    <3>2. fact.kind = "path" /\ fact.kind \in FactKind /\ fact.value = path
      BY DEF FactKind
    <3> HIDE DEF fact
    <3>3. rule.path # Absent /\ FactMatches(rule.path, fact, "allow")
      <4>1. rule[fact.kind] # Absent /\ FactMatches(rule[fact.kind], fact, "allow")
        BY <2>8, <3>1, <3>2, FactIsTaken
      <4> QED
        BY <3>2, <4>1
    <3>4. PathMatches(rule.path, path, "allow")
      BY <3>2, <3>3 DEF FactMatches
    <3> QED
      BY <2>9, <3>1, <3>3, <3>4, PathInRoots
  <2>11. ASSUME NEW target \in Strings(arguments, {"url"})
         PROVE  /\ target.ok
                /\ \E network \in Members(rule.network) :
                     \/ target.ip /\ target.host \in Members(network.ips)
                     \/ Members(network.domains) \cap Suffixes(target.host) # {}
    <3> DEFINE fact == [kind |-> "network", value |-> target]
    <3>1. IsList(target.host) /\ fact \in ToSet(call.facts)
      BY <2>4, StringsAreFacts
    <3>2. fact.kind = "network" /\ fact.kind \in FactKind /\ fact.value = target
      BY DEF FactKind
    <3> HIDE DEF fact
    <3>3. rule.network # Absent /\ FactMatches(rule.network, fact, "allow")
      <4>1. rule[fact.kind] # Absent /\ FactMatches(rule[fact.kind], fact, "allow")
        BY <2>8, <3>1, <3>2, FactIsTaken
      <4> QED
        BY <3>2, <4>1
    <3>4. NetworkMatches(rule.network, target)
      BY <3>2, <3>3 DEF FactMatches
    <3> QED
      BY <2>9, <3>1, <3>3, <3>4, HostInDomains
  <2>12. ASSUME NEW key \in KeysInside(arguments) \cap SecretLabels
         PROVE  key \in Members(rule.secret)
    <3> DEFINE fact == [kind |-> "secret", label |-> key]
    <3>1. fact \in ToSet(call.facts)
      BY <2>4, KeysAreFacts
    <3>2. fact.kind = "secret" /\ fact.kind \in FactKind /\ fact.label = key
      BY DEF FactKind
    <3> HIDE DEF fact
    <3>3. rule.secret # Absent /\ FactMatches(rule.secret, fact, "allow")
      <4>1. rule[fact.kind] # Absent /\ FactMatches(rule[fact.kind], fact, "allow")
        BY <2>8, <3>1, <3>2, FactIsTaken
      <4> QED
        BY <3>2, <4>1
    <3> QED
      BY <3>2, <3>3 DEF FactMatches, Members
  <2>c. ASSUME NEW command \in Commands(arguments)
        PROVE  /\ ~DeniedShell(command)
               /\ \E named \in Members(rule.command) : AllowsCommand(named, command)
    <3>1. command \in ToSet(call.facts) /\ command.kind = "command"
      BY <2>4, CommandsAreFacts
    <3>2. ~Blocked(command)
      BY <2>1, <2>5, <2>6, <3>1, AllowedByRules DEF call
    <3>3. rule.command # Absent /\ FactMatches(rule.command, command, "allow")
      <4>1. rule[command.kind] # Absent /\ FactMatches(rule[command.kind], command, "allow")
        BY <2>8, <3>1, FactIsTaken DEF FactKind
      <4> QED
        BY <3>1, <4>1
    <3>4. CommandMatches(rule.command, command)
      BY <3>1, <3>3 DEF FactMatches
    <3> QED
      BY <3>1, <3>2, <3>3, <3>4, CommandIsNamed DEF Blocked, Members
  <2>13. PermitsEverything(rule, arguments)
    BY <2>10, <2>11, <2>12, <2>c DEF PermitsEverything
  <2>14. /\ rule.tools = Absent \/ call.tool \in rule.tools
         /\ rule.capabilities = Absent \/ capability \in rule.capabilities
    BY <2>8 DEF RuleMatches
  <2> QED
    BY <2>8, <2>13, <2>14 DEF rules, call, arguments
<1> QED
  BY <1>1, AnswersAreTold, PTL

-----------------------------------------------------------------------------
(* The receipts.                                                           *)

\* The earliest of several is one of them.
LEMMA EarliestIsOne ==
  ASSUME NEW M, M # {}, \A m \in M : m.at \in Nat
  PROVE  Repository!Earliest(M) \in M
<1> DEFINE S == {m.at : m \in M}
<1>1. S \in SUBSET Nat /\ S # {}
  OBVIOUS
<1>2. PICK x \in S : \A y \in S : x <= y
  BY <1>1, LeastNumber
<1>3. \E m \in M : \A other \in M : m.at <= other.at
  BY <1>2
<1> QED
  BY <1>3 DEF Repository!Earliest

\* The first of two values that is given, when the second is.
LEMMA FirstOfTwo ==
  ASSUME NEW one, NEW two, two # Absent
  PROVE  LET value == Repository!FirstGiven(<<one, two>>)
         IN  value # Absent /\ value \in {one, two}
<1> DEFINE values == <<one, two>>
           I == {i \in 1..Len(values) : values[i] # Absent}
           at == Repository!SelectInSeq(values, LAMBDA value : value # Absent)
<1>1. at = IF I # {} THEN Min(I) ELSE 0
  BY DEF Repository!SelectInSeq, Repository!Min, Min
<1>2. Len(values) = 2 /\ 2 \in I
  OBVIOUS
<1>3. Min(I) \in I
  BY <1>2, LeastPlace
<1>4. at \in 1..2 /\ values[at] # Absent
  BY <1>1, <1>2, <1>3
<1>5. Repository!FirstGiven(values) = IF at = 0 THEN Absent ELSE values[at]
  BY DEF Repository!FirstGiven
<1> HIDE DEF at
<1> QED
  BY <1>4, <1>5

\* What a receipt is made for: a version, two runs and the time it is recorded at.
LEMMA InputResolved ==
  ASSUME NEW given \in Options, NEW environment \in Environments,
         Repository!ResolveInput(given, environment) # Absent
  PROVE  LET input == Repository!ResolveInput(given, environment)
         IN  /\ Repository!PositiveInteger(input.releaseRunId)
             /\ Repository!PositiveInteger(input.registrySmokeRunId)
             /\ Repository!Exact(input.version)
             /\ input.recordedAt \in Recorded /\ input.recordedAt.at \in Nat
<1> DEFINE input == Repository!ResolveInput(given, environment)
           recorded == Repository!FirstGiven(<<given.recordedAt, environment.now>>)
<1>1. /\ Repository!PositiveInteger(input.releaseRunId)
      /\ Repository!PositiveInteger(input.registrySmokeRunId)
      /\ Repository!Exact(input.version)
      /\ input.recordedAt = recorded /\ Repository!IsoDate(recorded)
  BY DEF Repository!ResolveInput
<1>2. recorded # Absent /\ recorded \in {given.recordedAt, environment.now}
  BY FirstOfTwo, RepositoryAssumption
<1>3. recorded \in Recorded /\ IsTime(recorded)
  BY <1>2, RepositoryAssumption DEF Recorded
<1> QED
  BY <1>1, <1>3 DEF IsTime

\* What has been found of a release that a receipt is made for.
LEMMA ReceiptGenerated ==
  ASSUME NEW t, NEW given, NEW environment, NEW w,
         Repository!GenerateReceipt(t, given, environment, w) # Absent
  PROVE  LET input == Repository!ResolveInput(given, environment)
         IN  /\ Repository!GenerateReceipt(t, given, environment, w)
                  = Repository!BuildReceipt(w, input)
             /\ input # Absent
             /\ \E record \in Repository!RecordsAt(t, Repository!ReleaseRecordPath(input.version)) :
                  /\ Repository!ApprovesVersion(record, input.version)
                  /\ Repository!BootstrapCompleted(t.plan, record)
             /\ \A name \in Repository!ToSet(Package) :
                  Repository!RegistryPackageOk(w.registry[name], input.version)
             /\ Repository!RunsOk(w, input) /\ Repository!GitHubReleaseOk(w, input)
             /\ Repository!TimesOk(w, input) /\ Repository!DistTagsOk(t, w, input.version)
BY DEF Repository!GenerateReceipt

\* The packages are a list, each named once.
LEMMA PackageList ==
  /\ Len(Package) \in Nat /\ Len(Package) >= 1 /\ DOMAIN Package = 1..Len(Package)
  /\ Repository!ToSet(Package) = {Package[i] : i \in DOMAIN Package}
  /\ Package[1] \in Repository!ToSet(Package)
  /\ \A i, k \in DOMAIN Package : Package[i] = Package[k] => i = k
<1>1. Package \in Seq(ToSet(Package)) /\ Package # <<>>
  BY RepositoryAssumption DEF IsList
<1>2. Len(Package) \in Nat /\ Len(Package) >= 1 /\ DOMAIN Package = 1..Len(Package)
  BY <1>1
<1> QED
  BY <1>2, RepositoryAssumption DEF IsInjective, Repository!ToSet

\* The packages of a receipt are those of the release, in their order.
LEMMA ReceiptPackages ==
  ASSUME NEW w, NEW input
  PROVE  LET packages == Repository!BuildReceipt(w, input).packages
         IN  /\ Repository!NamesAll(packages, Package)
             /\ Repository!FieldUnique(packages, "name")
             /\ \A item \in Repository!ToSet(packages) : \E name \in Repository!ToSet(Package) :
                  /\ item.version = input.version /\ item.shasum = w.registry[name].shasum
                  /\ item.verifiedByRunId = input.registrySmokeRunId
<1> DEFINE packages == Repository!BuildReceipt(w, input).packages
<1>1. packages = [i \in DOMAIN Package |->
                    [name |-> Package[i], version |-> input.version,
                     integrity |-> w.registry[Package[i]].integrity,
                     shasum |-> w.registry[Package[i]].shasum,
                     verifiedByRunId |-> input.registrySmokeRunId]]
  BY DEF Repository!BuildReceipt
<1> HIDE DEF packages
<1>2. DOMAIN packages = DOMAIN Package /\ Len(packages) = Len(Package)
  BY <1>1, PackageList
<1>3. \A i \in DOMAIN Package : packages[i].name = Package[i]
  BY <1>1
<1>4. Repository!NamesAll(packages, Package)
  BY <1>2, <1>3, PackageList DEF Repository!NamesAll
<1>5. Repository!FieldUnique(packages, "name")
  BY <1>2, <1>3, PackageList DEF Repository!FieldUnique, Repository!IsInjective
<1>6. \A item \in Repository!ToSet(packages) : \E name \in Repository!ToSet(Package) :
        /\ item.version = input.version /\ item.shasum = w.registry[name].shasum
        /\ item.verifiedByRunId = input.registrySmokeRunId
  BY <1>1, <1>2, PackageList DEF Repository!ToSet
<1> QED
  BY <1>4, <1>5, <1>6 DEF packages

\* A world in which a receipt can be made, and the receipt.
MadeReceipt(t, given, environment, w) ==
  /\ Repository!GenerateReceipt(t, given, environment, w) # Absent
  /\ SpelledAsEver(Repository!GenerateReceipt(t, given, environment, w))

\* The times of a receipt are in order, and its moments spelled as the schema asks.
LEMMA ReceiptTimes ==
  ASSUME NEW t, NEW given \in Options, NEW environment \in Environments, NEW w, IsWorld(w),
         MadeReceipt(t, given, environment, w)
  PROVE  LET r == Repository!GenerateReceipt(t, given, environment, w)
         IN  /\ ~Repository!Precedes(r.recordedAt, r.publishedAt)
             /\ ~Repository!Precedes(r.recordedAt, r.recordedAt)
             /\ Repository!DateTime(r.publishedAt) /\ Repository!DateTime(r.recordedAt)
             /\ Repository!DateTime(r.githubRelease.publishedAt)
             /\ \A item \in Repository!ToSet(r.packages) : item.integrity = "one"
<1> DEFINE r == Repository!GenerateReceipt(t, given, environment, w)
           input == Repository!ResolveInput(given, environment)
           M == {w.registry[name].publishedAt : name \in Repository!ToSet(Package)}
           smoked == w.runs[input.registrySmokeRunId].updatedAt
<1>1. r = Repository!BuildReceipt(w, input) /\ input # Absent
  BY ReceiptGenerated DEF MadeReceipt
<1>2. input.recordedAt.at \in Nat
  BY <1>1, InputResolved
<1>3. \A name \in Repository!ToSet(Package) : w.registry[name].publishedAt.at \in Nat
  <2>1. \A name \in Repository!ToSet(Package) :
          Repository!RegistryPackageOk(w.registry[name], input.version)
    BY ReceiptGenerated DEF MadeReceipt
  <2> QED
    BY <2>1 DEF Repository!RegistryPackageOk, IsWorld, IsTime, Repository!ToSet, ToSet
<1>4. smoked.at \in Nat
  <2>1. Repository!RunsOk(w, input)
    BY ReceiptGenerated DEF MadeReceipt
  <2> QED
    BY <2>1 DEF Repository!RunsOk, Repository!WorkflowRunOk, IsWorld, IsTime
<1>5. Repository!TimesOk(w, input)
  BY ReceiptGenerated DEF MadeReceipt
<1>6. r.recordedAt = input.recordedAt /\ r.publishedAt = Repository!Earliest(M)
        /\ r.githubRelease.publishedAt = w.release.publishedAt
  BY <1>1 DEF Repository!BuildReceipt, Repository!ReceiptRelease
<1>7. r.publishedAt \in M
  <2>1. w.registry[Package[1]].publishedAt \in M
    BY PackageList
  <2>2. \A m \in M : m.at \in Nat
    BY <1>3
  <2> HIDE DEF M
  <2> QED
    BY <1>6, <2>1, <2>2, EarliestIsOne
<1>8. PICK name \in Repository!ToSet(Package) : r.publishedAt = w.registry[name].publishedAt
  BY <1>7
<1>9. ~Repository!Precedes(r.recordedAt, r.publishedAt)
  BY <1>2, <1>3, <1>4, <1>5, <1>6, <1>8 DEF Repository!TimesOk, Repository!Precedes
<1>10. ~Repository!Precedes(r.recordedAt, r.recordedAt)
  BY <1>2, <1>6 DEF Repository!Precedes
<1>11. /\ Repository!DateTime(r.publishedAt) /\ Repository!DateTime(r.recordedAt)
       /\ Repository!DateTime(r.githubRelease.publishedAt)
       /\ \A item \in Repository!ToSet(r.packages) : item.integrity = "one"
  BY DEF MadeReceipt, SpelledAsEver, Repository!DateTime, Repository!ToSet, ToSet
<1> QED
  BY <1>9, <1>10, <1>11

\* The two runs of a receipt, and its GitHub Release.
LEMMA ReceiptRuns ==
  ASSUME NEW t, NEW given \in Options, NEW environment \in Environments, NEW w,
         Repository!GenerateReceipt(t, given, environment, w) # Absent
  PROVE  LET r == Repository!GenerateReceipt(t, given, environment, w)
         IN  /\ Repository!PublicationRunOk(r.releaseRun, "release.yml")
             /\ Repository!PublicationRunOk(r.registrySmokeRun, "registry-smoke.yml")
             /\ r.releaseRun.headCommit = r.releaseCommit
             /\ r.releaseCommit \in Commit
             /\ r.registrySmokeRun.id
                  = Repository!ResolveInput(given, environment).registrySmokeRunId
<1> DEFINE r == Repository!GenerateReceipt(t, given, environment, w)
           input == Repository!ResolveInput(given, environment)
           release == w.runs[input.releaseRunId]
           smoke == w.runs[input.registrySmokeRunId]
<1>1. r = Repository!BuildReceipt(w, input) /\ input # Absent
  BY ReceiptGenerated
<1>2. Repository!RunsOk(w, input) /\ Repository!GitHubReleaseOk(w, input)
  BY ReceiptGenerated
<1>3. /\ Repository!PositiveInteger(input.releaseRunId)
      /\ Repository!PositiveInteger(input.registrySmokeRunId)
  BY <1>1, InputResolved
<1>4. /\ r.releaseRun = Repository!ReceiptRun(release)
      /\ r.registrySmokeRun = Repository!ReceiptRun(smoke)
      /\ r.releaseCommit = w.tagCommit
  BY <1>1 DEF Repository!BuildReceipt
<1>5. /\ release.id = input.releaseRunId /\ release.workflow = "release.yml"
      /\ release.conclusion = "success" /\ release.headCommit \in Commit
      /\ release.url = input.releaseRunId /\ release.headCommit = w.tagCommit
  BY <1>2 DEF Repository!RunsOk, Repository!WorkflowRunOk
<1>6. /\ smoke.id = input.registrySmokeRunId /\ smoke.workflow = "registry-smoke.yml"
      /\ smoke.conclusion = "success" /\ smoke.headCommit \in Commit
      /\ smoke.url = input.registrySmokeRunId
  BY <1>2 DEF Repository!RunsOk, Repository!WorkflowRunOk
<1>7. w.tagCommit \in Commit
  BY <1>2 DEF Repository!GitHubReleaseOk
<1> HIDE DEF r, input, release, smoke
<1>8. Repository!PublicationRunOk(r.releaseRun, "release.yml")
  BY <1>3, <1>4, <1>5 DEF Repository!PublicationRunOk, Repository!ReceiptRun
<1>9. Repository!PublicationRunOk(r.registrySmokeRun, "registry-smoke.yml")
  BY <1>3, <1>4, <1>6 DEF Repository!PublicationRunOk, Repository!ReceiptRun
<1>10. /\ r.releaseRun.headCommit = r.releaseCommit /\ r.releaseCommit \in Commit
       /\ r.registrySmokeRun.id = input.registrySmokeRunId
  BY <1>4, <1>5, <1>6, <1>7 DEF Repository!ReceiptRun
<1> QED
  BY <1>8, <1>9, <1>10 DEF r, input

\* The release in a generated receipt is one the validator accepts.
LEMMA ReceiptReleases ==
  ASSUME NEW t, NEW given \in Options, NEW environment \in Environments, NEW w, IsWorld(w),
         MadeReceipt(t, given, environment, w)
  PROVE  LET r == Repository!GenerateReceipt(t, given, environment, w)
         IN  Repository!PublicationReleaseOk(r) /\ r.githubRelease # Absent
               /\ r.githubRelease.observedAt = r.recordedAt
<1> DEFINE r == Repository!GenerateReceipt(t, given, environment, w)
           input == Repository!ResolveInput(given, environment)
<1>1. r = Repository!BuildReceipt(w, input) /\ input # Absent
  BY ReceiptGenerated DEF MadeReceipt
<1>2. Repository!GitHubReleaseOk(w, input)
  BY ReceiptGenerated DEF MadeReceipt
<1>3. /\ r.githubRelease = Repository!ReceiptRelease(w, input.recordedAt)
      /\ r.tag = input.version /\ r.releaseVersion = input.version
      /\ r.releaseCommit = w.tagCommit /\ r.recordedAt = input.recordedAt
  BY <1>1 DEF Repository!BuildReceipt
<1>4. ~Repository!Precedes(r.recordedAt, r.recordedAt)
  BY ReceiptTimes
<1>5. input.recordedAt \in Recorded
  BY <1>1, InputResolved
<1>6. r.githubRelease # Absent
  BY <1>2, <1>3, <1>5 DEF IsWorld, Repository!GitHubReleaseOk
<1>7. r.githubRelease.observedAt = r.recordedAt
  BY <1>3 DEF Repository!ReceiptRelease
<1> HIDE DEF r, input
<1>8. Repository!PublicationReleaseOk(r)
  BY <1>2, <1>3, <1>4
  DEF Repository!PublicationReleaseOk, Repository!GitHubReleaseOk, Repository!ReceiptRelease
<1> QED
  BY <1>6, <1>7, <1>8 DEF r

\* What the validator and the schema ask (lib/publication-record-validation.mjs) of the
\* receipt the generator makes, in the tree it is made for.
LEMMA ReceiptIsOk ==
  ASSUME NEW t, NEW given \in Options, NEW environment \in Environments, NEW w, IsWorld(w),
         MadeReceipt(t, given, environment, w)
  PROVE  LET r == Repository!GenerateReceipt(t, given, environment, w)
         IN  Repository!PublicationOk(t, Repository!PublicationPath(r.releaseVersion), r)
<1> DEFINE r == Repository!GenerateReceipt(t, given, environment, w)
           input == Repository!ResolveInput(given, environment)
           path == Repository!ReleaseRecordPath(input.version)
<1>1. r = Repository!BuildReceipt(w, input) /\ input # Absent
  BY ReceiptGenerated DEF MadeReceipt
<1>2. PICK record \in Repository!RecordsAt(t, path) :
             /\ Repository!ApprovesVersion(record, input.version)
             /\ Repository!BootstrapCompleted(t.plan, record)
  BY ReceiptGenerated DEF MadeReceipt
<1>3. /\ r.schemaVersion = Repository!V2 /\ r.status = "completed"
      /\ r.releaseVersion = input.version /\ r.tag = input.version
      /\ r.releaseRecord = path /\ r.registryTarget = "npmjs.org"
      /\ r.observedDistTags = w.registry[Package[1]].distTags
      /\ r.packages = Repository!BuildReceipt(w, input).packages
  BY <1>1 DEF Repository!BuildReceipt
<1>4. r.observedDistTags = [latest |-> input.version, bootstrap |-> t.plan.bootstrapVersion]
  <2>1. Repository!DistTagsOk(t, w, input.version)
    BY ReceiptGenerated DEF MadeReceipt
  <2> QED
    BY <1>3, <2>1, PackageList DEF Repository!DistTagsOk
<1>5. Repository!Exact(input.version)
  BY <1>1, InputResolved
<1>6. \A name \in Repository!ToSet(Package) : w.registry[name].shasum
  BY ReceiptGenerated DEF MadeReceipt, Repository!RegistryPackageOk
<1>7. /\ ~Repository!Precedes(r.recordedAt, r.publishedAt)
      /\ Repository!DateTime(r.publishedAt) /\ Repository!DateTime(r.recordedAt)
      /\ Repository!DateTime(r.githubRelease.publishedAt)
      /\ \A item \in Repository!ToSet(r.packages) : item.integrity = "one"
  BY ReceiptTimes
<1>8. /\ Repository!PublicationRunOk(r.releaseRun, "release.yml")
      /\ Repository!PublicationRunOk(r.registrySmokeRun, "registry-smoke.yml")
      /\ r.releaseRun.headCommit = r.releaseCommit /\ r.releaseCommit \in Commit
      /\ r.registrySmokeRun.id = input.registrySmokeRunId
  BY ReceiptRuns DEF MadeReceipt
<1>9. /\ Repository!PublicationReleaseOk(r) /\ r.githubRelease # Absent
      /\ r.githubRelease.observedAt = r.recordedAt
  BY ReceiptReleases
<1>10. /\ Repository!NamesAll(r.packages, Package)
       /\ Repository!FieldUnique(r.packages, "name")
       /\ \A item \in Repository!ToSet(r.packages) : \E name \in Repository!ToSet(Package) :
            /\ item.version = input.version /\ item.shasum = w.registry[name].shasum
            /\ item.verifiedByRunId = input.registrySmokeRunId
  BY <1>3, ReceiptPackages
<1> HIDE DEF r, input
<1>11. Repository!ShapeOk(r)
  <2>1. Repository!Exact(t.plan.bootstrapVersion)
    BY <1>2 DEF Repository!BootstrapCompleted
  <2>2. Repository!Exact(r.observedDistTags.bootstrap)
    BY <1>4, <2>1
  <2>3. \E version \in DOMAIN Channel : r.releaseRecord = Repository!ReleaseRecordPath(version)
    BY <1>3, <1>5 DEF Repository!Exact
  <2>4. Repository!DateTime(r.githubRelease.observedAt)
    BY <1>7, <1>9
  <2> QED
    BY <1>3, <1>7, <1>9, <1>10, <2>2, <2>3, <2>4 DEF Repository!ShapeOk
<1>12. Repository!PublicationPackagesOk(r, record)
  <2>1. [i \in DOMAIN record.packages |-> record.packages[i].name] = Package
    BY <1>2 DEF Repository!ApprovesVersion
  <2>2. \A item \in Repository!ToSet(r.packages) : item.shasum
    BY <1>6, <1>10
  <2> QED
    BY <1>3, <1>7, <1>8, <1>10, <2>1, <2>2 DEF Repository!PublicationPackagesOk
<1>13. record.status = "approved" /\ record.releaseVersion = r.releaseVersion
  BY <1>2, <1>3 DEF Repository!ApprovesVersion
<1> QED
  BY <1>2, <1>3, <1>4, <1>5, <1>7, <1>8, <1>9, <1>11, <1>12, <1>13
  DEF Repository!PublicationOk, r

\* The validator reads nothing of a tree but its plan and its records.
LEMMA SameTree ==
  ASSUME NEW t, NEW other, other.plan = t.plan, other.records = t.records,
         NEW path, NEW r, Repository!PublicationOk(t, path, r)
  PROVE  Repository!PublicationOk(other, path, r)
BY DEF Repository!PublicationOk, Repository!RecordsAt

\* A receipt that the generator makes (generate-publication-receipt.mjs) can be imported
\* and the tree stays valid (check-publication-records.mjs), for all releases, trees and
\* answers of GitHub and the registry.
THEOREM MadeReceiptsValidate == Spec => []ReceiptsValidate
<1>1. ASSUME Told PROVE ReceiptsValidate
  <2> SUFFICES ASSUME question.kind = "receipt", answer.receipt # Absent,
                      SpelledAsEver(answer.receipt), Repository!PublicationsOk(question.tree)
               PROVE  Repository!PublicationsOk(Imported(question.tree, answer.receipt))
    BY DEF ReceiptsValidate
  <2> DEFINE t == question.tree
             r == answer.receipt
             path == Repository!PublicationPath(r.releaseVersion)
             imported == Imported(t, r)
  <2>1. PICK asked \in Publications :
               /\ t \in asked.trees
               /\ \E w \in asked.worlds, given \in Options, environment \in Environments :
                    answer = [receipt |-> Repository!GenerateReceipt(t, given, environment, w)]
    BY <1>1 DEF Told, ReceiptTold
  <2>2. PICK w \in asked.worlds, given \in Options, environment \in Environments :
               answer = [receipt |-> Repository!GenerateReceipt(t, given, environment, w)]
    BY <2>1
  <2>3. r = Repository!GenerateReceipt(t, given, environment, w)
    BY <2>2
  <2>4. IsTree(t) /\ IsWorld(w)
    BY <2>1, <2>2, RepositoryAssumption
  <2>5. MadeReceipt(t, given, environment, w)
    BY <2>3 DEF MadeReceipt
  <2>6. Repository!PublicationOk(t, path, r)
    BY <2>3, <2>4, <2>5, ReceiptIsOk
  <2>7. Repository!PublicationsOk(t)
    OBVIOUS
  <2> HIDE DEF t, r
  <2>8. /\ imported.plan = t.plan /\ imported.records = t.records
        /\ imported.publications = [p \in DOMAIN t.publications \cup {path} |->
                                      IF p = path THEN r ELSE t.publications[p]]
    BY <2>4 DEF Imported, IsTree
  <2> HIDE DEF imported
  <2>9. ASSUME NEW p \in DOMAIN imported.publications
        PROVE  Repository!PublicationOk(imported, p, imported.publications[p])
    <3>1. CASE p = path
      BY <2>6, <2>8, <3>1, SameTree
    <3>2. CASE p # path
      <4>1. p \in DOMAIN t.publications /\ imported.publications[p] = t.publications[p]
        BY <2>8, <3>2
      <4>2. Repository!PublicationOk(t, p, t.publications[p])
        BY <2>7, <4>1 DEF Repository!PublicationsOk
      <4> QED
        BY <2>8, <4>1, <4>2, SameTree
    <3> QED
      BY <3>1, <3>2
  <2>10. \E p \in DOMAIN imported.publications :
           /\ imported.publications[p].releaseVersion = RequiredV2
           /\ imported.publications[p].schemaVersion = Repository!V2
    <3>1. PICK p \in DOMAIN t.publications :
                 /\ t.publications[p].releaseVersion = RequiredV2
                 /\ t.publications[p].schemaVersion = Repository!V2
      BY <2>7 DEF Repository!PublicationsOk
    <3>2. p \in DOMAIN imported.publications
      BY <2>8
    <3>3. CASE p # path
      BY <2>8, <3>1, <3>2, <3>3
    <3>4. CASE p = path
      <4>1. /\ Repository!Exact(RequiredV2) /\ p = Repository!PublicationPath(RequiredV2)
        BY <2>7, <3>1 DEF Repository!PublicationsOk, Repository!PublicationOk
      <4>2. /\ Repository!Exact(r.releaseVersion)
            /\ path = Repository!PublicationPath(r.releaseVersion)
        BY <2>6 DEF Repository!PublicationOk
      <4>3. r.releaseVersion = RequiredV2
        BY <3>4, <4>1, <4>2, RepositoryAssumption DEF Repository!Exact
      <4>4. r.schemaVersion = Repository!V2
        <5>1. r = Repository!BuildReceipt(w, Repository!ResolveInput(given, environment))
          BY <2>3, <2>5, ReceiptGenerated DEF MadeReceipt
        <5> QED
          BY <5>1 DEF Repository!BuildReceipt
      <4> QED
        BY <2>8, <3>2, <3>4, <4>3, <4>4
    <3> QED
      BY <3>3, <3>4
  <2> QED
    BY <2>9, <2>10 DEF Repository!PublicationsOk, imported, t, r
<1> QED
  BY <1>1, AnswersAreTold, PTL

-----------------------------------------------------------------------------
(* The tags.                                                               *)

\* A record of an approval of the package at the path, in the history of the tag.
ApprovesPath(t, path, record) ==
  /\ Repository!ApprovedInHistory(t, record) /\ record.releaseVersion # Absent
  /\ \E item \in Repository!ToSet(record.packages) : item.workspacePath = path

\* What has been found after some of the records: nothing, while none counts; else one
\* of them, and if the history seemed linear, one no other is newer than.
FoundAmong(t, path, found, n) ==
  LET counted == {k \in 1..n : ApprovesPath(t, path, t.records[k])}
  IN  /\ found \in [latest : ToSet(t.records) \cup {Absent}, linear : BOOLEAN]
      /\ found.latest = Absent => counted = {}
      /\ found.latest # Absent => \E k \in counted : found.latest = t.records[k]
      /\ found.linear /\ found.latest # Absent =>
           \A k \in counted :
             <<t.records[k].targetCommit, found.latest.targetCommit>> \in t.ancestors

\* The newest approval so far, and another record, give the newest of them.
LEMMA LaterFound ==
  ASSUME NEW t \in Trees, NEW path, NEW found, NEW n \in Nat, n + 1 <= Len(t.records),
         FoundAmong(t, path, found, n), ApprovesPath(t, path, t.records[n + 1])
  PROVE  FoundAmong(t, path, Repository!Later(t, found, t.records[n + 1]), n + 1)
<1> DEFINE record == t.records[n + 1]
           last == found.latest.targetCommit
           later == Repository!Later(t, found, record)
           counted(k) == {i \in 1..k : ApprovesPath(t, path, t.records[i])}
           before(older, newer) == <<older, newer>> \in t.ancestors
<1>1. /\ \A a \in Commit : before(a, a)
      /\ \A a, b, c \in Commit : before(a, b) /\ before(b, c) => before(a, c)
  BY RepositoryAssumption DEF IsHistory
<1>2. IsList(t.records) /\ Absent \notin ToSet(t.records)
  BY RepositoryAssumption DEF IsHistory
<1>3. Len(t.records) \in Nat /\ DOMAIN t.records = 1..Len(t.records)
  BY <1>2, ListDomain
<1>4. /\ n + 1 \in DOMAIN t.records /\ record \in ToSet(t.records) /\ record # Absent
  BY <1>2, <1>3 DEF ToSet
<1>5. counted(n + 1) = counted(n) \cup {n + 1}
  OBVIOUS
<1>6. \A k \in counted(n + 1) : t.records[k].targetCommit \in Commit
  BY DEF ApprovesPath, Repository!ApprovedInHistory, Repository!Reachable
<1>7. /\ found \in [latest : ToSet(t.records) \cup {Absent}, linear : BOOLEAN]
      /\ found.latest = Absent => counted(n) = {}
      /\ found.latest # Absent => \E k \in counted(n) : found.latest = t.records[k]
      /\ found.linear /\ found.latest # Absent =>
           \A k \in counted(n) : before(t.records[k].targetCommit, last)
  BY DEF FoundAmong
<1>8. record.targetCommit \in Commit
  BY <1>5, <1>6
<1>9. found.latest # Absent => last \in Commit
  BY <1>5, <1>6, <1>7
<1> HIDE DEF record, counted, before, last
<1>10. SUFFICES /\ later \in [latest : ToSet(t.records) \cup {Absent}, linear : BOOLEAN]
                /\ later.latest # Absent
                /\ \E k \in counted(n + 1) : later.latest = t.records[k]
                /\ later.linear =>
                     \A k \in counted(n + 1) :
                       before(t.records[k].targetCommit, later.latest.targetCommit)
  BY DEF FoundAmong, record, counted, before
<1>11. CASE found.latest = Absent
  <2>1. later = [found EXCEPT !.latest = record]
    BY <1>11 DEF Repository!Later
  <2>2. /\ later \in [latest : ToSet(t.records) \cup {Absent}, linear : BOOLEAN]
        /\ later.latest = record
    BY <1>4, <1>7, <2>1
  <2>3. counted(n + 1) = {n + 1}
    BY <1>5, <1>7, <1>11
  <2> QED
    BY <1>1, <1>4, <1>8, <2>2, <2>3 DEF record
<1>12. CASE found.latest # Absent /\ last = record.targetCommit
  <2>1. later = [found EXCEPT !.linear =
                   @ /\ found.latest.releaseVersion = record.releaseVersion]
    BY <1>12 DEF Repository!Later, last
  <2>2. /\ later \in [latest : ToSet(t.records) \cup {Absent}, linear : BOOLEAN]
        /\ later.latest = found.latest /\ (later.linear => found.linear)
    BY <1>7, <2>1
  <2>3. later.latest.targetCommit = record.targetCommit
    BY <1>12, <2>2 DEF last
  <2>4. ASSUME later.linear, NEW k \in counted(n + 1)
        PROVE  before(t.records[k].targetCommit, record.targetCommit)
    BY <1>1, <1>5, <1>7, <1>8, <1>12, <2>2, <2>4 DEF record
  <2> QED
    BY <1>5, <1>7, <1>12, <2>2, <2>3, <2>4
<1>13. CASE found.latest # Absent /\ last # record.targetCommit /\ before(last, record.targetCommit)
  <2>1. later = [found EXCEPT !.latest = record]
    BY <1>13 DEF Repository!Later, Repository!Ancestor, last, before
  <2>2. /\ later \in [latest : ToSet(t.records) \cup {Absent}, linear : BOOLEAN]
        /\ later.latest = record /\ later.linear = found.linear
    BY <1>4, <1>7, <2>1
  <2>3. ASSUME later.linear, NEW k \in counted(n + 1)
        PROVE  before(t.records[k].targetCommit, record.targetCommit)
    <3>1. CASE k = n + 1
      BY <1>1, <1>8, <3>1 DEF record
    <3>2. CASE k \in counted(n)
      <4>1. before(t.records[k].targetCommit, last)
        BY <1>7, <1>13, <2>2, <2>3, <3>2
      <4> QED
        BY <1>1, <1>6, <1>8, <1>9, <1>13, <2>3, <4>1
    <3> QED
      BY <1>5, <3>1, <3>2
  <2> QED
    BY <1>4, <1>5, <2>2, <2>3 DEF record
<1>14. CASE /\ found.latest # Absent /\ last # record.targetCommit
            /\ ~before(last, record.targetCommit)
  <2>1. later = [found EXCEPT !.linear = @ /\ before(record.targetCommit, last)]
    BY <1>14 DEF Repository!Later, Repository!Ancestor, last, before
  <2>2. /\ later \in [latest : ToSet(t.records) \cup {Absent}, linear : BOOLEAN]
        /\ later.latest = found.latest
        /\ (later.linear => found.linear /\ before(record.targetCommit, last))
    BY <1>7, <2>1 DEF before
  <2>3. later.latest.targetCommit = last
    BY <2>2 DEF last
  <2>4. ASSUME later.linear, NEW k \in counted(n + 1)
        PROVE  before(t.records[k].targetCommit, last)
    BY <1>5, <1>7, <1>14, <2>2, <2>4 DEF record
  <2> QED
    BY <1>5, <1>7, <1>14, <2>2, <2>3, <2>4
<1> QED
  BY <1>11, <1>12, <1>13, <1>14

\* What SurfaceApproval finds of a tree's records, one after the other.  That a function
\* as its definition asks for exists is shown for ever longer prefixes of the records.
LEMMA SurfaceApprovalFound ==
  ASSUME NEW t \in Trees, NEW path
  PROVE  FoundAmong(t, path, Repository!SurfaceApproval(t, path), Len(t.records))
<1> DEFINE n == Len(t.records)
           start == [latest |-> Absent, linear |-> TRUE]
           counting == {record \in ToSet(t.records) : ApprovesPath(t, path, record)}
           next(f, i) == IF i = 0 THEN start
                         ELSE IF t.records[i] \in counting
                         THEN Repository!Later(t, f[i - 1], t.records[i])
                         ELSE f[i - 1]
           found == CHOOSE f : f = [i \in 0..n |-> next(f, i)]
<1>1. n \in Nat
  BY RepositoryAssumption, ListDomain DEF IsHistory
<1>2. Repository!SurfaceApproval(t, path) = found[n]
  BY DEF Repository!SurfaceApproval, Repository!LatestApproval, ApprovesPath,
         Repository!ToSet, ToSet
<1> HIDE DEF found, counting
<1>3. \E f : f = [i \in 0..n |-> next(f, i)]
  <2> DEFINE Exists(k) == \E f : f = [i \in 0..k |-> next(f, i)]
             Missing == {k \in Nat : ~Exists(k)}
  <2>1. Exists(0)
    <3> DEFINE f == [i \in 0..0 |-> start]
    <3>1. f = [i \in 0..0 |-> next(f, i)]
      OBVIOUS
    <3> QED
      BY <3>1
  <2>2. ASSUME NEW k \in Nat, Exists(k) PROVE Exists(k + 1)
    <3>1. PICK g : g = [i \in 0..k |-> next(g, i)]
      BY <2>2
    <3> DEFINE f == [i \in 0..k + 1 |-> IF i <= k THEN g[i] ELSE next(g, k + 1)]
    <3>2. \A i \in 0..k : f[i] = g[i]
      OBVIOUS
    <3> HIDE DEF next
    <3>3. \A i \in 0..k : g[i] = next(g, i)
      BY <3>1
    <3>4. \A i \in 0..k + 1 : next(f, i) = next(g, i)
      BY <3>2 DEF next
    <3>5. \A i \in 0..k + 1 : f[i] = next(f, i)
      BY <3>2, <3>3, <3>4
    <3>6. f = [i \in 0..k + 1 |-> next(f, i)]
      BY <3>5
    <3> QED
      BY <3>6
  <2> HIDE DEF Exists
  <2>3. Missing = {}
    <3> SUFFICES ASSUME Missing # {} PROVE FALSE
      OBVIOUS
    <3>1. PICK k \in Missing : \A other \in Missing : k <= other
      BY LeastNumber
    <3>2. k \in Nat /\ ~Exists(k) /\ k # 0 /\ k - 1 \in Nat
      BY <2>1
    <3>3. Exists(k - 1)
      BY <3>1, <3>2
    <3> QED
      BY <2>2, <3>2, <3>3
  <2> QED
    BY <1>1, <2>3 DEF Exists
<1>4. found = [i \in 0..n |-> next(found, i)]
  BY <1>3 DEF found
<1>5. found[0] = start
  BY <1>1, <1>4
<1>6. ASSUME NEW i \in 1..n
      PROVE  found[i] = IF ApprovesPath(t, path, t.records[i])
                        THEN Repository!Later(t, found[i - 1], t.records[i]) ELSE found[i - 1]
  <2>1. i \in 0..n /\ i # 0
    BY <1>1
  <2>2. found[i] = next(found, i)
    <3> HIDE DEF next
    <3> QED
      BY <1>4, <2>1
  <2>3. t.records[i] \in counting <=> ApprovesPath(t, path, t.records[i])
    BY RepositoryAssumption, ListDomain DEF IsHistory, counting, ToSet
  <2> QED
    BY <2>1, <2>2, <2>3
<1>7. FoundAmong(t, path, found[0], 0)
  BY <1>5 DEF FoundAmong
<1>8. ASSUME NEW k \in Nat, k + 1 <= n, FoundAmong(t, path, found[k], k)
      PROVE  FoundAmong(t, path, found[k + 1], k + 1)
  <2>1. k + 1 \in 1..n /\ (k + 1) - 1 = k
    BY <1>1, <1>8
  <2>2. CASE ApprovesPath(t, path, t.records[k + 1])
    BY <1>6, <1>8, <2>1, <2>2, LaterFound
  <2>3. CASE ~ApprovesPath(t, path, t.records[k + 1])
    <3>1. found[k + 1] = found[k]
      BY <1>6, <2>1, <2>3
    <3>2. {i \in 1..k + 1 : ApprovesPath(t, path, t.records[i])}
            = {i \in 1..k : ApprovesPath(t, path, t.records[i])}
      BY <2>3
    <3> QED
      BY <1>8, <3>1, <3>2 DEF FoundAmong
  <2> QED
    BY <2>2, <2>3
<1>9. FoundAmong(t, path, found[n], n)
  <2> DEFINE Wrong == {k \in 0..n : ~FoundAmong(t, path, found[k], k)}
  <2> SUFFICES ASSUME Wrong # {} PROVE FALSE
    BY <1>1
  <2>1. Wrong \in SUBSET Nat
    OBVIOUS
  <2>2. PICK k \in Wrong : \A other \in Wrong : k <= other
    BY <2>1, LeastNumber
  <2>3. k \in 1..n /\ k - 1 \in Nat /\ (k - 1) + 1 = k /\ k - 1 \in 0..n
    BY <1>1, <1>7, <2>2
  <2>4. FoundAmong(t, path, found[k - 1], k - 1)
    BY <2>2, <2>3
  <2> QED
    BY <1>1, <1>8, <2>2, <2>3, <2>4
<1> QED
  BY <1>2, <1>9

\* The record whose approval a tag is published by, and the checks it has passed.
LEMMA PlannedRecord ==
  ASSUME NEW t \in Trees, NEW version, Repository!TagPlanOk(t, version)
  PROVE  \E record \in ToSet(t.records) :
           /\ record.status = "approved" /\ record.releaseVersion = version
           /\ \A other \in ToSet(t.records) :
                other.status = "approved" /\ other.releaseVersion = version => other = record
           /\ \A item \in Repository!ToSet(record.packages) :
                Repository!ManifestOk(t.manifests, item, version)
<1> DEFINE views == {Repository!PlanView(t, record) : record \in ToSet(t.records)}
<1>1. PICK view \in Repository!Approved(views, version) :
             /\ Repository!Approved(views, version) = {view}
             /\ \A item \in Repository!ToSet(view.packages) :
                  Repository!ManifestOk(t.manifests, item, version)
  BY DEF Repository!TagPlanOk, Repository!PublishPlanOk, Repository!ToSet, ToSet
<1>2. PICK record \in ToSet(t.records) : view = Repository!PlanView(t, record)
  BY <1>1 DEF Repository!Approved
<1>3. \A other \in ToSet(t.records) :
        LET seen == Repository!PlanView(t, other)
        IN  /\ seen.status = other.status /\ seen.releaseVersion = other.releaseVersion
            /\ seen.packages = other.packages /\ seen.path = other.path
  BY DEF Repository!PlanView
<1>4. record.status = "approved" /\ record.releaseVersion = version
  BY <1>1, <1>2, <1>3 DEF Repository!Approved
<1>5. ASSUME NEW other \in ToSet(t.records), other.status = "approved",
             other.releaseVersion = version
      PROVE  other = record
  <2>1. Repository!PlanView(t, other) \in Repository!Approved(views, version)
    BY <1>3, <1>5 DEF Repository!Approved
  <2>2. other.path = record.path
    BY <1>1, <1>2, <1>3, <2>1
  <2> QED
    BY <2>2, RepositoryAssumption DEF IsHistory
<1>6. \A item \in Repository!ToSet(record.packages) :
        Repository!ManifestOk(t.manifests, item, version)
  BY <1>1, <1>2, <1>3
<1> QED
  BY <1>4, <1>5, <1>6

\* Where the manifest of a package has the version, the latest approval is of it.
LEMMA ApprovedManifest ==
  ASSUME NEW t \in Trees, NEW path, Repository!SurfaceManifestOk(t, path),
         NEW version, t.manifests[path].version = version, ~t.manifests[path].private
  PROVE  LET latest == Repository!SurfaceApproval(t, path).latest
         IN  latest # Absent /\ latest.releaseVersion = version
BY DEF Repository!SurfaceManifestOk, Repository!VersionOf

\* The record a tag is planned from is the newest approval of its paths.
LEMMA PlannedIsNewest ==
  ASSUME NEW t \in Trees, NEW version, Repository!ChecksOk(t), NEW record \in ToSet(t.records),
         record.status = "approved", record.releaseVersion = version,
         \A other \in ToSet(t.records) :
           other.status = "approved" /\ other.releaseVersion = version => other = record,
         \A item \in Repository!ToSet(record.packages) :
           Repository!ManifestOk(t.manifests, item, version)
  PROVE  NewestApproval(t, record)
<1>1. /\ Repository!PackageSurfaceOk(t)
      /\ \A other \in ToSet(t.records) : Repository!ReleaseRecordOk(t, other)
  BY DEF Repository!ChecksOk, Repository!ReadinessOk, Repository!ToSet, ToSet
<1>2. SUFFICES ASSUME NEW other \in ToSet(t.records), other.status = "approved",
                      Repository!Reachable(t, other.targetCommit),
                      NEW mine \in ToSet(record.packages), NEW theirs \in ToSet(other.packages),
                      mine.workspacePath = theirs.workspacePath
               PROVE  <<other.targetCommit, record.targetCommit>> \in t.ancestors
  BY DEF NewestApproval
<1> DEFINE path == mine.workspacePath
           found == Repository!SurfaceApproval(t, path)
           n == Len(t.records)
<1>3. /\ path \in DOMAIN t.manifests /\ t.manifests[path].version = version
      /\ ~t.manifests[path].private
  BY DEF Repository!ManifestOk, Repository!ToSet, ToSet
<1>4. found.latest # Absent /\ found.latest.releaseVersion = version
  BY <1>1, <1>3, ApprovedManifest DEF Repository!PackageSurfaceOk
<1>5. path # Absent
  BY <1>1 DEF Repository!ReleaseRecordOk, Repository!PublicPackagesOk, Repository!ToSet, ToSet
<1>6. found.linear
  BY <1>1, <1>5 DEF Repository!PackageSurfaceOk, Repository!ToSet, ToSet
<1>7. FoundAmong(t, path, found, n)
  BY SurfaceApprovalFound
<1>8. n \in Nat /\ DOMAIN t.records = 1..n
  BY RepositoryAssumption, ListDomain DEF IsHistory
<1> HIDE DEF found, path
<1>9. PICK k \in 1..n : ApprovesPath(t, path, t.records[k]) /\ found.latest = t.records[k]
  BY <1>4, <1>7 DEF FoundAmong
<1>10. found.latest = record
  BY <1>4, <1>8, <1>9
  DEF ApprovesPath, Repository!ApprovedInHistory, ToSet
<1>11. PICK i \in 1..n : other = t.records[i]
  BY <1>8 DEF ToSet
<1>12. ApprovesPath(t, path, other)
  BY <1>1, <1>2
  DEF ApprovesPath, Repository!ApprovedInHistory, Repository!ReleaseRecordOk, Repository!ToSet,
      ToSet, path
<1> QED
  BY <1>4, <1>6, <1>7, <1>10, <1>11, <1>12 DEF FoundAmong

\* The checks on the targets of the evidence let no transport but stdio through, and no
\* summary of the filesystem fixture in which a private file was not refused.
LEMMA EvidenceTells ==
  ASSUME NEW t \in Trees, Repository!ChecksOk(t)
  PROVE  /\ ~Repository!HasOtherTransport(t)
         /\ Repository!HasTarget(t, "external-filesystem-stdio") => FixtureRefuses(t)
<1>1. /\ Repository!TargetsOk(t) /\ Repository!EvidenceReferencesOk(t)
      /\ \A target \in ToSet(t.evidence.targets) :
           target.id \in DOMAIN Pinned => Repository!ExternalManifestOk(t, target)
  BY DEF Repository!ChecksOk, Repository!CompatibilityOk, Repository!ArtifactSafetyOk,
         Repository!ToSet, ToSet
<1>2. \A target \in ToSet(t.evidence.targets) : Repository!TargetOk(t, target)
  BY <1>1 DEF Repository!TargetsOk, ToSet
<1>3. \A target \in ToSet(t.evidence.targets) : target.transport = "stdio"
  BY <1>2 DEF Repository!TargetOk, Repository!LocalTargetOk, Repository!ExternalTargetOk
<1>4. ~Repository!HasOtherTransport(t)
  BY <1>3 DEF Repository!HasOtherTransport, Repository!ToSet, ToSet
<1>5. ASSUME Repository!HasTarget(t, "external-filesystem-stdio") PROVE FixtureRefuses(t)
  <2> DEFINE id == "external-filesystem-stdio"
  <2>1. PICK target \in ToSet(t.evidence.targets) : target.id = id
    BY <1>5 DEF Repository!HasTarget, Repository!ToSet, ToSet
  <2> DEFINE summary == t.summaries[target.summary]
             manifest == t.external[target.manifest]
             pin == Pinned[id]
  <2>2. id \in DOMAIN Pinned /\ pin.profile = "filesystem" /\ id # Repository!LocalTarget
    BY RepositoryAssumption DEF Repository!LocalTarget
  <2>3. target.summary \in t.files
    BY <1>1, <2>1, <2>2
    DEF Repository!EvidenceReferencesOk, Repository!PublicReferenceOk, Repository!ToSet, ToSet
  <2>4. Repository!ExternalManifestOk(t, target)
    BY <1>1, <2>1, <2>2
  <2>5. /\ manifest.client = pin.client /\ manifest.server = pin.server
        /\ manifest.summary = target.summary
    BY <2>1, <2>4 DEF Repository!ExternalManifestOk
  <2>6. Repository!SummaryOk(summary, manifest, "filesystem")
    BY <2>1, <2>2, <2>3, <2>4, <2>5 DEF Repository!ExternalManifestOk
  <2>7. summary.client = manifest.client /\ summary.server = manifest.server
    BY <2>6 DEF Repository!SummaryOk
  <2>8. "policy.rule_deny" \in summary.scenarios.deniedPrivateRead
    BY <2>6 DEF Repository!SummaryOk, Repository!FilesystemSummaryOk, Repository!Refused
  <2> QED
    BY <2>1, <2>3, <2>5, <2>7, <2>8 DEF FixtureRefuses
<1> QED
  BY <1>4, <1>5

\* What `pnpm check` and the publish plan (check-release-publish-plan.mjs) let through
\* together is the newest approval, with its validations passed and what it says of its
\* scope true, whatever the history and the records of the tree.
THEOREM TagsAreApproved == Spec => []TaggedReleaseIsApproved
<1>1. ASSUME Told PROVE TaggedReleaseIsApproved
  <2> DEFINE t == question.tree
             version == question.version
  <2> SUFFICES ASSUME question.kind = "tag", answer.checked, answer.planned
               PROVE  \E record \in ToSet(t.records) :
                        /\ record.status = "approved" /\ record.releaseVersion = version
                        /\ NewestApproval(t, record)
                        /\ \A name \in Validation : record.validation[name].exit = 0
                        /\ record.scope["externalMcpFixture"].status = "included"
                             => FixtureRefuses(t)
                        /\ record.scope["httpTransport"].status = "excluded"
    BY DEF TaggedReleaseIsApproved
  <2>1. t \in Trees /\ Repository!ChecksOk(t) /\ Repository!TagPlanOk(t, version)
    BY <1>1 DEF Told, TagTold
  <2> HIDE DEF t, version
  <2>2. PICK record \in ToSet(t.records) :
               /\ record.status = "approved" /\ record.releaseVersion = version
               /\ \A other \in ToSet(t.records) :
                    other.status = "approved" /\ other.releaseVersion = version => other = record
               /\ \A item \in Repository!ToSet(record.packages) :
                    Repository!ManifestOk(t.manifests, item, version)
    BY <2>1, PlannedRecord
  <2>3. NewestApproval(t, record)
    BY <2>1, <2>2, PlannedIsNewest
  <2>4. Repository!ReleaseRecordOk(t, record)
    BY <2>1 DEF Repository!ChecksOk, Repository!ReadinessOk, Repository!ToSet, ToSet
  <2>5. ASSUME NEW name \in Validation PROVE record.validation[name].exit = 0
    <3>1. record.validation[name] = [command |-> name, exit |-> 0]
      BY <2>2, <2>4 DEF Repository!ReleaseRecordOk, Repository!ValidationsOk
    <3>2. [command |-> name, exit |-> 0].exit = 0
      OBVIOUS
    <3> QED
      BY <3>1, <3>2
  <2>6. Repository!ScopeOk(t, record)
    BY <2>4 DEF Repository!ReleaseRecordOk
  <2>7. record.scope["externalMcpFixture"].status = "included" => FixtureRefuses(t)
    BY <2>1, <2>6, EvidenceTells DEF Repository!ScopeOk
  <2>8. record.scope["httpTransport"].status = "excluded"
    BY <2>1, <2>6, EvidenceTells, RepositoryAssumption DEF Repository!ScopeOk
  <2> QED
    BY <2>2, <2>3, <2>5, <2>7, <2>8
<1> QED
  BY <1>1, AnswersAreTold, PTL

-----------------------------------------------------------------------------
(* What is handed on.                                                      *)

NoKeys(v) == v.json = "record" => {f.key : f \in ToSet(v.fields)} \cap MetadataRedactionKeys = {}

\* Nothing inside of what is left of a value is metadata, however deep.
LEMMA NoKeysInside ==
  ASSUME NEW v \in Json, NEW u \in Inside[SanitizedMetadata[v]]
  PROVE  NoKeys(u)
<1> DEFINE S == SanitizedMetadata
           Clean(x) == \A y \in Inside[S[x]] : NoKeys(y)
           Wrong == {x \in Json : ~Clean(x)}
           depths == {Nesting[x] : x \in Wrong}
<1> HIDE DEF S
<1> SUFFICES ASSUME Wrong # {} PROVE FALSE
  BY DEF S
<1>1. depths \in SUBSET Nat /\ depths # {}
  BY NestingOfParts
<1>2. PICK d \in depths : \A other \in depths : d <= other
  BY <1>1, LeastNumber
<1>3. PICK w \in Wrong : d = Nesting[w]
  OBVIOUS
<1>4. ASSUME NEW x \in Parts(w) PROVE Clean(x)
  <2>1. /\ x \in Json /\ Nesting[x] \in Nat /\ Nesting[w] \in Nat
        /\ Nesting[x] < Nesting[w]
    BY NestingOfParts
  <2>2. x \notin Wrong
    BY <1>2, <1>3, <2>1
  <2> HIDE DEF Clean
  <2> QED
    BY <2>1, <2>2
<1>5. S[w] \in Json
  BY MetadataAssumption DEF S
<1>6. Inside[S[w]] = {S[w]} \cup UNION {Inside[y] : y \in Parts(S[w])}
  BY <1>5, InsideUnfold DEF InsideOf
<1>7. NoKeys(S[w]) /\ \A y \in Parts(S[w]) : \E x \in Parts(w) : y = S[x]
  <2>1. CASE w.json = "array"
    <3> DEFINE items == [i \in DOMAIN w.items |-> S[w.items[i]]]
    <3>1. S[w] = [json |-> "array", items |-> items]
      BY <2>1, SanitizedArray DEF S
    <3>2. \A y \in ToSet(items) : \E x \in Parts(w) : y = S[x]
      BY <2>1 DEF Parts, ToSet
    <3> HIDE DEF items
    <3>3. S[w].json = "array" /\ S[w].items = items
      BY <3>1
    <3> QED
      BY <3>2, <3>3 DEF NoKeys, Parts
  <2>2. CASE w.json = "record"
    <3> DEFINE kept == KeptFields(w)
               fields == [i \in DOMAIN kept |-> [key |-> kept[i].key, value |-> S[kept[i].value]]]
    <3>1. S[w] = [json |-> "record", fields |-> fields]
      BY <2>2, SanitizedRecord DEF S
    <3>2. \A i \in DOMAIN kept :
            kept[i].key \notin MetadataRedactionKeys /\ kept[i].value \in Parts(w)
      BY <2>2, FieldsAreKept
    <3> HIDE DEF kept
    <3>3. \A f \in ToSet(fields) :
            f.key \notin MetadataRedactionKeys /\ \E x \in Parts(w) : f.value = S[x]
      BY <3>2 DEF ToSet
    <3> HIDE DEF fields
    <3>4. S[w].json = "record" /\ S[w].fields = fields
      BY <3>1
    <3> QED
      BY <3>3, <3>4 DEF NoKeys, Parts
  <2>3. CASE w.json \notin {"array", "record"}
    <3>1. S[w] = w
      BY <2>3, SanitizedUnfolds DEF S, Sanitized
    <3> QED
      BY <2>3, <3>1 DEF NoKeys, Parts
  <2> QED
    BY <2>1, <2>2, <2>3
<1>8. Clean(w)
  <2> SUFFICES ASSUME NEW y \in Inside[S[w]] PROVE NoKeys(y)
    OBVIOUS
  <2>1. CASE y = S[w]
    BY <1>7, <2>1
  <2>2. CASE y # S[w]
    <3>1. PICK p \in Parts(S[w]) : y \in Inside[p]
      BY <1>6, <2>2
    <3>2. PICK x \in Parts(w) : p = S[x]
      BY <1>7
    <3> QED
      BY <1>4, <3>1, <3>2
  <2> QED
    BY <2>1, <2>2
<1> HIDE DEF Clean
<1> QED
  BY <1>8

\* The same of what is copied of a tool.
LEMMA CopiedIsClean ==
  ASSUME NEW value \in Json \cup {Absent}
  PROVE  CleanMetadata(RecordField(value))
<1>1. CASE value = Absent \/ value.json # "record"
  BY <1>1 DEF RecordField, CleanMetadata
<1>2. CASE value \in Json /\ value # Absent /\ value.json = "record"
  <2>1. RecordField(value) = SanitizedMetadata[value]
    BY <1>2 DEF RecordField
  <2> QED
    BY <1>2, <2>1, NoKeysInside DEF CleanMetadata, NoKeys
<1> QED
  BY <1>1, <1>2

\* The fields of a message but one.
OtherThan(field) == EnvelopeField \ {field}

\* A message with another result, or another error.
WithResult(e, value) == [e EXCEPT !.result = value]
WithError(e, value) == [e EXCEPT !.error = value]

\* What the session changes of a message are fields of it.
LEMMA FieldChanged ==
  ASSUME NEW e, HasFields(e), NEW value
  PROVE  /\ HasFields(WithResult(e, value)) /\ WithResult(e, value).result = value
         /\ \A field \in OtherThan("result") : WithResult(e, value)[field] = e[field]
         /\ HasFields(WithError(e, value)) /\ WithError(e, value).error = value
         /\ \A field \in OtherThan("error") : WithError(e, value)[field] = e[field]
<1>1. DOMAIN e = EnvelopeField
  BY DEF HasFields
<1>2. {"result", "error"} \subseteq EnvelopeField
  BY DEF EnvelopeField
<1>3. \A x : x = [field \in EnvelopeField |-> x[field]] <=> HasFields(x)
  BY DEF HasFields
<1> QED
  BY <1>1, <1>2, <1>3 DEF OtherThan, WithResult, WithError

\* A request loses its extra fields, and nothing else of it is changed.
LEMMA RequestFields ==
  ASSUME NEW e, HasFields(e)
  PROVE  /\ HasFields(SanitizeRequest(e)) /\ SanitizeRequest(e).extra = {}
         /\ \A field \in OtherThan("extra") : SanitizeRequest(e)[field] = e[field]
<1>1. DOMAIN e = EnvelopeField /\ "extra" \in EnvelopeField
  BY DEF HasFields, EnvelopeField
<1> QED
  BY <1>1 DEF OtherThan, SanitizeRequest, HasFields

\* A response also loses its params.
LEMMA ResponseFields ==
  ASSUME NEW e, HasFields(e)
  PROVE  /\ HasFields(SanitizeResponse(e))
         /\ SanitizeResponse(e).extra = {} /\ SanitizeResponse(e).params = Absent
         /\ \A field \in EnvelopeField \ {"extra", "params"} : SanitizeResponse(e)[field] = e[field]
<1>1. DOMAIN e = EnvelopeField /\ {"extra", "params"} \subseteq EnvelopeField
  BY DEF HasFields, EnvelopeField
<1> QED
  BY <1>1 DEF SanitizeResponse, HasFields

\* Messages with the same fields are the same.
LEMMA SameFields ==
  ASSUME NEW e, HasFields(e), NEW f, HasFields(f), \A field \in EnvelopeField : e[field] = f[field]
  PROVE  e = f
BY DEF HasFields

\* What is handed on of an error.
SafeError(error, redaction) ==
  [message |-> IF error.message.kinds \cap Detectors(redaction) # {}
               THEN RedactedMessage ELSE error.message,
   data |-> FALSE, extra |-> {}]

\* An error is replaced by a safe one, which is safe already.
LEMMA ErrorFields ==
  ASSUME NEW e, HasFields(e), NEW redaction
  PROVE  /\ HasFields(SanitizeError(e, redaction))
         /\ \A field \in OtherThan("error") : SanitizeError(e, redaction)[field] = e[field]
         /\ SanitizeError(e, redaction).error
              = IF e.error = Absent THEN Absent ELSE SafeError(e.error, redaction)
         /\ SafeError(SafeError(e.error, redaction), redaction) = SafeError(e.error, redaction)
<1>1. SanitizeError(e, redaction)
        = IF e.error = Absent THEN e ELSE [e EXCEPT !.error = SafeError(e.error, redaction)]
  <2>1. DOMAIN e = EnvelopeField /\ "error" \in EnvelopeField
    BY DEF HasFields, EnvelopeField
  <2> QED
    BY <2>1 DEF SanitizeError, SafeError
<1>2. SafeError(SafeError(e.error, redaction), redaction) = SafeError(e.error, redaction)
  BY DEF SafeError, RedactedMessage
<1>3. CASE e.error = Absent
  BY <1>1, <1>2, <1>3
<1>4. CASE e.error # Absent
  <2> DEFINE safe == SafeError(e.error, redaction)
  <2>1. SanitizeError(e, redaction) = WithError(e, safe)
    BY <1>1, <1>4 DEF WithError
  <2> HIDE DEF safe
  <2>2. /\ HasFields(WithError(e, safe)) /\ WithError(e, safe).error = safe
        /\ \A field \in OtherThan("error") : WithError(e, safe)[field] = e[field]
    BY FieldChanged
  <2>3. SafeError(safe, redaction) = safe
    BY <1>2 DEF safe
  <2> QED
    BY <1>4, <2>1, <2>2, <2>3 DEF safe
<1> QED
  BY <1>3, <1>4

\* A frame with another envelope is parsed when that one is.
LEMMA ParsedAgain ==
  ASSUME NEW frame \in ClientFrames \cup ServerFrames, ParseFailure(frame) = Absent,
         NEW f, EnvelopeOk(f)
  PROVE  /\ EnvelopeOk(frame.envelope) /\ IsEnvelope(frame.envelope)
         /\ [frame EXCEPT !.envelope = f].envelope = f
         /\ ParseFailure([frame EXCEPT !.envelope = f]) = Absent
<1> DEFINE other == [frame EXCEPT !.envelope = f]
<1>1. EnvelopeOk(frame.envelope)
  BY FramesAssumption DEF ParseFailure
<1>2. IsEnvelope(frame.envelope)
  BY <1>1, FramesAssumption
<1>3. \A field \in {"bytes", "newline", "json", "depth"} : other[field] = frame[field]
  BY FramesAssumption
<1>4. other.envelope = f
  BY FramesAssumption
<1> HIDE DEF other
<1>5. ParseFailure(other) = Absent
  BY <1>3, <1>4, FramesAssumption DEF ParseFailure
<1> QED
  BY <1>1, <1>2, <1>4, <1>5 DEF other

\* What ForwardedIsClean asks, whichever way a frame goes.
HandedOn(sent, a, again) ==
  /\ EnvelopeOk(a.forward)
  /\ a.forward.id = sent.id /\ a.forward.method = sent.method
  /\ again = [forward |-> a.forward, audits |-> <<>>]
  /\ [a.forward EXCEPT !.result = sent.result] # sent => a.audits # <<>>

\* A message of the client is handed on clean.
LEMMA ClientHandsOn ==
  ASSUME NEW frame \in ClientFrames, NEW policy \in Accepted(SessionPolicies), NEW matched,
         FromClient(frame, policy, matched).forward # Absent
  PROVE  LET a == FromClient(frame, policy, matched)
         IN  HandedOn(frame.envelope, a,
                      FromClient([frame EXCEPT !.envelope = a.forward], policy, matched))
<1> DEFINE e == frame.envelope
           a == FromClient(frame, policy, matched)
           again(f) == FromClient([frame EXCEPT !.envelope = f], policy, matched)
<1>1. ParseFailure(frame) = Absent
  BY DEF FromClient, Refused, Handed
<1>2. EnvelopeOk(e) /\ IsEnvelope(e) /\ HasFields(e)
  <2>1. EnvelopeOk(e)
    BY <1>1, FramesAssumption DEF ParseFailure
  <2> QED
    BY <1>1, <2>1, ParsedAgain DEF IsEnvelope
<1>3. {Absent, Malformed} \cap {SanitizeRequest(e), SanitizeResponse(e)} = {}
  BY <1>2, FramesAssumption DEF Made
<1>4. CASE ~IsRequest(e)
  <2> DEFINE f == SanitizeResponse(e)
  <2>1. /\ a = Handed(f, When(f # e, "jsonrpc.response_extra_fields_redacted"))
        /\ matched # Absent
        /\ matched = "ping" => e.result = EmptyResult
    BY <1>1, <1>4 DEF FromClient, Refused, Handed
  <2>2. /\ HasFields(f) /\ f.extra = {} /\ f.params = Absent
        /\ f.id = e.id /\ f.method = e.method /\ f.result = e.result /\ f.error = e.error
    BY <1>2, ResponseFields DEF EnvelopeField
  <2>3. SanitizeResponse(f) = f
    <3>1. HasFields(SanitizeResponse(f))
          /\ \A field \in EnvelopeField : SanitizeResponse(f)[field] = f[field]
      BY <2>2, ResponseFields
    <3> QED
      BY <2>2, <3>1, SameFields
  <2>4. EnvelopeOk(f)
    BY <1>2, <1>3, <2>2 DEF EnvelopeOk, Given
  <2>5. [f EXCEPT !.result = e.result] = f
    BY <2>2 DEF HasFields
  <2> HIDE DEF f
  <2>6. again(f) = Handed(f, <<>>)
    <3>1. /\ [frame EXCEPT !.envelope = f].envelope = f
          /\ ParseFailure([frame EXCEPT !.envelope = f]) = Absent
      BY <1>1, <2>4, ParsedAgain
    <3>2. ~IsRequest(f)
      BY <1>4, <2>2 DEF IsRequest
    <3> QED
      BY <2>1, <2>2, <2>3, <3>1, <3>2 DEF FromClient, When
  <2>7. f # e => a.audits # <<>>
    <3> HIDE DEF a
    <3> QED
      BY <2>1 DEF Handed, When
  <2>8. a.forward = f
    BY <2>1 DEF Handed
  <2> HIDE DEF a, again
  <2> QED
    BY <2>2, <2>4, <2>5, <2>6, <2>7, <2>8 DEF HandedOn, Handed, a, again
<1>5. CASE IsRequest(e)
  <2> DEFINE f == SanitizeRequest(e)
  <2>1. /\ a = Handed(f, When(e.extra # {}, "jsonrpc.request_extra_fields_redacted"))
        /\ MethodCode(e.method, policy) = "method.supported" /\ ShapeOk(e)
        /\ e.method = "tools/call" => ToolCallParamsOk(e.params)
    BY <1>1, <1>5 DEF FromClient, Refused, Handed
  <2>2. /\ HasFields(f) /\ f.extra = {} /\ f.params = e.params
        /\ f.id = e.id /\ f.method = e.method /\ f.result = e.result /\ f.error = e.error
    BY <1>2, RequestFields DEF EnvelopeField, OtherThan
  <2>3. SanitizeRequest(f) = f
    <3>1. HasFields(SanitizeRequest(f))
          /\ \A field \in EnvelopeField : SanitizeRequest(f)[field] = f[field]
      BY <2>2, RequestFields DEF OtherThan
    <3> QED
      BY <2>2, <3>1, SameFields
  <2>4. EnvelopeOk(f)
    BY <1>2, <1>3, <2>2 DEF EnvelopeOk, Given
  <2>5. [f EXCEPT !.result = e.result] = f
    BY <2>2 DEF HasFields
  <2>6. f # e => e.extra # {}
    <3> SUFFICES ASSUME e.extra = {} PROVE f = e
      OBVIOUS
    <3>1. \A field \in EnvelopeField : f[field] = e[field]
      BY <2>2 DEF EnvelopeField
    <3> QED
      BY <1>2, <2>2, <3>1, SameFields
  <2> HIDE DEF f
  <2>7. again(f) = Handed(f, <<>>)
    <3>1. /\ [frame EXCEPT !.envelope = f].envelope = f
          /\ ParseFailure([frame EXCEPT !.envelope = f]) = Absent
      BY <1>1, <2>4, ParsedAgain
    <3>2. IsRequest(f) /\ ShapeOk(f)
      BY <1>5, <2>1, <2>2 DEF IsRequest, ShapeOk
    <3> QED
      BY <2>1, <2>2, <2>3, <3>1, <3>2 DEF FromClient, When
  <2>8. f # e => a.audits # <<>>
    <3> HIDE DEF a
    <3> QED
      BY <2>1, <2>6 DEF Handed, When
  <2>9. a.forward = f
    BY <2>1 DEF Handed
  <2> HIDE DEF a, again
  <2> QED
    BY <2>2, <2>4, <2>5, <2>7, <2>8, <2>9 DEF HandedOn, Handed, a, again
<1> QED
  BY <1>4, <1>5

\* A list of tools that was filtered is filtered again as it is, and shows nothing
\* that is taken out of metadata.
LEMMA FilteredAgain ==
  ASSUME NEW e, IsEnvelope(e), NEW rules, {Absent, Malformed} \cap
           ({FilterToolList(e.result, rules), FilterToolList(e.result, rules).tools}
              \cup ToSet(FilterToolList(e.result, rules).tools)) = {}
  PROVE  LET filtered == FilterToolList(e.result, rules)
         IN  /\ Given(filtered) /\ Given(filtered.tools) /\ IsList(filtered.tools)
             /\ FilterToolList(filtered, rules) = filtered
             /\ ToolsClean(filtered.tools)
<1> DEFINE filtered == FilterToolList(e.result, rules)
           tools == IF ~Given(e.result) \/ ~Given(e.result.tools) THEN <<>> ELSE e.result.tools
           cursor == IF ~Given(e.result) \/ ~Given(e.result.tools) THEN Absent
                     ELSE TextField(e.result.nextCursor)
           visible == VisibleTools(tools, rules)
<1>1. IsList(tools) /\ \A tool \in ToSet(tools) : tool = Malformed \/ IsTool(tool)
  <2>1. IsList(<<>>) /\ ToSet(<<>>) = {}
    BY DEF IsList, ToSet
  <2> QED
    BY <2>1 DEF IsEnvelope
<1>2. VisibleTools(<<>>, rules) = <<>>
  <2>1. IsList(<<>>) /\ ToSet(<<>>) = {}
    BY DEF IsList, ToSet
  <2>2. \A S : Only(<<>>, S) = <<>>
    BY <2>1, OnlyKeeps
  <2> QED
    BY <2>2 DEF VisibleTools
<1>3. filtered = [tools |-> visible, nextCursor |-> cursor, extra |-> {}]
  <2>1. CASE ~Given(e.result) \/ ~Given(e.result.tools)
    <3>1. tools = <<>> /\ cursor = Absent
      BY <2>1
    <3>2. filtered = [EmptyResult EXCEPT !.tools = <<>>]
      BY <2>1 DEF FilterToolList
    <3>3. visible = <<>>
      BY <1>2, <3>1
    <3> HIDE DEF visible, cursor, filtered
    <3> QED
      BY <3>1, <3>2, <3>3 DEF EmptyResult
  <2>2. CASE Given(e.result) /\ Given(e.result.tools)
    BY <2>2 DEF FilterToolList
  <2> QED
    BY <2>1, <2>2
<1>4. TextField(cursor) = cursor
  BY DEF TextField
<1> HIDE DEF tools, cursor
<1>5. {Absent, Malformed} \cap ({filtered, filtered.tools} \cup ToSet(filtered.tools)) = {}
  OBVIOUS
<1> HIDE DEF filtered
<1>6. filtered.tools = visible
  BY <1>3
<1>7. Malformed \notin ToSet(visible)
  BY <1>5, <1>6
<1>8. /\ IsList(visible) /\ VisibleTools(visible, rules) = visible
      /\ IsInjective([i \in DOMAIN visible |-> visible[i].name])
      /\ \A i \in DOMAIN visible : \E tool \in ToSet(tools) :
           tool # Malformed /\ visible[i] = VisibleDescriptor(tool)
  BY <1>1, <1>7, VisibleToolsTwice
<1> HIDE DEF visible
<1>9. Given(filtered) /\ Given(filtered.tools)
  BY <1>5 DEF Given
<1>10. FilterToolList(filtered, rules) = filtered
  BY <1>3, <1>4, <1>6, <1>8, <1>9 DEF FilterToolList
<1>11. \A i \in DOMAIN visible :
         CleanMetadata(visible[i].inputSchema) /\ CleanMetadata(visible[i].annotations)
  <2> SUFFICES ASSUME NEW i \in DOMAIN visible
               PROVE  CleanMetadata(visible[i].inputSchema) /\ CleanMetadata(visible[i].annotations)
    OBVIOUS
  <2>1. PICK tool \in ToSet(tools) : IsTool(tool) /\ visible[i] = VisibleDescriptor(tool)
    BY <1>1, <1>8
  <2>2. /\ visible[i].inputSchema = RecordField(tool.inputSchema)
        /\ visible[i].annotations = RecordField(tool.annotations)
    BY <2>1, DescriptorTwice
  <2>3. tool.inputSchema \in Json \cup {Absent} /\ tool.annotations \in Json \cup {Absent}
    BY <2>1 DEF IsTool
  <2> QED
    BY <2>2, <2>3, CopiedIsClean
<1>12. ToolsClean(visible)
  BY <1>8, <1>11 DEF ToolsClean
<1> QED
  BY <1>6, <1>8, <1>9, <1>10, <1>12 DEF filtered

\* A request of the server is handed on clean.
LEMMA ServerRequestHandsOn ==
  ASSUME NEW frame \in ServerFrames, NEW policy \in Accepted(SessionPolicies), NEW matched,
         FromServer(frame, policy, ProfileRules(policy, "p"), matched).forward # Absent,
         IsRequest(frame.envelope)
  PROVE  LET rules == ProfileRules(policy, "p")
             a == FromServer(frame, policy, rules, matched)
         IN  /\ HandedOn(frame.envelope, a,
                         FromServer([frame EXCEPT !.envelope = a.forward], policy, rules, matched))
             /\ a.forward.result = Absent
<1> DEFINE e == frame.envelope
           rules == ProfileRules(policy, "p")
           a == FromServer(frame, policy, rules, matched)
           again(x) == FromServer([frame EXCEPT !.envelope = x], policy, rules, matched)
           f == SanitizeRequest(e)
<1>1. ParseFailure(frame) = Absent
  BY DEF FromServer, Refused, Handed
<1>2. EnvelopeOk(e) /\ IsEnvelope(e) /\ HasFields(e)
  <2>1. EnvelopeOk(e)
    BY <1>1, FramesAssumption DEF ParseFailure
  <2> QED
    BY <1>1, <2>1, ParsedAgain DEF IsEnvelope
<1>3. {Absent, Malformed} \cap {f} = {}
  BY <1>2, FramesAssumption DEF Made
<1>4. /\ a = Handed(f, When(f # e, "jsonrpc.request_extra_fields_redacted"))
      /\ ServerOriginMethodCode(e, policy) = "method.supported" /\ e.id # Absent
  BY <1>1 DEF FromServer, Refused, Handed
<1>5. /\ HasFields(f) /\ f.extra = {} /\ f.params = e.params
      /\ f.id = e.id /\ f.method = e.method /\ f.result = e.result /\ f.error = e.error
  BY <1>2, RequestFields DEF EnvelopeField, OtherThan
<1>6. SanitizeRequest(f) = f
  <2>1. HasFields(SanitizeRequest(f))
        /\ \A field \in EnvelopeField : SanitizeRequest(f)[field] = f[field]
    BY <1>5, RequestFields DEF OtherThan
  <2> QED
    BY <1>5, <2>1, SameFields
<1>7. EnvelopeOk(f) /\ f.result = Absent
  BY <1>2, <1>3, <1>5 DEF EnvelopeOk, Given, IsRequest
<1>8. [f EXCEPT !.result = e.result] = f
  BY <1>5 DEF HasFields
<1> HIDE DEF f
<1>9. again(f) = Handed(f, <<>>)
  <2>1. /\ [frame EXCEPT !.envelope = f].envelope = f
        /\ ParseFailure([frame EXCEPT !.envelope = f]) = Absent
    BY <1>1, <1>7, ParsedAgain
  <2>2. IsRequest(f) /\ ServerOriginMethodCode(f, policy) = "method.supported"
    BY <1>4, <1>5 DEF IsRequest, ServerOriginMethodCode
  <2> QED
    BY <1>4, <1>5, <1>6, <2>1, <2>2 DEF FromServer, When
<1> HIDE DEF a
<1>10. f # e => a.audits # <<>>
  BY <1>4 DEF Handed, When
<1>11. a.forward = f
  BY <1>4 DEF Handed
<1> HIDE DEF again
<1> QED
  BY <1>5, <1>7, <1>8, <1>9, <1>10, <1>11 DEF HandedOn, Handed, a, again

\* A response of the server is handed on clean, and so is a list of tools in it.
LEMMA ServerResponseHandsOn ==
  ASSUME NEW frame \in ServerFrames, NEW policy \in Accepted(SessionPolicies), NEW matched,
         FromServer(frame, policy, ProfileRules(policy, "p"), matched).forward # Absent,
         ~IsRequest(frame.envelope)
  PROVE  LET rules == ProfileRules(policy, "p")
             a == FromServer(frame, policy, rules, matched)
         IN  /\ HandedOn(frame.envelope, a,
                         FromServer([frame EXCEPT !.envelope = a.forward], policy, rules, matched))
             /\ matched = "tools/list" /\ a.forward.result # Absent
                  => ToolsClean(a.forward.result.tools)
<1> DEFINE e == frame.envelope
           rules == ProfileRules(policy, "p")
           a == FromServer(frame, policy, rules, matched)
           again(x) == FromServer([frame EXCEPT !.envelope = x], policy, rules, matched)
           unerring == SanitizeError(e, policy.redaction)
           f == SanitizeResponse(unerring)
           filtered == FilterToolList(f.result, rules)
           g == WithResult(f, filtered)
           told == When(unerring # e, ErrorRedactionCode(e.error, unerring.error))
                     \o When(f # unerring, "jsonrpc.response_extra_fields_redacted")
           hidden == \/ ~Given(f.result) \/ ~Given(f.result.tools)
                     \/ Len(f.result.tools) > Len(filtered.tools)
<1>1. ParseFailure(frame) = Absent
  BY DEF FromServer, Refused, Handed
<1>2. EnvelopeOk(e) /\ IsEnvelope(e) /\ HasFields(e)
  <2>1. EnvelopeOk(e)
    BY <1>1, FramesAssumption DEF ParseFailure
  <2> QED
    BY <1>1, <2>1, ParsedAgain DEF IsEnvelope
<1>3. /\ {Absent, Malformed} \cap {f, filtered, filtered.tools, g} = {}
      /\ {Absent, Malformed} \cap ToSet(filtered.tools) = {}
      /\ e.error # Absent => unerring.error \notin {Absent, Malformed}
  <2>1. {Absent, Malformed} \cap Made(e, policy) = {}
    BY <1>2, FramesAssumption
  <2>2. /\ {f, filtered, filtered.tools, g} \cup ToSet(filtered.tools) \subseteq Made(e, policy)
        /\ e.error # Absent => unerring.error \in Made(e, policy)
    BY DEF Made, WithResult
  <2> HIDE DEF f, filtered, g, unerring
  <2> QED
    BY <2>1, <2>2
<1>4. a = IF matched = Absent THEN Refused(told, "jsonrpc.unmatched_response")
          ELSE IF matched # "tools/list" \/ f.error # Absent THEN Handed(f, told)
          ELSE Handed(g, told \o When(hidden, "discovery.filtered"))
  BY <1>1 DEF FromServer, WithResult
<1>5. /\ HasFields(f) /\ f.extra = {} /\ f.params = Absent
      /\ f.id = e.id /\ f.method = e.method /\ f.result = e.result
      /\ f.error = IF e.error = Absent THEN Absent ELSE SafeError(e.error, policy.redaction)
      /\ unerring.error = f.error
  <2>1. /\ HasFields(unerring)
        /\ \A field \in OtherThan("error") : unerring[field] = e[field]
        /\ unerring.error
             = IF e.error = Absent THEN Absent ELSE SafeError(e.error, policy.redaction)
    BY <1>2, ErrorFields
  <2> HIDE DEF unerring
  <2>2. /\ HasFields(f) /\ f.extra = {} /\ f.params = Absent
        /\ \A field \in EnvelopeField \ {"extra", "params"} : f[field] = unerring[field]
    BY <2>1, ResponseFields
  <2> HIDE DEF f
  <2> QED
    BY <2>1, <2>2 DEF EnvelopeField, OtherThan
<1>6. e.error = Absent <=> f.error = Absent
  <2> HIDE DEF unerring, f
  <2> QED
    BY <1>3, <1>5
<1>7. \A x : HasFields(x) /\ x.extra = {} /\ x.params = Absent /\ x.error = f.error
               => SanitizeError(x, policy.redaction) = x /\ SanitizeResponse(x) = x
  <2> HIDE DEF f, unerring
  <2> SUFFICES ASSUME NEW x, HasFields(x), x.extra = {}, x.params = Absent, x.error = f.error
               PROVE  SanitizeError(x, policy.redaction) = x /\ SanitizeResponse(x) = x
    OBVIOUS
  <2>1. SanitizeError(x, policy.redaction).error = x.error
    <3>1. CASE f.error = Absent
      BY <3>1, ErrorFields
    <3>2. CASE f.error # Absent
      <4>1. f.error = SafeError(e.error, policy.redaction)
        BY <1>5, <3>2
      <4>2. SafeError(f.error, policy.redaction) = f.error
        BY <1>2, <4>1, ErrorFields
      <4> QED
        BY <3>2, <4>2, ErrorFields
    <3> QED
      BY <3>1, <3>2
  <2>2. \A field \in EnvelopeField : SanitizeError(x, policy.redaction)[field] = x[field]
    BY <2>1, ErrorFields DEF OtherThan
  <2>3. HasFields(SanitizeError(x, policy.redaction))
    BY ErrorFields
  <2>4. SanitizeError(x, policy.redaction) = x
    BY <2>2, <2>3, SameFields
  <2>5. HasFields(SanitizeResponse(x))
        /\ \A field \in EnvelopeField : SanitizeResponse(x)[field] = x[field]
    BY ResponseFields
  <2> QED
    BY <2>4, <2>5, SameFields
<1>8. /\ told = <<>> => f = e
      /\ \A other : told \o When(other, "discovery.filtered") = <<>> => f = e
  <2> HIDE DEF f, unerring
  <2>1. \A code : When(TRUE, code) = <<code>> /\ When(FALSE, code) = <<>>
    BY DEF When
  <2>2. unerring # e \/ f # unerring =>
          told # <<>> /\ \A x : told \o When(x, "discovery.filtered") # <<>>
    BY DEF When
  <2> QED
    BY <2>2
<1>9. IsRequest(f) = IsRequest(e) /\ EnvelopeOk(f)
  <2> HIDE DEF f, unerring
  <2>1. e.error # Absent => f.error \notin {Absent, Malformed}
    BY <1>3, <1>5
  <2> QED
    BY <1>2, <1>3, <1>5, <1>6, <2>1 DEF EnvelopeOk, Given, IsRequest
<1>10. matched # Absent
  <2>1. a.forward # Absent
    OBVIOUS
  <2>2. \A audits, code : Refused(audits, code).forward = Absent
    BY DEF Refused, Handed
  <2> HIDE DEF a, told
  <2> QED
    BY <1>4, <2>1, <2>2
<1> HIDE DEF told, hidden, unerring, a, again
<1>11. CASE matched # "tools/list" \/ f.error # Absent
  <2> HIDE DEF f
  <2>1. a.forward = f /\ a.audits = told
    BY <1>4, <1>10, <1>11 DEF Handed
  <2>2. SanitizeError(f, policy.redaction) = f /\ SanitizeResponse(f) = f
    BY <1>5, <1>7
  <2>3. again(f) = Handed(f, <<>>)
    <3>1. /\ [frame EXCEPT !.envelope = f].envelope = f
          /\ ParseFailure([frame EXCEPT !.envelope = f]) = Absent
      BY <1>1, <1>9, ParsedAgain
    <3>2. When(FALSE, ErrorRedactionCode(f.error, f.error))
            \o When(FALSE, "jsonrpc.response_extra_fields_redacted") = <<>>
      BY DEF When
    <3>3. again(f) = Handed(f, When(f # f, ErrorRedactionCode(f.error, f.error))
                         \o When(f # f, "jsonrpc.response_extra_fields_redacted"))
      BY <1>9, <1>10, <1>11, <2>2, <3>1 DEF FromServer, again
    <3>4. (f # f) = FALSE
      OBVIOUS
    <3> QED
      BY <3>2, <3>3, <3>4
  <2>4. [f EXCEPT !.result = e.result] = f
    BY <1>5 DEF HasFields
  <2>5. matched = "tools/list" => f.result = Absent
    BY <1>5, <1>6, <1>2, <1>11 DEF EnvelopeOk, IsRequest
  <2>6. HandedOn(e, a, again(f))
    BY <1>5, <1>8, <1>9, <2>1, <2>3, <2>4 DEF HandedOn, Handed
  <2> QED
    BY <2>1, <2>5, <2>6 DEF a, again
<1>12. CASE matched = "tools/list" /\ f.error = Absent
  <2>1. filtered = FilterToolList(e.result, rules)
    BY <1>5
  <2>2. /\ Given(filtered) /\ Given(filtered.tools) /\ IsList(filtered.tools)
        /\ FilterToolList(filtered, rules) = filtered
        /\ ToolsClean(filtered.tools)
    <3> HIDE DEF filtered
    <3>1. {Absent, Malformed} \cap
           ({filtered, filtered.tools} \cup ToSet(filtered.tools)) = {}
      BY <1>3
    <3> QED
      BY <1>2, <2>1, <3>1, FilteredAgain
  <2> HIDE DEF f, filtered
  <2>3. a = Handed(g, told \o When(hidden, "discovery.filtered"))
    BY <1>4, <1>10, <1>12
  <2>4. a.forward = g /\ a.audits = told \o When(hidden, "discovery.filtered")
    BY <2>3 DEF Handed
  <2>5. /\ HasFields(g) /\ g.result = filtered
        /\ g.extra = {} /\ g.params = Absent /\ g.id = e.id /\ g.method = e.method
        /\ g.error = f.error
    <3> HIDE DEF filtered
    <3>1. /\ HasFields(g) /\ g.result = filtered
          /\ \A field \in OtherThan("result") : g[field] = f[field]
      BY <1>5, FieldChanged
    <3> HIDE DEF g
    <3> QED
      BY <1>5, <3>1 DEF EnvelopeField, OtherThan
  <2>6. [g EXCEPT !.result = e.result] = f
    <3>1. HasFields([g EXCEPT !.result = e.result])
          /\ \A field \in EnvelopeField : [g EXCEPT !.result = e.result][field] = f[field]
      <4> DEFINE back == WithResult(g, e.result)
      <4> HIDE DEF g
      <4>1. /\ HasFields(back) /\ back.result = e.result
            /\ \A field \in OtherThan("result") : back[field] = g[field]
        BY <2>5, FieldChanged
      <4> HIDE DEF back
      <4>2. \A field \in OtherThan("result") : g[field] = f[field]
        BY <1>5, <2>5 DEF EnvelopeField, OtherThan
      <4>3. \A field \in EnvelopeField : back[field] = f[field]
        BY <1>5, <4>1, <4>2 DEF OtherThan
      <4> QED
        BY <4>1, <4>3 DEF back, WithResult
    <3> QED
      BY <1>5, <3>1, SameFields
  <2>7. [g EXCEPT !.result = filtered] = g
    BY <2>5 DEF HasFields
  <2>8. SanitizeError(g, policy.redaction) = g /\ SanitizeResponse(g) = g
    BY <1>7, <2>5
  <2>9. EnvelopeOk(g) /\ IsRequest(g) = IsRequest(e)
    <3>1. e.result # Absent /\ filtered # Absent /\ g \notin {Absent, Malformed}
      BY <1>2, <1>3, <1>6, <1>12 DEF EnvelopeOk, IsRequest
    <3> HIDE DEF g
    <3> QED
      BY <1>2, <1>6, <1>12, <2>5, <3>1 DEF EnvelopeOk, Given, IsRequest
  <2> HIDE DEF g
  <2>10. again(g) = Handed(g, <<>>)
    <3>1. /\ [frame EXCEPT !.envelope = g].envelope = g
          /\ ParseFailure([frame EXCEPT !.envelope = g]) = Absent
      BY <1>1, <2>9, ParsedAgain
    <3> DEFINE less == \/ ~Given(filtered) \/ ~Given(filtered.tools)
                       \/ Len(filtered.tools) > Len(filtered.tools)
    <3>2. ~less
      BY <2>2, ListDomain
    <3>3. again(g) = Handed([g EXCEPT !.result = filtered],
                       (When(g # g, ErrorRedactionCode(g.error, g.error))
                         \o When(g # g, "jsonrpc.response_extra_fields_redacted"))
                         \o When(less, "discovery.filtered"))
      BY <1>9, <1>10, <1>12, <2>2, <2>5, <2>8, <2>9, <3>1 DEF FromServer, again
    <3> HIDE DEF less
    <3>4. (g # g) = FALSE
      OBVIOUS
    <3>5. (When(FALSE, ErrorRedactionCode(g.error, g.error))
             \o When(FALSE, "jsonrpc.response_extra_fields_redacted"))
            \o When(less, "discovery.filtered") = <<>>
      BY <3>2 DEF When
    <3> QED
      BY <2>7, <3>3, <3>4, <3>5
  <2>11. HandedOn(e, a, again(g))
    BY <1>8, <2>4, <2>5, <2>6, <2>9, <2>10 DEF HandedOn, Handed
  <2> QED
    BY <2>2, <2>4, <2>5, <2>11 DEF a, again
<1> QED
  BY <1>11, <1>12

\* What a session hands on is a message the other side can parse, with the id and the
\* method it came with and nothing left that the session would take out; what was taken
\* out, the audit tells; and a list of tools has different names and no examples or
\* comments in it (FromClient and FromServer, for any frames, policies and metadata).
THEOREM HandsOnClean == Spec => []ForwardedIsClean
<1>1. Told => ForwardedIsClean
  <2> SUFFICES ASSUME Told, question.kind \in {"client frame", "server frame"},
                      answer.forward # Absent
               PROVE  /\ HandedOn(question.frame.envelope, answer, HandOnAgain(answer.forward))
                      /\ (question.kind = "server frame" /\ question.matched = "tools/list"
                          /\ answer.forward.result # Absent)
                           => ToolsClean(answer.forward.result.tools)
    BY DEF ForwardedIsClean, HandedOn
  <2> DEFINE frame == question.frame
             policy == question.policy
             matched == question.matched
  <2>1. policy \in Accepted(SessionPolicies)
    BY DEF Told, FrameTold
  <2>2. CASE question.kind = "client frame"
    <3>1. frame \in ClientFrames /\ answer = FromClient(frame, policy, matched)
      BY <2>2 DEF Told, FrameTold
    <3>2. HandOnAgain(answer.forward)
            = FromClient([frame EXCEPT !.envelope = answer.forward], policy, matched)
      BY <2>2 DEF HandOnAgain
    <3> HIDE DEF frame, policy, matched
    <3> QED
      BY <2>1, <2>2, <3>1, <3>2, ClientHandsOn DEF frame
  <2>3. CASE question.kind = "server frame"
    <3> DEFINE rules == ProfileRules(policy, "p")
    <3>1. frame \in ServerFrames /\ answer = FromServer(frame, policy, rules, matched)
      BY <2>3 DEF Told, FrameTold
    <3>2. HandOnAgain(answer.forward)
            = FromServer([frame EXCEPT !.envelope = answer.forward], policy, rules, matched)
      BY <2>3 DEF HandOnAgain
    <3> HIDE DEF frame, policy, matched
    <3>3. HandedOn(frame.envelope, answer, HandOnAgain(answer.forward))
          /\ (matched = "tools/list" /\ answer.forward.result # Absent
                => ToolsClean(answer.forward.result.tools))
      <4>1. CASE IsRequest(frame.envelope)
        BY <2>1, <3>1, <3>2, <4>1, ServerRequestHandsOn
      <4>2. CASE ~IsRequest(frame.envelope)
        BY <2>1, <3>1, <3>2, <4>2, ServerResponseHandsOn
      <4> QED
        BY <4>1, <4>2
    <3> QED
      BY <3>3 DEF frame, matched
  <2> QED
    BY <2>2, <2>3
<1> QED
  BY <1>1, AnswersAreTold, PTL

-----------------------------------------------------------------------------
(* The frames in a stream.                                                 *)

\* The lines of a text, by the places of its line ends: how many there are up to a place,
\* where each begins and ends, and where the line that a place is in begins.
LineEnds(text) == {i \in DOMAIN text : text[i] = LF}
EndsUpTo(text, q) == {e \in LineEnds(text) : e <= q}
EndCount(text, q) == Cardinality(EndsUpTo(text, q))
EndOf(text, k) == CHOOSE e \in LineEnds(text) : EndCount(text, e) = k
BeginOf(text, k) == IF k = 1 THEN 1 ELSE EndOf(text, k - 1) + 1
StartAt(text, q) == BeginOf(text, EndCount(text, q) + 1)
RestAt(text, q) == SubSeq(text, StartAt(text, q), q)
WholeAt(text, q) ==
  [k \in 1..EndCount(text, q) |-> LineOf(text, BeginOf(text, k), EndOf(text, k) - 1)]

\* Line ends are counted one by one.
LEMMA EndsCounted ==
  ASSUME NEW text, IsList(text)
  PROVE  /\ EndCount(text, 0) = 0
         /\ \A q \in 0..Len(text) : EndCount(text, q) \in Nat
         /\ \A q \in 0..Len(text) - 1 :
              EndCount(text, q + 1) = IF text[q + 1] = LF THEN EndCount(text, q) + 1
                                      ELSE EndCount(text, q)
         /\ \A q, r \in 0..Len(text) : q <= r => EndCount(text, q) <= EndCount(text, r)
<1> DEFINE n == Len(text)
<1>1. n \in Nat /\ DOMAIN text = 1..n
  BY ListDomain
<1> HIDE DEF n
<1>2. \A q \in 0..n : EndsUpTo(text, q) \in SUBSET (1..n) /\ IsFiniteSet(EndsUpTo(text, q))
  <2>1. \A q \in 0..n : EndsUpTo(text, q) \in SUBSET (1..n)
    BY <1>1 DEF EndsUpTo, LineEnds
  <2>2. IsFiniteSet(1..n)
    BY <1>1, FS_Interval
  <2> QED
    BY <2>1, <2>2, FS_Subset
<1>3. \A q \in 0..n : EndCount(text, q) \in Nat
  BY <1>2, FS_CardinalityType DEF EndCount
<1>4. EndCount(text, 0) = 0
  <2>1. EndsUpTo(text, 0) = {}
    BY <1>1 DEF EndsUpTo, LineEnds
  <2> QED
    BY <2>1, FS_EmptySet DEF EndCount
<1>5. ASSUME NEW q \in 0..n - 1
      PROVE  EndCount(text, q + 1) = IF text[q + 1] = LF THEN EndCount(text, q) + 1
                                     ELSE EndCount(text, q)
  <2>1. q \in 0..n /\ q + 1 \in 1..n /\ q \in Nat
    BY <1>1
  <2>2. CASE text[q + 1] = LF
    <3>1. EndsUpTo(text, q + 1) = EndsUpTo(text, q) \cup {q + 1}
      BY <1>1, <2>1, <2>2 DEF EndsUpTo, LineEnds
    <3>2. q + 1 \notin EndsUpTo(text, q)
      BY <2>1 DEF EndsUpTo
    <3> QED
      BY <1>2, <2>1, <2>2, <3>1, <3>2, FS_AddElement DEF EndCount
  <2>3. CASE text[q + 1] # LF
    <3>1. EndsUpTo(text, q + 1) = EndsUpTo(text, q)
      BY <1>1, <2>1, <2>3 DEF EndsUpTo, LineEnds
    <3> QED
      BY <2>3, <3>1 DEF EndCount
  <2> QED
    BY <2>2, <2>3
<1>6. ASSUME NEW q \in 0..n, NEW r \in 0..n, q <= r
      PROVE  EndCount(text, q) <= EndCount(text, r)
  <2>1. EndsUpTo(text, q) \subseteq EndsUpTo(text, r)
    BY <1>1, <1>6 DEF EndsUpTo, LineEnds
  <2> QED
    BY <1>2, <2>1, FS_Subset DEF EndCount
<1> QED
  BY <1>3, <1>4, <1>5, <1>6 DEF n

\* A line end ends the line that is counted with it.
LEMMA EndIsOne ==
  ASSUME NEW text, IsList(text), NEW q \in 0..Len(text) - 1, text[q + 1] = LF
  PROVE  EndOf(text, EndCount(text, q) + 1) = q + 1
<1> DEFINE n == Len(text)
<1>1. n \in Nat /\ DOMAIN text = 1..n
  BY ListDomain
<1> HIDE DEF n
<1>2. q \in 0..n /\ q + 1 \in 1..n /\ q + 1 \in 0..n /\ q \in 0..n - 1 /\ q \in Nat
  BY <1>1 DEF n
<1>3. /\ EndCount(text, q + 1) = EndCount(text, q) + 1
      /\ \A r \in 0..n : EndCount(text, r) \in Nat
      /\ \A p, r \in 0..n : p <= r => EndCount(text, p) <= EndCount(text, r)
  BY <1>2, EndsCounted DEF n
<1>4. q + 1 \in LineEnds(text)
  BY <1>1, <1>2 DEF LineEnds
<1>5. ASSUME NEW e \in LineEnds(text), EndCount(text, e) = EndCount(text, q) + 1
      PROVE  e = q + 1
  <2>1. e \in 1..n /\ e \in 0..n /\ text[e] = LF /\ e - 1 \in 0..n /\ e - 1 \in 0..n - 1
        /\ (e - 1) + 1 = e
    BY <1>1 DEF LineEnds
  <2>2. EndCount(text, e) = EndCount(text, e - 1) + 1
    BY <2>1, EndsCounted DEF n
  <2>3. CASE e <= q
    <3>1. EndCount(text, e) <= EndCount(text, q)
      BY <1>2, <1>3, <2>1, <2>3
    <3> QED
      BY <1>2, <1>3, <1>5, <2>1, <3>1
  <2>4. CASE q + 1 <= e - 1
    <3>1. EndCount(text, q + 1) <= EndCount(text, e - 1)
      BY <1>2, <1>3, <2>1, <2>4
    <3> QED
      BY <1>2, <1>3, <1>5, <2>1, <2>2, <3>1
  <2> QED
    BY <1>2, <2>1, <2>3, <2>4
<1>6. \E e \in LineEnds(text) : EndCount(text, e) = EndCount(text, q) + 1
  BY <1>3, <1>4
<1> QED
  BY <1>5, <1>6 DEF EndOf

\* Up to the next line end, no line is added and the place stays in its line.
LEMMA SameLine ==
  ASSUME NEW text, IsList(text), NEW q \in 0..Len(text), NEW r \in q..Len(text),
         \A i \in q + 1..r : text[i] # LF
  PROVE  /\ EndCount(text, r) = EndCount(text, q)
         /\ StartAt(text, r) = StartAt(text, q) /\ WholeAt(text, r) = WholeAt(text, q)
<1> DEFINE m == r - q
           There == {k \in 0..m : EndCount(text, q + k) = EndCount(text, q)}
<1>1. Len(text) \in Nat
  BY ListDomain
<1>2. m \in Nat /\ q \in Nat /\ q + m = r /\ q + 0 = q
  BY <1>1
<1>3. 0 \in There
  BY <1>2
<1>4. ASSUME NEW k \in 0..m - 1, k \in There PROVE k + 1 \in There
  <2>1. /\ q + k \in 0..Len(text) - 1 /\ (q + k) + 1 \in q + 1..r /\ k + 1 \in 0..m
        /\ (q + k) + 1 = q + (k + 1)
    BY <1>1, <1>2
  <2>2. EndCount(text, (q + k) + 1) = EndCount(text, q + k)
    BY <2>1, EndsCounted
  <2> QED
    BY <1>4, <2>1, <2>2
<1>5. m \in There
  <2> HIDE DEF There, m
  <2>1. \A k \in 0..m : k \in There
    BY <1>2, <1>3, <1>4, Climb
  <2> QED
    BY <1>2, <2>1
<1>6. EndCount(text, r) = EndCount(text, q)
  BY <1>2, <1>5
<1> QED
  BY <1>6 DEF StartAt, WholeAt

\* A line end adds the line it ends, and another one begins.
LEMMA LineAdded ==
  ASSUME NEW text, IsList(text), NEW q \in 0..Len(text) - 1, text[q + 1] = LF
  PROVE  /\ StartAt(text, q + 1) = q + 2
         /\ WholeAt(text, q + 1) = Append(WholeAt(text, q), LineOf(text, StartAt(text, q), q))
<1> DEFINE k == EndCount(text, q)
           line(j) == LineOf(text, BeginOf(text, j), EndOf(text, j) - 1)
<1>1. k \in Nat /\ q \in Nat /\ EndCount(text, q + 1) = k + 1
  <2>1. Len(text) \in Nat
    BY ListDomain
  <2>2. q \in 0..Len(text) /\ q \in Nat
    BY <2>1
  <2> QED
    BY <2>2, EndsCounted
<1>2. EndOf(text, k + 1) = q + 1
  BY EndIsOne
<1>3. StartAt(text, q + 1) = q + 2
  <2>1. (k + 1) + 1 # 1 /\ ((k + 1) + 1) - 1 = k + 1 /\ (q + 1) + 1 = q + 2
    BY <1>1
  <2> HIDE DEF k
  <2> QED
    BY <1>1, <1>2, <2>1 DEF StartAt, BeginOf
<1>4. line(k + 1) = LineOf(text, StartAt(text, q), q)
  <2>1. (q + 1) - 1 = q
    BY <1>1
  <2> QED
    BY <1>2, <2>1 DEF StartAt
<1>5. WholeAt(text, q + 1) = Append(WholeAt(text, q), line(k + 1))
  <2>1. WholeAt(text, q) = [j \in 1..k |-> line(j)]
    BY DEF WholeAt
  <2>2. WholeAt(text, q + 1) = [j \in 1..k + 1 |-> line(j)]
    BY <1>1 DEF WholeAt
  <2> DEFINE T == {line(j) : j \in 1..k + 1}
  <2> HIDE DEF k, line
  <2>3. \A j \in 1..k + 1 : line(j) \in T
    OBVIOUS
  <2> HIDE DEF T
  <2>4. /\ [j \in 1..k |-> line(j)] \in Seq(T) /\ Len([j \in 1..k |-> line(j)]) = k
        /\ [j \in 1..k + 1 |-> line(j)] \in Seq(T) /\ Len([j \in 1..k + 1 |-> line(j)]) = k + 1
    <3>1. /\ [j \in 1..k |-> line(j)] \in [1..k -> T]
          /\ [j \in 1..k + 1 |-> line(j)] \in [1..k + 1 -> T]
      BY <1>1, <2>3
    <3> QED
      BY <1>1, <3>1
  <2> DEFINE one == [j \in 1..k |-> line(j)]
             two == [j \in 1..k + 1 |-> line(j)]
  <2>5. \A j \in 1..k + 1 : two[j] = line(j)
    OBVIOUS
  <2>6. \A j \in 1..k : one[j] = line(j)
    OBVIOUS
  <2>7. k + 1 \in 1..k + 1 /\ line(k + 1) \in T
    BY <1>1, <2>3
  <2> HIDE DEF one, two
  <2>8. /\ Append(one, line(k + 1)) \in Seq(T) /\ Len(Append(one, line(k + 1))) = k + 1
        /\ \A j \in 1..k : Append(one, line(k + 1))[j] = line(j)
        /\ Append(one, line(k + 1))[k + 1] = line(k + 1)
    BY <1>1, <2>4, <2>6, <2>7, AppendProperties DEF one
  <2>9. \A j \in 1..k + 1 : Append(one, line(k + 1))[j] = two[j]
    <3>1. \A j \in 1..k + 1 : j \in 1..k \/ j = k + 1
      BY <1>1
    <3> QED
      BY <2>5, <2>8, <3>1
  <2>10. Append(one, line(k + 1)) = two
    BY <2>4, <2>8, <2>9, SeqEqual DEF two
  <2> QED
    BY <2>1, <2>2, <2>10 DEF one, two
<1> QED
  BY <1>3, <1>4, <1>5

\* A longer text has no fewer bytes.
LEMMA BytesGrow ==
  ASSUME NEW C, NEW one \in Seq(C), NEW two \in Seq(C)
  PROVE  Bytes(one) \in Nat /\ Bytes(one \o two) \in Nat /\ Bytes(one) <= Bytes(one \o two)
<1> DEFINE wide(s) == {i \in DOMAIN s : s[i] = "wide"}
           both == one \o two
<1>1. /\ Len(one) \in Nat /\ Len(two) \in Nat /\ Len(both) = Len(one) + Len(two)
      /\ DOMAIN one = 1..Len(one) /\ DOMAIN both = 1..Len(both)
      /\ \A i \in 1..Len(one) : both[i] = one[i]
  <2>1. /\ both \in Seq(C) /\ Len(both) = Len(one) + Len(two)
        /\ \A i \in 1..Len(one) + Len(two) :
             both[i] = IF i <= Len(one) THEN one[i] ELSE two[i - Len(one)]
    BY ConcatProperties, Zenon
  <2> HIDE DEF both
  <2> QED
    BY <2>1, LenProperties
<1> HIDE DEF both
<1>2. wide(one) \subseteq wide(both) /\ wide(one) \in SUBSET (1..Len(one))
      /\ wide(both) \in SUBSET (1..Len(both))
  BY <1>1
<1>3. IsFiniteSet(1..Len(one)) /\ IsFiniteSet(1..Len(both))
  BY <1>1, FS_Interval
<1> HIDE DEF wide
<1>4. /\ Cardinality(wide(one)) \in Nat /\ Cardinality(wide(both)) \in Nat
      /\ Cardinality(wide(one)) <= Cardinality(wide(both))
  <2>1. IsFiniteSet(wide(one)) /\ IsFiniteSet(wide(both))
    BY <1>2, <1>3, FS_Subset
  <2> QED
    BY <1>2, <2>1, FS_Subset, FS_CardinalityType
<1>5. /\ Bytes(one) = Len(one) + 2 * Cardinality(wide(one))
      /\ Bytes(both) = Len(both) + 2 * Cardinality(wide(both))
  BY DEF Bytes, wide
<1> QED
  BY <1>1, <1>4, <1>5 DEF both

\* The empty text has no bytes.
LEMMA NoBytes == Bytes(<<>>) = 0
<1>1. {i \in DOMAIN <<>> : <<>>[i] = "wide"} = {} /\ Len(<<>>) = 0
  OBVIOUS
<1>2. Cardinality({i \in DOMAIN <<>> : <<>>[i] = "wide"}) = 0
  BY <1>1, FS_EmptySet
<1> QED
  BY <1>1, <1>2 DEF Bytes

\* A line is what lies between its ends, without the CR before its end.
LEMMA LineRead ==
  ASSUME NEW text, IsList(text), NEW q \in 0..Len(text), NEW b \in 1..q + 1
  PROVE  LineOf(text, b, q) = IF Bytes(SubSeq(text, b, q)) > FrameLimit THEN Oversized
                              ELSE WithoutCR(SubSeq(text, b, q))
<1> DEFINE raw == SubSeq(text, b, q)
           n == Len(text)
<1>1. n \in Nat /\ DOMAIN text = 1..n /\ \A i \in 1..n : text[i] \in ToSet(text)
  BY ListDomain DEF ToSet
<1> HIDE DEF n
<1>2. q \in Nat /\ b \in Nat /\ b <= q + 1 /\ q <= n /\ \A i \in b..q : i \in 1..n
  BY <1>1 DEF n
<1>3. /\ raw \in Seq(ToSet(text)) /\ Len(raw) = IF b <= q THEN q - b + 1 ELSE 0
      /\ \A i \in 1..q - b + 1 : raw[i] = text[b + i - 1]
  BY <1>1, <1>2, SubSeqProperties
<1> HIDE DEF raw
<1>4. CASE b <= q
  <2>1. /\ Len(raw) = q - b + 1 /\ Len(raw) \in Nat \ {0} /\ raw # <<>>
        /\ q - b + 1 \in 1..q - b + 1 /\ b + (q - b + 1) - 1 = q
    <3>1. /\ Len(raw) = q - b + 1 /\ Len(raw) \in Nat \ {0}
          /\ q - b + 1 \in 1..q - b + 1 /\ b + (q - b + 1) - 1 = q
      BY <1>2, <1>3, <1>4
    <3>2. raw # <<>>
      BY <3>1, EmptySeq
    <3> QED
      BY <3>1, <3>2
  <2>2. Last(raw) = text[q]
    BY <1>3, <2>1 DEF Last
  <2>3. Front(raw) = SubSeq(text, b, q - 1)
    <3> DEFINE m == q - b
               front == SubSeq(raw, 1, m)
               short == SubSeq(text, b, q - 1)
    <3>1. m \in Nat /\ Len(raw) - 1 = m /\ m \in Int /\ q - 1 \in Int /\ b \in Int
          /\ (q - 1) - b + 1 = m /\ m - 1 + 1 = m /\ (b <= q - 1 <=> 1 <= m)
          /\ \A i \in 1..m : i \in 1..q - b + 1
      BY <1>2, <1>4, <2>1
    <3>2. Front(raw) = front
      BY <3>1 DEF Front
    <3> HIDE DEF m
    <3>3. /\ front \in Seq(ToSet(text)) /\ Len(front) = m
          /\ \A i \in 1..m : front[i] = raw[1 + i - 1]
      <4>1. \A i \in 1..m : raw[i] \in ToSet(text)
        BY <1>3, <2>1, <3>1
      <4> QED
        BY <3>1, <4>1, SubSeqProperties
    <3>4. /\ short \in Seq(ToSet(text)) /\ Len(short) = m
          /\ \A i \in 1..m : short[i] = text[b + i - 1]
      <4>1. \A i \in b..q - 1 : text[i] \in ToSet(text)
        BY <1>1, <1>2
      <4> QED
        BY <3>1, <4>1, SubSeqProperties
    <3> HIDE DEF front, short
    <3>5. \A i \in 1..m : front[i] = short[i]
      <4>1. \A i \in 1..m : 1 + i - 1 = i
        OBVIOUS
      <4> QED
        BY <1>3, <3>1, <3>3, <3>4, <4>1
    <3>6. front = short
      BY <3>3, <3>4, <3>5, SeqEqual
    <3> QED
      BY <3>2, <3>6 DEF short
  <2>4. q >= b
    BY <1>2, <1>4
  <2> QED
    BY <2>1, <2>2, <2>3, <2>4 DEF LineOf, WithoutCR, raw
<1>5. CASE ~(b <= q)
  <2>1. raw = <<>> /\ ~(q >= b)
    <3>1. Len(raw) = 0 /\ ~(q >= b)
      BY <1>2, <1>3, <1>5
    <3> QED
      BY <1>3, <3>1, EmptySeq
  <2> QED
    BY <2>1 DEF LineOf, WithoutCR, raw
<1> QED
  BY <1>4, <1>5

Long(text, q) == Bytes(RestAt(text, q)) > FrameLimit

\* What the reader is at a place: it has handed over the lines that ended, and of the one
\* it is in it keeps what it has seen, unless that is too long already.
ReaderAt(text, q) ==
  [buffer |-> IF Long(text, q) THEN <<>> ELSE RestAt(text, q), discarding |-> Long(text, q),
   frames |-> WholeAt(text, q) \o (IF Long(text, q) THEN <<Oversized>> ELSE <<>>)]

\* The line that a place is in begins no later than behind it.
Begun(text, q) == StartAt(text, q) \in 1..q + 1

\* A piece with no line end in it lies behind a place.
LiesAt(piece, text, q) ==
  \A j \in 1..Len(piece) : piece[j] = text[q + j] /\ piece[j] # LF

\* What is read of a line up to its end, or to the end of a piece.
LEMMA RestRead ==
  ASSUME NEW text, IsList(text), NEW q \in 0..Len(text), Begun(text, q), NEW r \in q..Len(text),
         NEW piece, IsList(piece), r = q + Len(piece),
         LiesAt(piece, text, q)
  PROVE  /\ Begun(text, r) /\ WholeAt(text, r) = WholeAt(text, q)
         /\ StartAt(text, r) = StartAt(text, q)
         /\ RestAt(text, r) = RestAt(text, q) \o piece
         /\ Long(text, q) => Long(text, r)
<1> DEFINE n == Len(text)
           m == Len(piece)
           b == StartAt(text, q)
           C == ToSet(text)
<1>1. n \in Nat /\ m \in Nat /\ DOMAIN text = 1..n /\ text \in Seq(C)
      /\ piece \in Seq(ToSet(piece))
  BY ListDomain
<1> HIDE DEF n, m, C
<1>2. q \in Nat /\ r \in Nat /\ q \in 0..n /\ r \in q..n /\ r = q + m /\ b \in 1..q + 1
  BY <1>1 DEF n, m, Begun
<1>3. \A i \in q + 1..r : text[i] # LF
  <2> SUFFICES ASSUME NEW i \in q + 1..r PROVE text[i] # LF
    OBVIOUS
  <2>1. i - q \in 1..m /\ q + (i - q) = i
    BY <1>1, <1>2
  <2> QED
    BY <2>1 DEF m, LiesAt
<1>4. /\ WholeAt(text, r) = WholeAt(text, q) /\ StartAt(text, r) = b
  BY <1>3, SameLine
<1> HIDE DEF b
<1>5. piece = SubSeq(text, q + 1, r)
  <2>1. \A i \in q + 1..r : i \in 1..n /\ text[i] \in C
    <3>1. \A i \in 1..n : text[i] \in C
      BY <1>1
    <3> QED
      BY <1>1, <1>2, <3>1
  <2>2. /\ q + 1 \in Int /\ r \in Int /\ r - (q + 1) + 1 = m
        /\ (IF q + 1 <= r THEN r - (q + 1) + 1 ELSE 0) = m
        /\ \A i \in 1..m : (q + 1) + i - 1 = q + i
    BY <1>1, <1>2
  <2> DEFINE part == SubSeq(text, q + 1, r)
  <2>3. /\ part \in Seq(C) /\ Len(part) = m
        /\ \A i \in 1..m : part[i] = text[(q + 1) + i - 1]
    BY <2>1, <2>2, SubSeqProperties
  <2> HIDE DEF part
  <2> DEFINE D == C \cup ToSet(piece)
  <2>4. part \in Seq(D) /\ piece \in Seq(D)
    BY <1>1, <2>3, SeqMonotonic
  <2> HIDE DEF D
  <2>5. \A i \in 1..m : part[i] = piece[i]
    BY <2>2, <2>3 DEF m, LiesAt
  <2>6. part = piece
    BY <2>3, <2>4, <2>5, SeqEqual DEF m
  <2> QED
    BY <2>6 DEF part
<1>6. RestAt(text, q) = SubSeq(text, b, q) /\ RestAt(text, r) = SubSeq(text, b, r)
  BY <1>4 DEF RestAt, b
<1>7. RestAt(text, r) = RestAt(text, q) \o piece
  <2>1. /\ b \in 1..Len(text) + 1 /\ q \in b - 1..Len(text) /\ r \in q..Len(text)
    BY <1>1, <1>2 DEF n
  <2>2. SubSeq(text, b, q) \o SubSeq(text, q + 1, r) = SubSeq(text, b, r)
    BY <1>1, <2>1, ConcatAdjacentSubSeq
  <2> QED
    BY <1>5, <1>6, <2>2
<1>8. Long(text, q) => Long(text, r)
  <2>1. RestAt(text, q) \in Seq(C)
    <3>1. \A i \in b..q : text[i] \in C
      BY <1>1, <1>2
    <3> QED
      BY <1>2, <1>6, <3>1, SubSeqProperties
  <2>2. RestAt(text, q) \in Seq(C \cup ToSet(piece)) /\ piece \in Seq(C \cup ToSet(piece))
    BY <1>1, <2>1, SeqMonotonic
  <2>3. /\ Bytes(RestAt(text, q)) \in Nat /\ Bytes(RestAt(text, r)) \in Nat
        /\ Bytes(RestAt(text, q)) <= Bytes(RestAt(text, r))
    BY <1>7, <2>2, BytesGrow
  <2>4. FrameLimit \in Nat
    BY StreamsAssumption
  <2> QED
    BY <2>3, <2>4 DEF Long
<1>9. Begun(text, r)
  BY <1>1, <1>2, <1>4 DEF Begun
<1> QED
  BY <1>4, <1>7, <1>8, <1>9 DEF b

\* The reader consumes a piece of a line, or the rest of it and its end.
LEMMA FragmentConsumed ==
  ASSUME NEW text, IsList(text), NEW q \in 0..Len(text), Begun(text, q), NEW r \in 0..Len(text),
         NEW fragment, IsList(fragment.text), NEW ended \in BOOLEAN,
         PieceAt(fragment, text, q, r, ended)
  PROVE  /\ ConsumeFragment(ReaderAt(text, q), fragment) = ReaderAt(text, r)
         /\ Begun(text, r)
<1> DEFINE reader == ReaderAt(text, q)
           m == Len(fragment.text)
           p == q + m
           rest == RestAt(text, p)
           whole == WholeAt(text, q)
           buffer == reader.buffer \o fragment.text
           consumed == ConsumeFragment(reader, fragment)
<1>1. /\ Len(text) \in Nat /\ m \in Nat /\ fragment.ended = ended
      /\ r = p + (IF ended THEN 1 ELSE 0)
      /\ \A j \in 1..m : fragment.text[j] = text[q + j] /\ fragment.text[j] # LF
      /\ ended => text[r] = LF
  BY ListDomain DEF PieceAt
<1>2. q \in Nat /\ p \in q..Len(text) /\ p \in Nat
  <2> HIDE DEF m
  <2> QED
    BY <1>1
<1> HIDE DEF p
<1>3. /\ Begun(text, p) /\ WholeAt(text, p) = whole /\ StartAt(text, p) = StartAt(text, q)
      /\ rest = RestAt(text, q) \o fragment.text
      /\ Long(text, q) => Long(text, p)
  <2>1. p = q + Len(fragment.text)
    BY DEF p
  <2>2. LiesAt(fragment.text, text, q)
    BY <1>1 DEF LiesAt
  <2> HIDE DEF m, whole, rest
  <2>3. /\ Begun(text, p) /\ WholeAt(text, p) = WholeAt(text, q)
        /\ StartAt(text, p) = StartAt(text, q)
        /\ RestAt(text, p) = RestAt(text, q) \o fragment.text
        /\ Long(text, q) => Long(text, p)
    BY <1>2, <2>1, <2>2, RestRead
  <2> QED
    BY <2>3 DEF whole, rest
<1> DEFINE T == ToSet(whole) \cup {Oversized, WithoutCR(rest)}
<1>4. whole \in Seq(T)
  <2> DEFINE k == EndCount(text, q)
  <2>1. k \in Nat
    BY EndsCounted
  <2>2. whole = [j \in 1..k |-> whole[j]]
    BY DEF WholeAt
  <2> HIDE DEF whole, k
  <2>3. \A j \in 1..k : whole[j] \in ToSet(whole)
    BY <2>2 DEF ToSet
  <2>4. whole \in [1..k -> T]
    BY <2>2, <2>3
  <2> QED
    BY <2>1, <2>4
<1>5. Oversized \in T /\ WithoutCR(rest) \in T /\ whole \o <<>> = whole
  BY <1>4, ConcatEmptySeq
<1> HIDE DEF T
<1>6. \A frame \in T : Append(whole, frame) = whole \o <<frame>>
  BY <1>4, AppendIsConcat
<1>7. /\ reader.discarding = Long(text, q)
      /\ reader.buffer = IF Long(text, q) THEN <<>> ELSE RestAt(text, q)
      /\ reader.frames = IF Long(text, q) THEN whole \o <<Oversized>> ELSE whole
      /\ ~Long(text, q) => buffer = rest
  BY <1>3, <1>5 DEF ReaderAt
<1>8. \A x : /\ [reader EXCEPT !.discarding = x]
                 = [buffer |-> reader.buffer, discarding |-> x, frames |-> reader.frames]
            /\ [reader EXCEPT !.buffer = x]
                 = [buffer |-> x, discarding |-> reader.discarding, frames |-> reader.frames]
  <2>1. \E some, discarding, frames :
          reader = [buffer |-> some, discarding |-> discarding, frames |-> frames]
    BY DEF ReaderAt
  <2> HIDE DEF reader
  <2> QED
    BY <2>1
<1>9. consumed =
        IF Long(text, q)
        THEN [buffer |-> <<>>, discarding |-> ~ended, frames |-> whole \o <<Oversized>>]
        ELSE IF Long(text, p)
        THEN [buffer |-> <<>>, discarding |-> ~ended, frames |-> Append(whole, Oversized)]
        ELSE IF ended
        THEN [buffer |-> <<>>, discarding |-> FALSE, frames |-> Append(whole, WithoutCR(rest))]
        ELSE [buffer |-> rest, discarding |-> FALSE, frames |-> whole]
  <2> HIDE DEF reader, whole, rest
  <2>1. CASE Long(text, q)
    BY <1>1, <1>7, <1>8, <2>1 DEF ConsumeFragment
  <2>2. CASE ~Long(text, q)
    <3>1. (Bytes(buffer) > FrameLimit) = Long(text, p)
      BY <1>7, <2>2 DEF Long, rest
    <3>2. reader.discarding = FALSE
      <4>1. Long(text, q) \in BOOLEAN
        BY DEF Long
      <4> QED
        BY <1>7, <2>2, <4>1
    <3>3. consumed =
            IF Bytes(buffer) > FrameLimit
            THEN [buffer |-> <<>>, discarding |-> ~fragment.ended,
                  frames |-> Append(reader.frames, Oversized)]
            ELSE IF fragment.ended
            THEN [buffer |-> <<>>, discarding |-> FALSE,
                  frames |-> Append(reader.frames, WithoutCR(buffer))]
            ELSE [reader EXCEPT !.buffer = buffer]
      BY <3>2 DEF ConsumeFragment
    <3> HIDE DEF buffer, consumed
    <3>4. buffer = rest /\ reader.frames = whole
      BY <1>7, <2>2
    <3>5. [reader EXCEPT !.buffer = buffer]
            = [buffer |-> rest, discarding |-> FALSE, frames |-> whole]
      BY <1>8, <3>2, <3>4
    <3> QED
      BY <1>1, <2>2, <3>1, <3>3, <3>4, <3>5
  <2> QED
    BY <2>1, <2>2
<1> HIDE DEF consumed, reader, whole, rest, buffer
<1>10. CASE ~ended
  <2>1. r = p
    BY <1>1, <1>2, <1>10
  <2>2. consumed = ReaderAt(text, p)
    <3>1. ReaderAt(text, p)
            = [buffer |-> IF Long(text, p) THEN <<>> ELSE rest, discarding |-> Long(text, p),
               frames |-> whole \o (IF Long(text, p) THEN <<Oversized>> ELSE <<>>)]
      BY <1>3 DEF ReaderAt, rest
    <3>4. Long(text, p) \in BOOLEAN
      BY DEF Long
    <3> HIDE DEF Long
    <3>2. CASE Long(text, p)
      BY <1>3, <1>5, <1>6, <1>9, <1>10, <3>1, <3>2
    <3>3. CASE ~Long(text, p)
      <4>1. Long(text, p) = FALSE /\ ~Long(text, q)
        BY <1>3, <3>3, <3>4
      <4> QED
        BY <1>5, <1>9, <1>10, <3>1, <4>1
    <3> QED
      BY <3>2, <3>3
  <2> QED
    BY <1>3, <2>1, <2>2 DEF consumed, reader
<1>11. CASE ended
  <2>1. r = p + 1 /\ p \in 0..Len(text) - 1 /\ text[p + 1] = LF
    BY <1>1, <1>2, <1>11
  <2>2. StartAt(text, r) = p + 2
        /\ WholeAt(text, r) = Append(whole, LineOf(text, StartAt(text, p), p))
    BY <1>3, <2>1, LineAdded
  <2>3. RestAt(text, r) = <<>> /\ ~Long(text, r)
    <3>1. p + 2 \in Int /\ r \in Int /\ r < p + 2
      BY <1>2, <2>1
    <3>2. RestAt(text, r) = <<>>
      BY <2>2, <3>1, SubSeqEmpty DEF RestAt
    <3>3. FrameLimit \in Nat
      BY StreamsAssumption
    <3>4. ~(0 > FrameLimit)
      BY <3>3
    <3> QED
      BY <3>2, <3>4, NoBytes DEF Long
  <2>4. LineOf(text, StartAt(text, p), p)
          = IF Long(text, p) THEN Oversized ELSE WithoutCR(rest)
    <3>1. p \in 0..Len(text) /\ StartAt(text, p) \in 1..p + 1
      BY <1>2, <1>3, <2>1 DEF Begun
    <3> QED
      BY <3>1, LineRead DEF Long, RestAt, rest
  <2>5. Begun(text, r)
    BY <1>2, <2>1, <2>2 DEF Begun
  <2>6. ReaderAt(text, r)
          = [buffer |-> <<>>, discarding |-> FALSE, frames |-> WholeAt(text, r) \o <<>>]
    <3>1. Long(text, r) = FALSE
      BY <2>3 DEF Long
    <3> QED
      BY <2>3, <3>1 DEF ReaderAt
  <2>7. WholeAt(text, r) \o <<>> = WholeAt(text, r)
    <3>1. Append(whole, LineOf(text, StartAt(text, p), p)) \in Seq(T)
      BY <1>4, <1>5, <2>4, AppendProperties
    <3> QED
      BY <2>2, <3>1, ConcatEmptySeq
  <2>8. consumed = [buffer |-> <<>>, discarding |-> FALSE,
                    frames |-> Append(whole, LineOf(text, StartAt(text, p), p))]
    <3> HIDE DEF Long
    <3>1. CASE Long(text, p)
      BY <1>3, <1>5, <1>6, <1>9, <1>11, <2>4, <3>1
    <3>2. CASE ~Long(text, p)
      BY <1>3, <1>5, <1>6, <1>9, <1>11, <2>4, <3>2
    <3> QED
      BY <3>1, <3>2
  <2> QED
    BY <2>2, <2>5, <2>6, <2>7, <2>8 DEF consumed, reader
<1> QED
  BY <1>10, <1>11

Readers(C) ==
  [buffer : Seq(C), discarding : BOOLEAN, frames : Seq(Seq(C) \cup {Oversized})]

\* A reader that consumes a fragment is a reader.
LEMMA ReaderTyped ==
  ASSUME NEW C, NEW reader \in Readers(C),
         NEW fragment \in [text : Seq(C), ended : BOOLEAN]
  PROVE  ConsumeFragment(reader, fragment) \in Readers(C)
<1> DEFINE buffer == reader.buffer \o fragment.text
           F == Seq(C) \cup {Oversized}
<1>1. reader.buffer \in Seq(C) /\ reader.discarding \in BOOLEAN /\ reader.frames \in Seq(F)
      /\ fragment.text \in Seq(C) /\ fragment.ended \in BOOLEAN
  BY DEF Readers
<1>2. /\ [reader EXCEPT !.discarding = ~fragment.ended]
           = [buffer |-> reader.buffer, discarding |-> ~fragment.ended, frames |-> reader.frames]
      /\ [reader EXCEPT !.buffer = buffer]
           = [buffer |-> buffer, discarding |-> reader.discarding, frames |-> reader.frames]
  <2>1. \E some, discarding, frames :
          reader = [buffer |-> some, discarding |-> discarding, frames |-> frames]
    BY DEF Readers
  <2> HIDE DEF buffer
  <2> QED
    BY <2>1
<1>3. ConsumeFragment(reader, fragment) \in
        {[buffer |-> reader.buffer, discarding |-> ~fragment.ended, frames |-> reader.frames],
         [buffer |-> <<>>, discarding |-> ~fragment.ended,
          frames |-> Append(reader.frames, Oversized)],
         [buffer |-> <<>>, discarding |-> FALSE,
          frames |-> Append(reader.frames, WithoutCR(buffer))],
         [buffer |-> buffer, discarding |-> reader.discarding, frames |-> reader.frames]}
  <2> HIDE DEF F
  <2> QED
    BY <1>2 DEF ConsumeFragment
<1>4. buffer \in Seq(C)
  BY <1>1, ConcatProperties, Zenon
<1> HIDE DEF buffer
<1>5. WithoutCR(buffer) \in Seq(C)
  <2>1. CASE buffer # <<>>
    <3>1. Len(buffer) \in Nat \ {0}
      BY <1>4, <2>1, EmptySeq
    <3>2. \A i \in 1..Len(buffer) - 1 : buffer[i] \in C
      BY <1>4, <3>1, ElementOfSeq
    <3>3. Front(buffer) \in Seq(C)
      BY <3>1, <3>2, SubSeqProperties DEF Front
    <3> QED
      BY <1>4, <3>3 DEF WithoutCR
  <2>2. CASE buffer = <<>>
    BY <1>4, <2>2 DEF WithoutCR
  <2> QED
    BY <2>1, <2>2
<1>6. Oversized \in F /\ WithoutCR(buffer) \in F /\ <<>> \in Seq(C)
  BY <1>5
<1> HIDE DEF F
<1>7. Append(reader.frames, Oversized) \in Seq(F)
      /\ Append(reader.frames, WithoutCR(buffer)) \in Seq(F)
  BY <1>1, <1>6, AppendProperties
<1>8. \A some \in Seq(C), discarding \in BOOLEAN, frames \in Seq(F) :
        [buffer |-> some, discarding |-> discarding, frames |-> frames] \in Readers(C)
  BY DEF Readers, F
<1>9. (~fragment.ended) \in BOOLEAN
  BY <1>1
<1>10. [buffer |-> reader.buffer, discarding |-> ~fragment.ended, frames |-> reader.frames]
          \in Readers(C)
  BY <1>1, <1>8, <1>9
<1>11. [buffer |-> <<>>, discarding |-> ~fragment.ended,
        frames |-> Append(reader.frames, Oversized)] \in Readers(C)
  BY <1>6, <1>7, <1>8, <1>9
<1>12. [buffer |-> <<>>, discarding |-> FALSE,
        frames |-> Append(reader.frames, WithoutCR(buffer))] \in Readers(C)
  BY <1>6, <1>7, <1>8
<1>13. [buffer |-> buffer, discarding |-> reader.discarding, frames |-> reader.frames]
          \in Readers(C)
  BY <1>1, <1>4, <1>8
<1> QED
  BY <1>3, <1>10, <1>11, <1>12, <1>13

Consumed(reader, pieces) == FoldLeft(ConsumeFragment, reader, pieces)

\* Pieces are consumed one after another.
LEMMA PiecesSteps ==
  ASSUME NEW C, NEW pieces \in Pieces(C), NEW reader \in Readers(C)
  PROVE  \E run \in [0..Len(pieces) -> Readers(C)] :
           /\ run[0] = reader /\ run[Len(pieces)] = Consumed(reader, pieces)
           /\ \A k \in 0..Len(pieces) - 1 : run[k + 1] = ConsumeFragment(run[k], pieces[k + 1])
<1> DEFINE n == Len(pieces)
           Acc == Readers(C)
           next(f, I) == IF I = {} THEN reader ELSE ConsumeFragment(f[I \ {Max(I)}], pieces[Max(I)])
           Step == [at \in Acc \X (1..n) |-> ConsumeFragment(at[1], pieces[at[2]])]
           fold == CHOOSE f : f = [I \in SUBSET (1..n) |-> next(f, I)]
<1>1. n \in Nat /\ DOMAIN pieces = 1..n
      /\ \A i \in 1..n : pieces[i] \in [text : Seq(C), ended : BOOLEAN]
  <2>1. pieces \in Seq([text : Seq(C), ended : BOOLEAN])
    BY DEF Pieces
  <2> QED
    BY <2>1, LenProperties, ElementOfSeq
<1>2. Consumed(reader, pieces) = fold[1..n]
  <2>1. Consumed(reader, pieces)
          = (CHOOSE f : f = [I \in SUBSET DOMAIN pieces |-> next(f, I)])[DOMAIN pieces]
    BY DEF Consumed, FoldLeft, MapThenFoldSet
  <2> QED
    BY <1>1, <2>1
<1>3. \A r \in Acc, i \in 1..n : ConsumeFragment(r, pieces[i]) \in Acc
  BY <1>1, ReaderTyped
<1> HIDE DEF Acc, fold
<1>4. Step \in [Acc \X (1..n) -> Acc]
  BY <1>3
<1>5. \A r \in Acc, i \in 1..n : Step[<<r, i>>] = ConsumeFragment(r, pieces[i])
  OBVIOUS
<1> HIDE DEF Step
<1>6. \A I \in SUBSET (1..n) : I # {} => Max(I) \in 1..n /\ I \ {Max(I)} \in SUBSET (1..n)
  BY <1>1, GreatestPlace
<1>7. reader \in Acc
  BY DEF Acc
<1>8. fold = [I \in SUBSET (1..n) |-> next(fold, I)]
  <2>1. PICK g \in [SUBSET (1..n) -> Acc] : FoldsBy(g, n, reader, Step)
    BY <1>1, <1>4, <1>7, FoldExists
  <2>2. \A I \in SUBSET (1..n) : g[I] = next(g, I)
    BY <1>5, <1>6, <2>1 DEF FoldsBy
  <2> HIDE DEF next
  <2>3. g = [I \in SUBSET (1..n) |-> next(g, I)]
    BY <2>2
  <2> QED
    BY <2>3 DEF fold
<1>9. \A I \in SUBSET (1..n) : fold[I] = next(fold, I)
  <2> HIDE DEF next
  <2> QED
    BY <1>8
<1>10. TakesSteps(fold, n, Acc, reader, Step)
  BY <1>1, <1>4, <1>5, <1>6, <1>7, <1>9 DEF TakesSteps
<1>11. PICK run \in [0..n -> Acc] : Runs(run, n, reader, Step) /\ run[n] = fold[1..n]
  BY <1>10, FoldSteps
<1>12. \A k \in 0..n - 1 : run[k + 1] = ConsumeFragment(run[k], pieces[k + 1])
  <2> SUFFICES ASSUME NEW k \in 0..n - 1
               PROVE  run[k + 1] = ConsumeFragment(run[k], pieces[k + 1])
    OBVIOUS
  <2>1. k \in 0..n /\ k + 1 \in 1..n /\ run[k] \in Acc
    BY <1>1
  <2> QED
    BY <1>5, <1>11, <2>1 DEF Runs
<1> QED
  BY <1>2, <1>11, <1>12 DEF Acc, Runs

\* A reader that consumes a text is a reader.
LEMMA TextTyped ==
  ASSUME NEW C, NEW reader \in Readers(C), NEW text \in Seq(C)
  PROVE  ConsumeText(reader, text) \in Readers(C) /\ Fragments(text) \in Pieces(C)
<1>1. IsList(text) /\ ToSet(text) \subseteq C
  BY DEF IsList, ToSet
<1>2. Fragments(text) \in Pieces(C)
  <2>1. Fragments(text) \in Pieces(ToSet(text))
    BY <1>1, FragmentsCover
  <2>2. [text : Seq(ToSet(text)), ended : BOOLEAN] \subseteq [text : Seq(C), ended : BOOLEAN]
    <3>1. Seq(ToSet(text)) \subseteq Seq(C)
      BY <1>1, SeqMonotonic
    <3> QED
      BY <3>1
  <2> QED
    <3> DEFINE one == [text : Seq(ToSet(text)), ended : BOOLEAN]
               all == [text : Seq(C), ended : BOOLEAN]
    <3>1. Fragments(text) \in Seq(one) /\ Fragments(text) # <<>>
      BY <2>1 DEF Pieces
    <3>2. one \subseteq all
      BY <2>2
    <3> HIDE DEF one, all
    <3>3. Fragments(text) \in Seq(all) \ {<<>>}
      BY <3>1, <3>2, SeqMonotonic
    <3> QED
      BY <3>3 DEF Pieces, all
<1>3. PICK run \in [0..Len(Fragments(text)) -> Readers(C)] :
        /\ run[0] = reader
        /\ run[Len(Fragments(text))] = Consumed(reader, Fragments(text))
        /\ \A k \in 0..Len(Fragments(text)) - 1 :
             run[k + 1] = ConsumeFragment(run[k], Fragments(text)[k + 1])
  BY <1>2, PiecesSteps
<1>4. Len(Fragments(text)) \in Nat
  BY <1>2 DEF Pieces
<1> QED
  BY <1>2, <1>3, <1>4 DEF ConsumeText, Consumed

\* A reader at a place consumes the text behind it.
LEMMA TextConsumed ==
  ASSUME NEW text, IsList(text), NEW q \in 0..Len(text), Begun(text, q),
         ReaderAt(text, q) \in Readers(ToSet(text)),
         NEW part \in Seq(ToSet(text)), q + Len(part) <= Len(text),
         \A j \in 1..Len(part) : part[j] = text[q + j]
  PROVE  /\ ConsumeText(ReaderAt(text, q), part) = ReaderAt(text, q + Len(part))
         /\ Begun(text, q + Len(part))
         /\ ReaderAt(text, q + Len(part)) \in Readers(ToSet(text))
<1> DEFINE C == ToSet(text)
           n == Len(text)
           l == Len(part)
           pieces == Fragments(part)
           m == Len(pieces)
<1>1. n \in Nat /\ l \in Nat /\ q \in Nat /\ q + l <= n /\ IsList(part) /\ DOMAIN part = 1..l
      /\ \A j \in 1..l : part[j] = text[q + j]
  <2>1. n \in Nat
    BY ListDomain
  <2>2. part \in Seq(ToSet(part))
    BY DEF ToSet
  <2> QED
    BY <2>1, <2>2 DEF IsList
<1> HIDE DEF n, l, C
<1>2. pieces \in Pieces(C) /\ Covers(pieces, part, l)
  BY <1>1, TextTyped, FragmentsCover DEF C, l
<1> HIDE DEF pieces
<1>3. m \in Nat /\ \A i \in 1..m : pieces[i].text \in Seq(C) /\ IsList(pieces[i].text)
  <2> DEFINE P == [text : Seq(C), ended : BOOLEAN]
  <2>1. pieces \in Seq(P)
    BY <1>2 DEF Pieces
  <2>2. \A i \in 1..m : pieces[i] \in P
    BY <2>1, ElementOfSeq
  <2>3. \A i \in 1..m : pieces[i].text \in Seq(C)
    BY <2>2
  <2>4. \A s \in Seq(C) : IsList(s)
    BY DEF IsList, ToSet
  <2> QED
    BY <2>1, <2>3, <2>4, LenProperties
<1> HIDE DEF m
<1>4. PICK at \in [0..m -> 0..l] :
        /\ at[0] = 0 /\ at[m] = l
        /\ \A i \in 1..m : PieceAt(pieces[i], part, at[i - 1], at[i], i < m)
  BY <1>2 DEF Covers, m
<1>5. PICK run \in [0..m -> Readers(C)] :
        /\ run[0] = ReaderAt(text, q) /\ run[m] = Consumed(ReaderAt(text, q), pieces)
        /\ \A k \in 0..m - 1 : run[k + 1] = ConsumeFragment(run[k], pieces[k + 1])
  BY <1>2, PiecesSteps DEF C, m
<1> DEFINE Good(k) == run[k] = ReaderAt(text, q + at[k]) /\ Begun(text, q + at[k])
           There == {k \in 0..m : Good(k)}
<1>6. 0 \in There
  <2>1. q + at[0] = q /\ 0 \in 0..m
    BY <1>1, <1>3, <1>4
  <2> QED
    BY <1>5, <2>1
<1>7. ASSUME NEW k \in 0..m - 1, k \in There PROVE k + 1 \in There
  <2> DEFINE ended == k + 1 < m
             piece == pieces[k + 1]
             from == q + at[k]
             to == q + at[k + 1]
  <2>1. k \in 0..m /\ k + 1 \in 0..m /\ k + 1 \in 1..m /\ (k + 1) - 1 = k /\ ended \in BOOLEAN
    BY <1>3
  <2>2. at[k] \in 0..l /\ at[k + 1] \in 0..l /\ from \in 0..n /\ to \in 0..n
    BY <1>1, <1>4, <2>1
  <2>3. PieceAt(piece, part, at[k], at[k + 1], ended)
    BY <1>4, <2>1
  <2>4. IsList(piece.text) /\ Len(piece.text) \in Nat
    BY <1>3, <2>1, ListDomain
  <2> HIDE DEF piece, ended
  <2>5. PieceAt(piece, text, from, to, ended)
    <3>1. /\ piece.ended = ended
          /\ at[k + 1] = at[k] + Len(piece.text) + (IF ended THEN 1 ELSE 0)
          /\ \A j \in 1..Len(piece.text) : piece.text[j] = part[at[k] + j] /\ piece.text[j] # LF
          /\ ended => part[at[k + 1]] = LF
      BY <2>3 DEF PieceAt
    <3>2. to = from + Len(piece.text) + (IF ended THEN 1 ELSE 0)
      BY <1>1, <2>1, <2>2, <2>4, <3>1
    <3>3. \A j \in 1..Len(piece.text) : at[k] + j \in 1..l /\ q + (at[k] + j) = from + j
      <4>1. at[k] + Len(piece.text) <= at[k + 1] /\ at[k] \in Nat /\ at[k + 1] <= l
        BY <1>1, <2>1, <2>2, <2>4, <3>1
      <4>2. \A i, h, j \in Nat : j \in 1..h /\ i + h <= l => i + j \in 1..l
        BY <1>1
      <4>3. at[k] + Len(piece.text) <= l
        BY <1>1, <2>2, <2>4, <4>1
      <4>4. \A j \in 1..Len(piece.text) : j \in Nat
        OBVIOUS
      <4>5. \A j \in 1..Len(piece.text) : at[k] + j \in 1..l
        BY <2>4, <4>1, <4>2, <4>3, <4>4
      <4> QED
        BY <1>1, <4>1, <4>5
    <3>4. \A j \in 1..Len(piece.text) : piece.text[j] = text[from + j] /\ piece.text[j] # LF
      BY <1>1, <3>1, <3>3
    <3>5. ended => text[to] = LF
      <4> SUFFICES ASSUME ended PROVE text[to] = LF
        OBVIOUS
      <4>1. at[k + 1] = at[k] + Len(piece.text) + 1 /\ part[at[k + 1]] = LF
        BY <3>1
      <4>2. at[k + 1] \in 1..l
        BY <1>1, <2>2, <2>4, <4>1
      <4> QED
        BY <1>1, <4>1, <4>2
    <3> HIDE DEF from, to
    <3> QED
      BY <3>1, <3>2, <3>4, <3>5 DEF PieceAt
  <2>6. run[k] = ReaderAt(text, from) /\ Begun(text, from)
    BY <1>7
  <2>7. run[k + 1] = ConsumeFragment(run[k], piece)
    BY <1>5 DEF piece
  <2> HIDE DEF from, to
  <2>8. ConsumeFragment(ReaderAt(text, from), piece) = ReaderAt(text, to) /\ Begun(text, to)
    BY <2>1, <2>2, <2>4, <2>5, <2>6, FragmentConsumed DEF n
  <2>9. run[k + 1] = ReaderAt(text, to) /\ Begun(text, to)
    BY <2>6, <2>7, <2>8
  <2> QED
    BY <2>1, <2>9 DEF to
<1>8. Good(m)
  <2> HIDE DEF Good
  <2>1. \A k \in 0..m : k \in There
    <3> HIDE DEF There
    <3> QED
      BY <1>3, <1>6, <1>7, Climb
  <2>2. m \in 0..m
    BY <1>3
  <2> QED
    BY <2>1, <2>2
<1>9. run[m] \in Readers(C)
  BY <1>3, <1>5
<1>10. ConsumeText(ReaderAt(text, q), part) = Consumed(ReaderAt(text, q), pieces)
  BY DEF ConsumeText, Consumed, pieces
<1> QED
  BY <1>4, <1>5, <1>8, <1>9, <1>10 DEF C, l

NewReader == [buffer |-> <<>>, discarding |-> FALSE, frames |-> <<>>]
ReadTexts(texts) == FoldLeft(ConsumeText, NewReader, texts)

\* Texts are consumed one after another.
LEMMA TextsSteps ==
  ASSUME NEW C, NEW texts \in Seq(Seq(C))
  PROVE  \E run \in [0..Len(texts) -> Readers(C)] :
           /\ run[0] = NewReader /\ run[Len(texts)] = ReadTexts(texts)
           /\ \A k \in 0..Len(texts) - 1 : run[k + 1] = ConsumeText(run[k], texts[k + 1])
<1> DEFINE n == Len(texts)
           Acc == Readers(C)
           base == NewReader
           next(f, I) == IF I = {} THEN base ELSE ConsumeText(f[I \ {Max(I)}], texts[Max(I)])
           Step == [at \in Acc \X (1..n) |-> ConsumeText(at[1], texts[at[2]])]
           fold == CHOOSE f : f = [I \in SUBSET (1..n) |-> next(f, I)]
<1>1. n \in Nat /\ DOMAIN texts = 1..n /\ \A i \in 1..n : texts[i] \in Seq(C)
  BY LenProperties, ElementOfSeq
<1>2. ReadTexts(texts) = fold[1..n]
  <2>1. ReadTexts(texts)
          = (CHOOSE f : f = [I \in SUBSET DOMAIN texts |-> next(f, I)])[DOMAIN texts]
    BY DEF ReadTexts, FoldLeft, MapThenFoldSet
  <2> QED
    BY <1>1, <2>1
<1>3. \A r \in Acc, i \in 1..n : ConsumeText(r, texts[i]) \in Acc
  BY <1>1, TextTyped
<1>4. base \in Acc
  BY EmptySeq DEF Readers, NewReader
<1> HIDE DEF Acc, fold, base
<1>5. Step \in [Acc \X (1..n) -> Acc]
  BY <1>3
<1>6. \A r \in Acc, i \in 1..n : Step[<<r, i>>] = ConsumeText(r, texts[i])
  OBVIOUS
<1> HIDE DEF Step
<1>7. \A I \in SUBSET (1..n) : I # {} => Max(I) \in 1..n /\ I \ {Max(I)} \in SUBSET (1..n)
  BY <1>1, GreatestPlace
<1>8. fold = [I \in SUBSET (1..n) |-> next(fold, I)]
  <2>1. PICK g \in [SUBSET (1..n) -> Acc] : FoldsBy(g, n, base, Step)
    BY <1>1, <1>4, <1>5, FoldExists
  <2>2. \A I \in SUBSET (1..n) : g[I] = next(g, I)
    BY <1>6, <1>7, <2>1 DEF FoldsBy
  <2> HIDE DEF next
  <2>3. g = [I \in SUBSET (1..n) |-> next(g, I)]
    BY <2>2
  <2> QED
    BY <2>3 DEF fold
<1>9. \A I \in SUBSET (1..n) : fold[I] = next(fold, I)
  <2> HIDE DEF next
  <2> QED
    BY <1>8
<1>10. TakesSteps(fold, n, Acc, base, Step)
  BY <1>1, <1>4, <1>5, <1>6, <1>7, <1>9 DEF TakesSteps
<1>11. PICK run \in [0..n -> Acc] : Runs(run, n, base, Step) /\ run[n] = fold[1..n]
  BY <1>10, FoldSteps
<1>12. \A k \in 0..n - 1 : run[k + 1] = ConsumeText(run[k], texts[k + 1])
  <2> SUFFICES ASSUME NEW k \in 0..n - 1 PROVE run[k + 1] = ConsumeText(run[k], texts[k + 1])
    OBVIOUS
  <2>1. k \in 0..n /\ k + 1 \in 1..n
    BY <1>1
  <2>2. run[k] \in Acc
    BY <2>1
  <2> QED
    BY <1>6, <1>11, <2>1, <2>2 DEF Runs
<1> QED
  BY <1>2, <1>11, <1>12 DEF Acc, base, Runs

PrefixOf(one, all) == Len(one) <= Len(all) /\ \A j \in 1..Len(one) : one[j] = all[j]

Flattens(run, lists, n) ==
  /\ \A k \in 0..n : IsList(run[k])
  /\ \A k \in 1..n : IsList(lists[k])
  /\ \A k \in 0..n - 1 : run[k + 1] = run[k] \o lists[k + 1]

FlatPlaces(run, lists, n) ==
  /\ \A k \in 0..n : PrefixOf(run[k], run[n])
  /\ \A k \in 0..n - 1 :
       /\ Len(run[k + 1]) = Len(run[k]) + Len(lists[k + 1])
       /\ \A j \in 1..Len(lists[k + 1]) : run[k + 1][Len(run[k]) + j] = lists[k + 1][j]

\* What was flattened on the way begins what is flattened in the end.
LEMMA FlattenPrefixes ==
  ASSUME NEW n \in Nat, NEW lists, NEW run, Flattens(run, lists, n)
  PROVE  FlatPlaces(run, lists, n)
<1> USE DEF Flattens
<1>1. ASSUME NEW k \in 0..n - 1
      PROVE  /\ PrefixOf(run[k], run[k + 1]) /\ Len(run[k + 1]) = Len(run[k]) + Len(lists[k + 1])
             /\ \A j \in 1..Len(lists[k + 1]) : run[k + 1][Len(run[k]) + j] = lists[k + 1][j]
  <2> DEFINE one == run[k]
             two == lists[k + 1]
             C == ToSet(one) \cup ToSet(two)
  <2>1. k \in 0..n /\ k + 1 \in 1..n /\ IsList(one) /\ IsList(two) /\ run[k + 1] = one \o two
    <3>1. k \in 0..n /\ k + 1 \in 1..n
      OBVIOUS
    <3> QED
      BY <3>1
  <2> HIDE DEF one, two
  <2>2. one \in Seq(C) /\ two \in Seq(C) /\ Len(one) \in Nat /\ Len(two) \in Nat
    BY <2>1, SeqMonotonic, ListDomain
  <2> HIDE DEF C
  <2>3. /\ Len(one \o two) = Len(one) + Len(two)
        /\ \A i \in 1..Len(one) + Len(two) :
             (one \o two)[i] = IF i <= Len(one) THEN one[i] ELSE two[i - Len(one)]
    BY <2>2, ConcatProperties, Zenon
  <2> DEFINE both == one \o two
  <2> HIDE DEF both
  <2>4. \A j \in 1..Len(two) :
          Len(one) + j \in 1..Len(one) + Len(two) /\ ~(Len(one) + j <= Len(one))
          /\ (Len(one) + j) - Len(one) = j
    BY <2>2
  <2>5. \A j \in 1..Len(one) : j \in 1..Len(one) + Len(two) /\ j <= Len(one)
    BY <2>2
  <2>6. Len(one) <= Len(one) + Len(two)
    BY <2>2
  <2> QED
    BY <2>1, <2>3, <2>4, <2>5, <2>6 DEF PrefixOf, both, one, two
<1> DEFINE There == {m \in 0..n : \A k \in 0..m : PrefixOf(run[k], run[m])}
<1>2. 0 \in There
  <2>1. Len(run[0]) \in Nat
    BY ListDomain
  <2>2. PrefixOf(run[0], run[0])
    BY <2>1 DEF PrefixOf
  <2> QED
    BY <2>2
<1>3. ASSUME NEW m \in 0..n - 1, m \in There PROVE m + 1 \in There
  <2>1. m \in 0..n /\ m + 1 \in 0..n /\ \A k \in 0..m + 1 : k \in 0..m \/ k = m + 1
    BY <1>3
  <2>2. \A k \in 0..n : Len(run[k]) \in Nat
    BY ListDomain
  <2>3. ASSUME NEW k \in 0..m PROVE PrefixOf(run[k], run[m + 1])
    <3>1. PrefixOf(run[k], run[m]) /\ PrefixOf(run[m], run[m + 1]) /\ k \in 0..n
      <4>1. k \in 0..n
        BY <2>1
      <4>2. PrefixOf(run[k], run[m])
        BY <1>3
      <4>3. PrefixOf(run[m], run[m + 1])
        BY <1>1
      <4> QED
        BY <4>1, <4>2, <4>3
    <3>2. Len(run[k]) \in Nat /\ Len(run[m]) \in Nat /\ Len(run[m + 1]) \in Nat
      BY <2>1, <2>2, <3>1
    <3>3. \A j \in 1..Len(run[k]) : j \in 1..Len(run[m])
      BY <3>1, <3>2 DEF PrefixOf
    <3> QED
      BY <3>1, <3>2, <3>3 DEF PrefixOf
  <2>4. PrefixOf(run[m + 1], run[m + 1])
    BY <2>1, <2>2 DEF PrefixOf
  <2> QED
    BY <2>1, <2>3, <2>4
<1>4. \A k \in 0..n : PrefixOf(run[k], run[n])
  <2> HIDE DEF There
  <2>1. \A m \in 0..n : m \in There
    BY <1>2, <1>3, Climb
  <2>2. n \in 0..n
    OBVIOUS
  <2> QED
    BY <2>1, <2>2 DEF There
<1> QED
  BY <1>1, <1>4 DEF FlatPlaces

\* A text in pieces is read piece by piece: where each of them begins in the whole.
Placed(texts, text) ==
  \E at \in [0..Len(texts) -> 0..Len(text)] :
    /\ at[0] = 0 /\ at[Len(texts)] = Len(text)
    /\ \A k \in 0..Len(texts) - 1 :
         /\ at[k] + Len(texts[k + 1]) = at[k + 1]
         /\ \A j \in 1..Len(texts[k + 1]) : texts[k + 1][j] = text[at[k] + j]

\* Texts and one more lie behind each other in the text they make together.
LEMMA TextsPlaced ==
  ASSUME NEW lists, IsList(lists), \A i \in DOMAIN lists : IsList(lists[i]),
         NEW last, IsList(last)
  PROVE  /\ IsList(FlattenSeq(lists) \o last)
         /\ lists \o <<last>> \in Seq(Seq(ToSet(FlattenSeq(lists) \o last)))
         /\ Placed(lists \o <<last>>, FlattenSeq(lists) \o last)
<1> DEFINE n == Len(lists)
           m == n + 1
           texts == lists \o <<last>>
           text == FlattenSeq(lists) \o last
           L == ToSet(lists) \cup {last}
<1>1. n \in Nat /\ m \in Nat /\ DOMAIN lists = 1..n /\ lists \in Seq(ToSet(lists)) /\ n \in 0..n
  BY ListDomain
<1>2. /\ texts \in Seq(L) /\ Len(texts) = m
      /\ \A i \in 1..n : texts[i] = lists[i]
      /\ texts[m] = last
  <2>1. lists \in Seq(L) /\ <<last>> \in Seq(L) /\ Len(<<last>>) = 1 /\ <<last>>[1] = last
    <3>1. lists \in Seq(L)
      BY <1>1, SeqMonotonic
    <3>2. last \in L
      OBVIOUS
    <3> HIDE DEF L
    <3>3. <<last>> \in Seq(L) /\ Len(<<last>>) = 1 /\ <<last>>[1] = last
      BY <3>2
    <3> QED
      BY <3>1, <3>3
  <2> DEFINE one == <<last>>
  <2> HIDE DEF L, one
  <2>2. /\ lists \o one \in Seq(L) /\ Len(lists \o one) = Len(lists) + Len(one)
        /\ \A i \in 1..Len(lists) + Len(one) :
             (lists \o one)[i] = IF i <= Len(lists) THEN lists[i] ELSE one[i - Len(lists)]
    BY <2>1, ConcatProperties, Zenon DEF one
  <2>3. Len(one) = 1 /\ one[1] = last /\ m \in 1..m /\ ~(m <= n) /\ m - n = 1
        /\ \A i \in 1..n : i \in 1..m /\ i <= n
    BY <1>1, <2>1 DEF one
  <2> DEFINE both == lists \o one
  <2> HIDE DEF both
  <2>4. /\ both \in Seq(L) /\ Len(both) = m
        /\ \A i \in 1..m : both[i] = IF i <= n THEN lists[i] ELSE one[i - n]
    BY <2>2, <2>3 DEF both
  <2>5. both[m] = last /\ \A i \in 1..n : both[i] = lists[i]
    BY <2>3, <2>4
  <2> QED
    BY <2>4, <2>5 DEF both, one
<1> HIDE DEF L, texts
<1>3. PICK run : /\ run[0] = <<>> /\ run[n] = FlattenSeq(lists)
                 /\ \A k \in 0..n : IsList(run[k])
                 /\ \A k \in 0..n - 1 : run[k + 1] = run[k] \o lists[k + 1]
  BY FlattenSteps
<1> DEFINE full == [k \in 0..m |-> IF k <= n THEN run[k] ELSE text]
<1>4. IsList(text)
  <2>1. IsList(FlattenSeq(lists))
    BY <1>1, <1>3
  <2> QED
    BY <2>1, ListConcat
<1>5. /\ full[0] = <<>> /\ full[m] = text /\ full[n] = FlattenSeq(lists)
      /\ \A k \in 0..n : full[k] = run[k]
  <2>1. 0 \in 0..m /\ 0 <= n /\ m \in 0..m /\ ~(m <= n) /\ n \in 0..m /\ n <= n
        /\ \A k \in 0..n : k \in 0..m /\ k <= n
    BY <1>1
  <2> HIDE DEF n, m, text
  <2> QED
    BY <1>3, <2>1
<1> HIDE DEF full
<1>6. \A k \in 0..m : IsList(full[k])
  <2>1. \A k \in 0..m : k \in 0..n \/ k = m
    BY <1>1
  <2> QED
    BY <1>3, <1>4, <1>5, <2>1
<1>7. \A k \in 1..m : IsList(texts[k])
  <2>1. \A k \in 1..m : k \in 1..n \/ k = m
    BY <1>1
  <2> QED
    BY <1>1, <1>2, <2>1
<1>8. \A k \in 0..m - 1 : full[k + 1] = full[k] \o texts[k + 1]
  <2> SUFFICES ASSUME NEW k \in 0..m - 1 PROVE full[k + 1] = full[k] \o texts[k + 1]
    OBVIOUS
  <2>1. CASE k = n
    BY <1>2, <1>5, <2>1
  <2>2. CASE k # n
    <3>1. k \in 0..n - 1 /\ k \in 0..n /\ k + 1 \in 0..n /\ k + 1 \in 1..n
      <4> HIDE DEF n
      <4>1. n \in Nat /\ k \in 0..n
        BY <1>1
      <4> QED
        BY <2>2, <4>1
    <3> QED
      BY <1>2, <1>3, <1>5, <3>1
  <2> QED
    BY <2>1, <2>2
<1> HIDE DEF text
<1>9. /\ \A k \in 0..m : PrefixOf(full[k], full[m])
      /\ \A k \in 0..m - 1 :
           /\ Len(full[k + 1]) = Len(full[k]) + Len(texts[k + 1])
           /\ \A j \in 1..Len(texts[k + 1]) : full[k + 1][Len(full[k]) + j] = texts[k + 1][j]
  <2>1. Flattens(full, texts, m)
    BY <1>6, <1>7, <1>8 DEF Flattens
  <2>2. m \in Nat
    BY <1>1
  <2> HIDE DEF m
  <2>3. FlatPlaces(full, texts, m)
    BY <2>1, <2>2, FlattenPrefixes
  <2> QED
    BY <2>3 DEF FlatPlaces
<1> DEFINE at == [k \in 0..m |-> Len(full[k])]
<1>10. /\ Len(text) \in Nat /\ \A k \in 0..m : at[k] = Len(full[k]) /\ at[k] \in 0..Len(text)
       /\ at \in [0..m -> 0..Len(text)]
  <2>1. Len(text) \in Nat
    BY <1>4, ListDomain
  <2>2. \A k \in 0..m : Len(full[k]) \in Nat /\ Len(full[k]) <= Len(text)
    BY <1>5, <1>6, <1>9, ListDomain DEF PrefixOf
  <2>3. \A k \in 0..m : Len(full[k]) \in 0..Len(text)
    BY <2>1, <2>2
  <2> QED
    BY <2>1, <2>3
<1>11. at[0] = 0 /\ at[m] = Len(text)
  <2>1. 0 \in 0..m /\ m \in 0..m
    BY <1>1
  <2> QED
    BY <1>5, <1>10, <2>1
<1> HIDE DEF at
<1>12. ASSUME NEW k \in 0..m - 1
       PROVE  /\ at[k] + Len(texts[k + 1]) = at[k + 1]
              /\ \A j \in 1..Len(texts[k + 1]) :
                   texts[k + 1][j] = text[at[k] + j] /\ at[k] + j \in 1..Len(text)
  <2>1. k \in 0..m /\ k + 1 \in 0..m /\ k + 1 \in 1..m
    BY <1>1
  <2>2. at[k] = Len(full[k]) /\ at[k + 1] = Len(full[k + 1])
        /\ at[k] \in 0..Len(text) /\ at[k + 1] \in 0..Len(text)
    BY <1>10, <2>1
  <2>3. Len(texts[k + 1]) \in Nat
    BY <1>7, <2>1, ListDomain
  <2>4. at[k] + Len(texts[k + 1]) = at[k + 1]
    BY <1>9, <2>2
  <2>5. ASSUME NEW j \in 1..Len(texts[k + 1])
        PROVE  texts[k + 1][j] = text[at[k] + j] /\ at[k] + j \in 1..Len(text)
    <3>1. at[k] + j \in 1..at[k + 1] /\ at[k] + j \in 1..Len(text)
      <4> DEFINE from == at[k]
                 to == at[k + 1]
                 l == Len(texts[k + 1])
                 end == Len(text)
      <4>1. /\ from \in 0..end /\ to \in 0..end /\ l \in Nat /\ end \in Nat
            /\ from + l = to /\ j \in 1..l
        BY <1>10, <2>2, <2>3, <2>4
      <4> HIDE DEF from, to, l, end
      <4>2. from + j \in 1..to /\ from + j \in 1..end
        BY <4>1
      <4> QED
        BY <4>2 DEF from, to, end
    <3>2. full[k + 1][at[k] + j] = text[at[k] + j]
      BY <1>5, <1>9, <2>1, <2>2, <3>1 DEF PrefixOf
    <3>3. full[k + 1][at[k] + j] = texts[k + 1][j]
      BY <1>9, <2>2
    <3> QED
      BY <3>1, <3>2, <3>3
  <2> QED
    BY <2>4, <2>5
<1>13. Placed(texts, text)
  <2>1. \A k \in 0..m - 1 :
          /\ at[k] + Len(texts[k + 1]) = at[k + 1]
          /\ \A j \in 1..Len(texts[k + 1]) : texts[k + 1][j] = text[at[k] + j]
    BY <1>12
  <2>2. Len(texts) = m /\ at \in [0..m -> 0..Len(text)]
    BY <1>2, <1>10
  <2> HIDE DEF m
  <2> QED
    BY <1>11, <2>1, <2>2 DEF Placed
<1>14. texts \in Seq(Seq(ToSet(text)))
  <2>1. DOMAIN text = 1..Len(text)
    BY <1>4, ListDomain
  <2>2. ASSUME NEW i \in 1..m PROVE texts[i] \in Seq(ToSet(text))
    <3>1. i - 1 \in 0..m - 1 /\ (i - 1) + 1 = i
      BY <1>1
    <3>2. \A j \in 1..Len(texts[i]) : texts[i][j] \in ToSet(text)
      BY <1>12, <2>1, <3>1 DEF ToSet
    <3>3. IsList(texts[i]) /\ DOMAIN texts[i] = 1..Len(texts[i])
      BY <1>7, ListDomain
    <3>4. ToSet(texts[i]) \subseteq ToSet(text) /\ texts[i] \in Seq(ToSet(texts[i]))
      BY <3>2, <3>3 DEF ToSet, IsList
    <3> QED
      BY <3>4, SeqMonotonic
  <2>3. Len(texts) = m /\ texts \in Seq(L) /\ m \in Nat
    BY <1>1, <1>2
  <2> HIDE DEF m
  <2> DEFINE S == Seq(ToSet(text))
  <2>4. \A i \in 1..m : texts[i] \in S
    BY <2>2
  <2> HIDE DEF S
  <2>5. texts \in Seq(S)
    BY <2>3, <2>4
  <2> QED
    BY <2>5 DEF S
<1> QED
  BY <1>4, <1>13, <1>14 DEF text, texts

\* The reader at a text's beginning has read nothing yet.
LEMMA ReaderBegins ==
  ASSUME NEW text, IsList(text)
  PROVE  ReaderAt(text, 0) = NewReader /\ Begun(text, 0)
<1>1. EndCount(text, 0) = 0
  BY EndsCounted
<1>2. StartAt(text, 0) = 1
  BY <1>1 DEF StartAt, BeginOf
<1>3. RestAt(text, 0) = <<>>
  <2>1. text \in Seq(ToSet(text))
    BY DEF IsList
  <2> QED
    BY <1>2, <2>1, SubSeqEmpty DEF RestAt
<1>4. ~Long(text, 0)
  <2>1. ~(0 > FrameLimit)
    BY StreamsAssumption
  <2> QED
    BY <1>3, <2>1, NoBytes DEF Long
<1>5. WholeAt(text, 0) = <<>>
  BY <1>1 DEF WholeAt
<1>6. ReaderAt(text, 0) = [buffer |-> <<>>, discarding |-> FALSE, frames |-> <<>> \o <<>>]
  <2>1. Long(text, 0) = FALSE
    BY <1>4 DEF Long
  <2> QED
    BY <1>3, <1>5, <2>1 DEF ReaderAt
<1>7. <<>> \o <<>> = <<>>
  OBVIOUS
<1> QED
  BY <1>2, <1>6, <1>7 DEF NewReader, Begun

\* A text is read up to its end, however it comes in pieces.
LEMMA AllRead ==
  ASSUME NEW text, IsList(text), NEW texts \in Seq(Seq(ToSet(text))), Placed(texts, text)
  PROVE  ReadTexts(texts) = ReaderAt(text, Len(text)) /\ Begun(text, Len(text))
<1> DEFINE C == ToSet(text)
           m == Len(texts)
           n == Len(text)
<1>1. m \in Nat /\ n \in Nat /\ \A k \in 1..m : texts[k] \in Seq(C)
  BY ListDomain, LenProperties, ElementOfSeq
<1>2. PICK at \in [0..m -> 0..n] :
        /\ at[0] = 0 /\ at[m] = n
        /\ \A k \in 0..m - 1 :
             /\ at[k] + Len(texts[k + 1]) = at[k + 1]
             /\ \A j \in 1..Len(texts[k + 1]) : texts[k + 1][j] = text[at[k] + j]
  BY DEF Placed
<1>3. PICK run \in [0..m -> Readers(C)] :
        /\ run[0] = NewReader /\ run[m] = ReadTexts(texts)
        /\ \A k \in 0..m - 1 : run[k + 1] = ConsumeText(run[k], texts[k + 1])
  BY TextsSteps
<1> HIDE DEF m, n, C
<1> DEFINE Good(k) == run[k] = ReaderAt(text, at[k]) /\ Begun(text, at[k])
           There == {k \in 0..m : Good(k)}
<1>4. 0 \in There
  <2>1. 0 \in 0..m
    BY <1>1
  <2> QED
    BY <1>2, <1>3, <2>1, ReaderBegins
<1>5. ASSUME NEW k \in 0..m - 1, k \in There PROVE k + 1 \in There
  <2>1. k \in 0..m /\ k + 1 \in 0..m /\ k + 1 \in 1..m
    BY <1>1
  <2> DEFINE part == texts[k + 1]
  <2>2. /\ part \in Seq(C) /\ at[k] \in 0..n /\ at[k + 1] \in 0..n /\ run[k] \in Readers(C)
        /\ at[k] + Len(part) = at[k + 1]
        /\ \A j \in 1..Len(part) : part[j] = text[at[k] + j]
        /\ run[k + 1] = ConsumeText(run[k], part)
    BY <1>1, <1>2, <1>3, <2>1
  <2> HIDE DEF part
  <2>3. run[k] = ReaderAt(text, at[k]) /\ Begun(text, at[k])
    BY <1>5
  <2>4. ReaderAt(text, at[k]) \in Readers(C)
    BY <2>2, <2>3
  <2>5. at[k] + Len(part) <= n
    BY <1>1, <2>2
  <2>6. /\ ConsumeText(ReaderAt(text, at[k]), part) = ReaderAt(text, at[k] + Len(part))
        /\ Begun(text, at[k] + Len(part))
    BY <2>2, <2>3, <2>4, <2>5, TextConsumed DEF C, n
  <2> QED
    BY <2>1, <2>2, <2>3, <2>6
<1>6. Good(m)
  <2> HIDE DEF Good
  <2>1. \A k \in 0..m : k \in There
    <3> HIDE DEF There
    <3> QED
      BY <1>1, <1>4, <1>5, Climb
  <2>2. m \in 0..m
    BY <1>1
  <2> QED
    BY <2>1, <2>2
<1> QED
  BY <1>2, <1>3, <1>6 DEF n

\* The decoded chunks are texts, and so is what the decoder kept.
LEMMA DecodedTexts ==
  ASSUME NEW chunks, IsList(chunks), \A i \in DOMAIN chunks : IsList(chunks[i])
  PROVE  LET decoded == [i \in DOMAIN chunks |-> Decoded(chunks[i])]
         IN  /\ IsList(decoded) /\ \A i \in DOMAIN decoded : IsList(decoded[i])
             /\ IsList(Remaining(chunks))
<1> DEFINE decoded == [i \in DOMAIN chunks |-> Decoded(chunks[i])]
<1>1. ASSUME NEW i \in DOMAIN chunks PROVE IsList(Decoded(chunks[i]))
  <2> DEFINE kept == Only(chunks[i], ToSet(chunks[i]) \ {"w1", "w2"})
             text == [j \in DOMAIN kept |-> IF kept[j] = "w3" THEN "wide" ELSE kept[j]]
  <2>1. IsList(kept)
    BY OnlyKeeps
  <2> HIDE DEF kept
  <2>2. text = [j \in DOMAIN kept |-> text[j]]
    OBVIOUS
  <2> HIDE DEF text
  <2>3. IsList(text)
    BY <2>1, <2>2, MappedList
  <2> QED
    BY <2>3 DEF Decoded, text, kept
<1>2. IsList(decoded) /\ DOMAIN decoded = DOMAIN chunks
  <2>1. decoded = [i \in DOMAIN chunks |-> decoded[i]]
    OBVIOUS
  <2> HIDE DEF decoded
  <2> QED
    BY <2>1, MappedList
<1>3. IsList(Remaining(chunks))
  <2>1. IsList(<<>>) /\ IsList(<<"wide">>)
    BY DEF IsList, ToSet
  <2> QED
    BY <2>1 DEF Remaining
<1> QED
  BY <1>1, <1>2, <1>3

\* What is handed over when the stream ends are the lines of its text.
LEMMA LinesRead ==
  ASSUME NEW text, IsList(text), Begun(text, Len(text))
  PROVE  LET reader == ReaderAt(text, Len(text))
         IN  Lines(text) = IF ~reader.discarding /\ reader.buffer # <<>>
                           THEN Append(reader.frames, WithoutCR(reader.buffer))
                           ELSE reader.frames
<1> DEFINE n == Len(text)
           b == StartAt(text, n)
           rest == RestAt(text, n)
           whole == WholeAt(text, n)
           reader == ReaderAt(text, n)
<1>1. n \in Nat /\ DOMAIN text = 1..n /\ text \in Seq(ToSet(text)) /\ b \in 1..n + 1 /\ n \in 0..n
  BY ListDomain DEF Begun
<1>2. Lines(text) = whole \o (IF b <= n THEN <<LineOf(text, b, n)>> ELSE <<>>)
  <2>1. {e \in LineEnds(text) : e <= n} = LineEnds(text)
    BY <1>1 DEF LineEnds
  <2>2. EndCount(text, n) = Cardinality(LineEnds(text))
    BY <2>1 DEF EndCount, EndsUpTo
  <2> DEFINE count == Cardinality(LineEnds(text))
  <2>3. Lines(text)
          = [k \in 1..count |-> LineOf(text, BeginOf(text, k), EndOf(text, k) - 1)]
              \o (IF BeginOf(text, count + 1) <= n
                  THEN <<LineOf(text, BeginOf(text, count + 1), n)>> ELSE <<>>)
    BY DEF Lines, LineEnds, EndCount, EndsUpTo, EndOf, BeginOf
  <2> QED
    BY <2>2, <2>3 DEF StartAt, WholeAt
<1>3. rest = SubSeq(text, b, n)
  BY DEF RestAt
<1>4. b <= n <=> rest # <<>>
  <2>1. CASE b <= n
    <3>1. b \in 1..n /\ n - b + 1 \in Nat \ {0} /\ b <= n
      BY <1>1, <2>1
    <3>2. Len(rest) = n - b + 1
      BY <1>1, <1>3, <2>1, <3>1, SubSeqProperties
    <3> QED
      BY <2>1, <3>1, <3>2
  <2>2. CASE ~(b <= n)
    <3>1. b = n + 1
      BY <1>1, <2>2
    <3>2. SubSeq(text, n + 1, n) = <<>>
      BY <1>1, SubSeqEmpty
    <3> QED
      BY <1>3, <2>2, <3>1, <3>2
  <2> QED
    BY <2>1, <2>2
<1>5. LineOf(text, b, n) = IF Long(text, n) THEN Oversized ELSE WithoutCR(rest)
  BY <1>1, LineRead DEF Long, RestAt
<1>6. Long(text, n) => rest # <<>>
  <2>1. ~(0 > FrameLimit)
    BY StreamsAssumption
  <2> QED
    BY <2>1, NoBytes DEF Long
<1>7. /\ reader.discarding = Long(text, n)
      /\ reader.buffer = IF Long(text, n) THEN <<>> ELSE rest
      /\ reader.frames = whole \o (IF Long(text, n) THEN <<Oversized>> ELSE <<>>)
  BY DEF ReaderAt
<1> DEFINE T == ToSet(whole) \cup {Oversized, WithoutCR(rest)}
<1>8. whole \in Seq(T)
  <2>1. IsList(whole)
    <3>1. EndCount(text, n) \in Nat
      BY <1>1, EndsCounted
    <3>2. whole = [k \in 1..EndCount(text, n) |-> whole[k]]
      BY DEF WholeAt
    <3> HIDE DEF whole
    <3>3. \A k \in 1..EndCount(text, n) : whole[k] \in ToSet(whole)
      BY <3>2 DEF ToSet
    <3> QED
      BY <3>1, <3>2, <3>3 DEF IsList
  <2> QED
    BY <2>1, ListDomain, SeqMonotonic
<1>9. WithoutCR(rest) \in T
  OBVIOUS
<1> HIDE DEF T
<1>10. Append(whole, WithoutCR(rest)) = whole \o <<WithoutCR(rest)>> /\ whole \o <<>> = whole
  BY <1>8, <1>9, AppendIsConcat, ConcatEmptySeq
<1> HIDE DEF n, b, rest, whole, reader
<1>11. Long(text, n) \in BOOLEAN
  BY DEF Long
<1>12. CASE Long(text, n)
  BY <1>2, <1>4, <1>5, <1>6, <1>7, <1>12 DEF reader, n
<1>13. CASE ~Long(text, n)
  <2>1. CASE rest = <<>>
    BY <1>2, <1>4, <1>7, <1>10, <1>13, <2>1 DEF reader, n
  <2>2. CASE rest # <<>>
    BY <1>2, <1>4, <1>5, <1>7, <1>10, <1>13, <2>2 DEF reader, n
  <2> QED
    BY <2>1, <2>2
<1> QED
  BY <1>11, <1>12, <1>13

\* The frames in a stream of chunks are the lines of the text it decodes to.
LEMMA FramesRead ==
  ASSUME NEW chunks \in Streams
  PROVE  ConsumeFrames(chunks) = Lines(Characters(chunks))
<1> DEFINE decoded == [i \in DOMAIN chunks |-> Decoded(chunks[i])]
           last == Remaining(chunks)
           texts == decoded \o <<last>>
           text == FlattenSeq(decoded) \o last
<1>1. IsList(chunks) /\ \A i \in DOMAIN chunks : IsList(chunks[i])
  BY StreamsAssumption
<1>2. IsList(decoded) /\ (\A i \in DOMAIN decoded : IsList(decoded[i])) /\ IsList(last)
  BY <1>1, DecodedTexts
<1>3. ConsumeFrames(chunks)
        = LET reader == ReadTexts(texts)
          IN  IF ~reader.discarding /\ reader.buffer # <<>>
              THEN Append(reader.frames, WithoutCR(reader.buffer))
              ELSE reader.frames
  BY DEF ConsumeFrames, ReadTexts, NewReader
<1>4. Characters(chunks) = text
  BY DEF Characters
<1> HIDE DEF decoded, last
<1>5. IsList(text) /\ texts \in Seq(Seq(ToSet(text))) /\ Placed(texts, text)
  BY <1>2, TextsPlaced
<1> HIDE DEF texts, text
<1>6. ReadTexts(texts) = ReaderAt(text, Len(text)) /\ Begun(text, Len(text))
  BY <1>5, AllRead
<1> DEFINE reader == ReaderAt(text, Len(text))
<1>7. Lines(text) = IF ~reader.discarding /\ reader.buffer # <<>>
                    THEN Append(reader.frames, WithoutCR(reader.buffer))
                    ELSE reader.frames
  BY <1>5, <1>6, LinesRead
<1> QED
  BY <1>3, <1>4, <1>6, <1>7

\* The bridge reads the lines of its input, each once and in order, one too long as
\* Oversized and without disturbing the next, wherever the chunks end: in the middle of a
\* line, of a line end or of a character (consumeFrames, for any stream and any limit).
THEOREM FramesAreLines == Spec => []FramesAreTheLines
<1>1. Told => FramesAreTheLines
  <2> SUFFICES ASSUME Told, question.kind = "stream"
               PROVE  answer.frames = Lines(Characters(question.chunks))
    BY DEF FramesAreTheLines
  <2>1. question.chunks \in Streams /\ answer = [frames |-> ConsumeFrames(question.chunks)]
    BY DEF Told, StreamTold
  <2>2. ConsumeFrames(question.chunks) = Lines(Characters(question.chunks))
    BY <2>1, FramesRead
  <2> QED
    BY <2>1, <2>2
<1> QED
  BY <1>1, AnswersAreTold, PTL

-----------------------------------------------------------------------------
(* The snippets.                                                           *)

\* What the parser can have made of an argument list: its texts are names of flags, and
\* those of them that are not empty are values.
Texts(argv) == {a.text : a \in ToSet(argv)}
FlagValues(argv) == (Texts(argv) \ {""}) \cup {On}
FlagSets(argv) == UNION {[D -> FlagValues(argv)] : D \in SUBSET Texts(argv)}
Parses(argv) ==
  [next : Nat, command : Texts(argv) \cup {Absent}, flags : FlagSets(argv),
   positionals : Seq(ToSet(argv)), separatorSeen : BOOLEAN]

\* What is parsed with one field changed.
LEMMA ParsedFields ==
  ASSUME NEW argv, NEW parsed \in Parses(argv)
  PROVE  /\ \A x : [parsed EXCEPT !.next = x]
                     = [next |-> x, command |-> parsed.command, flags |-> parsed.flags,
                        positionals |-> parsed.positionals,
                        separatorSeen |-> parsed.separatorSeen]
         /\ \A x : [parsed EXCEPT !.command = x]
                     = [next |-> parsed.next, command |-> x, flags |-> parsed.flags,
                        positionals |-> parsed.positionals,
                        separatorSeen |-> parsed.separatorSeen]
         /\ \A x : [parsed EXCEPT !.positionals = x]
                     = [next |-> parsed.next, command |-> parsed.command,
                        flags |-> parsed.flags, positionals |-> x,
                        separatorSeen |-> parsed.separatorSeen]
         /\ \A x : [parsed EXCEPT !.separatorSeen = x]
                     = [next |-> parsed.next, command |-> parsed.command,
                        flags |-> parsed.flags, positionals |-> parsed.positionals,
                        separatorSeen |-> x]
         /\ \A x, y : [parsed EXCEPT !.next = x, !.flags = y]
                        = [next |-> x, command |-> parsed.command, flags |-> y,
                           positionals |-> parsed.positionals,
                           separatorSeen |-> parsed.separatorSeen]
<1>1. \E next, command, flags, positionals, separatorSeen :
        parsed = [next |-> next, command |-> command, flags |-> flags,
                  positionals |-> positionals, separatorSeen |-> separatorSeen]
  BY DEF Parses
<1>2. PICK next, command, flags, positionals, separatorSeen :
        parsed = [next |-> next, command |-> command, flags |-> flags,
                  positionals |-> positionals, separatorSeen |-> separatorSeen]
  BY <1>1
<1>3. /\ parsed.next = next /\ parsed.command = command /\ parsed.flags = flags
      /\ parsed.positionals = positionals /\ parsed.separatorSeen = separatorSeen
  BY <1>2
<1>4. ASSUME NEW x, NEW y
      PROVE  [parsed EXCEPT !.next = x, !.flags = y]
               = [next |-> x, command |-> command, flags |-> y, positionals |-> positionals,
                  separatorSeen |-> separatorSeen]
  <2>1. [parsed EXCEPT !.next = x, !.flags = y]
          = [[parsed EXCEPT !.next = x] EXCEPT !.flags = y]
    OBVIOUS
  <2>2. [parsed EXCEPT !.next = x]
          = [next |-> x, command |-> command, flags |-> flags, positionals |-> positionals,
             separatorSeen |-> separatorSeen]
    BY <1>2
  <2>3. [[next |-> x, command |-> command, flags |-> flags, positionals |-> positionals,
          separatorSeen |-> separatorSeen] EXCEPT !.flags = y]
          = [next |-> x, command |-> command, flags |-> y, positionals |-> positionals,
             separatorSeen |-> separatorSeen]
    OBVIOUS
  <2> QED
    BY <2>1, <2>2, <2>3
<1>5. ASSUME NEW x
      PROVE  /\ [parsed EXCEPT !.next = x]
                  = [next |-> x, command |-> command, flags |-> flags,
                     positionals |-> positionals, separatorSeen |-> separatorSeen]
             /\ [parsed EXCEPT !.command = x]
                  = [next |-> next, command |-> x, flags |-> flags,
                     positionals |-> positionals, separatorSeen |-> separatorSeen]
  BY <1>2
<1>6. ASSUME NEW x
      PROVE  /\ [parsed EXCEPT !.positionals = x]
                  = [next |-> next, command |-> command, flags |-> flags,
                     positionals |-> x, separatorSeen |-> separatorSeen]
             /\ [parsed EXCEPT !.separatorSeen = x]
                  = [next |-> next, command |-> command, flags |-> flags,
                     positionals |-> positionals, separatorSeen |-> x]
  BY <1>2
<1> QED
  BY <1>3, <1>4, <1>5, <1>6

\* The flags with one more of them.
WithFlag(flags, name, value) ==
  [flag \in DOMAIN flags \cup {name} |-> IF flag = name THEN value ELSE flags[flag]]

\* A flag takes the next argument, when there is one that can be a value.
HasValue(argv, i) == i < Len(argv) /\ ~argv[i + 1].dashes /\ argv[i + 1].text # ""

\* What becomes of an argument, in each of the parser's cases.
Skips(argv, parsed, i) == i < parsed.next
Passes(argv, parsed, i) == ~(i < parsed.next) /\ parsed.separatorSeen
Flags(argv, parsed, i) == ~(i < parsed.next) /\ ~parsed.separatorSeen /\ argv[i].dashes
Names(argv, parsed, i) == ~(i < parsed.next) /\ ~parsed.separatorSeen /\ ~argv[i].dashes

Flagged(argv, parsed, i) ==
  [parsed EXCEPT
     !.next = IF HasValue(argv, i) THEN i + 2 ELSE i + 1,
     !.flags = WithFlag(parsed.flags, argv[i].text,
                        IF HasValue(argv, i) THEN argv[i + 1].text ELSE On)]

\* What the parser does with an argument, in each of its cases.
LEMMA ArgumentRead ==
  ASSUME NEW argv, NEW parsed \in Parses(argv), NEW i \in Nat
  PROVE  /\ Skips(argv, parsed, i) => ReadArgument(parsed, argv, i) = parsed
         /\ Passes(argv, parsed, i) =>
              ReadArgument(parsed, argv, i)
                = [parsed EXCEPT !.positionals = Append(parsed.positionals, argv[i])]
         /\ Flags(argv, parsed, i) =>
              ReadArgument(parsed, argv, i)
                = IF argv[i] = Separator /\ parsed.command # Absent
                  THEN [parsed EXCEPT !.separatorSeen = TRUE]
                  ELSE IF argv[i].text = "" THEN [parsed EXCEPT !.next = i + 1]
                  ELSE Flagged(argv, parsed, i)
         /\ Names(argv, parsed, i) =>
              ReadArgument(parsed, argv, i)
                = IF argv[i].text = "" THEN parsed
                  ELSE IF parsed.command = Absent THEN [parsed EXCEPT !.command = argv[i].text]
                  ELSE [parsed EXCEPT !.positionals = Append(parsed.positionals, argv[i])]
<1>1. /\ [parsed EXCEPT !.positionals = Append(@, argv[i])]
           = [parsed EXCEPT !.positionals = Append(parsed.positionals, argv[i])]
      /\ \A x, value :
           [parsed EXCEPT !.next = x,
                          !.flags = [flag \in DOMAIN @ \cup {argv[i].text} |->
                                       IF flag = argv[i].text THEN value ELSE @[flag]]]
             = [parsed EXCEPT !.next = x, !.flags = WithFlag(parsed.flags, argv[i].text, value)]
  BY DEF Parses, WithFlag
<1>2. i >= parsed.next <=> ~(i < parsed.next)
  BY DEF Parses
<1>3. ReadFlag(parsed, argv, i)
        = IF argv[i].text = "" THEN [parsed EXCEPT !.next = i + 1]
          ELSE Flagged(argv, parsed, i)
  <2>1. CASE argv[i].text = ""
    BY <2>1 DEF ReadFlag
  <2>2. CASE argv[i].text # ""
    <3> DEFINE next == IF HasValue(argv, i) THEN i + 2 ELSE i + 1
               value == IF HasValue(argv, i) THEN argv[i + 1].text ELSE On
    <3>1. ReadFlag(parsed, argv, i)
            = [parsed EXCEPT !.next = next,
                             !.flags = [flag \in DOMAIN @ \cup {argv[i].text} |->
                                          IF flag = argv[i].text THEN value ELSE @[flag]]]
      BY <2>2 DEF ReadFlag, HasValue
    <3> HIDE DEF next, value
    <3>2. ReadFlag(parsed, argv, i)
            = [parsed EXCEPT !.next = next,
                             !.flags = WithFlag(parsed.flags, argv[i].text, value)]
      BY <1>1, <3>1
    <3> QED
      BY <2>2, <3>2 DEF next, value, Flagged
  <2> QED
    BY <2>1, <2>2
<1> QED
  BY <1>1, <1>2, <1>3 DEF ReadArgument, Skips, Passes, Flags, Names

\* A flag that is added is a text, and so is its value.
LEMMA FlagsTyped ==
  ASSUME NEW argv, NEW flags \in FlagSets(argv), NEW name \in Texts(argv),
         NEW value \in FlagValues(argv)
  PROVE  WithFlag(flags, name, value) \in FlagSets(argv)
<1>1. PICK D \in SUBSET Texts(argv) : flags \in [D -> FlagValues(argv)]
  BY DEF FlagSets
<1> HIDE DEF FlagValues, Texts
<1>2. DOMAIN flags = D /\ D \cup {name} \in SUBSET Texts(argv)
  BY <1>1
<1>3. \A flag \in D \cup {name} :
        (IF flag = name THEN value ELSE flags[flag]) \in FlagValues(argv)
  BY <1>1
<1>4. WithFlag(flags, name, value) \in [D \cup {name} -> FlagValues(argv)]
  BY <1>2, <1>3 DEF WithFlag
<1> QED
  BY <1>2, <1>4 DEF FlagSets

\* The parser makes parses of parses.
LEMMA ArgumentTyped ==
  ASSUME NEW argv, IsList(argv), NEW parsed \in Parses(argv), NEW i \in 1..Len(argv)
  PROVE  ReadArgument(parsed, argv, i) \in Parses(argv)
<1> DEFINE arg == argv[i]
           value == IF HasValue(argv, i) THEN argv[i + 1].text ELSE On
           next == IF HasValue(argv, i) THEN i + 2 ELSE i + 1
           shape(n, c, f, p, s) ==
             [next |-> n, command |-> c, flags |-> f, positionals |-> p, separatorSeen |-> s]
           P == Seq(ToSet(argv))
           C == Texts(argv) \cup {Absent}
<1>1. Len(argv) \in Nat /\ DOMAIN argv = 1..Len(argv) /\ i \in Nat
  BY ListDomain
<1>2. arg \in ToSet(argv) /\ arg.text \in Texts(argv)
  BY <1>1 DEF ToSet, Texts
<1>3. value \in FlagValues(argv)
  <2>1. CASE HasValue(argv, i)
    <3>1. i < Len(argv) /\ argv[i + 1].text # ""
      BY <2>1 DEF HasValue
    <3>2. i + 1 \in 1..Len(argv)
      <4> DEFINE n == Len(argv)
      <4>1. n \in Nat /\ i \in Nat /\ i < n
        BY <1>1, <3>1
      <4> HIDE DEF n
      <4>2. i + 1 \in 1..n
        BY <4>1
      <4> QED
        BY <4>2 DEF n
    <3>3. argv[i + 1] \in ToSet(argv)
      BY <1>1, <3>2 DEF ToSet
    <3> QED
      BY <2>1, <3>1, <3>3 DEF Texts, FlagValues
  <2>2. CASE ~HasValue(argv, i)
    BY <2>2 DEF FlagValues
  <2> QED
    BY <2>1, <2>2
<1>4. next \in Nat /\ i + 1 \in Nat
  BY <1>1
<1> HIDE DEF value, next
<1>5. /\ parsed.next \in Nat /\ parsed.command \in C
      /\ parsed.flags \in FlagSets(argv) /\ parsed.positionals \in P
      /\ parsed.separatorSeen \in BOOLEAN
  BY DEF Parses
<1>6. WithFlag(parsed.flags, arg.text, value) \in FlagSets(argv)
  BY <1>2, <1>3, <1>5, FlagsTyped
<1>7. Append(parsed.positionals, arg) \in P /\ arg.text \in C
  BY <1>2, <1>5, AppendProperties
<1>8. \A n \in Nat, c \in C, f \in FlagSets(argv), p \in P, s \in BOOLEAN :
        shape(n, c, f, p, s) \in Parses(argv)
  BY DEF Parses
<1>9. /\ [parsed EXCEPT !.next = i + 1]
           = shape(i + 1, parsed.command, parsed.flags, parsed.positionals,
                   parsed.separatorSeen)
      /\ [parsed EXCEPT !.command = arg.text]
           = shape(parsed.next, arg.text, parsed.flags, parsed.positionals,
                   parsed.separatorSeen)
      /\ [parsed EXCEPT !.positionals = Append(parsed.positionals, arg)]
           = shape(parsed.next, parsed.command, parsed.flags,
                   Append(parsed.positionals, arg), parsed.separatorSeen)
      /\ [parsed EXCEPT !.separatorSeen = TRUE]
           = shape(parsed.next, parsed.command, parsed.flags, parsed.positionals, TRUE)
      /\ Flagged(argv, parsed, i)
           = shape(next, parsed.command, WithFlag(parsed.flags, arg.text, value),
                   parsed.positionals, parsed.separatorSeen)
  <2>1. Flagged(argv, parsed, i)
          = [parsed EXCEPT !.next = next, !.flags = WithFlag(parsed.flags, arg.text, value)]
    BY DEF Flagged, next, value
  <2> QED
    BY <2>1, ParsedFields
<1> DEFINE advanced == [parsed EXCEPT !.next = i + 1]
           commanded == [parsed EXCEPT !.command = arg.text]
           added == [parsed EXCEPT !.positionals = Append(parsed.positionals, arg)]
           separated == [parsed EXCEPT !.separatorSeen = TRUE]
<1>10. ReadArgument(parsed, argv, i)
         \in {parsed, advanced, commanded, added, separated, Flagged(argv, parsed, i)}
  <2>1. \/ Skips(argv, parsed, i) \/ Passes(argv, parsed, i)
        \/ Flags(argv, parsed, i) \/ Names(argv, parsed, i)
    BY DEF Skips, Passes, Flags, Names
  <2>2. /\ Skips(argv, parsed, i) => ReadArgument(parsed, argv, i) = parsed
        /\ Passes(argv, parsed, i) => ReadArgument(parsed, argv, i) = added
        /\ Flags(argv, parsed, i) =>
             ReadArgument(parsed, argv, i)
               = IF arg = Separator /\ parsed.command # Absent THEN separated
                 ELSE IF arg.text = "" THEN advanced ELSE Flagged(argv, parsed, i)
        /\ Names(argv, parsed, i) =>
             ReadArgument(parsed, argv, i)
               = IF arg.text = "" THEN parsed
                 ELSE IF parsed.command = Absent THEN commanded ELSE added
    BY <1>1, ArgumentRead, Zenon
  <2> HIDE DEF advanced, commanded, added, separated, arg
  <2> QED
    BY <2>1, <2>2
<1> HIDE DEF arg, shape, C, P
<1>11. {parsed, advanced, commanded, added, separated, Flagged(argv, parsed, i)}
         \subseteq Parses(argv)
  <2>1. shape(i + 1, parsed.command, parsed.flags, parsed.positionals,
              parsed.separatorSeen) \in Parses(argv)
    BY <1>4, <1>5, <1>8
  <2>2. shape(parsed.next, arg.text, parsed.flags, parsed.positionals,
              parsed.separatorSeen) \in Parses(argv)
    BY <1>5, <1>7, <1>8
  <2>3. shape(parsed.next, parsed.command, parsed.flags,
              Append(parsed.positionals, arg), parsed.separatorSeen) \in Parses(argv)
    BY <1>5, <1>7, <1>8
  <2>4. shape(parsed.next, parsed.command, parsed.flags, parsed.positionals, TRUE)
          \in Parses(argv)
    BY <1>5, <1>8
  <2>5. shape(next, parsed.command, WithFlag(parsed.flags, arg.text, value),
              parsed.positionals, parsed.separatorSeen) \in Parses(argv)
    BY <1>4, <1>5, <1>6, <1>8
  <2> QED
    BY <1>9, <2>1, <2>2, <2>3, <2>4, <2>5
<1> QED
  BY <1>10, <1>11

\* Arguments are read one after another.
LEMMA ParseSteps ==
  ASSUME NEW argv, IsList(argv)
  PROVE  \E run \in [0..Len(argv) -> Parses(argv)] :
           /\ run[0] = NoArguments /\ run[Len(argv)] = ParseArgs(argv)
           /\ \A k \in 0..Len(argv) - 1 : run[k + 1] = ReadArgument(run[k], argv, k + 1)
<1> DEFINE n == Len(argv)
           Acc == Parses(argv)
           base == NoArguments
           next(f, I) == IF I = {} THEN base ELSE ReadArgument(f[I \ {Max(I)}], argv, Max(I))
           Step == [at \in Acc \X (1..n) |-> ReadArgument(at[1], argv, at[2])]
           fold == CHOOSE f : f = [I \in SUBSET (1..n) |-> next(f, I)]
<1>1. n \in Nat /\ DOMAIN argv = 1..n
  BY ListDomain
<1>2. \A I \in SUBSET (1..n) : I # {} => Max(I) \in 1..n /\ I \ {Max(I)} \in SUBSET (1..n)
  BY <1>1, GreatestPlace
<1>3. ParseArgs(argv) = fold[1..n]
  <2> DEFINE places == [i \in 1..n |-> i]
             same(f, I) ==
               IF I = {} THEN base ELSE ReadArgument(f[I \ {Max(I)}], argv, places[Max(I)])
  <2>1. DOMAIN places = 1..n /\ [i \in DOMAIN argv |-> i] = places
    BY <1>1
  <2>2. ParseArgs(argv) = FoldLeft(LAMBDA parsed, i : ReadArgument(parsed, argv, i), base, places)
    BY <2>1 DEF ParseArgs
  <2>3. ParseArgs(argv)
          = (CHOOSE f : f = [I \in SUBSET DOMAIN places |-> same(f, I)])[DOMAIN places]
    BY <2>2 DEF FoldLeft, MapThenFoldSet
  <2>4. ASSUME NEW f
        PROVE  [I \in SUBSET (1..n) |-> same(f, I)] = [I \in SUBSET (1..n) |-> next(f, I)]
    <3>1. \A I \in SUBSET (1..n) : same(f, I) = next(f, I)
      BY <1>2
    <3> HIDE DEF same, next
    <3> QED
      BY <3>1
  <2>5. (CHOOSE f : f = [I \in SUBSET (1..n) |-> same(f, I)]) = fold
    <3> HIDE DEF same, next
    <3>1. \A f : f = [I \in SUBSET (1..n) |-> same(f, I)]
                  <=> f = [I \in SUBSET (1..n) |-> next(f, I)]
      BY <2>4
    <3> QED
      BY <3>1
  <2> HIDE DEF places, same, fold
  <2> QED
    BY <2>1, <2>3, <2>5
<1>4. \A p \in Acc, i \in 1..n : ReadArgument(p, argv, i) \in Acc
  BY ArgumentTyped
<1>5. base \in Acc
  <2>1. <<>> \in FlagSets(argv)
    <3>1. <<>> \in [{} -> FlagValues(argv)]
      OBVIOUS
    <3> QED
      BY <3>1 DEF FlagSets
  <2>2. <<>> \in Seq(ToSet(argv)) /\ Absent \in Texts(argv) \cup {Absent} /\ 1 \in Nat
    OBVIOUS
  <2> HIDE DEF FlagSets
  <2> QED
    BY <2>1, <2>2 DEF Parses, NoArguments
<1> HIDE DEF Acc, fold, base
<1>6. Step \in [Acc \X (1..n) -> Acc]
  BY <1>4
<1>7. \A p \in Acc, i \in 1..n : Step[<<p, i>>] = ReadArgument(p, argv, i)
  OBVIOUS
<1> HIDE DEF Step
<1>8. fold = [I \in SUBSET (1..n) |-> next(fold, I)]
  <2>1. PICK g \in [SUBSET (1..n) -> Acc] : FoldsBy(g, n, base, Step)
    BY <1>1, <1>5, <1>6, FoldExists
  <2>2. \A I \in SUBSET (1..n) : g[I] = next(g, I)
    BY <1>2, <1>7, <2>1 DEF FoldsBy
  <2> HIDE DEF next
  <2>3. g = [I \in SUBSET (1..n) |-> next(g, I)]
    BY <2>2
  <2> QED
    BY <2>3 DEF fold
<1>9. \A I \in SUBSET (1..n) : fold[I] = next(fold, I)
  <2> HIDE DEF next
  <2> QED
    BY <1>8
<1>10. TakesSteps(fold, n, Acc, base, Step)
  BY <1>1, <1>2, <1>5, <1>6, <1>7, <1>9 DEF TakesSteps
<1>11. PICK run \in [0..n -> Acc] : Runs(run, n, base, Step) /\ run[n] = fold[1..n]
  BY <1>10, FoldSteps
<1>12. \A k \in 0..n - 1 : run[k + 1] = ReadArgument(run[k], argv, k + 1)
  <2> SUFFICES ASSUME NEW k \in 0..n - 1 PROVE run[k + 1] = ReadArgument(run[k], argv, k + 1)
    OBVIOUS
  <2>1. k \in 0..n /\ k + 1 \in 1..n
    BY <1>1
  <2>2. run[k] \in Acc
    BY <2>1
  <2> QED
    BY <1>7, <1>11, <2>1, <2>2 DEF Runs
<1> QED
  BY <1>3, <1>11, <1>12 DEF Acc, base, Runs

ProxyArguments(file, id) ==
  <<Word("run"), Flag("policy"), Word(file), Flag("profile"), Word(id), Separator>>

IsRunLine(argv, words, file, id) ==
  /\ IsList(argv) /\ Len(words) \in Nat /\ Len(argv) = 6 + Len(words)
  /\ argv[1] = Word("run") /\ argv[2] = Flag("policy") /\ argv[3] = Word(file)
  /\ argv[4] = Flag("profile") /\ argv[5] = Word(id) /\ argv[6] = Separator
  /\ \A j \in 1..Len(words) : argv[6 + j] = words[j]
  /\ DOMAIN words = 1..Len(words)

\* The arguments are what `run` is told and then the words of the upstream.
LEMMA ProxyWords ==
  ASSUME NEW words, IsList(words), NEW file, NEW id
  PROVE  IsRunLine(ProxyArguments(file, id) \o words, words, file, id)
<1> DEFINE head == ProxyArguments(file, id)
           T == ToSet(words) \cup
                  {Word("run"), Flag("policy"), Word(file), Flag("profile"), Word(id),
                   Separator}
           argv == head \o words
           m == Len(words)
<1>1. /\ Len(head) = 6 /\ head[1] = Word("run") /\ head[2] = Flag("policy")
      /\ head[3] = Word(file) /\ head[4] = Flag("profile") /\ head[5] = Word(id)
      /\ head[6] = Separator
  BY DEF ProxyArguments
<1>2. head \in Seq(T)
  <2> DEFINE a == Word("run")
             b == Flag("policy")
             c == Word(file)
             d == Flag("profile")
             e == Word(id)
  <2>1. a \in T /\ b \in T /\ c \in T /\ d \in T /\ e \in T /\ Separator \in T
    OBVIOUS
  <2>2. head = <<a, b, c, d, e, Separator>>
    BY DEF ProxyArguments
  <2> HIDE DEF a, b, c, d, e, T
  <2> QED
    BY <2>1, <2>2
<1>3. words \in Seq(T) /\ m \in Nat /\ DOMAIN words = 1..m
  BY ListDomain, SeqMonotonic
<1> HIDE DEF head, T
<1>4. /\ argv \in Seq(T) /\ Len(argv) = 6 + m
      /\ \A i \in 1..6 + m : argv[i] = IF i <= 6 THEN head[i] ELSE words[i - 6]
  <2>1. /\ head \o words \in Seq(T) /\ Len(head \o words) = Len(head) + Len(words)
        /\ \A i \in 1..Len(head) + Len(words) :
             (head \o words)[i] = IF i <= Len(head) THEN head[i] ELSE words[i - Len(head)]
    BY <1>2, <1>3, ConcatProperties, Zenon
  <2> HIDE DEF argv
  <2> QED
    BY <1>1, <2>1 DEF argv
<1> HIDE DEF argv, m
<1>5. IsList(argv)
  <2>1. argv \in Seq(ToSet(argv))
    <3>1. DOMAIN argv = 1..6 + m /\ 6 + m \in Nat
      BY <1>3, <1>4
    <3>2. \A i \in 1..6 + m : argv[i] \in ToSet(argv)
      BY <3>1 DEF ToSet
    <3> QED
      BY <1>4, <3>1, <3>2
  <2> QED
    BY <2>1 DEF IsList
<1>6. \A j \in 1..m : 6 + j \in 1..6 + m /\ ~(6 + j <= 6) /\ (6 + j) - 6 = j
  BY <1>3
<1>7. \A j \in 1..m : argv[6 + j] = words[j]
  BY <1>4, <1>6
<1>8. \A i \in 1..6 : i \in 1..6 + m /\ i <= 6
  BY <1>3
<1>9. \A i \in 1..6 : argv[i] = head[i]
  BY <1>4, <1>8
<1> QED
  BY <1>1, <1>3, <1>4, <1>5, <1>7, <1>9 DEF IsRunLine, argv, head, m

\* What is in a parse, and how the parser changes it.
Reads(parsed, next, command, flags, positionals) ==
  /\ parsed.next = next /\ parsed.command = command
  /\ parsed.flags = flags /\ parsed.positionals = positionals

HasText(arg) == arg.text # ""

\* The first word is the command.
LEMMA CommandRead ==
  ASSUME NEW argv, NEW parsed \in Parses(argv), NEW i \in Nat, Names(argv, parsed, i),
         HasText(argv[i]), parsed.command = Absent
  PROVE  LET read == ReadArgument(parsed, argv, i)
         IN  /\ Reads(read, parsed.next, argv[i].text, parsed.flags, parsed.positionals)
             /\ read.separatorSeen = parsed.separatorSeen
<1>1. ReadArgument(parsed, argv, i) = [parsed EXCEPT !.command = argv[i].text]
  BY ArgumentRead DEF HasText
<1>2. [parsed EXCEPT !.command = argv[i].text]
        = [next |-> parsed.next, command |-> argv[i].text, flags |-> parsed.flags,
           positionals |-> parsed.positionals, separatorSeen |-> parsed.separatorSeen]
  BY ParsedFields
<1> QED
  BY <1>1, <1>2 DEF Reads

\* A flag takes the word behind it.
LEMMA FlagRead ==
  ASSUME NEW argv, NEW parsed \in Parses(argv), NEW i \in Nat, Flags(argv, parsed, i),
         HasText(argv[i]), argv[i] # Separator, HasValue(argv, i)
  PROVE  LET read == ReadArgument(parsed, argv, i)
         IN  /\ Reads(read, i + 2, parsed.command,
                      WithFlag(parsed.flags, argv[i].text, argv[i + 1].text),
                      parsed.positionals)
             /\ read.separatorSeen = parsed.separatorSeen
<1> DEFINE flags == WithFlag(parsed.flags, argv[i].text, argv[i + 1].text)
<1>1. ReadArgument(parsed, argv, i) = Flagged(argv, parsed, i)
  BY ArgumentRead DEF HasText
<1>2. Flagged(argv, parsed, i) = [parsed EXCEPT !.next = i + 2, !.flags = flags]
  BY DEF Flagged
<1> HIDE DEF flags
<1>3. [parsed EXCEPT !.next = i + 2, !.flags = flags]
        = [next |-> i + 2, command |-> parsed.command, flags |-> flags,
           positionals |-> parsed.positionals, separatorSeen |-> parsed.separatorSeen]
  BY ParsedFields
<1> QED
  BY <1>1, <1>2, <1>3 DEF Reads, flags

\* Behind the command, the separator is seen.
LEMMA SeparatorRead ==
  ASSUME NEW argv, NEW parsed \in Parses(argv), NEW i \in Nat, Flags(argv, parsed, i),
         argv[i] = Separator, parsed.command # Absent
  PROVE  LET read == ReadArgument(parsed, argv, i)
         IN  /\ Reads(read, parsed.next, parsed.command, parsed.flags, parsed.positionals)
             /\ read.separatorSeen
<1>1. ReadArgument(parsed, argv, i) = [parsed EXCEPT !.separatorSeen = TRUE]
  BY ArgumentRead
<1>2. [parsed EXCEPT !.separatorSeen = TRUE]
        = [next |-> parsed.next, command |-> parsed.command, flags |-> parsed.flags,
           positionals |-> parsed.positionals, separatorSeen |-> TRUE]
  BY ParsedFields
<1> QED
  BY <1>1, <1>2 DEF Reads

\* Behind the separator, a word is the upstream's.
LEMMA WordRead ==
  ASSUME NEW argv, NEW parsed \in Parses(argv), NEW i \in Nat, Passes(argv, parsed, i)
  PROVE  LET read == ReadArgument(parsed, argv, i)
         IN  /\ Reads(read, parsed.next, parsed.command, parsed.flags,
                      Append(parsed.positionals, argv[i]))
             /\ read.separatorSeen = parsed.separatorSeen
<1> DEFINE words == Append(parsed.positionals, argv[i])
<1>1. ReadArgument(parsed, argv, i) = [parsed EXCEPT !.positionals = words]
  BY ArgumentRead
<1> HIDE DEF words
<1>2. [parsed EXCEPT !.positionals = words]
        = [next |-> parsed.next, command |-> parsed.command, flags |-> parsed.flags,
           positionals |-> words, separatorSeen |-> parsed.separatorSeen]
  BY ParsedFields
<1> QED
  BY <1>1, <1>2 DEF Reads, words

CanBeValues(one, two) == one # "" /\ two # ""

\* `run` is told its policy and its profile, and everything behind the separator is the
\* upstream's, whatever it looks like.
LEMMA RunParsed ==
  ASSUME NEW words, IsList(words), NEW file, NEW id, CanBeValues(file, id),
         Absent \notin CommandName
  PROVE  LET parsed == ParseArgs(ProxyArguments(file, id) \o words)
         IN  /\ parsed.command = "run" /\ parsed.separatorSeen
             /\ DOMAIN parsed.flags = {"policy", "profile"}
             /\ parsed.flags["policy"] = file /\ parsed.flags["profile"] = id
             /\ parsed.positionals = words
<1> DEFINE argv == ProxyArguments(file, id) \o words
           m == Len(words)
           n == Len(argv)
<1>1. /\ IsList(argv) /\ m \in Nat /\ n = 6 + m /\ DOMAIN words = 1..m
      /\ argv[1] = Word("run") /\ argv[2] = Flag("policy") /\ argv[3] = Word(file)
      /\ argv[4] = Flag("profile") /\ argv[5] = Word(id) /\ argv[6] = Separator
      /\ \A j \in 1..m : argv[6 + j] = words[j]
  <2>1. IsRunLine(argv, words, file, id)
    BY ProxyWords
  <2> HIDE DEF argv
  <2> QED
    BY <2>1 DEF IsRunLine
<1> HIDE DEF argv, m
<1>2. PICK steps \in [0..n -> Parses(argv)] :
        /\ steps[0] = NoArguments /\ steps[n] = ParseArgs(argv)
        /\ \A k \in 0..n - 1 : steps[k + 1] = ReadArgument(steps[k], argv, k + 1)
  BY <1>1, ParseSteps
<1> HIDE DEF n
<1>3. ASSUME NEW k \in 0..n - 1, NEW i, i = k + 1
      PROVE  /\ steps[k] \in Parses(argv) /\ i \in Nat
             /\ steps[i] = ReadArgument(steps[k], argv, i)
  <2>1. n \in Nat
    BY <1>1
  <2>2. k \in 0..n /\ k + 1 \in Nat
    BY <2>1
  <2> QED
    BY <1>2, <1>3, <2>2
<1>4. \A k \in 0..5 : k \in 0..n - 1
  BY <1>1
<1>5. /\ HasText(argv[1]) /\ ~argv[1].dashes /\ argv[1].text \in CommandName
      /\ HasText(argv[2]) /\ argv[2].dashes /\ argv[2] # Separator
      /\ HasText(argv[4]) /\ argv[4].dashes /\ argv[4] # Separator
      /\ argv[6].dashes /\ argv[6] = Separator
      /\ HasText(argv[3]) /\ ~argv[3].dashes /\ HasText(argv[5]) /\ ~argv[5].dashes
  <2>1. /\ HasText(Word("run")) /\ ~Word("run").dashes /\ Word("run").text \in CommandName
    BY DEF HasText, Word, CommandName
  <2>2. /\ HasText(Flag("policy")) /\ Flag("policy").dashes /\ Flag("policy") # Separator
        /\ HasText(Flag("profile")) /\ Flag("profile").dashes /\ Flag("profile") # Separator
        /\ Separator.dashes
    BY DEF HasText, Flag, Separator
  <2>3. HasText(Word(file)) /\ ~Word(file).dashes /\ HasText(Word(id)) /\ ~Word(id).dashes
    BY DEF HasText, Word, CanBeValues
  <2> QED
    BY <1>1, <2>1, <2>2, <2>3
<1>6. argv[1].text # Absent
  BY <1>5
<1>7. HasValue(argv, 2) /\ HasValue(argv, 4) /\ 2 + 1 = 3 /\ 4 + 1 = 5 /\ 2 + 2 = 4 /\ 4 + 2 = 6
  <2>1. 2 < n /\ 4 < n /\ 2 + 1 = 3 /\ 4 + 1 = 5
    BY <1>1
  <2>2. \A i : i < n /\ ~argv[i + 1].dashes /\ HasText(argv[i + 1]) => HasValue(argv, i)
    BY DEF HasValue, HasText, n
  <2>3. argv[2 + 1] = argv[3] /\ argv[4 + 1] = argv[5]
    BY <2>1
  <2>4. HasValue(argv, 2)
    BY <1>5, <2>1, <2>2, <2>3
  <2>5. HasValue(argv, 4)
    BY <1>5, <2>1, <2>2, <2>3
  <2> QED
    BY <2>1, <2>4, <2>5
<1> DEFINE name == argv[1].text
           one == WithFlag(<<>>, argv[2].text, argv[3].text)
           both == WithFlag(one, argv[4].text, argv[5].text)
<1> HIDE DEF name, one, both
<1>8. Reads(steps[1], 1, name, <<>>, <<>>) /\ ~steps[1].separatorSeen
  <2>1. steps[0] \in Parses(argv) /\ 1 \in Nat /\ steps[1] = ReadArgument(steps[0], argv, 1)
    BY <1>3, <1>4
  <2>2. Reads(steps[0], 1, Absent, <<>>, <<>>) /\ ~steps[0].separatorSeen
    BY <1>2 DEF NoArguments, Reads
  <2>3. Names(argv, steps[0], 1) /\ steps[0].command = Absent
    BY <1>5, <2>2 DEF Names, Reads
  <2>4. /\ Reads(steps[1], steps[0].next, name, steps[0].flags, steps[0].positionals)
        /\ steps[1].separatorSeen = steps[0].separatorSeen
    BY <1>5, <2>1, <2>3, CommandRead DEF name
  <2> QED
    BY <2>2, <2>4 DEF Reads
<1>9. Reads(steps[2], 4, name, one, <<>>) /\ ~steps[2].separatorSeen
  <2>1. steps[1] \in Parses(argv) /\ 2 \in Nat /\ steps[2] = ReadArgument(steps[1], argv, 2)
    BY <1>3, <1>4
  <2>2. Flags(argv, steps[1], 2)
    BY <1>5, <1>8 DEF Flags, Reads
  <2>3. /\ Reads(steps[2], 2 + 2, steps[1].command,
                 WithFlag(steps[1].flags, argv[2].text, argv[2 + 1].text), steps[1].positionals)
        /\ steps[2].separatorSeen = steps[1].separatorSeen
    BY <1>5, <1>7, <2>1, <2>2, FlagRead
  <2> QED
    BY <1>7, <1>8, <2>3 DEF Reads, one
<1>10. steps[3] = steps[2]
  <2>1. steps[2] \in Parses(argv) /\ 3 \in Nat /\ steps[3] = ReadArgument(steps[2], argv, 3)
    BY <1>3, <1>4
  <2>2. Skips(argv, steps[2], 3)
    BY <1>9 DEF Skips, Reads
  <2> QED
    BY <2>1, <2>2, ArgumentRead
<1>11. Reads(steps[4], 6, name, both, <<>>) /\ ~steps[4].separatorSeen
  <2>1. steps[3] \in Parses(argv) /\ 4 \in Nat /\ steps[4] = ReadArgument(steps[3], argv, 4)
    BY <1>3, <1>4
  <2>2. Flags(argv, steps[3], 4)
    BY <1>5, <1>9, <1>10 DEF Flags, Reads
  <2>3. /\ Reads(steps[4], 4 + 2, steps[3].command,
                 WithFlag(steps[3].flags, argv[4].text, argv[4 + 1].text), steps[3].positionals)
        /\ steps[4].separatorSeen = steps[3].separatorSeen
    BY <1>5, <1>7, <2>1, <2>2, FlagRead
  <2> QED
    BY <1>7, <1>9, <1>10, <2>3 DEF Reads, both
<1>12. steps[5] = steps[4]
  <2>1. steps[4] \in Parses(argv) /\ 5 \in Nat /\ steps[5] = ReadArgument(steps[4], argv, 5)
    BY <1>3, <1>4
  <2>2. Skips(argv, steps[4], 5)
    BY <1>11 DEF Skips, Reads
  <2> QED
    BY <2>1, <2>2, ArgumentRead
<1>13. Reads(steps[6], 6, name, both, <<>>) /\ steps[6].separatorSeen
  <2>1. steps[5] \in Parses(argv) /\ 6 \in Nat /\ steps[6] = ReadArgument(steps[5], argv, 6)
    BY <1>3, <1>4
  <2>2. Flags(argv, steps[5], 6)
    BY <1>5, <1>11, <1>12 DEF Flags, Reads
  <2>3. steps[5].command # Absent
    BY <1>6, <1>11, <1>12 DEF Reads, name
  <2>4. /\ Reads(steps[6], steps[5].next, steps[5].command, steps[5].flags,
                 steps[5].positionals)
        /\ steps[6].separatorSeen
    BY <1>5, <2>1, <2>2, <2>3, SeparatorRead
  <2> QED
    BY <1>11, <1>12, <2>4 DEF Reads
<1> DEFINE Good(j) == /\ Reads(steps[6 + j], 6, name, both, SubSeq(words, 1, j))
                      /\ steps[6 + j].separatorSeen
           There == {j \in 0..m : Good(j)}
<1>14. words \in Seq(ToSet(words))
  BY DEF IsList
<1>15. 0 \in There
  <2>1. 0 \in 0..m /\ 6 + 0 = 6 /\ SubSeq(words, 1, 0) = <<>>
    BY <1>1, <1>14, SubSeqEmpty
  <2> QED
    BY <1>13, <2>1
<1>16. ASSUME NEW j \in 0..m - 1, j \in There PROVE j + 1 \in There
  <2> DEFINE k == 6 + j
  <2>1. k \in 0..n - 1 /\ j + 1 \in 1..m /\ j + 1 \in 0..m /\ k + 1 = 6 + (j + 1) /\ ~(k + 1 < 6)
    BY <1>1
  <2>2. Reads(steps[k], 6, name, both, SubSeq(words, 1, j)) /\ steps[k].separatorSeen
    BY <1>16
  <2> HIDE DEF k
  <2>3. /\ steps[k] \in Parses(argv) /\ k + 1 \in Nat
        /\ steps[k + 1] = ReadArgument(steps[k], argv, k + 1)
    BY <1>3, <2>1
  <2>4. Passes(argv, steps[k], k + 1)
    BY <2>1, <2>2 DEF Passes, Reads
  <2>5. argv[k + 1] = words[j + 1]
    BY <1>1, <2>1
  <2>6. /\ Reads(steps[k + 1], steps[k].next, steps[k].command, steps[k].flags,
                 Append(steps[k].positionals, words[j + 1]))
        /\ steps[k + 1].separatorSeen = steps[k].separatorSeen
    BY <2>3, <2>4, <2>5, WordRead
  <2>7. Append(SubSeq(words, 1, j), words[j + 1]) = SubSeq(words, 1, j + 1)
    <3> DEFINE T == ToSet(words)
               part == SubSeq(words, 1, j)
               more == SubSeq(words, 1, j + 1)
               added == Append(part, words[j + 1])
    <3>1. words \in Seq(T) /\ m = Len(words) /\ j \in Nat /\ j + 1 \in Nat
          /\ words[j + 1] \in T
      BY <1>1, <1>14, <2>1, ElementOfSeq DEF m
    <3>2. /\ 1 \in 1..Len(words) + 1 /\ j \in 1 - 1..Len(words)
          /\ j + 1 \in 1 - 1..Len(words)
          /\ \A i \in 1..j : i \in 1..j + 1 /\ 1 + i - 1 = i
          /\ \A i \in 1..j + 1 : 1 + i - 1 = i /\ (i \in 1..j \/ i = j + 1)
          /\ j - 1 + 1 = j /\ (j + 1) - 1 + 1 = j + 1
          /\ (1 <= j \/ j = 0) /\ 1 <= j + 1
      BY <1>1, <2>1, <3>1
    <3> HIDE DEF T
    <3>3. /\ part \in Seq(T) /\ Len(part) = j /\ \A i \in 1..j : part[i] = words[i]
      BY <3>1, <3>2, SubSeqProperties
    <3>4. /\ more \in Seq(T) /\ Len(more) = j + 1 /\ \A i \in 1..j + 1 : more[i] = words[i]
      BY <3>1, <3>2, SubSeqProperties
    <3> HIDE DEF part, more
    <3>5. /\ added \in Seq(T) /\ Len(added) = j + 1
          /\ \A i \in 1..j : added[i] = part[i] /\ added[j + 1] = words[j + 1]
          /\ added[j + 1] = words[j + 1]
      BY <3>1, <3>3, AppendProperties
    <3> HIDE DEF added
    <3>6. \A i \in 1..j + 1 : added[i] = more[i]
      BY <3>2, <3>3, <3>4, <3>5
    <3>7. added = more
      BY <3>4, <3>5, <3>6, SeqEqual
    <3> QED
      BY <3>7 DEF added, more, part
  <2>8. Reads(steps[k + 1], 6, name, both, SubSeq(words, 1, j + 1)) /\ steps[k + 1].separatorSeen
    BY <2>2, <2>6, <2>7 DEF Reads
  <2>9. Good(j + 1)
    BY <2>1, <2>8
  <2> QED
    BY <2>1, <2>9
<1>17. Reads(steps[n], 6, name, both, words) /\ steps[n].separatorSeen
  <2>1. m \in There
    <3> HIDE DEF There
    <3>1. \A j \in 0..m : j \in There
      BY <1>1, <1>15, <1>16, Climb
    <3>2. m \in 0..m
      BY <1>1
    <3> QED
      BY <3>1, <3>2
  <2>2. SubSeq(words, 1, m) = words
    BY <1>14, SubSeqFull DEF m
  <2>3. Good(m)
    BY <2>1
  <2>4. n = 6 + m
    BY <1>1
  <2> QED
    BY <2>2, <2>3, <2>4
<1>18. name = "run" /\ both = WithFlag(WithFlag(<<>>, "policy", file), "profile", id)
  <2>1. \A text : Word(text).text = text /\ Flag(text).text = text
    BY DEF Word, Flag
  <2> QED
    BY <1>1, <2>1 DEF name, one, both
<1>19. /\ DOMAIN both = {"policy", "profile"} /\ both["policy"] = file /\ both["profile"] = id
  <2>1. DOMAIN WithFlag(<<>>, "policy", file) = {"policy"}
        /\ WithFlag(<<>>, "policy", file)["policy"] = file
    BY DEF WithFlag
  <2> DEFINE first == WithFlag(<<>>, "policy", file)
  <2> HIDE DEF first
  <2>2. /\ DOMAIN WithFlag(first, "profile", id) = DOMAIN first \cup {"profile"}
        /\ WithFlag(first, "profile", id)["profile"] = id
        /\ "policy" \in DOMAIN first => WithFlag(first, "profile", id)["policy"] = first["policy"]
    BY DEF WithFlag
  <2> QED
    BY <1>18, <2>1, <2>2 DEF first
<1> HIDE DEF name, both
<1> QED
  BY <1>2, <1>17, <1>18, <1>19 DEF Reads, argv

\* Two lists behind each other can be taken apart again.
LEMMA ConcatCut ==
  ASSUME NEW T, NEW one \in Seq(T), NEW two \in Seq(T)
  PROVE  /\ one \o two \in Seq(T) /\ Len(one \o two) = Len(one) + Len(two)
         /\ Len(one) \in Nat /\ Len(two) \in Nat
         /\ SubSeq(one \o two, 1, Len(one)) = one
         /\ SubSeq(one \o two, Len(one) + 1, Len(one \o two)) = two
<1> DEFINE m == Len(one)
           n == Len(two)
           all == one \o two
           a == SubSeq(all, 1, m)
           b == SubSeq(all, m + 1, m + n)
<1>1. m \in Nat /\ n \in Nat
  BY LenProperties
<1>2. /\ all \in Seq(T) /\ Len(all) = m + n
      /\ \A i \in 1..m + n : all[i] = IF i <= m THEN one[i] ELSE two[i - m]
  BY ConcatProperties, Zenon
<1>3. \A i \in 1..m + n : all[i] \in T
  BY <1>2, ElementOfSeq
<1> HIDE DEF m, n, all
<1>4. a = one
  <2>1. /\ 1 \in Int /\ m \in Int /\ m - 1 + 1 = m /\ (IF 1 <= m THEN m - 1 + 1 ELSE 0) = m
        /\ \A i \in 1..m : i \in 1..m + n /\ i <= m /\ 1 + i - 1 = i
    BY <1>1
  <2>2. a \in Seq(T) /\ Len(a) = m /\ \A i \in 1..m : a[i] = all[i]
    BY <1>3, <2>1, SubSeqProperties
  <2> HIDE DEF a
  <2>3. \A i \in 1..m : a[i] = one[i]
    BY <1>2, <2>1, <2>2
  <2> QED
    BY <2>2, <2>3, SeqEqual DEF m
<1>5. b = two
  <2>1. /\ m + 1 \in Int /\ m + n \in Int /\ (m + n) - (m + 1) + 1 = n
        /\ (IF m + 1 <= m + n THEN (m + n) - (m + 1) + 1 ELSE 0) = n
        /\ \A i \in m + 1..m + n : i \in 1..m + n
        /\ \A i \in 1..n : (m + 1) + i - 1 = m + i /\ m + i \in 1..m + n /\ ~(m + i <= m)
                           /\ (m + i) - m = i
    BY <1>1
  <2>2. b \in Seq(T) /\ Len(b) = n /\ \A i \in 1..n : b[i] = all[m + i]
    BY <1>3, <2>1, SubSeqProperties
  <2> HIDE DEF b
  <2>3. \A i \in 1..n : b[i] = two[i]
    BY <1>2, <2>1, <2>2
  <2> QED
    BY <2>2, <2>3, SeqEqual DEF n
<1> QED
  BY <1>1, <1>2, <1>4, <1>5 DEF m, n, all

FirstSeparator(words) == SelectInSeq(words, LAMBDA word : word = Separator)
NoSeparator(words) == \A i \in 1..Len(words) : words[i] # Separator

\* The first separator is the one before which there is none.
LEMMA SeparatorFound ==
  ASSUME NEW T, NEW one \in Seq(T), NEW two \in Seq(T), Separator \in T, NoSeparator(one)
  PROVE  FirstSeparator((one \o <<Separator>>) \o two) = Len(one) + 1
<1> DEFINE m == Len(one)
           n == Len(two)
           sep == <<Separator>>
           all == (one \o sep) \o two
           I == {i \in 1..Len(all) : all[i] = Separator}
<1>1. m \in Nat /\ n \in Nat /\ sep \in Seq(T) /\ Len(sep) = 1 /\ sep[1] = Separator
  BY LenProperties
<1> HIDE DEF m, n, sep
<1>2. /\ one \o sep \in Seq(T) /\ Len(one \o sep) = m + 1
      /\ \A i \in 1..m + 1 : (one \o sep)[i] = IF i <= m THEN one[i] ELSE sep[i - m]
  <2>1. /\ one \o sep \in Seq(T) /\ Len(one \o sep) = m + Len(sep)
        /\ \A i \in 1..m + Len(sep) : (one \o sep)[i] = IF i <= m THEN one[i] ELSE sep[i - m]
    BY <1>1, ConcatProperties, Zenon DEF m
  <2> QED
    BY <1>1, <2>1
<1> DEFINE head == one \o sep
<1> HIDE DEF head
<1>3. /\ all \in Seq(T) /\ Len(all) = (m + 1) + n
      /\ \A i \in 1..(m + 1) + n : all[i] = IF i <= m + 1 THEN head[i] ELSE two[i - (m + 1)]
  <2>1. /\ head \o two \in Seq(T) /\ Len(head \o two) = Len(head) + n
        /\ \A i \in 1..Len(head) + n :
             (head \o two)[i] = IF i <= Len(head) THEN head[i] ELSE two[i - Len(head)]
    BY <1>2, ConcatProperties, Zenon DEF head, n
  <2>2. Len(head) = m + 1 /\ all = head \o two
    BY <1>2 DEF head
  <2> HIDE DEF all
  <2> QED
    BY <2>1, <2>2
<1> HIDE DEF all
<1>4. FirstSeparator((one \o <<Separator>>) \o two) = IF I # {} THEN Min(I) ELSE 0
  BY DEF FirstSeparator, SelectInSeq, all, sep
<1>5. m + 1 \in I
  <2>1. m + 1 \in 1..(m + 1) + n /\ m + 1 \in 1..m + 1 /\ ~(m + 1 <= m) /\ (m + 1) - m = 1
        /\ m + 1 <= m + 1
    BY <1>1
  <2>2. head[m + 1] = Separator
    BY <1>1, <1>2, <2>1 DEF head
  <2> QED
    BY <1>3, <2>1, <2>2
<1>6. ASSUME NEW i \in I PROVE m + 1 <= i
  <2> SUFFICES ASSUME ~(m + 1 <= i) PROVE FALSE
    OBVIOUS
  <2>1. /\ i \in 1..(m + 1) + n /\ i \in 1..m + 1 /\ i <= m + 1 /\ i <= m /\ i \in 1..m
    BY <1>1, <1>3
  <2>2. all[i] = one[i]
    BY <1>2, <1>3, <2>1 DEF head
  <2> QED
    BY <2>1, <2>2 DEF NoSeparator, m
<1>7. Min(I) = m + 1
  <2>1. Min(I) \in I
    <3>1. (m + 1) + n \in Nat /\ I \in SUBSET (1..(m + 1) + n)
      BY <1>1, <1>3
    <3> HIDE DEF I
    <3> QED
      BY <1>5, <3>1, LeastPlace
  <2>2. \E x \in I : \A y \in I : x <= y
    BY <1>5, <1>6
  <2>3. \A y \in I : Min(I) <= y
    <3> HIDE DEF I
    <3> QED
      BY <2>2 DEF Min
  <2>4. Min(I) <= m + 1 /\ m + 1 <= Min(I) /\ Min(I) \in Nat
    <3>1. m + 1 <= Min(I)
      BY <1>6, <2>1
    <3>2. Min(I) <= m + 1
      BY <1>5, <2>3
    <3>3. Min(I) \in Nat
      BY <1>3, <2>1
    <3> QED
      BY <3>1, <3>2, <3>3
  <2> QED
    BY <1>1, <2>4
<1> QED
  BY <1>4, <1>5, <1>7 DEF m

\* A list of one is a list, and one whose element is no separator has none.
LEMMA OneWord ==
  ASSUME NEW T, NEW w \in T
  PROVE  /\ <<w>> \in Seq(T) /\ Len(<<w>>) = 1 /\ <<w>>[1] = w
         /\ w # Separator => NoSeparator(<<w>>)
<1>1. <<w>> \in Seq(T) /\ Len(<<w>>) = 1 /\ <<w>>[1] = w
  OBVIOUS
<1>2. \A i \in 1..1 : i = 1
  OBVIOUS
<1> QED
  BY <1>1, <1>2 DEF NoSeparator

\* Codex keeps what is behind the first separator.
LEMMA BehindSeparator ==
  ASSUME NEW T, NEW one \in Seq(T), NEW rest \in Seq(T), Separator \in T, NoSeparator(one)
  PROVE  LET args == (one \o <<Separator>>) \o rest
         IN  SubSeq(args, FirstSeparator(args) + 1, Len(args)) = rest
<1> DEFINE head == one \o <<Separator>>
<1>1. /\ head \in Seq(T) /\ Len(head) = Len(one) + 1
  BY OneWord, ConcatCut
<1>2. FirstSeparator(head \o rest) = Len(head)
  BY <1>1, SeparatorFound
<1> HIDE DEF head
<1>3. SubSeq(head \o rest, Len(head) + 1, Len(head \o rest)) = rest
  BY <1>1, ConcatCut
<1> QED
  BY <1>2, <1>3 DEF head

\* No separator is added by a word that is none.
LEMMA StillNoSeparator ==
  ASSUME NEW T, NEW w \in T, w # Separator, NEW one \in Seq(T), NoSeparator(one)
  PROVE  NoSeparator(<<w>> \o one)
<1> DEFINE m == Len(one)
           both == <<w>> \o one
<1>1. m \in Nat
  BY LenProperties
<1>2. /\ Len(both) = 1 + m
      /\ \A i \in 1..1 + m : both[i] = IF i <= 1 THEN <<w>>[i] ELSE one[i - 1]
  <2>1. <<w>> \in Seq(T) /\ Len(<<w>>) = 1
    BY OneWord
  <2>2. /\ Len(<<w>> \o one) = Len(<<w>>) + Len(one)
        /\ \A i \in 1..Len(<<w>>) + Len(one) :
             (<<w>> \o one)[i] = IF i <= Len(<<w>>) THEN <<w>>[i] ELSE one[i - Len(<<w>>)]
    BY <2>1, ConcatProperties, Zenon
  <2> HIDE DEF both
  <2> QED
    BY <2>1, <2>2 DEF both
<1> HIDE DEF m, both
<1>3. \A i \in 1..1 + m : (i <= 1 /\ i = 1) \/ (~(i <= 1) /\ i - 1 \in 1..m)
  BY <1>1
<1>4. \A i \in 1..m : one[i] # Separator
  BY DEF NoSeparator, m
<1>5. \A i \in 1..1 + m : both[i] # Separator
  BY <1>2, <1>3, <1>4
<1> QED
  BY <1>2, <1>5 DEF NoSeparator, both

TakenOut(seven, w, p) ==
  LET args == seven \o (<<w>> \o InsertAt(p, FirstSeparator(p), Separator))
      kept == SubSeq(args, 8, Len(args))
  IN  RemoveAt(kept, FirstSeparator(kept)) = <<w>> \o p

\* The separator that is put in for Gemini is the one that Gemini takes out.
LEMMA SeparatorTakenOut ==
  ASSUME NEW T, NEW seven \in Seq(T), Len(seven) = 7, NEW w \in T, w # Separator,
         NEW five \in Seq(T), NoSeparator(five), Separator \in T, NEW q \in Seq(T)
  PROVE  TakenOut(seven, w, (five \o <<Separator>>) \o q)
<1> DEFINE sep == <<Separator>>
           first == five \o sep
           p == first \o q
           more == sep \o q
           ins == InsertAt(p, FirstSeparator(p), Separator)
           mine == <<w>> \o five
           kept == (mine \o sep) \o more
           args == seven \o (<<w>> \o ins)
<1>0. \A a, b \in Seq(T) : SubSeq(a \o b, Len(a) + 1, Len(a \o b)) = b
  BY ConcatCut
<1>1. /\ sep \in Seq(T) /\ Len(sep) = 1 /\ <<w>> \in Seq(T) /\ Len(<<w>>) = 1
  BY OneWord
<1>2. FirstSeparator(p) = Len(five) + 1
  BY SeparatorFound
<1> HIDE DEF sep
<1>3. /\ first \in Seq(T) /\ Len(first) = Len(five) + 1 /\ Len(five) \in Nat
      /\ more \in Seq(T) /\ Len(more) = 1 + Len(q) /\ Len(q) \in Nat
  <2>1. first \in Seq(T) /\ Len(first) = Len(five) + Len(sep) /\ Len(five) \in Nat
    BY <1>1, ConcatCut
  <2>2. more \in Seq(T) /\ Len(more) = Len(sep) + Len(q) /\ Len(q) \in Nat
    BY <1>1, ConcatCut
  <2> HIDE DEF first, more
  <2> QED
    BY <1>1, <2>1, <2>2
<1>4. p \in Seq(T) /\ p = five \o more /\ Len(p) = Len(five) + Len(more)
  <2>1. first \o q = five \o (sep \o q)
    BY <1>1, ConcatAssociative
  <2>2. p = five \o more
    BY <2>1
  <2> HIDE DEF p, more
  <2> QED
    BY <1>3, <2>2, ConcatCut
<1>5. SubSeq(p, 1, Len(five)) = five /\ SubSeq(p, Len(five) + 1, Len(p)) = more
  <2> HIDE DEF p, more
  <2> QED
    BY <1>3, <1>4, ConcatCut
<1>6. ins = first \o more
  <2> DEFINE n == Len(five)
  <2>1. n + 1 - 1 = n
    BY <1>3
  <2>2. InsertAt(p, n + 1, Separator)
          = SubSeq(p, 1, (n + 1) - 1) \o <<Separator>> \o SubSeq(p, n + 1, Len(p))
    BY DEF InsertAt
  <2> HIDE DEF p, n
  <2>3. SubSeq(p, 1, (n + 1) - 1) = five /\ SubSeq(p, n + 1, Len(p)) = more
    BY <1>5, <2>1 DEF n
  <2>4. InsertAt(p, n + 1, Separator) = five \o sep \o more
    BY <2>2, <2>3, Zenon DEF sep
  <2>5. ins = InsertAt(p, n + 1, Separator)
    BY <1>2, Zenon DEF p, n
  <2> QED
    BY <2>4, <2>5, Zenon DEF first
<1>7. mine \in Seq(T) /\ Len(mine) = 1 + Len(five) /\ NoSeparator(mine)
      /\ mine \o sep \in Seq(T) /\ Len(mine \o sep) = Len(mine) + 1
  <2>1. mine \in Seq(T) /\ Len(mine) = 1 + Len(five)
    BY <1>1, ConcatCut
  <2>2. NoSeparator(mine)
    BY StillNoSeparator
  <2> HIDE DEF mine
  <2>3. mine \o sep \in Seq(T) /\ Len(mine \o sep) = Len(mine) + Len(sep)
    BY <1>1, <2>1, ConcatCut
  <2> QED
    BY <1>1, <2>1, <2>2, <2>3
<1>8. <<w>> \o ins = kept
  <2>1. <<w>> \o (first \o more) = (<<w>> \o first) \o more
    BY <1>1, <1>3, ConcatAssociative
  <2>2. <<w>> \o (five \o sep) = (<<w>> \o five) \o sep
    BY <1>1, ConcatAssociative
  <2> HIDE DEF ins, more
  <2> QED
    BY <1>6, <2>1, <2>2
<1>9. kept \in Seq(T) /\ FirstSeparator(kept) = Len(mine) + 1
  <2> HIDE DEF mine
  <2>1. FirstSeparator((mine \o <<Separator>>) \o more) = Len(mine) + 1
    <3> HIDE DEF more
    <3> QED
      BY <1>3, <1>7, SeparatorFound
  <2> HIDE DEF more
  <2>2. kept \in Seq(T)
    BY <1>3, <1>7, ConcatCut
  <2> QED
    BY <2>1, <2>2 DEF sep
<1>10. SubSeq(args, 8, Len(args)) = kept
  <2> HIDE DEF ins, kept
  <2>1. args = seven \o kept
    BY <1>8, Zenon
  <2>2. SubSeq(seven \o kept, Len(seven) + 1, Len(seven \o kept)) = kept
    BY <1>0, <1>9
  <2>3. 7 + 1 = 8
    OBVIOUS
  <2> HIDE DEF args
  <2> QED
    BY <2>1, <2>2, <2>3
<1>11. RemoveAt(kept, Len(mine) + 1) = <<w>> \o p
  <2> DEFINE n == Len(mine)
             head == mine \o sep
  <2> HIDE DEF mine, more
  <2>1. n \in Nat /\ n + 1 - 1 = n /\ Len(head) = n + 1 /\ n + 1 + 1 = Len(head) + 1
    BY <1>3, <1>7
  <2>2. kept = mine \o (sep \o more)
    BY <1>1, <1>3, <1>7, ConcatAssociative
  <2>3. sep \o more \in Seq(T)
    BY <1>1, <1>3, ConcatCut
  <2>4. SubSeq(kept, 1, n) = mine
    BY <1>7, <2>2, <2>3, ConcatCut
  <2> HIDE DEF head
  <2>5. head \in Seq(T)
    BY <1>7 DEF head
  <2>6. SubSeq(head \o more, Len(head) + 1, Len(head \o more)) = more
    BY <1>0, <1>3, <2>5
  <2>7. SubSeq(kept, n + 1 + 1, Len(kept)) = more
    BY <2>1, <2>6 DEF head
  <2>8. RemoveAt(kept, n + 1) = SubSeq(kept, 1, (n + 1) - 1) \o SubSeq(kept, n + 1 + 1, Len(kept))
    BY DEF RemoveAt
  <2> HIDE DEF kept, n
  <2>9. RemoveAt(kept, n + 1) = mine \o more
    <3> DEFINE a == SubSeq(kept, 1, n)
               b == SubSeq(kept, n + 1 + 1, Len(kept))
    <3>1. (n + 1) - 1 = n
      BY <2>1
    <3>2. RemoveAt(kept, n + 1) = a \o b
      BY <2>8, <3>1
    <3>3. a = mine /\ b = more
      BY <2>4, <2>7
    <3> HIDE DEF a, b
    <3> QED
      BY <3>2, <3>3, Zenon
  <2>10. mine \o more = <<w>> \o (five \o more)
    BY <1>1, <1>3, ConcatAssociative DEF mine
  <2> QED
    BY <1>4, <2>9, <2>10 DEF n
<1> HIDE DEF p, ins, kept, mine
<1>12. SubSeq(args, 8, Len(args)) = kept /\ RemoveAt(kept, FirstSeparator(kept)) = <<w>> \o p
  BY <1>9, <1>10, <1>11
<1> QED
  BY <1>12 DEF TakenOut, p, ins, first, sep

\* What `run` is told, as far as its separator.
ProxyFlags(file, id) ==
  <<Word("run"), Flag("policy"), Word(file), Flag("profile"), Word(id)>>

\* A list with one more, written out.
LEMMA TwoWords ==
  ASSUME NEW T, NEW x \in T, NEW y \in T
  PROVE  <<x>> \o <<y>> = <<x, y>>
<1> DEFINE one == <<x>>
           two == <<y>>
           both == one \o two
           pair == <<x, y>>
<1>1. /\ one \in Seq(T) /\ two \in Seq(T) /\ Len(one) = 1 /\ Len(two) = 1
      /\ one[1] = x /\ two[1] = y
  OBVIOUS
<1>2. pair \in Seq(T) /\ Len(pair) = 2 /\ pair[1] = x /\ pair[2] = y
  OBVIOUS
<1> HIDE DEF one, two, pair
<1>3. /\ both \in Seq(T) /\ Len(both) = Len(one) + Len(two)
      /\ \A i \in 1..Len(one) + Len(two) :
           both[i] = IF i <= Len(one) THEN one[i] ELSE two[i - Len(one)]
  BY <1>1, ConcatProperties, Zenon
<1> HIDE DEF both
<1>4. Len(both) = 2 /\ \A i \in 1..2 : both[i] = IF i <= 1 THEN one[i] ELSE two[i - 1]
  BY <1>1, <1>3
<1>5. both[1] = x /\ both[2] = y
  BY <1>1, <1>4
<1>6. \A i \in 1..2 : i = 1 \/ i = 2
  OBVIOUS
<1>7. \A i \in 1..2 : both[i] = pair[i]
  BY <1>2, <1>5, <1>6
<1>8. both = pair
  BY <1>2, <1>3, <1>4, <1>7, SeqEqual
<1> QED
  BY <1>8 DEF both, pair, one, two

\* And one of five words with a sixth.
LEMMA SixWords ==
  ASSUME NEW T, NEW a \in T, NEW b \in T, NEW c \in T, NEW d \in T, NEW e \in T, NEW f \in T
  PROVE  <<a, b, c, d, e>> \o <<f>> = <<a, b, c, d, e, f>>
<1> DEFINE five == <<a, b, c, d, e>>
           last == <<f>>
           all == five \o last
           six == <<a, b, c, d, e, f>>
<1>1. /\ five \in Seq(T) /\ last \in Seq(T)
  OBVIOUS
<1>2. Len(five) = 5 /\ Len(last) = 1 /\ last[1] = f
  OBVIOUS
<1>3. five[1] = a /\ five[2] = b /\ five[3] = c /\ five[4] = d /\ five[5] = e
  OBVIOUS
<1>4. six \in Seq(T)
  OBVIOUS
<1>5. /\ Len(six) = 6 /\ six[1] = a /\ six[2] = b /\ six[3] = c /\ six[4] = d /\ six[5] = e
      /\ six[6] = f
  OBVIOUS
<1> HIDE DEF five, last, six
<1>6. /\ all \in Seq(T) /\ Len(all) = Len(five) + Len(last)
      /\ \A i \in 1..Len(five) + Len(last) :
           all[i] = IF i <= Len(five) THEN five[i] ELSE last[i - Len(five)]
  BY <1>1, ConcatProperties, Zenon
<1> HIDE DEF all
<1>7. Len(all) = 6 /\ \A i \in 1..6 : all[i] = IF i <= 5 THEN five[i] ELSE last[i - 5]
  BY <1>2, <1>6
<1>8. /\ all[1] = a /\ all[2] = b /\ all[3] = c /\ all[4] = d /\ all[5] = e /\ all[6] = f
  BY <1>2, <1>3, <1>7
<1>9. \A i \in 1..6 : i = 1 \/ i = 2 \/ i = 3 \/ i = 4 \/ i = 5 \/ i = 6
  OBVIOUS
<1>10. \A i \in 1..6 : all[i] = six[i]
  BY <1>5, <1>8, <1>9
<1>11. all = six
  BY <1>4, <1>5, <1>6, <1>7, <1>10, SeqEqual
<1> QED
  BY <1>11 DEF all, six, five, last

\* There is one separator in what `run` is told, and it comes last.
LEMMA ToldBeforeSeparator ==
  ASSUME NEW T, NEW file, NEW id, Separator \in T,
         {Word("run"), Flag("policy"), Word(file), Flag("profile"), Word(id)} \subseteq T
  PROVE  /\ ProxyFlags(file, id) \in Seq(T) /\ NoSeparator(ProxyFlags(file, id))
         /\ ProxyArguments(file, id) = ProxyFlags(file, id) \o <<Separator>>
<1> DEFINE a == Word("run")
           b == Flag("policy")
           c == Word(file)
           d == Flag("profile")
           e == Word(id)
           five == <<a, b, c, d, e>>
<1>1. a \in T /\ b \in T /\ c \in T /\ d \in T /\ e \in T
  OBVIOUS
<1>2. /\ a # Separator /\ b # Separator /\ c # Separator /\ d # Separator /\ e # Separator
  BY DEF Word, Flag, Separator
<1>3. ProxyFlags(file, id) = five /\ ProxyArguments(file, id) = <<a, b, c, d, e, Separator>>
  BY DEF ProxyFlags, ProxyArguments
<1> HIDE DEF a, b, c, d, e
<1>4. /\ five \in Seq(T) /\ Len(five) = 5
      /\ five[1] = a /\ five[2] = b /\ five[3] = c /\ five[4] = d /\ five[5] = e
  <2>1. five \in Seq(T)
    BY <1>1
  <2>2. Len(five) = 5
    OBVIOUS
  <2>3. five[1] = a /\ five[2] = b /\ five[3] = c /\ five[4] = d /\ five[5] = e
    OBVIOUS
  <2> QED
    BY <2>1, <2>2, <2>3
<1>5. five \o <<Separator>> = <<a, b, c, d, e, Separator>>
  BY <1>1, SixWords
<1> HIDE DEF five
<1>6. \A i \in 1..5 : i = 1 \/ i = 2 \/ i = 3 \/ i = 4 \/ i = 5
  OBVIOUS
<1>7. NoSeparator(five)
  BY <1>2, <1>4, <1>6 DEF NoSeparator
<1> QED
  BY <1>3, <1>4, <1>5, <1>7

\* What a host starts is what is before the upstream and the upstream's command.
LEMMA HostStarts ==
  ASSUME NEW given, IsList(given.positionals),
         given.flags["target"] \in HostTarget \cup {"stdio-json"}
  PROVE  HostInvocation(given.flags["target"], Descriptor(given))
           = <<Word(Value(given, "proxy-command", "mcp-security-proxy"))>>
               \o (ProxyArguments(given.flags["policy"], given.flags["profile"])
                     \o given.positionals)
<1> DEFINE target == given.flags["target"]
           file == given.flags["policy"]
           id == given.flags["profile"]
           name == given.flags["name"]
           proxy == Value(given, "proxy-command", "mcp-security-proxy")
           q == given.positionals
           w == Word(proxy)
           five == ProxyFlags(file, id)
           p == (five \o <<Separator>>) \o q
           d == Descriptor(given)
           told == {Word("run"), Flag("policy"), Word(file), Flag("profile"), Word(id)}
           host == {Word("mcp"), Word("add"), Word(name), Flag("scope"), Word("project"),
                    Flag("transport"), Word("stdio")}
           T == ((ToSet(q) \cup told) \cup host) \cup {Separator, w}
<1>1. Separator \in T /\ w \in T /\ told \subseteq T /\ host \subseteq T
  OBVIOUS
<1>2. q \in Seq(T)
  BY ListDomain, SeqMonotonic
<1>3. w # Separator
  BY DEF Word, Flag, Separator
<1> HIDE DEF T, w
<1>4. /\ five \in Seq(T) /\ NoSeparator(five)
      /\ ProxyArguments(file, id) = five \o <<Separator>>
  BY <1>1, ToldBeforeSeparator
<1>5. RunArguments(given) \o q = p /\ ProxyArguments(file, id) \o q = p
  BY <1>4 DEF RunArguments, ProxyArguments
<1>6. <<Separator>> \in Seq(T) /\ <<w>> \in Seq(T) /\ <<Word(name)>> \in Seq(T)
  BY <1>1, OneWord
<1> HIDE DEF five
<1>7. p \in Seq(T)
  <2>1. five \o <<Separator>> \in Seq(T)
    BY <1>4, <1>6, ConcatCut
  <2> QED
    BY <1>2, <2>1, ConcatCut
<1>8. CASE target = "stdio-json"
  <2>1. d = [command |-> proxy, args |-> p]
    BY <1>5, <1>8 DEF Descriptor
  <2>2. HostInvocation(target, d) = <<Word(d.command)>> \o d.args
    BY <1>8 DEF HostInvocation
  <2>3. d.command = proxy /\ d.args = p
    <3> HIDE DEF d, p, proxy
    <3> QED
      BY <2>1
  <2>4. HostInvocation(target, d) = <<w>> \o p
    <3> HIDE DEF d, p, proxy
    <3> QED
      BY <2>2, <2>3, Zenon DEF w
  <2> QED
    BY <1>5, <2>4, Zenon DEF w
<1>9. CASE target = "codex-cli-json"
  <2> DEFINE texts == <<"mcp", "add", name>>
             one == Words(texts)
             two == <<Separator, w>>
             args == (one \o two) \o p
             codex == Value(given, "codex-command", "codex")
  <2>1. d = [command |-> codex, args |-> args]
    BY <1>5, <1>9 DEF Descriptor, w
  <2>2. HostInvocation(target, d)
          = SubSeq(d.args, FirstSeparator(d.args) + 1, Len(d.args))
    BY <1>9 DEF HostInvocation, FirstSeparator
  <2>3. d.args = args
    <3> HIDE DEF d, args, codex
    <3> QED
      BY <2>1
  <2>4. one \in Seq(T) /\ NoSeparator(one)
    <3>1. one = <<Word("mcp"), Word("add"), Word(name)>>
      BY DEF Words
    <3> DEFINE x == Word("mcp")
               y == Word("add")
               z == Word(name)
    <3>2. x \in T /\ y \in T /\ z \in T
      BY <1>1
    <3>3. x # Separator /\ y # Separator /\ z # Separator
      BY DEF Word, Flag, Separator
    <3> HIDE DEF one, x, y, z
    <3>4. /\ one \in Seq(T) /\ Len(one) = 3 /\ one[1] = x /\ one[2] = y /\ one[3] = z
      BY <3>1, <3>2 DEF x, y, z
    <3>5. \A i \in 1..3 : i = 1 \/ i = 2 \/ i = 3
      OBVIOUS
    <3> QED
      BY <3>3, <3>4, <3>5 DEF NoSeparator
  <2>5. two = <<Separator>> \o <<w>>
    BY <1>1, TwoWords, Zenon
  <2> HIDE DEF one, p, d
  <2>6. args = (one \o <<Separator>>) \o (<<w>> \o p)
    <3>1. two \o p = <<Separator>> \o (<<w>> \o p)
      BY <1>6, <1>7, <2>5, ConcatAssociative
    <3>2. two \in Seq(T) /\ <<w>> \o p \in Seq(T)
      BY <1>6, <1>7, <2>5, ConcatCut
    <3> HIDE DEF two
    <3>3. (one \o two) \o p = one \o (two \o p)
      BY <1>7, <2>4, <3>2, ConcatAssociative
    <3>4. one \o (<<Separator>> \o (<<w>> \o p)) = (one \o <<Separator>>) \o (<<w>> \o p)
      BY <1>6, <2>4, <3>2, ConcatAssociative
    <3> QED
      BY <3>1, <3>3, <3>4
  <2>7. <<w>> \o p \in Seq(T)
    BY <1>6, <1>7, ConcatCut
  <2> DEFINE rest == <<w>> \o p
  <2> HIDE DEF args, rest
  <2>8. SubSeq(args, FirstSeparator(args) + 1, Len(args)) = rest
    BY <1>1, <2>4, <2>6, <2>7, BehindSeparator DEF rest
  <2>9. HostInvocation(target, d) = <<w>> \o p
    BY <2>2, <2>3, <2>8, Zenon DEF rest
  <2> QED
    BY <1>5, <2>9, Zenon DEF p, d, w
<1>10. CASE target = "gemini-cli-json"
  <2> DEFINE flags == <<Flag("scope"), Word("project"), Flag("transport"), Word("stdio")>>
             texts == <<"mcp", "add">>
             one == Words(texts)
             two == <<Word(name), w>>
             ins == InsertAt(p, FirstSeparator(p), Separator)
             args == ((one \o flags) \o two) \o ins
             seven == (one \o flags) \o <<Word(name)>>
             kept == SubSeq(args, 8, Len(args))
             gemini == Value(given, "gemini-command", "gemini")
  <2>1. d = [command |-> gemini, args |-> args]
    BY <1>5, <1>10 DEF Descriptor, FirstSeparator, w
  <2>2. HostInvocation(target, d)
          = LET k == SubSeq(d.args, 8, Len(d.args)) IN RemoveAt(k, FirstSeparator(k))
    BY <1>10 DEF HostInvocation, FirstSeparator
  <2>3. d.args = args
    <3> HIDE DEF d, args, gemini
    <3> QED
      BY <2>1
  <2>4. one \in Seq(T) /\ Len(one) = 2
    <3>1. one = <<Word("mcp"), Word("add")>>
      BY DEF Words
    <3> DEFINE x == Word("mcp")
               y == Word("add")
    <3>2. x \in T /\ y \in T
      BY <1>1
    <3> HIDE DEF one, x, y
    <3> QED
      BY <3>1, <3>2 DEF x, y
  <2>5. flags \in Seq(T) /\ Len(flags) = 4
    <3> DEFINE x == Flag("scope")
               y == Word("project")
               z == Flag("transport")
               u == Word("stdio")
    <3>1. x \in T /\ y \in T /\ z \in T /\ u \in T
      BY <1>1
    <3>2. flags = <<x, y, z, u>>
      OBVIOUS
    <3> HIDE DEF flags, x, y, z, u
    <3> QED
      BY <3>1, <3>2
  <2> HIDE DEF one, flags, d
  <2>6. /\ one \o flags \in Seq(T) /\ Len(one \o flags) = 6
        /\ seven \in Seq(T) /\ Len(seven) = 7
    <3> DEFINE six == one \o flags
               last == <<Word(name)>>
    <3>0. six \in Seq(T) /\ Len(six) = Len(one) + Len(flags)
      BY <2>4, <2>5, ConcatCut
    <3> HIDE DEF six
    <3>1. six \in Seq(T) /\ Len(six) = 6
      BY <2>4, <2>5, <3>0
    <3>2. Len(last) = 1 /\ last \in Seq(T)
      BY <1>6
    <3> HIDE DEF last
    <3> DEFINE all == six \o last
    <3>3. all \in Seq(T) /\ Len(all) = Len(six) + Len(last)
      BY <3>1, <3>2, ConcatCut
    <3> HIDE DEF all
    <3>4. all \in Seq(T) /\ Len(all) = 7
      BY <3>1, <3>2, <3>3
    <3> QED
      BY <3>1, <3>4 DEF all, six, last
  <2>7. two = <<Word(name)>> \o <<w>>
    <3>1. Word(name) \in T
      BY <1>1
    <3> QED
      BY <1>1, <3>1, TwoWords, Zenon
  <2>8. (one \o flags) \o two = seven \o <<w>>
    BY <1>6, <2>6, <2>7, ConcatAssociative
  <2>9. ins \in Seq(T)
    <3> DEFINE k == Len(five)
               sep == <<Separator>>
               head == five \o sep
    <3>1. FirstSeparator(p) = k + 1
      BY <1>1, <1>2, <1>4, SeparatorFound
    <3>2. k \in Nat /\ head \in Seq(T) /\ Len(head) = k + 1
      BY <1>4, <1>6, ConcatCut
    <3>3. p \in Seq(T) /\ Len(p) = Len(head) + Len(q) /\ Len(q) \in Nat
      <4>1. head \o q \in Seq(T) /\ Len(head \o q) = Len(head) + Len(q) /\ Len(q) \in Nat
        <5> HIDE DEF head, q
        <5> QED
          BY <1>2, <3>2, ConcatCut
      <4> QED
        BY <4>1
    <3> HIDE DEF p, k, head
    <3> DEFINE a == SubSeq(p, 1, (k + 1) - 1)
               b == SubSeq(p, k + 1, Len(p))
    <3>4. \A i \in 1..Len(p) : p[i] \in T
      BY <3>3, ElementOfSeq
    <3>5. /\ 1 \in Int /\ (k + 1) - 1 \in Int /\ k + 1 \in Int /\ Len(p) \in Int
          /\ \A i \in 1..(k + 1) - 1 : i \in 1..Len(p)
          /\ \A i \in k + 1..Len(p) : i \in 1..Len(p)
      <4> DEFINE lp == Len(p)
                 lq == Len(q)
      <4>1. k \in Nat /\ lq \in Nat /\ lp = (k + 1) + lq
        BY <3>2, <3>3
      <4> HIDE DEF lp, lq
      <4>2. /\ 1 \in Int /\ (k + 1) - 1 \in Int /\ k + 1 \in Int /\ lp \in Int
            /\ \A i \in 1..(k + 1) - 1 : i \in 1..lp
            /\ \A i \in k + 1..lp : i \in 1..lp
        BY <4>1
      <4> QED
        BY <4>2 DEF lp
    <3>6. a \in Seq(T) /\ b \in Seq(T)
      BY <3>4, <3>5, SubSeqProperties
    <3>7. ins = a \o sep \o b
      BY <3>1 DEF InsertAt
    <3> HIDE DEF a, b, sep, ins
    <3>8. sep \in Seq(T)
      BY <1>6 DEF sep
    <3>9. a \o sep \in Seq(T)
      BY <3>6, <3>8, ConcatCut
    <3>10. (a \o sep) \o b \in Seq(T)
      BY <3>6, <3>9, ConcatCut
    <3> QED
      BY <3>7, <3>10
  <2> HIDE DEF ins, seven, two
  <2>10. args = seven \o (<<w>> \o ins)
    BY <1>6, <2>6, <2>8, <2>9, ConcatAssociative
  <2> HIDE DEF args
  <2>11. RemoveAt(kept, FirstSeparator(kept)) = <<w>> \o p
    <3> DEFINE whole == seven \o (<<w>> \o InsertAt(p, FirstSeparator(p), Separator))
               rest == SubSeq(whole, 8, Len(whole))
    <3>1. TakenOut(seven, w, p)
      BY <1>1, <1>2, <1>3, <1>4, <2>6, SeparatorTakenOut
    <3>2. args = whole
      BY <2>10, Zenon DEF ins
    <3> HIDE DEF whole
    <3>3. kept = rest
      BY <3>2, Zenon
    <3> HIDE DEF rest, kept
    <3> QED
      BY <3>1, <3>3, Zenon DEF TakenOut, whole, rest
  <2>12. HostInvocation(target, d) = RemoveAt(kept, FirstSeparator(kept))
    BY <2>2, <2>3
  <2>13. HostInvocation(target, d) = <<w>> \o p
    BY <2>11, <2>12, Zenon
  <2> QED
    BY <1>5, <2>13, Zenon DEF p, d, w
<1> QED
  BY <1>8, <1>9, <1>10 DEF HostTarget

\* A word in front of a list is its head, and the list its tail.
LEMMA WordInFront ==
  ASSUME NEW T, NEW w \in T, NEW s \in Seq(T)
  PROVE  Head(<<w>> \o s) = w /\ Tail(<<w>> \o s) = s
<1> DEFINE one == <<w>>
           all == one \o s
<1>1. one \in Seq(T) /\ Len(one) = 1 /\ one[1] = w /\ Len(s) \in Nat
  BY OneWord, LenProperties
<1> HIDE DEF one
<1>2. /\ all \in Seq(T) /\ Len(all) = Len(one) + Len(s)
      /\ SubSeq(all, Len(one) + 1, Len(all)) = s
  <2>1. \A a, b \in Seq(T) : /\ a \o b \in Seq(T) /\ Len(a \o b) = Len(a) + Len(b)
                           /\ SubSeq(a \o b, Len(a) + 1, Len(a \o b)) = b
    BY ConcatCut
  <2> QED
    BY <1>1, <2>1
<1>3. /\ \A i \in 1..Len(one) + Len(s) :
           all[i] = IF i <= Len(one) THEN one[i] ELSE s[i - Len(one)]
  BY <1>1, ConcatProperties, Zenon
<1> HIDE DEF all
<1>4. 1 \in 1..Len(one) + Len(s) /\ 1 <= Len(one) /\ Len(one) + 1 = 2 /\ Len(all) # 0
  BY <1>1, <1>2
<1>5. all[1] = w
  BY <1>1, <1>3, <1>4
<1>6. all # <<>>
  BY <1>4
<1>7. Head(all) = w
  BY <1>2, <1>5, <1>6, HeadTailProperties
<1>8. Tail(all) = SubSeq(all, 2, Len(all))
  BY <1>2, <1>6, TailIsSubSeq
<1> QED
  BY <1>2, <1>4, <1>7, <1>8 DEF all, one

IsSnippet(printed) == printed.says = "snippet"

\* What says anything else is no snippet.
LEMMA OtherAnswers ==
  /\ \A exit : ~IsSnippet(Failure(exit))
  /\ \A topic : ~IsSnippet(Success([says |-> "help", topic |-> topic]))
  /\ \A profiles : ~IsSnippet(Success([says |-> "policy ok", profiles |-> profiles]))
  /\ \A tools : ~IsSnippet(Success([says |-> "tools", tools |-> tools]))
  /\ \A decision : ~IsSnippet(Success([says |-> "decision", decision |-> decision]))
  /\ \A policy, profile, upstream, auditLog :
       ~IsSnippet(Success([says |-> "proxy", policy |-> policy, profile |-> profile,
                           upstream |-> upstream, auditLog |-> auditLog]))
  /\ \A descriptor :
       Success([says |-> "snippet", descriptor |-> descriptor]).descriptor = descriptor
<1>1. \A exit : ~IsSnippet(Failure(exit))
  BY DEF IsSnippet, Failure
<1>2. \A topic : ~IsSnippet(Success([says |-> "help", topic |-> topic]))
  BY DEF IsSnippet, Success
<1>3. \A profiles : ~IsSnippet(Success([says |-> "policy ok", profiles |-> profiles]))
  BY DEF IsSnippet, Success
<1>4. \A tools : ~IsSnippet(Success([says |-> "tools", tools |-> tools]))
  BY DEF IsSnippet, Success
<1>5. \A decision : ~IsSnippet(Success([says |-> "decision", decision |-> decision]))
  BY DEF IsSnippet, Success
<1>6. \A policy, profile, upstream, auditLog :
       ~IsSnippet(Success([says |-> "proxy", policy |-> policy, profile |-> profile,
                           upstream |-> upstream, auditLog |-> auditLog]))
  BY DEF IsSnippet, Success
<1>7. \A descriptor :
       Success([says |-> "snippet", descriptor |-> descriptor]).descriptor = descriptor
  BY DEF Success
<1> QED
  BY <1>1, <1>2, <1>3, <1>4, <1>5, <1>6, <1>7

\* A snippet is printed by config-snippet alone.
LEMMA SnippetPrinted ==
  ASSUME NEW argv, IsSnippet(RunCli(argv, Files, TRUE))
  PROVE  LET given == ParseArgs(argv)
             policy == PolicyAt(Files, given.flags["policy"])
         IN  /\ SnippetUsageOk(given)
             /\ PolicyOk(policy) /\ ProfileOf(policy, given.flags["profile"]) # Absent
             /\ RunCli(argv, Files, TRUE).descriptor = Descriptor(given)
<1> DEFINE given == ParseArgs(argv)
           policy == PolicyAt(Files, given.flags["policy"])
           printed == RunCli(argv, Files, TRUE)
<1>1. ~IsSnippet(RunProxy(given, Files))
  <2> DEFINE profile == ProfileOf(policy, given.flags["profile"])
             p == Success([says |-> "proxy", policy |-> policy, profile |-> profile.id,
                           upstream |-> given.positionals,
                           auditLog |-> Value(given, "audit-log", profile.audit.path)])
  <2>1. \/ RunProxy(given, Files) = Failure(2) \/ RunProxy(given, Files) = Failure(3)
        \/ RunProxy(given, Files) = p
    BY DEF RunProxy
  <2>2. ~IsSnippet(p)
    BY OtherAnswers
  <2> HIDE DEF p
  <2> QED
    BY <2>1, <2>2, OtherAnswers
<1>2. ~IsSnippet(CheckPolicy(given, Files))
  <2> DEFINE profiles == [i \in DOMAIN policy.profiles |-> policy.profiles[i].id]
  <2>1. \/ CheckPolicy(given, Files) = Failure(2) \/ CheckPolicy(given, Files) = Failure(3)
        \/ CheckPolicy(given, Files) = Success([says |-> "policy ok", profiles |-> profiles])
    BY DEF CheckPolicy
  <2> HIDE DEF profiles
  <2> QED
    BY <2>1, OtherAnswers
<1>3. ~IsSnippet(InspectTools(given, Files))
  <2>1. \/ InspectTools(given, Files) = Failure(2) \/ InspectTools(given, Files) = Failure(3)
        \/ \E tools : InspectTools(given, Files) = Success([says |-> "tools", tools |-> tools])
    BY DEF InspectTools
  <2> QED
    BY <2>1, OtherAnswers
<1>4. ~IsSnippet(EvalCall(given, Files))
  <2>1. \/ EvalCall(given, Files) = Failure(2) \/ EvalCall(given, Files) = Failure(3)
        \/ \E decision :
             EvalCall(given, Files) = Success([says |-> "decision", decision |-> decision])
    BY DEF EvalCall
  <2> QED
    BY <2>1, OtherAnswers
<1> HIDE DEF given
<1>5. printed = ConfigSnippet(given, Files)
  <2>1. \/ \E topic : printed = Success([says |-> "help", topic |-> topic])
        \/ printed = Failure(2)
        \/ printed = RunProxy(given, Files) \/ printed = ConfigSnippet(given, Files)
        \/ printed = CheckPolicy(given, Files) \/ printed = InspectTools(given, Files)
        \/ printed = EvalCall(given, Files)
    BY DEF RunCli, CommandName, given
  <2> HIDE DEF printed
  <2>2. IsSnippet(printed)
    BY DEF printed
  <2> QED
    BY <1>1, <1>2, <1>3, <1>4, <2>1, <2>2, OtherAnswers
<1>6. IsSnippet(ConfigSnippet(given, Files))
  BY <1>5
<1>7. ConfigSnippet(given, Files) # Failure(2) /\ ConfigSnippet(given, Files) # Failure(3)
  BY <1>6, OtherAnswers
<1>8. /\ SnippetUsageOk(given) /\ PolicyOk(policy)
      /\ ProfileOf(policy, given.flags["profile"]) # Absent
      /\ ConfigSnippet(given, Files)
           = Success([says |-> "snippet", descriptor |-> Descriptor(given)])
  BY <1>7 DEF ConfigSnippet
<1>9. printed.descriptor = Descriptor(given)
  BY <1>5, <1>8, OtherAnswers
<1> QED
  BY <1>8, <1>9 DEF given

\* What is parsed from a list of arguments has its words in a list, and its flags' values are
\* those that a flag can be given.
LEMMA ParsedWords ==
  ASSUME NEW argv, IsList(argv)
  PROVE  LET given == ParseArgs(argv)
         IN  /\ IsList(given.positionals)
             /\ \A one, two : Valued(given, one) /\ Valued(given, two) =>
                  CanBeValues(given.flags[one], given.flags[two])
<1> DEFINE given == ParseArgs(argv)
<1>1. given \in Parses(argv)
  <2>1. PICK run \in [0..Len(argv) -> Parses(argv)] :
          /\ run[0] = NoArguments /\ run[Len(argv)] = ParseArgs(argv)
          /\ \A k \in 0..Len(argv) - 1 : run[k + 1] = ReadArgument(run[k], argv, k + 1)
    BY ParseSteps
  <2>2. Len(argv) \in 0..Len(argv)
    BY ListDomain
  <2> QED
    BY <2>1, <2>2
<1> HIDE DEF given
<1>2. IsList(given.positionals)
  <2> DEFINE words == given.positionals
  <2>1. words \in Seq(ToSet(argv))
    BY <1>1 DEF Parses
  <2> HIDE DEF words
  <2>2. DOMAIN words = 1..Len(words) /\ Len(words) \in Nat
    BY <2>1
  <2>3. \A i \in 1..Len(words) : words[i] \in ToSet(words)
    BY <2>2 DEF ToSet
  <2>4. words \in Seq(ToSet(words))
    BY <2>1, <2>2, <2>3
  <2> QED
    BY <2>4 DEF IsList, words
<1>3. PICK D \in SUBSET Texts(argv) : given.flags \in [D -> FlagValues(argv)]
  BY <1>1 DEF Parses, FlagSets
<1>4. ASSUME NEW flag, Valued(given, flag)
      PROVE  given.flags[flag] \in Texts(argv) \ {""}
  <2>1. flag \in DOMAIN given.flags /\ given.flags[flag] # On
    BY <1>4 DEF Valued, Has
  <2>2. given.flags[flag] \in FlagValues(argv)
    BY <1>3, <2>1
  <2> QED
    BY <2>1, <2>2, Zenon DEF FlagValues
<1>5. \A one, two : Valued(given, one) /\ Valued(given, two) =>
        CanBeValues(given.flags[one], given.flags[two])
  BY <1>4, Zenon DEF CanBeValues
<1> QED
  BY <1>2, <1>5 DEF given

PlaceOf(profiles, id) == SelectInSeq(profiles, LAMBDA p : p.id = id)

\* The profile that is found is one of the policy's.
LEMMA ProfileFound ==
  ASSUME NEW policy, NEW id, PolicyOk(policy), IsList(policy.profiles),
         ProfileOf(policy, id) # Absent
  PROVE  ProfileOk(ProfileOf(policy, id))
<1> DEFINE profiles == policy.profiles
           I == {i \in 1..Len(profiles) : profiles[i].id = id}
           at == PlaceOf(profiles, id)
<1>1. at = IF I # {} THEN Min(I) ELSE 0
  BY DEF SelectInSeq, PlaceOf
<1>2. ProfileOf(policy, id) = profiles[at] /\ at # 0
  BY DEF ProfileOf, PlaceOf
<1>3. Len(profiles) \in Nat /\ DOMAIN profiles = 1..Len(profiles)
  BY ListDomain
<1>4. Min(I) \in I \/ I = {}
  <2> HIDE DEF profiles
  <2>1. I \in SUBSET (1..Len(profiles))
    OBVIOUS
  <2> HIDE DEF I
  <2> QED
    BY <1>3, <2>1, LeastPlace
<1> HIDE DEF at
<1>5. at \in I
  <2> HIDE DEF I
  <2> QED
    BY <1>1, <1>2, <1>4
<1>6. at \in DOMAIN policy.profiles
  BY <1>3, <1>5
<1> QED
  BY <1>2, <1>6 DEF PolicyOk

NamesUpstream(words) == words # <<>> /\ Head(words) # Word("")

\* The proxy is started, unless the profile does not audit to a file.
IsProxy(printed, policy, profile, words) ==
  IF profile.audit.destination # "file" THEN printed = Failure(3)
  ELSE \E auditLog :
         printed = Success([says |-> "proxy", policy |-> policy, profile |-> profile.id,
                            upstream |-> words, auditLog |-> auditLog])

\* `run` starts the proxy, when it is told no more than a policy and a profile.
LEMMA RunStarts ==
  ASSUME NEW words, IsList(words), NEW file, NEW id, CanBeValues(file, id),
         Absent \notin CommandName, file # On, id # On,
         NamesUpstream(words),
         PolicyOk(PolicyAt(Files, file)), ProfileOf(PolicyAt(Files, file), id) # Absent
  PROVE  IsProxy(RunCli(ProxyArguments(file, id) \o words, Files, TRUE),
                 PolicyAt(Files, file), ProfileOf(PolicyAt(Files, file), id), words)
<1> DEFINE argv == ProxyArguments(file, id) \o words
           parsed == ParseArgs(argv)
           policy == PolicyAt(Files, file)
           profile == ProfileOf(policy, id)
<1>1. /\ parsed.command = "run" /\ parsed.separatorSeen
      /\ DOMAIN parsed.flags = {"policy", "profile"}
      /\ parsed.flags["policy"] = file /\ parsed.flags["profile"] = id
      /\ parsed.positionals = words
  BY RunParsed
<1> HIDE DEF parsed
<1>2. RunUsageOk(parsed)
  <2>1. ASSUME NEW flag, flag \notin {"policy", "profile"}
        PROVE  ~Has(parsed, flag) /\ ~Switched(parsed, flag) /\ ~Valued(parsed, flag)
    BY <1>1, <2>1 DEF Has, Switched, Valued
  <2>2. Valued(parsed, "policy") /\ Valued(parsed, "profile")
    BY <1>1 DEF Valued, Has
  <2>3. UpstreamGiven(parsed)
    BY <1>1 DEF UpstreamGiven, NamesUpstream
  <2>4. /\ "json" \notin {"policy", "profile"} /\ "shutdown-grace-ms" \notin {"policy", "profile"}
        /\ "max-frame-bytes" \notin {"policy", "profile"}
        /\ "max-json-depth" \notin {"policy", "profile"}
        /\ "watch-policy" \notin {"policy", "profile"}
        /\ "approval-hook" \notin {"policy", "profile"}
        /\ "audit-log" \notin {"policy", "profile"} /\ "ops-log" \notin {"policy", "profile"}
        /\ "ops-feature-flags" \notin {"policy", "profile"}
    OBVIOUS
  <2>5. ~Switched(parsed, "json") /\ ~Valued(parsed, "watch-policy")
        /\ ~Switched(parsed, "approval-hook") /\ ~Valued(parsed, "ops-feature-flags")
    BY <2>1, <2>4
  <2>6. ~Has(parsed, "shutdown-grace-ms") /\ ~Has(parsed, "max-frame-bytes")
        /\ ~Has(parsed, "max-json-depth")
    BY <2>1, <2>4
  <2>7. /\ IntegerFlagOk(parsed, "shutdown-grace-ms", 0..maximumShutdownGraceMs)
        /\ IntegerFlagOk(parsed, "max-frame-bytes", 1..maximumFrameBytes)
        /\ IntegerFlagOk(parsed, "max-json-depth", 1..maximumJsonDepth)
    BY <2>6 DEF IntegerFlagOk
  <2>8. \A flag \in {"audit-log", "ops-log", "ops-feature-flags"} : Value(parsed, flag, "") # "-"
    <3> SUFFICES ASSUME NEW flag \in {"audit-log", "ops-log", "ops-feature-flags"}
                 PROVE  Value(parsed, flag, "") # "-"
      BY Zenon
    <3>1. ~Valued(parsed, flag)
      BY <2>1, <2>4
    <3>2. Value(parsed, flag, "") = ""
      BY <3>1, Zenon DEF Value
    <3> QED
      BY <3>2, Zenon
  <2> QED
    BY <2>2, <2>3, <2>5, <2>7, <2>8 DEF RunUsageOk
<1>3. RunCli(argv, Files, TRUE) = RunProxy(parsed, Files)
  <2>1. ~Switched(parsed, "help")
    BY <1>1 DEF Switched, Has
  <2>2. parsed.command \in CommandName /\ parsed.command \notin {Absent, "help"}
    BY <1>1 DEF CommandName
  <2>3. DOMAIN parsed.flags \subseteq AllowedFlags(parsed.command)
    BY <1>1 DEF AllowedFlags
  <2> QED
    BY <1>1, <2>1, <2>2, <2>3 DEF RunCli, parsed
<1>4. RunProxy(parsed, Files)
        = IF profile.audit.destination # "file" THEN Failure(3)
          ELSE Success([says |-> "proxy", policy |-> policy, profile |-> profile.id,
                        upstream |-> words,
                        auditLog |-> Value(parsed, "audit-log", profile.audit.path)])
  BY <1>1, <1>2 DEF RunProxy
<1> HIDE DEF argv
<1> QED
  BY <1>3, <1>4 DEF IsProxy, argv

\* What a command of Spec's has that names a policy.
LEMMA PolicyNamed ==
  ASSUME NEW argv \in CommandLines, Valued(ParseArgs(argv), "policy"),
         PolicyOk(PolicyAt(Files, ParseArgs(argv).flags["policy"]))
  PROVE  LET path == ParseArgs(argv).flags["policy"]
         IN  PolicyAt(Files, path) = Files[path] /\ IsList(Files[path].profiles)
<1> DEFINE path == ParseArgs(argv).flags["policy"]
<1>1. Value(ParseArgs(argv), "policy", "") = path
  BY Zenon DEF Value
<1> HIDE DEF path
<1>2. path \in DOMAIN Files /\ Files[path] # Malformed /\ Given(Files[path].profiles)
        => IsList(Files[path].profiles)
  BY <1>1, CommandsAssumption, Zenon
<1>3. PolicyOk(PolicyAt(Files, path))
  BY DEF path
<1>4. PolicyAt(Files, path) # Malformed
  BY <1>3 DEF PolicyOk
<1>5. path \in DOMAIN Files /\ PolicyAt(Files, path) = Files[path]
  BY <1>4 DEF PolicyAt, Readable
<1>6. Given(Files[path].profiles)
  BY <1>3, <1>5 DEF PolicyOk, Given
<1> QED
  BY <1>2, <1>4, <1>5, <1>6 DEF path

\* What `run` prints when it starts the proxy.
LEMMA ProxyPrinted ==
  ASSUME NEW policy, NEW profile, NEW upstream, NEW auditLog
  PROVE  LET printed == Success([says |-> "proxy", policy |-> policy, profile |-> profile,
                                 upstream |-> upstream, auditLog |-> auditLog])
         IN  /\ printed.says = "proxy" /\ printed.policy = policy
             /\ printed.profile = profile /\ printed.upstream = upstream
BY DEF Success

\* A printed snippet starts `run` with the policy, the profile and the upstream command that
\* it was made for, whatever words the upstream command has (buildConfigSnippetDescriptor,
\* parseArgs and runProxy of packages/cli/src/commands.ts).
THEOREM SnippetsRun == Spec => []SnippetRuns
<1>1. Told => SnippetRuns
  <2> SUFFICES ASSUME Told, question.kind = "command", IsSnippet(answer)
               PROVE  SnippetRuns
    BY DEF SnippetRuns, IsSnippet
  <2> DEFINE argv == question.argv
             given == ParseArgs(argv)
             words == given.positionals
             file == given.flags["policy"]
             id == given.flags["profile"]
             target == given.flags["target"]
             policy == PolicyAt(Files, file)
             profile == ProfileOf(policy, id)
             proxy == Value(given, "proxy-command", "mcp-security-proxy")
             args == ProxyArguments(file, id) \o words
             invocation == HostInvocation(target, answer.descriptor)
             printed == RunCli(args, Files, TRUE)
  <2>1. argv \in CommandLines /\ answer = RunCli(argv, Files, TRUE)
    BY DEF Told, CommandTold
  <2>2. IsList(argv) /\ Absent \notin CommandName
    BY <2>1, CommandsAssumption
  <2>3. /\ SnippetUsageOk(given) /\ PolicyOk(policy) /\ profile # Absent
        /\ answer.descriptor = Descriptor(given)
    BY <2>1, SnippetPrinted
  <2>4. /\ IsList(words)
        /\ \A one, two : Valued(given, one) /\ Valued(given, two) =>
             CanBeValues(given.flags[one], given.flags[two])
    BY <2>2, ParsedWords
  <2> HIDE DEF argv, given
  <2>5. /\ Valued(given, "policy") /\ Valued(given, "profile") /\ UpstreamGiven(given)
        /\ target \in HostTarget \cup {"stdio-json"}
    BY <2>3 DEF SnippetUsageOk
  <2>6. /\ file # On /\ id # On /\ CanBeValues(file, id) /\ NamesUpstream(words)
    BY <2>4, <2>5 DEF Valued, UpstreamGiven, NamesUpstream
  <2>7. policy = Files[file] /\ IsList(policy.profiles)
    BY <2>1, <2>3, <2>5, PolicyNamed DEF given
  <2>8. ProfileOk(profile)
    BY <2>3, <2>7, ProfileFound
  <2>9. profile.audit.destination \in {"file", "stdout"}
    BY <2>8 DEF ProfileOk, AuditOk
  <2>10. invocation = <<Word(proxy)>> \o args
    BY <2>3, <2>4, <2>5, HostStarts
  <2>11. Head(invocation) = Word(proxy) /\ Tail(invocation) = args
    <3> DEFINE T == ToSet(args) \cup {Word(proxy)}
    <3>1. IsList(args)
      BY <2>4, ProxyWords DEF IsRunLine
    <3>2. args \in Seq(T) /\ Word(proxy) \in T
      <4> HIDE DEF args
      <4> QED
        BY <3>1, ListDomain, SeqMonotonic
    <3> HIDE DEF T, args, invocation
    <3> QED
      BY <2>10, <3>2, WordInFront
  <2>12. IsProxy(printed, policy, profile, words)
    BY <2>2, <2>3, <2>4, <2>6, RunStarts
  <2> HIDE DEF words, file, id, target, policy, profile, proxy, args, invocation, printed
  <2>13. IF profile.audit.destination = "stdout" THEN printed = Failure(3)
         ELSE /\ printed.says = "proxy" /\ printed.policy = policy
              /\ printed.profile = profile.id /\ printed.upstream = words
    <3>1. CASE profile.audit.destination = "stdout"
      BY <2>12, <3>1 DEF IsProxy
    <3>2. CASE profile.audit.destination # "stdout"
      <4>1. profile.audit.destination = "file"
        BY <2>9, <3>2
      <4>2. PICK auditLog :
              printed = Success([says |-> "proxy", policy |-> policy, profile |-> profile.id,
                                 upstream |-> words, auditLog |-> auditLog])
        BY <2>12, <4>1 DEF IsProxy
      <4> QED
        BY <3>2, <4>2, ProxyPrinted
    <3> QED
      BY <3>1, <3>2
  <2> QED
    BY <2>7, <2>11, <2>13
       DEF SnippetRuns, argv, given, words, file, id, target, policy, profile, proxy,
           invocation, printed
<1> QED
  BY <1>1, AnswersAreTold, PTL
=============================================================================
