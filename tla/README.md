# A verification project for mcp-security-proxy

The proxy sits between an MCP client and an upstream MCP server that speak
JSON-RPC over stdio. It shows the client only the tools a policy lets it
discover, forwards only the tool calls the policy allows (or a host approves),
and audits what it refuses. This directory models that behaviour in TLA+,
checks it with TLC on small instances and proves the main properties with TLAPS
for every value of the constants.

    tlc -workers 2 -config SessionOverlap.cfg MCProxySession
    tlc -workers 2 -config StdioBridge.cfg StdioBridge
    tlapm ProxySession_proofs.tla
    tlapm SerialSession_proofs.tla
    tlapm StdioBridge_proofs.tla
    tlapm Guardian_proofs.tla
    tlapm CliRun_proofs.tla
    tlapm Release_proofs.tla
    tlapm Pure_proofs.tla
    tlapm Decisions_proofs.tla

## 1. The system

Paths are relative to `packages/`.

| component | state | operations | talks to |
|---|---|---|---|
| **session gate**, `proxy-runtime/src/session.ts` | policy, policy revision, visible tools, pending client requests, pending server pings, abort controllers of the waiting approvals | client frame (with and without approval), server frame, prepare and commit of a policy replacement | evaluator, classifier, audit correlator; called by the bridge or by an embedding host |
| **stdio bridge**, `proxy-runtime/src/stdio-bridge.ts` | operation queue, ops queue, metrics, exit code, the two frame readers | frame in either direction, policy update, shutdown in three orders, audit write, framing | session, upstream process, audit writer, reload source |
| **audit correlator**, `proxy-runtime/src/audit-correlation.ts` | event sequence, transport sequence, discovery generation, per-frame context | run a frame, remember and match a request, create a correlation | session, bridge |
| **policy file reloader**, `cli/src/policy-file-reloader.ts` | closed flag, debounce timer, fingerprint of the last attempt, two "reported" flags | watcher event, watcher error, debounce expiry, unsubscribe | file system, bridge |
| **POSIX guardian, process tree**, `cli/src/posix-process-guardian.ts`, `process-tree.ts` | shutdown timer, force timer, termination started, upstream exited, parent input closed | control frame, forwarding, EOF, EPIPE, SIGTERM, exit | bridge (as `UpstreamProcess`), upstream's process group |
| **Windows job guardian**, `cli/src/windows-job-guardian.ts` | readiness of a helper process | establish, wait, time out | operating system |
| **evaluator, coverage, matchers, classifier**, `core/src` | none | decide a call, decide discoverability, infer capabilities | session, CLI |
| **redactor, adapter, contracts**, `core`, `mcp-adapter`, `contracts` | none | rewrite text, recognise shapes, validate documents | everything |
| **approval conformance**, `proxy-runtime/src/approval-conformance.ts` | none between runs | scenarios run against a host's hook | host |
| **CLI**, `cli/src/commands.ts`, `main.ts` | audit file handle | check, inspect, eval, run, config snippet | all of the above |
| **ops feature flags**, `cli/src/ops-feature-flags.ts` | flag controller, refresh queue | open, configuration changed, close | CLI, bridge (ops events) |
| **release and receipts**, `.github/workflows`, `scripts/*receipt*`, `create-github-release.mjs`, `check-registry-packages.mjs` | npm registry, GitHub Releases, runs, receipts in the repository | publish, smoke, create the release, generate and import a receipt | npm, GitHub, git |
| **release approvals, repository checks**, `scripts/check-*.mjs` | none: they read one commit | decide whether a tree, a tag, a bootstrap plan, a publication record is in order | the release workflow |

What is hard about it: a call that waits for an approval is decided before the
wait and takes effect after it; a policy replacement is prepared at once but
committed behind the operation queue; answers come late, twice or unasked;
entries expire by the clock but are evicted by the next frame; the audit may
fail between decision and forward; a shutdown races an exit, a stream end and
several timers. `PROJECT.json` lists these hazards at their lines.

What makes each component correct:

- *session gate*: whatever reaches the upstream was authorised under a policy
  and for a descriptor that policy shows; whatever is visible is shown by the
  policy in force; answers match open requests, once; bounded tables; refusals
  are final; approvals end.
- *bridge*: operations one at a time, in order; audit before forward, fail
  closed; one exit code that tells the first fatal cause; shutdown ends.
- *audit correlator*: an answer is correlated with the request it answers;
  discovery generations tell the visible catalogues apart.
- *reloader*: the last valid policy written is eventually offered, an invalid
  one never; the report agrees with what the bridge did.
- *guardian*: the upstream's group is gone after the proxy is, signalled in the
  order TERM, KILL; no signal is lost between two timers.
- *run command*: containment before anything is started; nothing left open.
- *release*: users find whole sets of packages; a receipt is true and stays; only
  the newest approval of a package is ever published; the scripts that make and
  check a receipt agree.
- *evaluator*: deny beats approval beats allow, for every capability of a call;
  a discoverable tool can be called with some arguments or under approval.

## 2. Modules

| module | what it is |
|---|---|
| `ProxySession` | the session gate as a state machine, its properties and its inductive invariant |
| `SerialSession` | the session behind the bridge's operation queue; the refinement mapping |
| `ToolGate` | the abstract specification: catalogue, open ids, the call just sent |
| `StdioBridge` | `runStdioProxy`: queue, readers, writes, audit, shutdown; client and upstream behind bounded pipes |
| `Guardian` | proxy, POSIX guardian and the upstream's process group, with their timers and signals |
| `PolicyReload` | the file watcher, the bridge's update path, ops events |
| `CliRun` | one `run` from containment to exit code, composed with `PolicyReload` |
| `PolicyEngine`, `PolicyValidation` | facts, matchers, rules, decisions, coverage; what a valid policy is |
| `Envelopes` | parsing limits, shapes, methods and the rewriting of what is handed on |
| `Framing` | `consumeFrames` over chunks |
| `CommandLine` | arguments, the commands and their exit codes, config snippets |
| `Conformance` | `runApprovalHookConformance` and what a session does with the same hook |
| `Evidence`, `PublishPlan`, `Approvals`, `Receipts` | what the repository's scripts ask of a tree, a tag and a publication record |
| `Lists` | what the pure modules share on lists |
| `Decisions` | asks the pure modules their questions; their properties |
| `Release` | the three release workflows and the import of receipts |
| `MC...` | definitions for TLC; `MCRepository` holds the trees of `MCDecisions` |
| `..._proofs` | the theorems, by component |

### ProxySession

| variable | code |
|---|---|
| `policy` | `this.policy` |
| `visible` | `visibleTools`, tool name to capability list, `None` when absent |
| `pending`, `serverPending` | `pendingRequestMethods`, `pendingServerOriginMethods` |
| `approvals` | one suspended `handleClientLineWithApproval` per element of `Call`, with what was decided before the `await` and how the race has been settled |
| `prepared` | the policy that each handed-out commit function closes over, `Spent` once called |
| `result` | the `ProxyFrameResult` of the last handler |
| `awaiting` | history: for each id, how long the client may still be given the answer to the last request it sent under it; it runs down with the clock, whatever the gate does with its entries, and is 0 once the answer was given |

One handler is one action, because JavaScript runs it to the end; the only
handler that suspends is split at its `await`: `AskApproval` (everything before
it), `HookReturns`, `ApprovalTimesOut` and the abort inside `Prepare` (what can
settle the race in `withApprovalTimeout`), `FinishApproval` (everything after).
A handler with several outcomes is a disjunction whose disjuncts follow the
early returns in their order. Each action includes the eviction of expired
entries where the code evicts. `UnaskableCall` is `handleClientLine`, which has
no hook; all other client actions are common to both entry points.

Abstractions. A frame is its id, its method, whether it carries a discovery
cursor, its tool and a class of arguments; a frame that does not parse, or whose
`tools/call` params are refused, is an action of its own. A page of
`tools/list` is a set of descriptors (name, capabilities); a name with two
descriptors on a page is hidden; the same descriptor twice has the effect of its
absence. A policy is three operators, `AllowedMethods`, `Discoverable` and
`Verdict`, about which nothing is assumed but their range. The code stores
`expiresAt` and compares it with `Date.now()`; an entry of the model has the
difference, in ticks of a clock that is an action of its own (`Tick`), and 0 for any
time from `expiresAt` on. Audit events, redaction and rewriting of envelopes
change no state of the session and are left out, except for the reason of a
result.

### SerialSession

`runSessionOperation` chains every frame and every commit behind the one before.
So while a call is suspended (`~Quiescent`) no frame and no commit runs; the hook,
the timer, the clock and `preparePolicyReplacement` do. That is the whole
difference to `ProxySession`, and every behaviour of it is one of `ProxySession`.

### ToolGate

The promise without the mechanism. A call is sent only for a descriptor in the
catalogue, under the policy in force, and never if that policy denies it; the
catalogue holds only descriptors the policy shows, one per name, and is emptied
by a replacement; at most `MaxPending` ids are open and a request opens an id
that was not. `SerialSession!ImplementsToolGate` maps the catalogue to the
visible tools, the open ids to the keys of `pending` and the sent call to the
call in the result. `ProxySession` without the queue does not implement it: that
is what the three violations below show.

### StdioBridge

| variable | code |
|---|---|
| `queue`, `awaited` | `sessionOperationQueue`; how much of it `finish` awaits |
| `running` | the operation at its head: what it still has to audit and to write, or `Suspended` in an approval |
| `reader`, `stderr` | `consumeFrames` on both inputs and `observeUpstreamStderr`, with how each ended |
| `unread`, `backlog`, `writable` | the pipes: not yet read by the bridge; written by it and not yet taken; the state of the stream it writes |
| `race`, `main`, `timer`, `shutdown` | `Promise.race`, the place in `runStdioProxy`, `waitForUpstreamExitOrKill` and its result |
| `exit`, `exitCode` | of the upstream; of the run |
| `leaked` | history: something was written to a peer whose audit had not been |

An operation is several actions because it awaits: the audit events one by one
(`AuditWritten`, `AuditFails`), then each write from `StartWrite` until the pipe has
room (`Flush`) or the stream fails (`WriteFails`). What a frame's result asks for is
chosen freely (`Plan`): how many audit events, an answer, a forwarded line. A peer
sends, reads, stops reading, ends and (the upstream) exits when it likes.

### Guardian

Three processes. The proxy writes chunks, and is in `grace` and `force` during
`waitForUpstreamExitOrKill`; it may die at any point. The guardian has
`forwardClientInput` (`forwarding`), both timers and the flags of
`runPosixProcessGuardian`. The group is the upstream and one process it started,
which may hold the pipes and may ignore SIGTERM. Delays are not modelled: armed
timers fire in any order, which is what processes that are scheduled apart can show.

### PolicyReload and CliRun

`PolicyReload` has the file, one pending directory event, the debounce timer, the
fingerprint, and of the bridge the queue on which an update waits behind frames;
`settled` and `reports` separate the commit from the listener's return and from
what the user is told. `CliRun` puts around it the stages of `runEntrypoint` and
`runProxy` in their order, the Windows helper (starting, assigned, ready, gone) and
the flag controller's refresh queue. The proxy itself is there as its reload and an
exit code; that its frames end is `OperationsEnd` of `StdioBridge`.

### The pure modules and Decisions

Each computes what the code computes, on values cut down to what decides: a JSON
value is a record with its kind and fields, a path is a sequence of segments, a text
is a member of a small set, a URL has a host and flags for what the parser finds.
Recursion over arguments is by functions on the finite set of values. `Decisions`
has one action per entry point; a state is a question and its answer. The
properties say in other words what the answer should be: from the raw arguments
rather than the facts (`AllowedCallsStayInBounds`), from the whole text rather than
the chunks (`FramesAreTheLines`), by doing it again (`ForwardedIsClean`), by running
the command that was printed (`SnippetRuns`), by importing the receipt
(`ReceiptsValidate`).

Of the repository, a tree has files, release records in the order of their names,
manifests, the evidence of compatibility with its external fixtures, dependency
decisions, the bootstrap plan, publication records, and git's ancestor relation. The
trees start from one that passes everything, and differ from it in one or two places.

### Release

A Release run is a step counter through the five publish steps (three packages in
the instance), smoke, and the GitHub Release; every step may fail before it did
anything or after (`PublishAnswerLost`, `CreateAnswerLost`), and failed jobs may be
run again. A receipt is put together by reading its sources one by one, while other
runs go on. An import stages a file and links it; it may crash in between.

## 3. Runs

| run | instance | question |
|---|---|---|
| `session_overlap` | 3 ids, 2 slots, 2 policies, 1 suspended call, 1 replacement, entries that live one tick; symmetric ids; 38 000 states | what holds however an embedder overlaps its calls |
| `serial_session` | 2 ids on each side, 2 slots, all methods, 2 replacements; no symmetry; 203 000 states | what the queue adds; the refinement; does everything that waits end |
| `stdio_bridge` | 2 frames, 1 stream fault, 1 audit event a frame, pipes of 1; 616 000 states | audit, exit code and shutdown in every order |
| `guardian` | 2 chunks, 2 processes in the group; 14 000 states | who is signalled, when, and what is left |
| `cli_run` | 2 usable, 1 unusable and 1 malformed policy, 2 writes, 1 frame, 2 flag changes | the life of a run with reload and flags |
| `decisions` | about 28 000 questions and their answers, 56 000 states | are the pure parts right |
| `release` | 2 versions, 3 packages, 2 smoke runs, 2 imports, 1 rerun; 3.4 million states | releases that overlap and fail |
| `duplicate_id`, `stale_visibility`, `stale_approval` | overlapping calls, without the queue | three documented rules |

`session_overlap`: `VisibleUnderPolicyInForce` (a discovery asked under the old
policy and answered after the commit shows nothing the new policy hides),
`OneDiscoveryInFlight`, `PendingWithinLimit` (the check and the insertion are
separated by an await), `ForwardedCallWasAuthorised`, `NoUnsolicitedAnswer` (an answer
reaches the client only within the time to live of a request with its id, and once:
late, repeated and invented answers do not) and `RefusalIsFinal` (late approvals).

`serial_session`: `PendingApprovalsUnderPolicyInForce`, `ForwardedCallIsCurrent`
(policy and visibility at the moment of forwarding, not of deciding),
`NoCorrelationOverwritten`, `ImplementsToolGate`, `EveryApprovalEnds`,
`NoRequestBlocksForever`.

`stdio_bridge`: `AuditBeforeEffect` (under `fail_closed`, across two awaited writes,
and after the fatal failure until the streams are gone), `StdinEndsAfterLastFrame`,
`CleanExitLosesNothing` (exit, end of output and end of stderr in any order),
`ExitCodeTellsAuditFailure`, `EveryShutdownReturns`, `OperationsEnd` (or the proxy
returns).

`guardian`: `OneEscalation`, `NothingLeftBehind` (the upstream exits before the
guardian's timers, its descendants do not), `SignalledOnlyInShutdown`,
`DeadParentsGroupEnds`.

`cli_run`: `QuietPolicyIsTheFile` (when nothing is under way, the last usable policy
written is in force), `OpsEventsTellAll`, `AppliedReportsAreTrue`,
`UpstreamIsContained`, `NothingLeftOpen`, `NoStageHangs`.

`decisions`: `AllowedCallsStayInBounds` (every path, URL, command and secret key, however
deep in the arguments, is within the bounds of a rule, for each capability of the call,
and no interpreter is handed its program), `DenyRulesStand`, `FramesAreTheLines`,
`ForwardedIsClean`, `SnippetRuns`, `ConformanceTellsTheHook`,
`TaggedReleaseIsApproved` (what the checks and the publish plan let through together
is the newest approval in the history, whatever order the records are read in),
`ReceiptsValidate`.

`release`: `PublishedIsInstallable`, `ReceiptIsTrue`, `ReceiptsAreImmutable`.

Each property has a mutant of the code in the module (an operator with a suffix,
just before the definition it mutates): a dropped guard, an off-by-one, a missing
reset. With the mutant in place TLC finds the property violated. The type
invariants are not among the properties of the runs; they are proved instead.

### Bounds

Session: three ids with two slots let the table be full with an id left over; two ids
are needed for two requests to conflict. One tool with two capability lists is a
tool that one policy shows and the other hides, or that is re-listed with other
capabilities; the two lists on one page are a duplicate name. Two policies are the
old and the new one; two replacements let a second prepare abort what the first did
not. `TTL = 1` makes every entry live, then expired, then evicted. The restriction
of the overlap runs to the two tool methods leaves out requests that differ from
`tools/call` only in having no verdict; `serial_session` has all five, and a policy
that withdraws `ping`.

Bridge: with pipes of one frame, two frames fill a pipe and wait at it, or one waits
in each direction; one fault of a stream, with any exit and any audit failure, is
every single failure in every place. A second audit event of a frame only lengthens
the wait for the first.

Guardian: two chunks are one in the pipe and one that waits; a group needs one
process besides its leader.

Reload: two writes make a first and a last content with a read between or after;
two usable policies tell old from new; each kind of unusable content rejects at its
own check, and they are alike to what follows, so the instance has two of the four.
A frame in the queue makes an update wait. Watching and flags are asked for in
different runs of the instance (`OneResourceEach`), because they share nothing but
the stages.

Decisions: arguments nest as deep as the limit and one deeper; every matcher has
values inside, outside and malformed; up to two rules, in both orders, with a third
in `DenyRulesStand`; streams of up to three chunks around a limit of three bytes
with CR, LF and a two-byte character; trees with two or three records over a history
that branches. `release`: two versions are enough for `latest` to move between two
readings, three packages for a first, a middle and a last step, one rerun for a
step done twice.

Symmetry is used only in runs without liveness: for ids and replacement handles, and
for smoke runs and importers.

### Fairness

`ProxySession`: weak fairness of the approval timer, of the continuation after the
race and of the clock: `setTimeout`, the microtask queue and `Date.now()`. Nothing is
assumed of the client, the upstream, the hook or the operator. That an expired entry
blocks nothing is stated on `Live`, the entries a handler would still see after its
eviction, so it does not depend on another frame arriving.

`StdioBridge`: the event loop, the timers and the audit writer go on, a killed
process exits, the pipes of an exited process end, the client reads. Nothing is
assumed of what is sent or of an upstream that runs. `ReadingSpec` adds that the
upstream reads; `stdio_bridge` uses it, because `OperationsEnd` is false without it,
which is what `client_end` shows. Once the run has returned the process is gone: every
fair action, like `Next`, is limited to the time before (`Going`), so that each of them
is a step of `Next` and the specification is machine-closed.

`Guardian`: the guardian's event loop, both processes' timers, and the system's
delivery of SIGKILL. Nothing of the group. `CliRun`: the event loop, its timers, and
that the queue's frames end. `Decisions` and `Release` have no liveness properties:
runs of workflows are started by people.

`CHECK_DEADLOCK FALSE` is said where a behaviour ends: the proxy has returned, the
guardian is gone, the question has been answered, all versions are released.

### What the violations show

The first three are statements of the documentation that are not true of the
session class on its own; they are true behind the bridge's queue, which
`serial_session` checks. An embedding host that uses the exported
`createProxySession` and lets a call wait for its approval while it hands over other
frames can see them fail:

1. `docs/architecture/05-mcp-method-policy.md:89` (duplicates are denied before
   forwarding): the id is checked before the approval and not after it, so a
   second request with the same id is forwarded meanwhile and its entry then
   overwritten.
2. `docs/architecture/05-mcp-method-policy.md:114` (a hidden tool is not callable):
   visibility, too, is checked only before the approval.
3. `docs/adr/0012-atomic-live-policy-reload.md:73` (no pending approval survives a
   replacement): prepare aborts those it finds, the commit aborts none.

The other two are about the proxy as it is run:

4. `docs/architecture/02-runtime-flow.md:75` (after the client's input closes the
   upstream is terminated within the grace window): the reader notices the end only
   after its last frame's operation, which awaits a write to the upstream. An upstream
   that does not read keeps everything alive, and no timer is ever armed.
5. `docs/ops/config-and-env.md:77` (managed shutdown terminates the process group,
   SIGTERM, then SIGKILL): the bridge kills the guardian 250 ms after its SIGTERM, the
   guardian kills the group 250 ms after receiving it. If the first comes first, a
   group that ignores SIGTERM survives.

## 4. Proofs

`ProxySession_proofs` proves, from `ConstantsAssumption` and `NoneAssumption` only,
that is for any sets of ids, tools, policies and any verdicts:

- `TypeCorrect`: `Spec => []TypeOK`;
- `SessionInvariant`: `Spec => []SessionInv`, with the corollaries
  `DiscoveryIsFiltered`, `DiscoveryIsSerial`, `PendingIsBounded`,
  `CallsAreAuthorised`;
- the action properties `AnswersAreSolicited` and `RefusalsStand`.

The assumptions say that the initial policy is a policy, what the three policy
operators return, that the limits are positive (as `resolvePositiveInteger`
ensures), that the two id sets are finite (for cardinalities; an execution only
ever uses finitely many) and that `None` and `Spent` are none of the values they
stand beside.

`SessionInv` strengthens the checked invariants with two facts. `PendingIsAwaited`:
an entry lives no longer than the answer to its request may be given;
`NoUnsolicitedAnswer` needs it because a relayed answer is justified by the entry it
consumes. Time enters only here: a step changes the entries' times and the promised
ones alike (`TimeShape`, `PromiseShape`).
`ApprovalsWereAsked`: what is suspended was discoverable and needed approval under
the policy recorded with it; without it `ForwardedCallWasAuthorised` is not
inductive, because `FinishApproval` forwards from the record alone.

The proofs of the pending tables go through two shapes of step: every step either
`Shrinks` a table or `Grows` it by one entry below the limit (`PendingStep`,
`ServerPendingStep`), and one discovery, the limit and awaited ids follow from the
shape.

`SerialSession_proofs` proves of the session behind the queue, from the same
assumptions:

- `SerialInvariant`: `SerialSpec => []SerialInv`;
- `NoApprovalOutlivesItsPolicy`, `CallsAreCurrent`, `CorrelationIsKept`: the three
  documented statements that fail without the queue;
- `SerialImplementsGate`: `SerialSpec => ImplementsToolGate`.

`SerialInv` is `SessionInv` with three more facts. `OneSuspended`: at most one call
waits for its approval, because only an operation that found the queue empty starts
to wait. `DecisionStands`: while it waits, the policy in force, the capabilities
of its tool and the freedom of its id are those the decision was taken on; this is
what the code relies on when it looks at nothing but the capacity after the await,
and it is inductive only with `OneSuspended` (the end of one approval opens an id,
and must not be the id another one waits with). `ForwardedCallIsCurrent` follows.

The refinement goes by action. A request that is remembered opens its id
(`OpenStep`: below the limit, and not one that still waits); the tail of both
call paths is `SendCall`, or `Close` when the table is full (`GateCallStep`, which
for a granted approval needs `DecisionStands`); the answer to a discovery is
`Discover`, whose catalogue is filtered by the policy because
`VisibleUnderPolicyInForce` holds of the next state; a commit is `Replace`; all
else, eviction included, only forgets open ids and is `Close` or a stutter.

`StdioBridge_proofs` proves of the bridge, for any numbers of frames, faults and
pipe sizes, from the assumptions on the bounds and `NoneAssumption` (`None` and
`Suspended` are none of the values they stand beside):

- `BridgeInvariant`: `Spec => [](TypeOK /\ QueueInv /\ StageInv)`;
- `AuditsFirst`, `EndsStdinLast`, `CleanExitIsComplete`, `AuditFailureShows`: the four
  safety properties of the run.

`QueueInv` is about the operations: a peer has at most one frame in the queue, and
while it has, its reader waits; the operation that runs is the queue's head; and under
`fail_closed` the events it has written and those it has left are all it was to write,
none left when it flushes. The last is what `AuditBeforeEffect` rests on, for `leaked`
alone says nothing of the step before. `StageInv` is about the shutdown:
`StreamsTell` relates what decided the race to the stream that decided it, and
`StagesTell` says with which stream ends each stage of `finish()` is entered and
which exit code it may hold. Streams that have ended stay so, hence what held when a
stage was entered holds when the exit code is returned. Each is inductive given the
types and the one before; the operation queue and the shutdown are proved apart.

`Guardian_proofs` proves `GuardianTypes`, `GuardianInvariant` and with it
`EscalatesOnce`, `LeavesNothingBehind` and `SignalsOnlyInShutdown`, for any number
of chunks. `GuardianInv` adds to the properties that the signals sent tell how far
the shutdown is (`SignalsTell`: none, SIGTERM with the force timer armed, both with the
timer fired), that a fired timer has emptied the group, and that a shutdown was asked
for only by a proxy that is no longer open.

`CliRun_proofs` proves of one run of the command line, for any policies, writes, frames,
flag changes and command lines:

- `RunInvariant`: `Spec => []RunInv`;
- `LastPolicyWins`, `OpsTellAll`, `ReportsAreTrue`, `ContainedOnly`, `ClosesAll`: the
  five invariants of the run.

The assumptions say that the kinds of file content, the reasons of a rejection and a
frame are told apart. `StagesTell` says what the stages imply: nothing is open or queued
before the subscription, what `finish()` awaits is the whole queue, and behind it
nothing is queued. `LastAttemptStands` is the heart of `LastPolicyWins`: the reloader's
fingerprint is taken before the commit, so between the two the fingerprinted policy is
somewhere in the queue with no usable policy behind it, or in force with none in the
queue. `UpdatesAreCounted` is the bookkeeping under `OpsTellAll`: what the listener was
given is what is counted plus what waits in the queue (a cardinality, which
`WaitingGrows` and `WaitingShrinks` follow through the sequence by a bijection), and the
ops queue continues the ops log without a gap. `CommitsComeFirst` is the same for the
commits: the applied updates that are settled or reported are no more than the policy
revision, which `AppliedGrows` and `AppliedShrinks` follow through both queues.

`Release_proofs` proves of the releases, for any versions, packages, trees, smoke runs,
imports and reruns:

- `ReleaseInvariant`: `Spec => []ReleaseInv`;
- `WholeSetsPublished`, `ReceiptsTell`: the two invariants of the run;
- the action property `RecordedForGood`.

`ReleaseAssumption` says that a package depends only on packages published before it, as
the order of the workflow's steps has it, and that jobs, packages and versions are told
apart. `RunsInOrder` says what a run's step means for the registry: all packages before it
are published, all of them when its second job begins. That and the order of the
dependencies is `PublishedIsInstallable`. `EvidenceStands` is what `ReceiptIsTrue` needs,
because the sources of a receipt are read at different moments: a version is published once
for each package, so a tag `latest` that has gone on to another version never comes back;
if the packages read so far named the version, and those not yet read do now, they all do
now. When the last one has been read, that moment is in the history. `ImportsTell` carries
it from a receipt through staging, linking and verifying to the record.

`Decisions_proofs` proves of the pure parts, for any hooks, policies, calls, trees and
worlds, that the properties hold of every answer (`AnswersAreTold`: an answer is what its
operator gives for a question from the constants):

- `PassedHooksHold`, `AllowedStaysInBounds`, `DeniedStaysDenied`, `HandsOnClean`,
  `FramesAreLines`, `SnippetsRun`, `MadeReceiptsValidate`, `TagsAreApproved`: all the
  properties of the run.

The assumptions say what kind of thing a question is made of, and TLC evaluates each of them
on the instance. `JsonAssumption`: arguments were parsed from a text, so arrays and records
are lists and every value is nested finitely, in values of its own set; `MetadataAssumption`:
those values have what is left of them without the metadata in the set too.
`DecisionsAssumption`: timeouts are numbers, a policy that was accepted has lists of profiles
and rules and each rule the keys its parser reads, and texts that look like paths and hosts
have the parts of one. `FramesAssumption`: a frame and an envelope have their parts, a list of
tools is a list, and the marks `Absent` and `Malformed` are neither error codes nor objects.
`StreamsAssumption`: a stream is a list of chunks, each a list of bytes.
`CommandsAssumption`: a command line is a list, and so are the profiles of a policy it names.
`RepositoryAssumption`: what git, the file system and the registry guarantee, an ancestor
relation that is a partial order, records with paths of their own, a time for what is spelled
as a date.

`Pure_proofs` has what these theorems need of the operators they are about. For the two
theorems about calls that is the evaluator, for any values, rules and facts. Facts are
collected by recursion over the arguments. That `ExtractFacts` is defined at all
(`FactsUnfold`) goes by functions for ever deeper values, which agree where they are both
defined; that it keeps the facts of all that lies inside (`FactsAreKept`, `FactsOfAllInside`)
by a value of least nesting for which it would not. `DistinctKeeps` and `ListFlatten` do the
same for the fold over capabilities and for the lists of facts one after another.
`AllowedByRules` then says that an allowed call has no blocked fact and for each capability
an allow rule that matches, `FactIsTaken` that such a rule has a matcher that takes each
fact; `RootTakes` and `SuffixIsOne` compare what the matchers ask of normalised texts with
what the property asks of the paths and hosts as they were sent. What passes a test keeps its
order (`OnlyKeeps`): capabilities, segments of a path and the fields that are left are taken
with `Only`, a fold, because the definition of `SelectSeq` is one the prover cannot open.
(`tlapm` sees the recursion of a function only in the first arm of a CASE, hence the order of
the arms in `ExtractFacts`.)

`HandsOnClean` goes by what the session makes of an envelope. Each of its operators is shown
to change nothing in what it has made itself: for the metadata inside a value by its nesting
(of the values for which it failed one would have the least: `SanitizedTwice`), for the tools
of a list along the list. A second run over what is handed on therefore meets the same cases
of the code, and makes the same envelope; `HandedOn` collects for requests, answers, errors
and tool lists what the property asks, and the shape of the refused ones follows from the
order of the checks.

`FramesAreLines` compares a fold over chunks, which keeps the bytes of a line that has not
ended and the flag that it is being discarded, with the lines of the whole text. Every fold is
taken step by step: a function on the prefixes exists, and its last value is the fold. The
invariant of the reader at a place in the text is that its frames are those of the lines that
have ended before the place, and that what it keeps is the piece of the line it is in, or that
the piece is longer than the limit and it discards. The pieces between the line ends cover the
text, each chunk lies in the text at the sum of the lengths before it, and a step of the reader
(`ConsumeFragment`) goes from one such place to the next.

`SnippetsRun` runs two parsers. `ParseSteps` gives the states of the parser between its
arguments, so that `RunParsed` can walk through the six arguments that come before the
upstream's words and then along the words: behind the separator everything is a word, whatever
it looks like. `HostStarts` shows for each host that what it makes of the descriptor is the
proxy's command line; for Gemini the separator that was put in is the one that is taken out
(`SeparatorTakenOut`), since there is none before it. `RunStarts` then goes through what `run`
asks of its flags, and finds the policy and the profile that `config-snippet` has seen.

The other proofs are by cases over the code's rules, with two arguments underneath. The first
element that a search finds is a minimum (`LeastPlace`): thus the first deny of a call's
decisions stays the first, or one before it takes over, when rules or facts are added
(`MoreRulesKeep`, `MoreFactsKeep`). And `SurfaceApproval` reads the records by recursion;
`SurfaceApprovalFound` shows for ever longer prefixes that the function its definition asks
for exists, that the record it has found approves the path, and that no later approval was
passed over while the history was linear. `PlannedIsNewest` follows whatever order the
records are read in.

Writing these proofs corrected the model twice and changed its form in two places (`Only`
for `SelectSeq`, names for the limits of `run`'s numbers): `Later` had overlapping CASE guards where
`check-package-surface.mjs` has an order, and the part of `TaggedReleaseIsApproved` about a
refused private read asked for one exact answer where the code asks for one that contains
the deny rule's code.

What stays with TLC: liveness, because the prover does not reason about fairness, and the
five violations, which are single behaviours. Every invariant and every action property that
a passing run checks is a theorem.

## 5. What the models leave out, and what they found on the way

Departures, where a property says less than one might expect because the code does:

- `AllowedCallsStayInBounds` takes a root for what it normalises to. A root `.` is
  accepted by the validator and matches every absolute path and no relative one.
- `FramesAreTheLines` counts the CR of a CR LF among the bytes of a frame, as the
  code does: a frame of exactly the limit that ends in CR LF is refused.
- `ForwardedIsClean` does not ask for an audit event of removed discovery metadata.
  Duplicate JSON keys, letter case and the spelling of numbers are abstracted.
- `SnippetRuns` has an exception for profiles that audit to stdout: they get a
  snippet, and `run` refuses them.
- `ConformanceTellsTheHook` is for sessions that wait at least as long as the check.
- `ExitCodeTellsAuditFailure` is about the upstream's side: an audit failure of a
  client frame after the upstream's exit has decided the race is not noticed.
- `DeadParentsGroupEnds` assumes the guardian has read the end of its input; a
  blocked write to the upstream can keep it from doing so.
- `TaggedReleaseIsApproved` is about the newest approval, which is the right one whatever
  the order of the records. `docs/ops/release.md:64` says more: that conflicting versions
  at one target and approvals on no one line fail. The code compares each record only with
  the latest one read before it, so the verdict depends on the order of file names: two
  versions at one target, or two incomparable targets, pass when a record at a descendant
  is read between them.
- `NoUnsolicitedAnswer` knows a request by its id, as the code does. The late answer to an
  expired request whose id was used again takes the entry of the second request and is
  relayed as its answer, a tools/list without filtering; `docs/library/migration-guide.md:75`
  says that late answers are dropped and that the id may be used again.
- `AppliedReportsAreTrue` is about updates from the policy file. The bridge can reject an
  update it was told to accept, for a missing profile or a changed audit contract
  (`stdio-bridge.ts:187`), of which its source learns nothing; the reloader, the only
  source here, has asked both questions of the same policy before, so `Settle` has no
  such case.
- `ReceiptsValidate` leaves out integrity values with several hashes and times that
  are not spelled as RFC 3339 has them, where generator and schema differ.

Only model-checked: the liveness properties and the violations; every invariant and action
property of the passing runs is a theorem (section 4).

Not modelled: the audit correlator (numbers and labels that no decision reads;
`StdioBridge` has the events themselves; read beside the session model it shows that
`discoveryGeneration` counts accepted answers only, as
`docs/architecture/10-audit-correlation-plan.md:45` says, so that the same generation
stands for the catalogue before and after a policy replacement, or a failed discovery,
has emptied it), the startup plan (a constructor), the
regular expressions of the redactor, the parsing of URLs, addresses and JSON, the
upstream environment's allow-list, the frame counters of the bridge, output formats,
the bootstrap archive's bytes, the scripts' self-tests on changed copies, the
replay of each compatibility fixture (one field, `agrees`, of an entry), smoke tests,
documentation checks and the testkit. The Windows job object, npm, GitHub and git
are external: they are modelled from how the code uses them.

Left for later: the refinement of `SerialSession` by `StdioBridge`; generations of
ids, to tell an answer to an expired request from one to its successor.
