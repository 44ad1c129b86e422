------------------------------ MODULE Release ------------------------------
(***************************************************************************)
(* How a version is published and how its publication is recorded: the     *)
(* Release workflow with its two jobs (release.yml, check-release-publish- *)
(* plan.mjs, create-github-release.mjs), the Registry Smoke and Publication *)
(* Receipt workflows (registry-smoke.yml, publication-receipt.yml,          *)
(* generate-publication-receipt.mjs), and the import of a receipt into the  *)
(* repository (import-publication-receipt.mjs).                            *)
(*                                                                         *)
(* Release runs of two tags overlap, since the concurrency group is the     *)
(* tag; jobs fail between any two steps, or after a service has acted and   *)
(* before its answer came, and are run again by hand.  The npm registry and *)
(* GitHub are external: versions are immutable, pnpm skips a version that   *)
(* is there, and publishing moves the dist-tag latest.                      *)
(***************************************************************************)
EXTENDS PublishPlan, FiniteSets

CONSTANTS
  None,
  Version,   \* the versions that are tagged
  Package,   \* the packages, in the order they are published
  Depends,   \* per package, the packages of the workspace its manifest names
  Trees,     \* what the commits of the tags may hold, per version
  SmokeRun,  \* runs of Registry Smoke, each with the receipt it may give
  Operator,  \* imports of a receipt
  MaxReruns, \* bound: how often failed jobs are run again
  MaxReading \* bound: how many receipts are put together at once

\* The packages are published after those of the workspace their manifests name, and
\* none has the name of one of the other sources of a receipt.
ASSUME ReleaseAssumption ==
  /\ Package \in Seq(STRING) \ {<<>>} /\ {"run", "github"} \cap ToSet(Package) = {}
  /\ \A i \in DOMAIN Package : \A d \in Depends[Package[i]] : \E j \in 1..i - 1 : d = Package[j]
  /\ None \notin Version \cup SmokeRun \cup {"matching", "other"}
  /\ MaxReruns \in Nat

VARIABLES
  tree,      \* per version, the tree its tag names
  run,       \* per version, the Release run: [state, step, job]
  reruns,    \* how often failed jobs were run again
  registry,  \* per package, the versions published
  latest,    \* per package, the version with the dist-tag latest, or None
  github,    \* per version, the GitHub Release: None, "matching" or "other"
  smoke,     \* per smoke run: [state, version, claimed]
  receipt,   \* per smoke run: [state, seen]
  recorded,  \* per version, the smoke run whose receipt is in docs/ops/publications
  import,    \* per operator: [state, of]
  history    \* the versions latest has named on all packages at once

releaseVars == <<tree, run, reruns, registry, latest, github>>
receiptVars == <<smoke, receipt>>
importVars == <<recorded, import>>
vars == <<releaseVars, receiptVars, importVars, history>>

RunState ==
  {"untagged", "checking", "publishing", "smoking", "reading", "creating", "succeeded", "failed"}

Sources == ToSet(Package) \cup {"run", "github"}

TypeOK ==
  /\ run \in [Version -> [state : RunState, step : Nat, job : {"publish", "github"}]]
  /\ reruns \in 0..MaxReruns
  /\ registry \in [ToSet(Package) -> SUBSET Version]
  /\ latest \in [ToSet(Package) -> Version \cup {None}]
  /\ github \in [Version -> {None, "matching", "other"}]
  /\ smoke \in [SmokeRun -> [state : {"none", "running", "success", "failure"},
                             version : Version \cup {None}, claimed : Version \cup {None}]]
  /\ receipt \in [SmokeRun -> [state : {"none", "reading", "made", "refused"},
                               seen : SUBSET Sources]]
  /\ recorded \in [Version -> SmokeRun \cup {None}]
  /\ import \in [Operator -> [state : {"idle", "validated", "staged", "linked", "exists",
                                       "refused", "done", "crashed"},
                              of : SmokeRun \cup {None}]]
  /\ history \subseteq Version

\* A tree is [records, manifests].
PlanOk(version) == PublishPlanOk(tree[version].records, tree[version].manifests, Package, version)

-----------------------------------------------------------------------------
(* The publish job.                                                        *)

AllPublished(version) == \A p \in ToSet(Package) : version \in registry[p]
AllLatest(version, tags) == \A p \in ToSet(Package) : tags[p] = version

Step(version, state, step, job) ==
  run' = [run EXCEPT ![version] = [state |-> state, step |-> step, job |-> job]]

Fail(version) == Step(version, "failed", 0, run[version].job)

PushTag(version) ==
  /\ run[version].state = "untagged"
  /\ Step(version, "checking", 0, "publish")
  /\ UNCHANGED <<tree, reruns, registry, latest, github, receiptVars,
                 importVars, history>>

CheckPlan(version) ==
  /\ run[version].state = "checking"
  /\ IF PlanOk(version) THEN Step(version, "publishing", 1, "publish") ELSE Fail(version)
  /\ UNCHANGED <<tree, reruns, registry, latest, github, receiptVars,
                 importVars, history>>

\* The registry takes a version once; what it has is skipped.
Accept(version, p) ==
  /\ registry' = [registry EXCEPT ![p] = @ \cup {version}]
  /\ latest' = IF version \in registry[p] THEN latest ELSE [latest EXCEPT ![p] = version]
  /\ history' = history \cup {v \in Version : AllLatest(v, latest')}

Publish(version) ==
  LET step == run[version].step
  IN  /\ run[version].state = "publishing"
      /\ Accept(version, Package[step])
      /\ IF step < Len(Package) THEN Step(version, "publishing", step + 1, "publish")
         ELSE Step(version, "smoking", 0, "publish")
      /\ UNCHANGED <<tree, reruns, github, receiptVars, importVars>>

\* The registry has taken the package, but the step fails.
PublishAnswerLost(version) ==
  /\ run[version].state = "publishing"
  /\ Accept(version, Package[run[version].step])
  /\ Fail(version)
  /\ UNCHANGED <<tree, reruns, github, receiptVars, importVars>>

Smoke(version) ==
  /\ run[version].state = "smoking"
  /\ IF AllPublished(version) THEN Step(version, "reading", 0, "github") ELSE Fail(version)
  /\ UNCHANGED <<tree, reruns, registry, latest, github, receiptVars,
                 importVars, history>>

\* Mutant: a step of the publish job that fails does not end it.
JobFails_GoesOn(version) ==
  LET step == run[version].step
  IN  /\ run[version].state \in {"checking", "publishing", "smoking", "reading", "creating"}
      /\ IF run[version].state = "publishing" /\ step < Len(Package)
         THEN Step(version, "publishing", step + 1, "publish") ELSE Fail(version)
      /\ UNCHANGED <<tree, reruns, registry, latest, github, receiptVars,
                     importVars, history>>

\* A check, a service or the runner fails, before anything has changed.
JobFails(version) ==
  /\ run[version].state \in {"checking", "publishing", "smoking", "reading", "creating"}
  /\ Fail(version)
  /\ UNCHANGED <<tree, reruns, registry, latest, github, receiptVars,
                 importVars, history>>

RerunFailed(version) ==
  /\ run[version].state = "failed" /\ reruns < MaxReruns
  /\ reruns' = reruns + 1
  /\ Step(version, IF run[version].job = "publish" THEN "checking" ELSE "reading", 0,
          run[version].job)
  /\ UNCHANGED <<tree, registry, latest, github, receiptVars, importVars,
                 history>>

-----------------------------------------------------------------------------
(* The github-release job: createOrVerifyGitHubRelease.                    *)

Succeed(version) == Step(version, "succeeded", 0, "github")

\* A Release that is there has to match the tag's channel.
Verify(version) ==
  IF github[version] = "matching" THEN Succeed(version) ELSE Fail(version)

ReadRelease(version) ==
  /\ run[version].state = "reading"
  /\ IF github[version] # None THEN Verify(version)
     ELSE Step(version, "creating", 0, "github")
  /\ UNCHANGED <<tree, reruns, registry, latest, github, receiptVars,
                 importVars, history>>

\* 201, or 422 and the Release that has come in between is read.
CreateRelease(version) ==
  /\ run[version].state = "creating"
  /\ IF github[version] # None THEN Verify(version) /\ UNCHANGED github
     ELSE Succeed(version) /\ github' = [github EXCEPT ![version] = "matching"]
  /\ UNCHANGED <<tree, reruns, registry, latest, receiptVars, importVars,
                 history>>

CreateAnswerLost(version) ==
  /\ run[version].state = "creating" /\ github[version] = None
  /\ github' = [github EXCEPT ![version] = "matching"]
  /\ Fail(version)
  /\ UNCHANGED <<tree, reruns, registry, latest, receiptVars, importVars,
                 history>>

\* A Release published by hand for the tag.  Bound: before the job has looked for
\* it, or between its look and its request; nothing reads it earlier.
HandMadeRelease(version, channel) ==
  /\ run[version].state \in {"reading", "creating"} /\ github[version] = None
  /\ github' = [github EXCEPT ![version] = channel]
  /\ UNCHANGED <<tree, run, reruns, registry, latest, receiptVars, importVars,
                 history>>

-----------------------------------------------------------------------------
(* Registry Smoke, dispatched by hand for a version and with the Release    *)
(* run it is claimed to be of, one at a time for a version, and the receipt *)
(* workflow that follows it.                                               *)

Dispatch(s, version, claimed) ==
  /\ smoke[s].state = "none"
  /\ \A other \in SmokeRun : smoke[other].version = version => smoke[other].state # "running"
  /\ smoke' = [smoke EXCEPT ![s] = [state |-> "running", version |-> version,
                                    claimed |-> claimed]]
  /\ UNCHANGED <<releaseVars, receipt, importVars, history>>

SmokeSucceeds(s) ==
  /\ smoke[s].state = "running" /\ AllPublished(smoke[s].version)
  /\ Cardinality({other \in SmokeRun : receipt[other].state = "reading"}) < MaxReading
  /\ smoke' = [smoke EXCEPT ![s].state = "success"]
  /\ receipt' = [receipt EXCEPT ![s].state = "reading"]
  /\ UNCHANGED <<releaseVars, importVars, history>>

SmokeFails(s) ==
  /\ smoke[s].state = "running"
  /\ smoke' = [smoke EXCEPT ![s].state = "failure"]
  /\ UNCHANGED <<releaseVars, receipt, importVars, history>>

\* Mutant: only the first package's dist-tags are looked at.
DistTagOk_First(version, p) == p = Head(Package) => latest[p] = version

\* The tag latest, the same on all packages, is the version.
DistTagOk(version, p) == latest[p] = version

\* The release run has to be that of the version's tag, and successful; the Release
\* has to be there and of the channel of the version.
EvidenceOk(s, source) ==
  LET version == smoke[s].version
  IN  CASE source = "run" -> smoke[s].claimed = version /\ run[version].state = "succeeded"
        [] source = "github" -> github[version] = "matching"
        [] OTHER -> DistTagOk(version, source)

\* The reads of Promise.all, in whatever order they are answered.  A package is
\* read with the version's metadata and its dist-tags.  An answer that cannot be
\* evidence refuses the receipt, whatever the others are.
ReadEvidence(s, source) ==
  /\ receipt[s].state = "reading" /\ source \notin receipt[s].seen
  /\ LET seen == receipt[s].seen \cup {source}
     IN  receipt' = [receipt EXCEPT ![s] =
           IF ~EvidenceOk(s, source) THEN [state |-> "refused", seen |-> {}]
           ELSE IF seen = Sources THEN [state |-> "made", seen |-> {}]
           ELSE [state |-> "reading", seen |-> seen]]
  /\ UNCHANGED <<releaseVars, smoke, importVars, history>>

\* A read whose three attempts fail ends the receipt.
ReadFails(s) ==
  /\ receipt[s].state = "reading"
  /\ receipt' = [receipt EXCEPT ![s] = [state |-> "refused", seen |-> {}]]
  /\ UNCHANGED <<releaseVars, smoke, importVars, history>>

-----------------------------------------------------------------------------
(* importPublicationReceipt: the artifact of a smoke run, for a version the *)
(* operator repeats.                                                       *)

Place(o) == smoke[import[o].of].version

Become(o, state) == import' = [import EXCEPT ![o].state = state]

BeginImport(o, s, version) ==
  /\ import[o].state = "idle" /\ receipt[s].state = "made"
  /\ import' = [import EXCEPT ![o] =
       [state |-> IF smoke[s].version = version /\ recorded[version] = None
                  THEN "validated" ELSE "refused",
        of |-> s]]
  /\ UNCHANGED <<releaseVars, receiptVars, recorded, history>>

\* The staging file is written under a name of its own.
Stage(o) ==
  /\ import[o].state = "validated"
  /\ Become(o, "staged")
  /\ UNCHANGED <<releaseVars, receiptVars, recorded, history>>

\* Mutant: the staging file is renamed over whatever is there.
Link_Renames(o) ==
  /\ import[o].state = "staged"
  /\ recorded' = [recorded EXCEPT ![Place(o)] = import[o].of]
  /\ Become(o, "linked")
  /\ UNCHANGED <<releaseVars, receiptVars, history>>

\* The link fails when the destination exists; either way the staging file goes.
Link(o) ==
  /\ import[o].state = "staged"
  /\ IF recorded[Place(o)] = None
     THEN recorded' = [recorded EXCEPT ![Place(o)] = import[o].of] /\ Become(o, "linked")
     ELSE Become(o, "exists") /\ UNCHANGED recorded
  /\ UNCHANGED <<releaseVars, receiptVars, history>>

\* The file is read back, and removed when it is not what was written.
VerifyImport(o) ==
  /\ import[o].state = "linked"
  /\ recorded' = IF recorded[Place(o)] = import[o].of THEN recorded
                 ELSE [recorded EXCEPT ![Place(o)] = None]
  /\ Become(o, IF recorded[Place(o)] = import[o].of THEN "done" ELSE "refused")
  /\ UNCHANGED <<releaseVars, receiptVars, history>>

\* The process is killed: its staging file may stay, and another import may follow.
CrashImport(o) ==
  /\ import[o].state \in {"validated", "staged", "linked"}
  /\ Become(o, "crashed")
  /\ UNCHANGED <<releaseVars, receiptVars, recorded, history>>

-----------------------------------------------------------------------------

Init ==
  /\ tree \in Trees
  /\ run = [v \in Version |-> [state |-> "untagged", step |-> 0, job |-> "publish"]]
  /\ reruns = 0
  /\ registry = [p \in ToSet(Package) |-> {}]
  /\ latest = [p \in ToSet(Package) |-> None]
  /\ github = [v \in Version |-> None]
  /\ smoke = [s \in SmokeRun |-> [state |-> "none", version |-> None, claimed |-> None]]
  /\ receipt = [s \in SmokeRun |-> [state |-> "none", seen |-> {}]]
  /\ recorded = [v \in Version |-> None]
  /\ import = [o \in Operator |-> [state |-> "idle", of |-> None]]
  /\ history = {}

PublishJob(v) ==
  PushTag(v) \/ CheckPlan(v) \/ Publish(v) \/ PublishAnswerLost(v) \/ Smoke(v)

ReleaseJob(v) ==
  ReadRelease(v) \/ CreateRelease(v) \/ CreateAnswerLost(v)

ReceiptJob(s) ==
  \/ SmokeSucceeds(s) \/ SmokeFails(s)
  \/ (\E source \in Sources : ReadEvidence(s, source)) \/ ReadFails(s)

ImportStep(o) ==
  Stage(o) \/ Link(o) \/ VerifyImport(o) \/ CrashImport(o)

Next ==
  \/ \E v \in Version : PublishJob(v) \/ ReleaseJob(v) \/ JobFails(v) \/ RerunFailed(v)
  \/ \E v \in Version, channel \in {"matching", "other"} : HandMadeRelease(v, channel)
  \/ \E s \in SmokeRun, v, claimed \in Version : Dispatch(s, v, claimed)
  \/ \E s \in SmokeRun : ReceiptJob(s)
  \/ \E o \in Operator, s \in SmokeRun, v \in Version : BeginImport(o, s, v)
  \/ \E o \in Operator : ImportStep(o)

Spec == Init /\ [][Next]_vars

-----------------------------------------------------------------------------
(* What the steps rest on.                                                 *)

\* A run publishes in order, a version that is approved, and goes on to its second
\* job when everything is published.
RunInOrder(version) ==
  /\ run[version].state \in {"publishing", "smoking"} => PlanOk(version)
  /\ run[version].state = "publishing" =>
       /\ run[version].step \in DOMAIN Package
       /\ \A j \in 1..run[version].step - 1 : version \in registry[Package[j]]
  /\ run[version].state \in {"reading", "creating", "succeeded"} => run[version].job = "github"
  /\ run[version].job = "github" => PlanOk(version) /\ AllPublished(version)
  /\ run[version].state = "succeeded" => github[version] = "matching"

RunsInOrder == \A v \in Version : RunInOrder(v)

LatestIsRemembered ==
  /\ \A p \in ToSet(Package) : latest[p] = None \/ latest[p] \in registry[p]
  /\ \A v \in Version : AllLatest(v, latest) => v \in history

\* What the sources read so far have shown for good: a tag latest that has gone on to
\* another version never comes back, so it has named the version on all packages at
\* once if it does on those not yet read.
EvidenceStandsOf(s) ==
  LET version == smoke[s].version
      seen == receipt[s].seen
  IN  /\ smoke[s].state # "none" => version \in Version
      /\ receipt[s].state = "none" => seen = {}
      /\ receipt[s].state # "none" => smoke[s].state = "success" /\ AllPublished(version)
      /\ receipt[s].state = "reading" =>
           /\ "run" \in seen => run[version].state = "succeeded"
           /\ "github" \in seen => github[version] = "matching"
           /\ (\A p \in ToSet(Package) : p \in seen \/ latest[p] = version) => version \in history
      /\ receipt[s].state = "made" =>
           /\ run[version].state = "succeeded" /\ github[version] = "matching"
           /\ version \in history

EvidenceStands == \A s \in SmokeRun : EvidenceStandsOf(s)

ImportsTell ==
  /\ \A o \in Operator : import[o].state \in {"validated", "staged", "linked"} =>
       import[o].of \in SmokeRun /\ receipt[import[o].of].state = "made"
  /\ \A o \in Operator : import[o].state = "linked" => recorded[Place(o)] = import[o].of
  /\ \A v \in Version : recorded[v] # None =>
       receipt[recorded[v]].state = "made" /\ smoke[recorded[v]].version = v

-----------------------------------------------------------------------------

\* At every moment, whatever has failed and been run again, the dependencies of a
\* published package are published: who installs it gets a whole set.
PublishedIsInstallable ==
  \A p \in ToSet(Package) : \A d \in Depends[p] : registry[p] \subseteq registry[d]

\* A recorded receipt is true, though its evidence was read piece by piece while
\* another version was being published: the version was approved, its Release run
\* succeeded, a smoke run of that version did, its GitHub Release is of the right
\* channel, and there was a moment when latest named it on all packages.
ReceiptIsTrue ==
  \A v \in Version : recorded[v] # None =>
    LET s == recorded[v]
    IN  /\ PlanOk(v) /\ AllPublished(v)
        /\ smoke[s].version = v /\ smoke[s].state = "success"
        /\ run[v].state = "succeeded" /\ v \in history
        /\ github[v] = "matching"

\* Receipts are immutable: two imports at once, or one after a crash, never replace
\* or remove the one that is there.
ReceiptsAreImmutable ==
  [][\A v \in Version : recorded[v] # None => recorded'[v] = recorded[v]]_vars
=============================================================================
