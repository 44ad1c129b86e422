---------------------------- MODULE Release_proofs ----------------------------
(***************************************************************************)
(* The safety of a publication for any packages, versions, trees, smoke     *)
(* runs and imports: what is published can be installed, what is recorded  *)
(* is true, and what is recorded stays.                                    *)
(***************************************************************************)
EXTENDS Release, TLAPS

(***************************************************************************)
(* The packages.                                                            *)
(***************************************************************************)

\* The packages are those of the positions of the order they are published in.
LEMMA PackagePositions ==
  /\ Len(Package) \in Nat \ {0} /\ DOMAIN Package = 1..Len(Package)
  /\ \A i \in 1..Len(Package) : Package[i] \in ToSet(Package)
  /\ \A p \in ToSet(Package) : \E i \in 1..Len(Package) : p = Package[i]
BY ReleaseAssumption DEF ToSet

LEMMA PackageIsNoJob ==
  /\ "run" \notin ToSet(Package) /\ "github" \notin ToSet(Package)
  /\ ToSet(Package) \subseteq Sources /\ "run" \in Sources /\ "github" \in Sources
BY ReleaseAssumption DEF Sources

(***************************************************************************)
(* The state keeps its types.                                               *)
(***************************************************************************)

LEMMA InitTyped ==
  ASSUME Init
  PROVE  TypeOK
<1>1. run \in [Version -> [state : RunState, step : Nat, job : {"publish", "github"}]]
  BY DEF Init, RunState
<1>2. reruns \in 0..MaxReruns
  BY ReleaseAssumption DEF Init
<1> QED BY <1>1, <1>2 DEF Init, TypeOK

\* What a step of a Release run does to its record.
LEMMA StepTyped ==
  ASSUME run \in [Version -> [state : RunState, step : Nat, job : {"publish", "github"}]],
         NEW v \in Version, NEW state \in RunState, NEW step \in Nat,
         NEW job \in {"publish", "github"}, Step(v, state, step, job)
  PROVE  /\ run' \in [Version -> [state : RunState, step : Nat, job : {"publish", "github"}]]
         /\ run'[v] = [state |-> state, step |-> step, job |-> job]
         /\ \A w \in Version : w # v => run'[w] = run[w]
BY DEF Step

\* What the registry and the tags become when it is given a version of a package.
LEMMA AcceptTyped ==
  ASSUME TypeOK, NEW v \in Version, NEW p \in ToSet(Package), Accept(v, p)
  PROVE  /\ registry' \in [ToSet(Package) -> SUBSET Version]
         /\ latest' \in [ToSet(Package) -> Version \cup {None}]
         /\ history' \subseteq Version
<1>1. registry' \in [ToSet(Package) -> SUBSET Version]
  BY DEF TypeOK, Accept
<1>2. latest' \in [ToSet(Package) -> Version \cup {None}]
  BY DEF TypeOK, Accept
<1>3. history' \subseteq Version
  BY DEF TypeOK, Accept
<1> QED BY <1>1, <1>2, <1>3

\* The state and the job a Release run's step leaves it in, and which step of a run it is.
LEMMA RunSteps ==
  ASSUME TypeOK, RunsInOrder, NEW v \in Version,
         PublishJob(v) \/ ReleaseJob(v) \/ JobFails(v) \/ RerunFailed(v)
  PROVE  \E state \in RunState, step \in Nat, job \in {"publish", "github"} :
           Step(v, state, step, job)
<1>1. run[v] \in [state : RunState, step : Nat, job : {"publish", "github"}]
  BY DEF TypeOK
<1>2. run[v].job \in {"publish", "github"} /\ run[v].step \in Nat /\ run[v].step + 1 \in Nat
  BY <1>1
<1>3. CASE PublishJob(v)
  BY <1>2, <1>3 DEF PublishJob, PushTag, CheckPlan, Publish, PublishAnswerLost, Smoke, Fail,
                    RunState
<1>4. CASE ReleaseJob(v)
  BY <1>2, <1>4 DEF ReleaseJob, ReadRelease, CreateRelease, CreateAnswerLost, Verify, Succeed, Fail,
                    RunState
<1>5. CASE JobFails(v) \/ RerunFailed(v)
  BY <1>2, <1>5 DEF JobFails, RerunFailed, Fail, RunState
<1> QED BY <1>3, <1>4, <1>5

\* The package a run publishes next.
LEMMA NextPackage ==
  ASSUME RunsInOrder, NEW v \in Version, run[v].state = "publishing"
  PROVE  run[v].step \in 1..Len(Package) /\ Package[run[v].step] \in ToSet(Package)
BY PackagePositions DEF RunsInOrder, RunInOrder

LEMMA ReleaseTyped ==
  ASSUME TypeOK, RunsInOrder, NEW v \in Version,
         PublishJob(v) \/ ReleaseJob(v) \/ JobFails(v) \/ RerunFailed(v)
  PROVE  TypeOK'
<1>1. run' \in [Version -> [state : RunState, step : Nat, job : {"publish", "github"}]]
  <2>1. PICK state \in RunState, step \in Nat, job \in {"publish", "github"} :
               Step(v, state, step, job)
    BY RunSteps
  <2>2. run \in [Version -> [state : RunState, step : Nat, job : {"publish", "github"}]]
    BY DEF TypeOK
  <2> QED BY <2>1, <2>2 DEF Step
<1>2. reruns' \in 0..MaxReruns
  <2>1. reruns' = reruns \/ (reruns < MaxReruns /\ reruns' = reruns + 1)
    BY DEF PublishJob, PushTag, CheckPlan, Publish, PublishAnswerLost, Smoke, ReleaseJob,
           ReadRelease, CreateRelease, CreateAnswerLost, JobFails, RerunFailed
  <2> QED BY <2>1, ReleaseAssumption DEF TypeOK
<1>3. /\ registry' \in [ToSet(Package) -> SUBSET Version]
      /\ latest' \in [ToSet(Package) -> Version \cup {None}]
      /\ history' \subseteq Version
  <2>1. CASE Publish(v) \/ PublishAnswerLost(v)
    <3>1. Package[run[v].step] \in ToSet(Package) /\ Accept(v, Package[run[v].step])
      BY <2>1, NextPackage DEF Publish, PublishAnswerLost
    <3> QED BY <3>1, AcceptTyped
  <2>2. CASE ~(Publish(v) \/ PublishAnswerLost(v))
    <3>1. UNCHANGED <<registry, latest, history>>
      BY <2>2 DEF PublishJob, PushTag, CheckPlan, Smoke, ReleaseJob, ReadRelease, CreateRelease,
                  CreateAnswerLost, JobFails, RerunFailed
    <3> QED BY <3>1 DEF TypeOK
  <2> QED BY <2>1, <2>2
<1>4. github' \in [Version -> {None, "matching", "other"}]
  <2>1. github' = github \/ github' = [github EXCEPT ![v] = "matching"]
    BY DEF PublishJob, PushTag, CheckPlan, Publish, PublishAnswerLost, Smoke, ReleaseJob,
           ReadRelease, CreateRelease, CreateAnswerLost, JobFails, RerunFailed
  <2> QED BY <2>1 DEF TypeOK
<1>5. UNCHANGED <<smoke, receipt, recorded, import>>
  BY DEF PublishJob, PushTag, CheckPlan, Publish, PublishAnswerLost, Smoke, ReleaseJob,
         ReadRelease, CreateRelease, CreateAnswerLost, JobFails, RerunFailed, receiptVars,
         importVars
<1> QED BY <1>1, <1>2, <1>3, <1>4, <1>5 DEF TypeOK

\* What a source that is read makes of a receipt.
LEMMA ReadTyped ==
  ASSUME TypeOK, NEW s \in SmokeRun, NEW source \in Sources, ReadEvidence(s, source)
  PROVE  /\ receipt' \in [SmokeRun -> [state : {"none", "reading", "made", "refused"},
                                       seen : SUBSET Sources]]
         /\ \A other \in SmokeRun : other # s => receipt'[other] = receipt[other]
         /\ receipt'[s] =
              IF ~EvidenceOk(s, source) THEN [state |-> "refused", seen |-> {}]
              ELSE IF receipt[s].seen \cup {source} = Sources THEN [state |-> "made", seen |-> {}]
              ELSE [state |-> "reading", seen |-> receipt[s].seen \cup {source}]
<1> DEFINE now ==
      IF ~EvidenceOk(s, source) THEN [state |-> "refused", seen |-> {}]
      ELSE IF receipt[s].seen \cup {source} = Sources THEN [state |-> "made", seen |-> {}]
      ELSE [state |-> "reading", seen |-> receipt[s].seen \cup {source}]
<1>1. receipt[s] \in [state : {"none", "reading", "made", "refused"}, seen : SUBSET Sources]
  BY DEF TypeOK
<1>2. receipt' = [receipt EXCEPT ![s] = now]
  BY DEF ReadEvidence
<1>3. now \in [state : {"none", "reading", "made", "refused"}, seen : SUBSET Sources]
  BY <1>1
<1> HIDE DEF now
<1>4. receipt'[s] = now
  BY <1>2 DEF TypeOK
<1>5. \A other \in SmokeRun : other # s => receipt'[other] = receipt[other]
  BY <1>2 DEF TypeOK
<1>6. receipt' \in [SmokeRun -> [state : {"none", "reading", "made", "refused"},
                                 seen : SUBSET Sources]]
  BY <1>2, <1>3 DEF TypeOK
<1> QED BY <1>4, <1>5, <1>6 DEF now

LEMMA ReceiptTyped ==
  ASSUME TypeOK, NEW s \in SmokeRun,
         ReceiptJob(s) \/ \E v, claimed \in Version : Dispatch(s, v, claimed)
  PROVE  TypeOK'
<1>1. UNCHANGED <<run, reruns, registry, latest, github, recorded, import, history>>
  BY DEF ReceiptJob, SmokeSucceeds, SmokeFails, ReadEvidence, ReadFails, Dispatch, releaseVars,
         importVars
<1>2. smoke' \in [SmokeRun -> [state : {"none", "running", "success", "failure"},
                               version : Version \cup {None}, claimed : Version \cup {None}]]
  <2>1. CASE \E v, claimed \in Version : Dispatch(s, v, claimed)
    BY <2>1 DEF TypeOK, Dispatch
  <2>2. CASE SmokeSucceeds(s)
    BY <2>2 DEF TypeOK, SmokeSucceeds
  <2>3. CASE SmokeFails(s)
    BY <2>3 DEF TypeOK, SmokeFails
  <2>4. CASE (\E source \in Sources : ReadEvidence(s, source)) \/ ReadFails(s)
    BY <2>4 DEF TypeOK, ReadEvidence, ReadFails
  <2> QED BY <2>1, <2>2, <2>3, <2>4 DEF ReceiptJob
<1>3. receipt' \in [SmokeRun -> [state : {"none", "reading", "made", "refused"},
                                 seen : SUBSET Sources]]
  <2>1. CASE SmokeFails(s) \/ \E v, claimed \in Version : Dispatch(s, v, claimed)
    BY <2>1 DEF TypeOK, SmokeFails, Dispatch
  <2>2. CASE SmokeSucceeds(s)
    BY <2>2 DEF TypeOK, SmokeSucceeds
  <2>3. CASE ReadFails(s)
    BY <2>3 DEF TypeOK, ReadFails
  <2>4. ASSUME NEW source \in Sources, ReadEvidence(s, source)
        PROVE  receipt' \in [SmokeRun -> [state : {"none", "reading", "made", "refused"},
                                          seen : SUBSET Sources]]
    BY <2>4, ReadTyped
  <2> QED BY <2>1, <2>2, <2>3, <2>4 DEF ReceiptJob
<1> QED BY <1>1, <1>2, <1>3 DEF TypeOK

LEMMA ImportTyped ==
  ASSUME TypeOK, ImportsTell, NEW o \in Operator,
         ImportStep(o) \/ \E s \in SmokeRun, v \in Version : BeginImport(o, s, v)
  PROVE  TypeOK'
<1>1. UNCHANGED <<run, reruns, registry, latest, github, smoke, receipt, history>>
  BY DEF ImportStep, Stage, Link, VerifyImport, CrashImport, BeginImport, releaseVars, receiptVars
<1>2. import' \in [Operator -> [state : {"idle", "validated", "staged", "linked", "exists",
                                         "refused", "done", "crashed"},
                                of : SmokeRun \cup {None}]]
  BY DEF TypeOK, ImportStep, Stage, Link, VerifyImport, CrashImport, BeginImport, Become
<1>3. recorded' \in [Version -> SmokeRun \cup {None}]
  <2>1. CASE Link(o)
    <3>1. import[o].of \in SmokeRun
      BY <2>1 DEF Link, ImportsTell
    <3> QED BY <2>1, <3>1 DEF TypeOK, Link
  <2>2. CASE ~Link(o)
    BY <2>2 DEF TypeOK, ImportStep, Stage, VerifyImport, CrashImport, BeginImport
  <2> QED BY <2>1, <2>2
<1> QED BY <1>1, <1>2, <1>3 DEF TypeOK

LEMMA TypesHold ==
  ASSUME TypeOK, RunsInOrder, ImportsTell, [Next]_vars
  PROVE  TypeOK'
<1>1. CASE UNCHANGED vars
  BY <1>1 DEF TypeOK, vars, releaseVars, receiptVars, importVars
<1>2. CASE \E v \in Version, channel \in {"matching", "other"} : HandMadeRelease(v, channel)
  BY <1>2 DEF TypeOK, HandMadeRelease, receiptVars, importVars
<1> QED BY <1>1, <1>2, ReleaseTyped, ReceiptTyped, ImportTyped DEF Next

(***************************************************************************)
(* What a step leaves.                                                      *)
(***************************************************************************)

\* What is published, what has succeeded and what latest has named stays, and a tag that
\* has left a version does not come back to it.
Grows ==
  /\ tree' = tree
  /\ \A p \in ToSet(Package) : registry[p] \subseteq registry'[p]
  /\ history \subseteq history'
  /\ \A v \in Version : run[v].state = "succeeded" => run'[v].state = "succeeded"
  /\ \A v \in Version : github[v] = "matching" => github'[v] = "matching"
  /\ \A p \in ToSet(Package), v \in Version :
       v \in registry[p] /\ latest'[p] = v => latest[p] = v

LEMMA AcceptGrows ==
  ASSUME TypeOK, NEW v \in Version, NEW p \in ToSet(Package), Accept(v, p)
  PROVE  /\ v \in registry'[p]
         /\ \A q \in ToSet(Package) : registry[q] \subseteq registry'[q]
         /\ \A q \in ToSet(Package) : q # p => registry'[q] = registry[q]
         /\ registry'[p] = registry[p] \cup {v}
         /\ history \subseteq history'
         /\ \A q \in ToSet(Package), w \in Version :
              w \in registry[q] /\ latest'[q] = w => latest[q] = w
<1>1. /\ registry' = [registry EXCEPT ![p] = @ \cup {v}]
      /\ registry \in [ToSet(Package) -> SUBSET Version]
  BY DEF Accept, TypeOK
<1>2. history \subseteq history'
  BY DEF Accept
<1>3. ASSUME NEW q \in ToSet(Package), NEW w \in Version, w \in registry[q], latest'[q] = w
      PROVE  latest[q] = w
  BY <1>3 DEF Accept, TypeOK
<1> QED BY <1>1, <1>2, <1>3

LEMMA ReleaseGrows ==
  ASSUME TypeOK, RunsInOrder, NEW v \in Version,
         PublishJob(v) \/ ReleaseJob(v) \/ JobFails(v) \/ RerunFailed(v)
  PROVE  Grows /\ UNCHANGED <<smoke, receipt, recorded, import>>
<1>1. UNCHANGED <<tree, smoke, receipt, recorded, import>>
  BY DEF PublishJob, PushTag, CheckPlan, Publish, PublishAnswerLost, Smoke, ReleaseJob,
         ReadRelease, CreateRelease, CreateAnswerLost, JobFails, RerunFailed, receiptVars,
         importVars
<1>2. /\ \A p \in ToSet(Package) : registry[p] \subseteq registry'[p]
      /\ history \subseteq history'
      /\ \A p \in ToSet(Package), w \in Version :
           w \in registry[p] /\ latest'[p] = w => latest[p] = w
  <2>1. CASE Publish(v) \/ PublishAnswerLost(v)
    <3>1. Package[run[v].step] \in ToSet(Package) /\ Accept(v, Package[run[v].step])
      BY <2>1, NextPackage DEF Publish, PublishAnswerLost
    <3> QED BY <3>1, AcceptGrows
  <2>2. CASE ~(Publish(v) \/ PublishAnswerLost(v))
    <3>1. UNCHANGED <<registry, latest, history>>
      BY <2>2 DEF PublishJob, PushTag, CheckPlan, Smoke, ReleaseJob, ReadRelease, CreateRelease,
                  CreateAnswerLost, JobFails, RerunFailed
    <3> QED BY <3>1
  <2> QED BY <2>1, <2>2
<1>3. ASSUME NEW w \in Version, run[w].state = "succeeded"
      PROVE  run'[w].state = "succeeded"
  <2>1. PICK state \in RunState, step \in Nat, job \in {"publish", "github"} :
               Step(v, state, step, job)
    BY RunSteps
  <2>2. run \in [Version -> [state : RunState, step : Nat, job : {"publish", "github"}]]
    BY DEF TypeOK
  <2>3. run[v].state # "succeeded"
    BY DEF PublishJob, PushTag, CheckPlan, Publish, PublishAnswerLost, Smoke, ReleaseJob,
           ReadRelease, CreateRelease, CreateAnswerLost, JobFails, RerunFailed
  <2> QED BY <1>3, <2>1, <2>2, <2>3, StepTyped
<1>4. ASSUME NEW w \in Version, github[w] = "matching"
      PROVE  github'[w] = "matching"
  <2>1. github' = github \/ github' = [github EXCEPT ![v] = "matching"]
    BY DEF PublishJob, PushTag, CheckPlan, Publish, PublishAnswerLost, Smoke, ReleaseJob,
           ReadRelease, CreateRelease, CreateAnswerLost, JobFails, RerunFailed
  <2> QED BY <1>4, <2>1 DEF TypeOK
<1> QED BY <1>1, <1>2, <1>3, <1>4 DEF Grows

LEMMA HandMadeGrows ==
  ASSUME TypeOK, NEW v \in Version, NEW channel \in {"matching", "other"},
         HandMadeRelease(v, channel)
  PROVE  Grows /\ UNCHANGED <<run, registry, latest, history, smoke, receipt, recorded, import>>
<1>1. UNCHANGED <<tree, run, registry, latest, history, smoke, receipt, recorded, import>>
  BY DEF HandMadeRelease, receiptVars, importVars
<1>2. ASSUME NEW w \in Version, github[w] = "matching"
      PROVE  github'[w] = "matching"
  BY <1>2, ReleaseAssumption DEF HandMadeRelease, TypeOK
<1> QED BY <1>1, <1>2 DEF Grows

(***************************************************************************)
(* Release runs.                                                            *)
(***************************************************************************)

LEMMA PublishedStays ==
  ASSUME Grows, NEW v \in Version
  PROVE  /\ PlanOk(v)' = PlanOk(v)
         /\ AllPublished(v) => AllPublished(v)'
         /\ \A p \in ToSet(Package) : v \in registry[p] => v \in registry'[p]
BY DEF Grows, PlanOk, AllPublished

LEMMA StepLeaves ==
  ASSUME TypeOK, NEW v \in Version, NEW state, NEW step, NEW job, Step(v, state, step, job)
  PROVE  run'[v] = [state |-> state, step |-> step, job |-> job]
BY DEF Step, TypeOK

\* A run that takes no step.
LEMMA OtherRunsStay ==
  ASSUME Grows, NEW v \in Version, RunInOrder(v), run'[v] = run[v]
  PROVE  RunInOrder(v)'
<1>1. run[v].state = "publishing" =>
        \A j \in 1..run[v].step - 1 : Package[j] \in ToSet(Package)
  BY PackagePositions DEF RunInOrder
<1> QED BY <1>1, PublishedStays DEF RunInOrder, Grows

\* A job that ends, or begins again.
LEMMA EndsInOrder ==
  ASSUME Grows, NEW v \in Version, RunInOrder(v), NEW state \in {"checking", "reading", "failed"},
         run'[v] = [state |-> state, step |-> 0, job |-> run[v].job],
         state = "reading" => run[v].job = "github"
  PROVE  RunInOrder(v)'
BY PublishedStays DEF RunInOrder

LEMMA FailsInOrder ==
  ASSUME TypeOK, Grows, NEW v \in Version, RunInOrder(v), Fail(v)
  PROVE  RunInOrder(v)'
<1>1. run'[v] = [state |-> "failed", step |-> 0, job |-> run[v].job]
  BY StepLeaves DEF Fail
<1> QED BY <1>1, EndsInOrder

\* The steps of the publish job.
LEMMA PublishJobInOrder ==
  ASSUME TypeOK, Grows, NEW v \in Version, RunInOrder(v), RunsInOrder, PublishJob(v)
  PROVE  RunInOrder(v)'
<1>1. CASE PushTag(v)
  <2>1. run'[v] = [state |-> "checking", step |-> 0, job |-> "publish"]
    BY <1>1, StepLeaves DEF PushTag
  <2> QED BY <2>1 DEF RunInOrder
<1>2. CASE CheckPlan(v)
  <2>1. CASE PlanOk(v)
    <3>1. run'[v] = [state |-> "publishing", step |-> 1, job |-> "publish"]
      BY <1>2, <2>1, StepLeaves DEF CheckPlan
    <3> QED BY <2>1, <3>1, PublishedStays, PackagePositions DEF RunInOrder
  <2>2. CASE ~PlanOk(v)
    BY <1>2, <2>2, FailsInOrder DEF CheckPlan
  <2> QED BY <2>1, <2>2
<1>3. CASE Publish(v)
  <2> DEFINE step == run[v].step
  <2>1. /\ run[v].state = "publishing" /\ step \in 1..Len(Package)
        /\ Accept(v, Package[step]) /\ Package[step] \in ToSet(Package) /\ PlanOk(v)
    BY <1>3, NextPackage DEF Publish, RunInOrder
  <2>2. \A j \in 1..step : v \in registry'[Package[j]]
    <3>1. v \in registry'[Package[step]]
      BY <2>1, AcceptGrows
    <3>2. ASSUME NEW j \in 1..step - 1 PROVE v \in registry'[Package[j]]
      BY <2>1, PublishedStays, PackagePositions DEF RunInOrder
    <3> QED BY <2>1, <3>1, <3>2
  <2>3. CASE step < Len(Package)
    <3>1. run'[v] = [state |-> "publishing", step |-> step + 1, job |-> "publish"]
      BY <1>3, <2>3, StepLeaves DEF Publish
    <3>2. step + 1 \in DOMAIN Package /\ 1..(step + 1) - 1 = 1..step
      BY <2>1, <2>3, PackagePositions
    <3> QED BY <2>1, <2>2, <3>1, <3>2, PublishedStays DEF RunInOrder
  <2>4. CASE ~(step < Len(Package))
    <3>1. run'[v] = [state |-> "smoking", step |-> 0, job |-> "publish"]
      BY <1>3, <2>4, StepLeaves DEF Publish
    <3> QED BY <2>1, <3>1, PublishedStays DEF RunInOrder
  <2> QED BY <2>3, <2>4
<1>4. CASE PublishAnswerLost(v)
  BY <1>4, FailsInOrder DEF PublishAnswerLost
<1>5. CASE Smoke(v)
  <2>1. CASE AllPublished(v)
    <3>1. run'[v] = [state |-> "reading", step |-> 0, job |-> "github"] /\ PlanOk(v)
      BY <1>5, <2>1, StepLeaves DEF Smoke, RunInOrder
    <3> QED BY <2>1, <3>1, PublishedStays DEF RunInOrder
  <2>2. CASE ~AllPublished(v)
    BY <1>5, <2>2, FailsInOrder DEF Smoke
  <2> QED BY <2>1, <2>2
<1> QED BY <1>1, <1>2, <1>3, <1>4, <1>5 DEF PublishJob

\* The steps of the job that makes the GitHub Release.
LEMMA ReleaseJobInOrder ==
  ASSUME TypeOK, Grows, NEW v \in Version, RunInOrder(v), ReleaseJob(v)
  PROVE  RunInOrder(v)'
<1>1. ASSUME Succeed(v), github'[v] = "matching", run[v].job = "github" PROVE RunInOrder(v)'
  <2>1. run'[v] = [state |-> "succeeded", step |-> 0, job |-> "github"]
    BY <1>1, StepLeaves DEF Succeed
  <2> QED BY <1>1, <2>1, PublishedStays DEF RunInOrder
<1>2. ASSUME Verify(v), github' = github, run[v].job = "github" PROVE RunInOrder(v)'
  BY <1>1, <1>2, FailsInOrder DEF Verify
<1>3. CASE ReadRelease(v)
  <2>1. run[v].job = "github" /\ github' = github
    BY <1>3 DEF ReadRelease, RunInOrder
  <2>2. CASE github[v] # None
    BY <1>2, <1>3, <2>1, <2>2 DEF ReadRelease
  <2>3. CASE github[v] = None
    <3>1. run'[v] = [state |-> "creating", step |-> 0, job |-> "github"]
      BY <1>3, <2>3, StepLeaves DEF ReadRelease
    <3> QED BY <2>1, <3>1, PublishedStays DEF RunInOrder
  <2> QED BY <2>2, <2>3
<1>4. CASE CreateRelease(v)
  <2>1. run[v].job = "github"
    BY <1>4 DEF CreateRelease, RunInOrder
  <2>2. CASE github[v] # None
    BY <1>2, <1>4, <2>1, <2>2 DEF CreateRelease
  <2>3. CASE github[v] = None
    <3>1. Succeed(v) /\ github'[v] = "matching"
      BY <1>4, <2>3 DEF CreateRelease, TypeOK
    <3> QED BY <1>1, <2>1, <3>1
  <2> QED BY <2>2, <2>3
<1>5. CASE CreateAnswerLost(v)
  BY <1>5, FailsInOrder DEF CreateAnswerLost
<1> QED BY <1>3, <1>4, <1>5 DEF ReleaseJob

LEMMA RerunInOrder ==
  ASSUME TypeOK, Grows, NEW v \in Version, RunInOrder(v), JobFails(v) \/ RerunFailed(v)
  PROVE  RunInOrder(v)'
<1>1. CASE JobFails(v)
  BY <1>1, FailsInOrder DEF JobFails
<1>2. CASE RerunFailed(v)
  <2> DEFINE state == IF run[v].job = "publish" THEN "checking" ELSE "reading"
  <2>1. run'[v] = [state |-> state, step |-> 0, job |-> run[v].job]
    BY <1>2, StepLeaves DEF RerunFailed
  <2>2. state \in {"checking", "reading"} /\ (state = "reading" => run[v].job = "github")
    BY DEF TypeOK
  <2> QED BY <2>1, <2>2, EndsInOrder
<1> QED BY <1>1, <1>2

LEMMA RunsHold ==
  ASSUME TypeOK, RunsInOrder, [Next]_vars
  PROVE  RunsInOrder'
<1>1. ASSUME UNCHANGED <<tree, run, registry, github>> PROVE RunsInOrder'
  BY <1>1 DEF RunsInOrder, RunInOrder, PlanOk, AllPublished
<1>2. CASE UNCHANGED vars
  BY <1>1, <1>2 DEF vars, releaseVars
<1>3. ASSUME NEW v \in Version,
             PublishJob(v) \/ ReleaseJob(v) \/ JobFails(v) \/ RerunFailed(v)
      PROVE  RunsInOrder'
  <2>1. Grows
    BY <1>3, ReleaseGrows
  <2>2. RunInOrder(v)'
    BY <1>3, <2>1, PublishJobInOrder, ReleaseJobInOrder, RerunInOrder DEF RunsInOrder
  <2>3. ASSUME NEW w \in Version, w # v PROVE run'[w] = run[w]
    <3>1. PICK state \in RunState, step \in Nat, job \in {"publish", "github"} :
                 Step(v, state, step, job)
      BY <1>3, RunSteps
    <3> QED BY <2>3, <3>1 DEF Step, TypeOK
  <2> QED BY <2>1, <2>2, <2>3, OtherRunsStay DEF RunsInOrder
<1>4. ASSUME NEW v \in Version, NEW channel \in {"matching", "other"}, HandMadeRelease(v, channel)
      PROVE  RunsInOrder'
  BY <1>4, HandMadeGrows, OtherRunsStay DEF RunsInOrder
<1>5. CASE \/ \E s \in SmokeRun, v, claimed \in Version : Dispatch(s, v, claimed)
           \/ \E s \in SmokeRun : ReceiptJob(s)
  BY <1>1, <1>5 DEF ReceiptJob, SmokeSucceeds, SmokeFails, ReadEvidence, ReadFails, Dispatch,
                    releaseVars
<1>6. CASE \/ \E o \in Operator, s \in SmokeRun, v \in Version : BeginImport(o, s, v)
           \/ \E o \in Operator : ImportStep(o)
  BY <1>1, <1>6 DEF ImportStep, Stage, Link, VerifyImport, CrashImport, BeginImport, releaseVars
<1> QED BY <1>2, <1>3, <1>4, <1>5, <1>6 DEF Next

(***************************************************************************)
(* The registry and its tags.                                               *)
(***************************************************************************)

\* Only two steps of a Release run change the registry, and both give it the package the
\* run has come to, whose dependencies have gone before.
LEMMA RegistrySteps ==
  ASSUME TypeOK, RunsInOrder, [Next]_vars
  PROVE  \/ UNCHANGED <<registry, latest, history>>
         \/ \E v \in Version, i \in 1..Len(Package) :
              /\ Accept(v, Package[i])
              /\ \A j \in 1..i - 1 : v \in registry[Package[j]]
<1>1. ASSUME NEW v \in Version, Publish(v) \/ PublishAnswerLost(v)
      PROVE  \E w \in Version, i \in 1..Len(Package) :
               /\ Accept(w, Package[i])
               /\ \A j \in 1..i - 1 : w \in registry[Package[j]]
  <2>1. /\ run[v].step \in 1..Len(Package) /\ Accept(v, Package[run[v].step])
        /\ \A j \in 1..run[v].step - 1 : v \in registry[Package[j]]
    BY <1>1, NextPackage DEF Publish, PublishAnswerLost, RunsInOrder, RunInOrder
  <2> QED BY <2>1
<1>2. CASE UNCHANGED vars
  BY <1>2 DEF vars, releaseVars
<1>3. ASSUME NEW v \in Version, ~(Publish(v) \/ PublishAnswerLost(v)),
             PublishJob(v) \/ ReleaseJob(v) \/ JobFails(v) \/ RerunFailed(v)
      PROVE  UNCHANGED <<registry, latest, history>>
  BY <1>3 DEF PublishJob, PushTag, CheckPlan, Smoke, ReleaseJob, ReadRelease, CreateRelease,
              CreateAnswerLost, JobFails, RerunFailed
<1>4. CASE \E v \in Version, channel \in {"matching", "other"} : HandMadeRelease(v, channel)
  BY <1>4 DEF HandMadeRelease
<1>5. CASE \/ \E s \in SmokeRun, v, claimed \in Version : Dispatch(s, v, claimed)
           \/ \E s \in SmokeRun : ReceiptJob(s)
  BY <1>5 DEF ReceiptJob, SmokeSucceeds, SmokeFails, ReadEvidence, ReadFails, Dispatch, releaseVars
<1>6. CASE \/ \E o \in Operator, s \in SmokeRun, v \in Version : BeginImport(o, s, v)
           \/ \E o \in Operator : ImportStep(o)
  BY <1>6 DEF ImportStep, Stage, Link, VerifyImport, CrashImport, BeginImport, releaseVars
<1> QED BY <1>1, <1>2, <1>3, <1>4, <1>5, <1>6 DEF Next

LEMMA InstallableHolds ==
  ASSUME TypeOK, RunsInOrder, PublishedIsInstallable, [Next]_vars
  PROVE  PublishedIsInstallable'
<1>1. CASE UNCHANGED <<registry, latest, history>>
  BY <1>1 DEF PublishedIsInstallable
<1>2. ASSUME NEW v \in Version, NEW i \in 1..Len(Package), Accept(v, Package[i]),
             \A j \in 1..i - 1 : v \in registry[Package[j]]
      PROVE  PublishedIsInstallable'
  <2>1. /\ Package[i] \in ToSet(Package) /\ registry'[Package[i]] = registry[Package[i]] \cup {v}
        /\ \A q \in ToSet(Package) : registry[q] \subseteq registry'[q]
        /\ \A q \in ToSet(Package) : q # Package[i] => registry'[q] = registry[q]
    BY <1>2, PackagePositions, AcceptGrows
  <2>2. \A k \in 1..Len(Package) : \A d \in Depends[Package[k]] : d \in ToSet(Package)
    BY PackagePositions, ReleaseAssumption
  <2>3. ASSUME NEW d \in Depends[Package[i]] PROVE v \in registry'[d]
    <3>1. PICK j \in 1..i - 1 : d = Package[j]
      BY PackagePositions, ReleaseAssumption
    <3> QED BY <1>2, <2>1, <2>2, <3>1
  <2> SUFFICES ASSUME NEW p \in ToSet(Package), NEW d \in Depends[p]
               PROVE  registry'[p] \subseteq registry'[d]
    BY DEF PublishedIsInstallable
  <2>4. d \in ToSet(Package) /\ registry[p] \subseteq registry[d]
    BY <2>2, PackagePositions DEF PublishedIsInstallable
  <2> QED BY <2>1, <2>3, <2>4
<1> QED BY <1>1, <1>2, RegistrySteps

LEMMA LatestHolds ==
  ASSUME TypeOK, RunsInOrder, LatestIsRemembered, [Next]_vars
  PROVE  LatestIsRemembered'
<1>1. CASE UNCHANGED <<registry, latest, history>>
  BY <1>1 DEF LatestIsRemembered, AllLatest
<1>2. ASSUME NEW v \in Version, NEW p \in ToSet(Package), Accept(v, p)
      PROVE  LatestIsRemembered'
  <2>1. \A w \in Version : AllLatest(w, latest') => w \in history'
    BY <1>2 DEF Accept
  <2>2. ASSUME NEW q \in ToSet(Package) PROVE latest'[q] = None \/ latest'[q] \in registry'[q]
    <3>1. latest'[q] = latest[q] \/ (q = p /\ latest'[q] = v)
      BY <1>2 DEF Accept, TypeOK
    <3> QED BY <1>2, <3>1, AcceptGrows DEF LatestIsRemembered
  <2> QED BY <2>1, <2>2 DEF LatestIsRemembered, AllLatest
<1> QED BY <1>1, <1>2, RegistrySteps, PackagePositions

(***************************************************************************)
(* Receipts.                                                                *)
(***************************************************************************)

\* What is true of a receipt, of one smoke run.
LEMMA EvidenceStays ==
  ASSUME TypeOK, EvidenceStands, Grows, UNCHANGED <<smoke, receipt>>
  PROVE  EvidenceStands'
<1> SUFFICES ASSUME NEW s \in SmokeRun PROVE EvidenceStandsOf(s)'
  BY DEF EvidenceStands
<1>1. EvidenceStandsOf(s)
  BY DEF EvidenceStands
<1> DEFINE version == smoke[s].version
           seen == receipt[s].seen
<1>2. CASE smoke[s].state = "none"
  BY <1>1, <1>2 DEF EvidenceStandsOf
<1>3. CASE smoke[s].state # "none"
  <2>1. version \in Version
    BY <1>1, <1>3 DEF EvidenceStandsOf
  <2>2. AllPublished(version) => AllPublished(version)'
    BY <2>1, PublishedStays
  <2>3. ASSUME receipt[s].state = "reading",
               \A p \in ToSet(Package) : p \in seen \/ latest'[p] = version
        PROVE  version \in history'
    <3>1. \A p \in ToSet(Package) : p \in seen \/ latest[p] = version
      BY <1>1, <2>1, <2>3 DEF EvidenceStandsOf, Grows, AllPublished
    <3> QED BY <1>1, <2>3, <3>1 DEF EvidenceStandsOf, Grows
  <2> QED BY <1>1, <2>1, <2>2, <2>3 DEF EvidenceStandsOf, Grows
<1> QED BY <1>2, <1>3

\* A smoke run that is dispatched, succeeds or fails.
LEMMA SmokedStands ==
  ASSUME TypeOK, LatestIsRemembered, EvidenceStands, NEW s \in SmokeRun,
         \/ \E v, claimed \in Version : Dispatch(s, v, claimed)
         \/ SmokeSucceeds(s) \/ SmokeFails(s)
  PROVE  EvidenceStandsOf(s)'
<1>1. EvidenceStandsOf(s)
  BY DEF EvidenceStands
<1>2. CASE \E v, claimed \in Version : Dispatch(s, v, claimed)
  <2>1. PICK v \in Version, claimed \in Version : Dispatch(s, v, claimed)
    BY <1>2
  <2>2. /\ smoke[s].state = "none" /\ receipt' = receipt
        /\ smoke'[s] = [state |-> "running", version |-> v, claimed |-> claimed]
    BY <2>1 DEF Dispatch, TypeOK
  <2>3. receipt[s].state = "none"
    BY <1>1, <2>2 DEF EvidenceStandsOf
  <2> QED BY <1>1, <2>2, <2>3 DEF EvidenceStandsOf
<1>3. CASE SmokeSucceeds(s)
  <2> DEFINE version == smoke[s].version
  <2>1. /\ smoke[s].state = "running" /\ AllPublished(version)
        /\ smoke' = [smoke EXCEPT ![s].state = "success"]
        /\ receipt' = [receipt EXCEPT ![s].state = "reading"]
        /\ UNCHANGED <<run, github, registry, latest, history>>
    BY <1>3 DEF SmokeSucceeds, releaseVars
  <2>2. version \in Version /\ receipt[s].state = "none" /\ receipt[s].seen = {}
    BY <1>1, <2>1 DEF EvidenceStandsOf, TypeOK
  <2>3. smoke'[s].state = "success" /\ smoke'[s].version = version
    BY <2>1 DEF TypeOK
  <2>4. receipt'[s].state = "reading" /\ receipt'[s].seen = {}
    BY <2>1, <2>2 DEF TypeOK
  <2>5. (\A p \in ToSet(Package) : latest[p] = version) => version \in history
    BY <2>2 DEF LatestIsRemembered, AllLatest
  <2> QED BY <2>1, <2>2, <2>3, <2>4, <2>5 DEF EvidenceStandsOf, AllPublished
<1>4. CASE SmokeFails(s)
  <2>1. /\ smoke[s].state = "running" /\ receipt' = receipt
        /\ smoke' = [smoke EXCEPT ![s].state = "failure"]
    BY <1>4 DEF SmokeFails
  <2>2. receipt[s].state = "none" /\ smoke[s].version \in Version /\ receipt[s].seen = {}
    BY <1>1, <2>1 DEF EvidenceStandsOf, TypeOK
  <2>3. smoke'[s].version = smoke[s].version
    BY <2>1 DEF TypeOK
  <2> QED BY <2>1, <2>2, <2>3 DEF EvidenceStandsOf
<1> QED BY <1>2, <1>3, <1>4

\* A source that is read, or fails to be: what it shows is so at that moment, and what
\* the last one completes is what all of them have shown.
LEMMA ReadStands ==
  ASSUME TypeOK, EvidenceStands, NEW s \in SmokeRun,
         (\E source \in Sources : ReadEvidence(s, source)) \/ ReadFails(s)
  PROVE  EvidenceStandsOf(s)'
<1> DEFINE version == smoke[s].version
           seen == receipt[s].seen
<1>1. /\ EvidenceStandsOf(s) /\ receipt[s].state = "reading"
      /\ UNCHANGED <<smoke, run, github, registry, latest, history>>
  BY DEF EvidenceStands, ReadEvidence, ReadFails, releaseVars
<1>2. smoke[s].state = "success" /\ version \in Version /\ AllPublished(version)
  BY <1>1 DEF EvidenceStandsOf
<1>3. AllPublished(smoke[s].version)'
  BY <1>1, <1>2 DEF AllPublished
<1>4. ASSUME receipt'[s] = [state |-> "refused", seen |-> {}] PROVE EvidenceStandsOf(s)'
  BY <1>1, <1>2, <1>3, <1>4 DEF EvidenceStandsOf
<1>5. CASE ReadFails(s)
  <2>1. receipt'[s] = [state |-> "refused", seen |-> {}]
    BY <1>5 DEF ReadFails, TypeOK
  <2> QED BY <1>4, <2>1
<1>6. ASSUME NEW source \in Sources, ReadEvidence(s, source)
      PROVE  EvidenceStandsOf(s)'
  <2> DEFINE now == seen \cup {source}
  <2>1. CASE ~EvidenceOk(s, source)
    BY <1>4, <1>6, <2>1, ReadTyped
  <2>2. CASE EvidenceOk(s, source)
    <3>1. "run" \in now => run[version].state = "succeeded"
      BY <1>1, <2>2 DEF EvidenceStandsOf, EvidenceOk
    <3>2. "github" \in now => github[version] = "matching"
      BY <1>1, <2>2 DEF EvidenceStandsOf, EvidenceOk
    <3>3. ASSUME \A p \in ToSet(Package) : p \in now \/ latest[p] = version
          PROVE  version \in history
      <4>1. source \in ToSet(Package) => latest[source] = version
        BY <2>2, PackageIsNoJob DEF EvidenceOk, DistTagOk
      <4>2. \A p \in ToSet(Package) : p \in seen \/ latest[p] = version
        BY <3>3, <4>1
      <4> QED BY <1>1, <4>2 DEF EvidenceStandsOf
    <3>4. CASE now = Sources
      <4>1. receipt'[s] = [state |-> "made", seen |-> {}]
        BY <1>6, <2>2, <3>4, ReadTyped
      <4> QED BY <1>1, <1>2, <1>3, <3>1, <3>2, <3>3, <3>4, <4>1, PackageIsNoJob DEF EvidenceStandsOf
    <3>5. CASE now # Sources
      <4>1. receipt'[s] = [state |-> "reading", seen |-> now]
        BY <1>6, <2>2, <3>5, ReadTyped
      <4> QED BY <1>1, <1>2, <1>3, <3>1, <3>2, <3>3, <4>1 DEF EvidenceStandsOf
    <3> QED BY <3>4, <3>5
  <2> QED BY <2>1, <2>2
<1> QED BY <1>5, <1>6

LEMMA EvidenceHolds ==
  ASSUME TypeOK, RunsInOrder, LatestIsRemembered, EvidenceStands, [Next]_vars
  PROVE  EvidenceStands'
<1>1. ASSUME UNCHANGED <<smoke, receipt, run, github, registry, latest, history>>
      PROVE  EvidenceStands'
  BY <1>1 DEF EvidenceStands, EvidenceStandsOf, AllPublished
<1>2. CASE UNCHANGED vars
  BY <1>1, <1>2 DEF vars, releaseVars, receiptVars
<1>3. CASE \E v \in Version : PublishJob(v) \/ ReleaseJob(v) \/ JobFails(v) \/ RerunFailed(v)
  BY <1>3, ReleaseGrows, EvidenceStays
<1>4. CASE \E v \in Version, channel \in {"matching", "other"} : HandMadeRelease(v, channel)
  BY <1>4, HandMadeGrows, EvidenceStays
<1>5. ASSUME NEW s \in SmokeRun,
             ReceiptJob(s) \/ \E v, claimed \in Version : Dispatch(s, v, claimed)
      PROVE  EvidenceStands'
  <2>1. EvidenceStandsOf(s)'
    BY <1>5, SmokedStands, ReadStands DEF ReceiptJob
  <2>2. ASSUME NEW other \in SmokeRun, other # s
        PROVE  smoke'[other] = smoke[other] /\ receipt'[other] = receipt[other]
    <3>1. CASE \E v, claimed \in Version : Dispatch(s, v, claimed)
      BY <2>2, <3>1 DEF Dispatch, TypeOK
    <3>2. CASE SmokeSucceeds(s) \/ SmokeFails(s) \/ ReadFails(s)
      BY <2>2, <3>2 DEF SmokeSucceeds, SmokeFails, ReadFails, TypeOK
    <3>3. CASE \E source \in Sources : ReadEvidence(s, source)
      BY <2>2, <3>3 DEF ReadEvidence, TypeOK
    <3> QED BY <1>5, <3>1, <3>2, <3>3 DEF ReceiptJob
  <2>3. UNCHANGED <<run, github, registry, latest, history>>
    BY <1>5 DEF ReceiptJob, SmokeSucceeds, SmokeFails, ReadEvidence, ReadFails, Dispatch,
                releaseVars
  <2>4. ASSUME NEW other \in SmokeRun, other # s PROVE EvidenceStandsOf(other)'
    <3>1. EvidenceStandsOf(other)
      BY DEF EvidenceStands
    <3> QED BY <2>2, <2>3, <2>4, <3>1 DEF EvidenceStandsOf, AllPublished
  <2> QED BY <2>1, <2>4 DEF EvidenceStands
<1>6. CASE \/ \E o \in Operator, s \in SmokeRun, v \in Version : BeginImport(o, s, v)
           \/ \E o \in Operator : ImportStep(o)
  <2>1. UNCHANGED <<smoke, receipt, run, github, registry, latest, history>>
    BY <1>6 DEF ImportStep, Stage, Link, VerifyImport, CrashImport, BeginImport, releaseVars,
                receiptVars
  <2> QED BY <1>1, <2>1
<1> QED BY <1>2, <1>3, <1>4, <1>5, <1>6 DEF Next

(***************************************************************************)
(* Imports.                                                                 *)
(***************************************************************************)

\* A receipt that is made stays, and so does its version.
LEMMA MadeStays ==
  ASSUME TypeOK, RunsInOrder, EvidenceStands, [Next]_vars, NEW s \in SmokeRun,
         receipt[s].state = "made"
  PROVE  receipt'[s].state = "made" /\ smoke'[s].version = smoke[s].version
<1>1. smoke[s].state = "success"
  BY DEF EvidenceStands, EvidenceStandsOf
<1>2. CASE UNCHANGED <<smoke, receipt>>
  BY <1>2
<1>3. ASSUME NEW other \in SmokeRun,
             ReceiptJob(other) \/ \E v, claimed \in Version : Dispatch(other, v, claimed)
      PROVE  receipt'[s].state = "made" /\ smoke'[s].version = smoke[s].version
  <2>1. CASE \E v, claimed \in Version : Dispatch(other, v, claimed)
    BY <1>1, <2>1 DEF Dispatch, TypeOK
  <2>2. CASE SmokeSucceeds(other) \/ SmokeFails(other)
    <3>1. other # s
      BY <1>1, <2>2 DEF SmokeSucceeds, SmokeFails
    <3> QED BY <2>2, <3>1 DEF SmokeSucceeds, SmokeFails, TypeOK
  <2>3. CASE ReadFails(other)
    BY <2>3 DEF ReadFails, TypeOK
  <2>4. CASE \E source \in Sources : ReadEvidence(other, source)
    BY <2>4 DEF ReadEvidence, TypeOK
  <2> QED BY <1>3, <2>1, <2>2, <2>3, <2>4 DEF ReceiptJob
<1>4. CASE UNCHANGED vars
  BY <1>2, <1>4 DEF vars, receiptVars
<1>5. CASE \E v \in Version : PublishJob(v) \/ ReleaseJob(v) \/ JobFails(v) \/ RerunFailed(v)
  BY <1>2, <1>5, ReleaseGrows
<1>6. CASE \E v \in Version, channel \in {"matching", "other"} : HandMadeRelease(v, channel)
  BY <1>2, <1>6, HandMadeGrows
<1>7. CASE \/ \E o \in Operator, r \in SmokeRun, v \in Version : BeginImport(o, r, v)
           \/ \E o \in Operator : ImportStep(o)
  BY <1>2, <1>7 DEF ImportStep, Stage, Link, VerifyImport, CrashImport, BeginImport, receiptVars
<1> QED BY <1>3, <1>4, <1>5, <1>6, <1>7 DEF Next

\* What an import under way is of has a place of its own version.
LEMMA PlaceOfImport ==
  ASSUME EvidenceStands, ImportsTell, NEW o \in Operator,
         import[o].state \in {"validated", "staged", "linked"}
  PROVE  /\ import[o].of \in SmokeRun /\ import[o].of # None
         /\ receipt[import[o].of].state = "made" /\ Place(o) \in Version
BY ReleaseAssumption DEF ImportsTell, EvidenceStands, EvidenceStandsOf, Place

\* The steps of one import: the others and what is recorded elsewhere stay.
LEMMA ImportStepTells ==
  ASSUME TypeOK, EvidenceStands, ImportsTell, NEW o \in Operator,
         ImportStep(o) \/ \E s \in SmokeRun, v \in Version : BeginImport(o, s, v)
  PROVE  ImportsTell'
<1>1. UNCHANGED <<smoke, receipt>>
  BY DEF ImportStep, Stage, Link, VerifyImport, CrashImport, BeginImport, receiptVars
<1>2. \A other \in Operator : other # o => import'[other] = import[other]
  BY DEF ImportStep, Stage, Link, VerifyImport, CrashImport, BeginImport, Become, TypeOK
<1>3. ASSUME recorded' = recorded, import'[o].state # "linked",
             import'[o].state \in {"validated", "staged"} =>
               import'[o].of \in SmokeRun /\ receipt[import'[o].of].state = "made"
      PROVE  ImportsTell'
  BY <1>1, <1>2, <1>3 DEF ImportsTell, Place
<1>4. ASSUME NEW state, Become(o, state)
      PROVE  import'[o].state = state /\ import'[o].of = import[o].of
  BY <1>4 DEF Become, TypeOK
<1>5. CASE \E s \in SmokeRun, v \in Version : BeginImport(o, s, v)
  <2>1. PICK s \in SmokeRun, v \in Version : BeginImport(o, s, v)
    BY <1>5
  <2>2. /\ recorded' = recorded /\ receipt[s].state = "made"
        /\ import'[o].of = s /\ import'[o].state \in {"validated", "refused"}
    BY <2>1 DEF BeginImport, TypeOK
  <2> QED BY <1>3, <2>2
<1>6. CASE Stage(o)
  <2>1. recorded' = recorded /\ import'[o].state = "staged" /\ import'[o].of = import[o].of
    BY <1>4, <1>6 DEF Stage
  <2>2. import[o].of \in SmokeRun /\ receipt[import[o].of].state = "made"
    BY <1>6 DEF Stage, ImportsTell
  <2> QED BY <1>3, <2>1, <2>2
<1>7. CASE CrashImport(o)
  <2>1. recorded' = recorded /\ import'[o].state = "crashed"
    BY <1>4, <1>7 DEF CrashImport
  <2> QED BY <1>3, <2>1
<1>8. CASE VerifyImport(o)
  <2>1. recorded[Place(o)] = import[o].of
    BY <1>8 DEF VerifyImport, ImportsTell
  <2>2. recorded' = recorded /\ import'[o].state = "done"
    BY <1>4, <1>8, <2>1 DEF VerifyImport
  <2> QED BY <1>3, <2>2
<1>9. CASE Link(o)
  <2>1. import[o].state = "staged"
    BY <1>9 DEF Link
  <2>2. /\ import[o].of \in SmokeRun /\ import[o].of # None
        /\ receipt[import[o].of].state = "made" /\ Place(o) \in Version
    BY <2>1, PlaceOfImport
  <2>3. CASE recorded[Place(o)] # None
    <3>1. recorded' = recorded /\ import'[o].state = "exists"
      BY <1>4, <1>9, <2>3 DEF Link
    <3> QED BY <1>3, <3>1
  <2>4. CASE recorded[Place(o)] = None
    <3>1. /\ recorded' = [recorded EXCEPT ![Place(o)] = import[o].of]
          /\ import'[o].state = "linked" /\ import'[o].of = import[o].of
      BY <1>4, <1>9, <2>4 DEF Link
    <3>2. /\ recorded'[Place(o)] = import[o].of
          /\ \A v \in Version : v # Place(o) => recorded'[v] = recorded[v]
      BY <2>2, <3>1 DEF TypeOK
    <3>3. Place(o)' = Place(o) /\ smoke[import[o].of].version = Place(o)
      BY <1>1, <3>1 DEF Place
    <3>4. ASSUME NEW other \in Operator, import'[other].state = "linked"
          PROVE  recorded'[Place(other)'] = import'[other].of
      <4>1. CASE other = o
        BY <3>1, <3>2, <3>3, <4>1
      <4>2. CASE other # o
        <5>1. /\ import'[other] = import[other] /\ recorded[Place(other)] = import[other].of
              /\ Place(other)' = Place(other)
          BY <1>1, <1>2, <3>4, <4>2 DEF ImportsTell, Place
        <5>2. import[other].of # None /\ Place(other) \in Version
          BY <3>4, <5>1, PlaceOfImport
        <5> QED BY <2>4, <3>2, <5>1, <5>2
      <4> QED BY <4>1, <4>2
    <3>5. ASSUME NEW other \in Operator, import'[other].state \in {"validated", "staged", "linked"}
          PROVE  import'[other].of \in SmokeRun /\ receipt'[import'[other].of].state = "made"
      BY <1>1, <1>2, <2>2, <3>1, <3>5 DEF ImportsTell
    <3>6. ASSUME NEW v \in Version, recorded'[v] # None
          PROVE  receipt'[recorded'[v]].state = "made" /\ smoke'[recorded'[v]].version = v
      BY <1>1, <2>2, <3>2, <3>3, <3>6 DEF ImportsTell
    <3> QED BY <3>4, <3>5, <3>6 DEF ImportsTell
  <2> QED BY <2>3, <2>4
<1> QED BY <1>5, <1>6, <1>7, <1>8, <1>9 DEF ImportStep

LEMMA ImportsHold ==
  ASSUME TypeOK, RunsInOrder, EvidenceStands, ImportsTell, [Next]_vars
  PROVE  ImportsTell'
<1>1. ASSUME UNCHANGED <<recorded, import>> PROVE ImportsTell'
  <2>1. ASSUME NEW s \in SmokeRun, receipt[s].state = "made"
        PROVE  receipt'[s].state = "made" /\ smoke'[s].version = smoke[s].version
    BY <2>1, MadeStays
  <2>2. \A v \in Version : recorded[v] \in SmokeRun \cup {None}
    BY DEF TypeOK
  <2> QED BY <1>1, <2>1, <2>2 DEF ImportsTell, Place
<1>2. CASE UNCHANGED vars
  BY <1>1, <1>2 DEF vars, importVars
<1>3. CASE \E v \in Version : PublishJob(v) \/ ReleaseJob(v) \/ JobFails(v) \/ RerunFailed(v)
  BY <1>1, <1>3, ReleaseGrows
<1>4. CASE \E v \in Version, channel \in {"matching", "other"} : HandMadeRelease(v, channel)
  BY <1>1, <1>4, HandMadeGrows
<1>5. CASE \/ \E s \in SmokeRun, v, claimed \in Version : Dispatch(s, v, claimed)
           \/ \E s \in SmokeRun : ReceiptJob(s)
  <2>1. UNCHANGED <<recorded, import>>
    BY <1>5 DEF ReceiptJob, SmokeSucceeds, SmokeFails, ReadEvidence, ReadFails, Dispatch, importVars
  <2> QED BY <1>1, <2>1
<1>6. CASE \/ \E o \in Operator, s \in SmokeRun, v \in Version : BeginImport(o, s, v)
           \/ \E o \in Operator : ImportStep(o)
  BY <1>6, ImportStepTells
<1> QED BY <1>2, <1>3, <1>4, <1>5, <1>6 DEF Next

\* An import never replaces or removes what is recorded: it links where there is nothing,
\* and finds there what it has linked.
LEMMA RecordedStays ==
  ASSUME TypeOK, ImportsTell, [Next]_vars, NEW v \in Version, recorded[v] # None
  PROVE  recorded'[v] = recorded[v]
<1>1. CASE recorded' = recorded
  BY <1>1
<1>2. ASSUME NEW o \in Operator, Link(o) PROVE recorded'[v] = recorded[v]
  BY <1>2 DEF Link, TypeOK
<1>3. ASSUME NEW o \in Operator, VerifyImport(o) PROVE recorded' = recorded
  BY <1>3 DEF VerifyImport, ImportsTell
<1>4. CASE UNCHANGED vars
  BY <1>1, <1>4 DEF vars, importVars
<1>5. ASSUME Next, \A o \in Operator : ~Link(o) /\ ~VerifyImport(o)
      PROVE  recorded' = recorded
  <2>1. ASSUME NEW w \in Version,
               PublishJob(w) \/ ReleaseJob(w) \/ JobFails(w) \/ RerunFailed(w)
        PROVE  recorded' = recorded
    BY <2>1 DEF PublishJob, PushTag, CheckPlan, Publish, PublishAnswerLost, Smoke, ReleaseJob,
                ReadRelease, CreateRelease, CreateAnswerLost, JobFails, RerunFailed, importVars
  <2>2. CASE \/ \E w \in Version, channel \in {"matching", "other"} : HandMadeRelease(w, channel)
             \/ \E s \in SmokeRun, w, claimed \in Version : Dispatch(s, w, claimed)
             \/ \E s \in SmokeRun : ReceiptJob(s)
    BY <2>2 DEF HandMadeRelease, ReceiptJob, SmokeSucceeds, SmokeFails, ReadEvidence, ReadFails,
                Dispatch, importVars
  <2>3. CASE \/ \E o \in Operator, s \in SmokeRun, w \in Version : BeginImport(o, s, w)
             \/ \E o \in Operator : ImportStep(o)
    BY <1>5, <2>3 DEF ImportStep, Stage, CrashImport, BeginImport
  <2> QED BY <1>5, <2>1, <2>2, <2>3 DEF Next
<1> QED BY <1>1, <1>2, <1>3, <1>4, <1>5

(***************************************************************************)
(* The theorems.                                                            *)
(***************************************************************************)

LEMMA InitHolds ==
  ASSUME Init
  PROVE  /\ TypeOK /\ RunsInOrder /\ LatestIsRemembered /\ EvidenceStands /\ ImportsTell
         /\ PublishedIsInstallable
<1>1. TypeOK
  BY InitTyped
<1>2. RunsInOrder /\ EvidenceStands /\ ImportsTell
  BY DEF Init, RunsInOrder, RunInOrder, EvidenceStands, EvidenceStandsOf, ImportsTell
<1>3. LatestIsRemembered
  <2>1. ASSUME NEW v \in Version PROVE ~AllLatest(v, latest)
    <3>1. Package[1] \in ToSet(Package) /\ v # None
      BY PackagePositions, ReleaseAssumption
    <3> QED BY <3>1 DEF Init, AllLatest
  <2> QED BY <2>1 DEF Init, LatestIsRemembered
<1>4. PublishedIsInstallable
  BY DEF Init, PublishedIsInstallable
<1> QED BY <1>1, <1>2, <1>3, <1>4

ReleaseInv ==
  /\ TypeOK /\ RunsInOrder /\ LatestIsRemembered /\ EvidenceStands /\ ImportsTell
  /\ PublishedIsInstallable

\* The strengthening the theorems below rest on, for any packages, versions, trees, smoke
\* runs, imports and reruns (the three workflows and the import).
THEOREM ReleaseInvariant == Spec => []ReleaseInv
<1>1. Init => ReleaseInv
  BY InitHolds DEF ReleaseInv
<1>2. ReleaseInv /\ [Next]_vars => ReleaseInv'
  BY TypesHold, RunsHold, LatestHolds, EvidenceHolds, ImportsHold, InstallableHolds DEF ReleaseInv
<1> QED BY <1>1, <1>2, PTL DEF Spec

\* Whatever fails and is run again, the dependencies of a published package are published
\* (the order of the publish job of release.yml).
THEOREM WholeSetsPublished == Spec => []PublishedIsInstallable
<1>1. ReleaseInv => PublishedIsInstallable
  BY DEF ReleaseInv
<1> QED BY <1>1, ReleaseInvariant, PTL

\* A recorded receipt is true, though its evidence was read piece by piece while other
\* versions were being published (generate-publication-receipt.mjs).
THEOREM ReceiptsTell == Spec => []ReceiptIsTrue
<1>1. ReleaseInv => ReceiptIsTrue
  <2> SUFFICES ASSUME ReleaseInv, NEW v \in Version, recorded[v] # None
               PROVE  /\ PlanOk(v) /\ AllPublished(v)
                      /\ smoke[recorded[v]].version = v /\ smoke[recorded[v]].state = "success"
                      /\ run[v].state = "succeeded" /\ v \in history
                      /\ github[v] = "matching"
    BY DEF ReceiptIsTrue
  <2>1. /\ recorded[v] \in SmokeRun /\ receipt[recorded[v]].state = "made"
        /\ smoke[recorded[v]].version = v
    BY DEF ReleaseInv, TypeOK, ImportsTell
  <2>2. /\ smoke[recorded[v]].state = "success" /\ AllPublished(v)
        /\ run[v].state = "succeeded" /\ github[v] = "matching" /\ v \in history
    BY <2>1 DEF ReleaseInv, EvidenceStands, EvidenceStandsOf
  <2>3. PlanOk(v)
    BY <2>2 DEF ReleaseInv, RunsInOrder, RunInOrder
  <2> QED BY <2>1, <2>2, <2>3
<1> QED BY <1>1, ReleaseInvariant, PTL

\* A receipt that is recorded is never replaced or removed, by two imports at once or one
\* that follows a crash (import-publication-receipt.mjs).
THEOREM RecordedForGood == Spec => ReceiptsAreImmutable
<1>1. ReleaseInv /\ [Next]_vars =>
        [\A v \in Version : recorded[v] # None => recorded'[v] = recorded[v]]_vars
  BY RecordedStays DEF ReleaseInv
<1> QED BY <1>1, ReleaseInvariant, PTL DEF Spec, ReceiptsAreImmutable
=============================================================================
