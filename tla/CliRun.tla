-------------------------------- MODULE CliRun --------------------------------
(***************************************************************************)
(* One run of the command line: runEntrypoint of packages/cli/src/main.ts   *)
(* with the containment of windows-job-guardian.ts, runProxy of commands.ts *)
(* with the checks and resources it goes through before the proxy starts,  *)
(* and the ops flag controller of ops-feature-flags.ts.  The proxy itself  *)
(* appears as its policy reload (PolicyReload) and its exit code           *)
(* (StdioBridge).                                                          *)
(***************************************************************************)
EXTENDS PolicyReload

CONSTANTS
  Requested,      \* the command lines looked at
  MaxFlagChanges  \* how often the flag snapshot changes, a bound

\* What parseArgs and the flag readers make of a command line.
Options == [badUsage : BOOLEAN, watch : BOOLEAN, opsFlags : BOOLEAN]

ASSUME RunAssumption == MaxFlagChanges \in Nat /\ Requested \subseteq Options

VARIABLES
  platform,
  helper,       \* the Windows guardian: how far its script has come
  containment,  \* the promise of waitForGuardianReady
  options,      \* what the command line asks for
  upstream,
  controller,   \* the ops flag controller
  flagChanges,
  refreshes,    \* operations of its refreshQueue
  evaluating,   \* the first of them has begun
  exitCode

entryVars   == <<platform, helper, containment, options, upstream, exitCode>>
controlVars == <<controller, flagChanges, refreshes, evaluating>>
vars == <<fileVars, reloadVars, sessionVars, opsVars, reportVars, stage, awaited,
          entryVars, controlVars>>
cliOnlyVars == <<entryVars, controlVars>>

Stage == {"containment", "arguments", "policy", "flags", "spawning", "subscribing",
          "running", "draining", "stopping", "stopped", "closing", "returned",
          "killed"}

RunTypeOK ==
  /\ stage \in Stage
  /\ platform \in {"win32", "posix"}
  /\ helper \in {"none", "started", "assigned", "gone"}
  /\ containment \in {"none", "waiting", "ready", "failed"}
  /\ options \in Options
  /\ upstream \in {"none", "running", "ended"}
  /\ controller \in {"none", "open", "closed"}
  /\ flagChanges \in 0..MaxFlagChanges /\ refreshes \in 0..flagChanges
  /\ evaluating \in BOOLEAN
  /\ exitCode \in {None, 0, 1, 2, 3, 4, 5}

TypeOK == ReloadTypeOK /\ RunTypeOK

Return(code) ==
  /\ stage' = "returned"
  /\ exitCode' = code

-----------------------------------------------------------------------------
(* Containment.                                                             *)

\* Mutant: the helper is started and not waited for.
Contain_DoesNotWait ==
  /\ stage = "containment" /\ containment = "none"
  /\ stage' = "arguments"
  /\ IF platform = "win32"
     THEN helper' = "started" /\ containment' = "waiting"
     ELSE UNCHANGED <<helper, containment>>
  /\ UNCHANGED <<fileVars, reloadVars, sessionVars, opsVars, reportVars,
                 awaited, platform, options, upstream, exitCode, controlVars>>

\* establishWindowsKillOnCloseGuardian: nothing to do elsewhere, no PowerShell, or
\* the helper starts.
Contain ==
  /\ stage = "containment" /\ containment = "none"
  /\ \/ /\ platform = "posix"
        /\ stage' = "arguments"
        /\ UNCHANGED <<exitCode, helper, containment>>
     \/ /\ platform = "win32"
        /\ Return(4)
        /\ UNCHANGED <<helper, containment>>
     \/ /\ platform = "win32"
        /\ helper' = "started" /\ containment' = "waiting"
        /\ UNCHANGED <<stage, exitCode>>
  /\ UNCHANGED <<fileVars, reloadVars, sessionVars, opsVars, reportVars,
                 awaited, platform, options, upstream, controlVars>>

\* The helper has put the proxy into the job.
Assign ==
  /\ helper = "started"
  /\ helper' = "assigned"
  /\ UNCHANGED <<fileVars, reloadVars, sessionVars, opsVars, reportVars, stage,
                 awaited, platform, containment, options, upstream, exitCode,
                 controlVars>>

\* The line READY_LINE arrives: succeed.
Ready ==
  /\ containment = "waiting" /\ helper = "assigned"
  /\ containment' = "ready"
  /\ stage' = IF stage = "containment" THEN "arguments" ELSE stage
  /\ UNCHANGED <<fileVars, reloadVars, sessionVars, opsVars, reportVars,
                 awaited, platform, helper, options, upstream, exitCode,
                 controlVars>>

\* Mutant: there is no timeout, only the helper's own end.
NotContained_NoTimeout ==
  /\ containment = "waiting" /\ helper = "gone"
  /\ containment' = "failed"
  /\ Return(4)
  /\ UNCHANGED <<fileVars, reloadVars, sessionVars, opsVars, reportVars,
                 awaited, platform, helper, options, upstream, controlVars>>

\* fail, at most once: an error or an exit of the helper before the line, or the
\* timeout, which kills it.  If the helper had already put the proxy into the job,
\* its end closes the job and the proxy with it.
NotContained ==
  /\ containment = "waiting"
  /\ containment' = "failed" /\ helper' = "gone"
  /\ \/ helper = "started" /\ Return(4)
     \/ helper = "assigned" /\ stage' = "killed" /\ UNCHANGED exitCode
  /\ UNCHANGED <<fileVars, reloadVars, sessionVars, opsVars, reportVars,
                 awaited, platform, options, upstream, controlVars>>

\* The last handle of the job closes, and Windows ends the proxy with all it has
\* started.
JobCloses ==
  /\ helper = "assigned" /\ stage \notin {"returned", "killed"}
  /\ helper' = "gone"
  /\ stage' = "killed"
  /\ upstream' = IF upstream = "running" THEN "ended" ELSE upstream
  /\ UNCHANGED <<fileVars, reloadVars, sessionVars, opsVars, reportVars,
                 awaited, platform, containment, options, exitCode,
                 controlVars>>

-----------------------------------------------------------------------------
(* runProxy before the proxy.                                               *)

\* assertAllowedFlags and the checks of flags and positionals.
CheckArguments ==
  /\ stage = "arguments"
  /\ \/ options.badUsage /\ Return(2)
     \/ ~options.badUsage /\ stage' = "policy" /\ UNCHANGED exitCode
  /\ UNCHANGED <<fileVars, reloadVars, sessionVars, opsVars, reportVars,
                 awaited, platform, helper, containment, options, upstream,
                 controlVars>>

\* readRequiredPolicy, the profile, its audit file; the reload source, if asked
\* for, if the embedder has one.
ReadPolicy ==
  /\ stage = "policy"
  /\ \/ /\ file \notin Usable
        /\ Return(3)
        /\ UNCHANGED <<inForce, lastAttempt>>
     \/ /\ file \in Usable /\ options.watch
        /\ Return(2)
        /\ UNCHANGED <<inForce, lastAttempt>>
     \/ /\ file \in Usable
        /\ inForce' = file /\ lastAttempt' = file
        /\ stage' = "flags"
        /\ UNCHANGED exitCode
  /\ UNCHANGED <<fileVars, watcher, debounce, readFailed, closed, handed, queue,
                 frames, revision, metrics, opsVars, reportVars, awaited,
                 platform, helper, containment, options, upstream, controlVars>>

\* createOpsFeatureFlagController, not available to an embedder, or failing on
\* its snapshot or its watcher.
OpenController ==
  /\ stage = "flags"
  /\ \/ /\ ~options.opsFlags
        /\ stage' = "spawning"
        /\ UNCHANGED <<controller, exitCode>>
     \/ /\ options.opsFlags
        /\ \/ Return(2) \/ Return(3)
        /\ UNCHANGED controller
     \/ /\ options.opsFlags
        /\ controller' = "open"
        /\ stage' = "spawning"
        /\ UNCHANGED exitCode
  /\ UNCHANGED <<fileVars, reloadVars, sessionVars, opsVars, reportVars,
                 awaited, platform, helper, containment, options, upstream,
                 flagChanges, refreshes, evaluating>>

\* runStdioProxy starts the upstream; subscribe is called when there is a source.
Spawn ==
  /\ stage = "spawning"
  /\ \/ /\ stage' = "stopped" /\ exitCode' = 4
        /\ UNCHANGED upstream
     \/ /\ upstream' = "running"
        /\ stage' = IF options.watch THEN "subscribing" ELSE "running"
        /\ UNCHANGED exitCode
  /\ UNCHANGED <<fileVars, reloadVars, sessionVars, opsVars, reportVars,
                 awaited, platform, helper, containment, options, controlVars>>

-----------------------------------------------------------------------------
(* The ops flag controller.                                                 *)

\* onConfigurationChanged of the provider.
FlagChanges ==
  /\ controller = "open" /\ flagChanges < MaxFlagChanges
  /\ flagChanges' = flagChanges + 1
  /\ refreshes' = refreshes + 1
  /\ UNCHANGED <<fileVars, reloadVars, sessionVars, opsVars, reportVars, stage,
                 awaited, entryVars, controller, evaluating>>

\* A queued refresh of a closed controller does nothing.
BeginRefresh ==
  /\ refreshes > 0 /\ ~evaluating
  /\ IF controller = "closed"
     THEN refreshes' = refreshes - 1 /\ UNCHANGED evaluating
     ELSE evaluating' = TRUE /\ UNCHANGED refreshes
  /\ UNCHANGED <<fileVars, reloadVars, sessionVars, opsVars, reportVars, stage,
                 awaited, entryVars, controller, flagChanges>>

\* The evaluation succeeds or is reported as failed.
EndRefresh ==
  /\ evaluating
  /\ evaluating' = FALSE
  /\ refreshes' = refreshes - 1
  /\ UNCHANGED <<fileVars, reloadVars, sessionVars, opsVars, reportVars, stage,
                 awaited, entryVars, controller, flagChanges>>

\* The finally block: close, which awaits refreshQueue.
CloseController ==
  /\ stage = "stopped"
  /\ stage' = "closing"
  /\ controller' = IF controller = "open" THEN "closed" ELSE controller
  /\ UNCHANGED <<fileVars, reloadVars, sessionVars, opsVars, reportVars,
                 awaited, entryVars, flagChanges, refreshes, evaluating>>

\* Mutant: close does not await the refreshes it has queued.
ReturnExitCode_DoesNotWait ==
  /\ stage = "closing"
  /\ stage' = "returned"
  /\ UNCHANGED <<fileVars, reloadVars, sessionVars, opsVars, reportVars,
                 awaited, entryVars, controlVars>>

ReturnExitCode ==
  /\ stage = "closing" /\ refreshes = 0
  /\ stage' = "returned"
  /\ UNCHANGED <<fileVars, reloadVars, sessionVars, opsVars, reportVars,
                 awaited, entryVars, controlVars>>

-----------------------------------------------------------------------------
(* Specification.                                                           *)

Init ==
  /\ file \in Content \cup {None} /\ writes = 0 /\ frames = 0 /\ noticed = FALSE
  /\ watcher = "none" /\ debounce = FALSE /\ lastAttempt = None
  /\ readFailed = FALSE /\ closed = FALSE /\ handed = 0
  /\ queue = <<>> /\ inForce = None /\ revision = 0
  /\ metrics = [applied |-> 0, rejected |-> 0]
  /\ opsQueue = <<>> /\ opsLog = <<>>
  /\ settled = <<>> /\ reports = <<>> /\ awaited = 0
  /\ stage = "containment" /\ platform \in {"win32", "posix"}
  /\ helper = "none" /\ containment = "none"
  /\ options \in Requested
  /\ upstream = "none"
  /\ controller = "none" /\ flagChanges = 0 /\ refreshes = 0 /\ evaluating = FALSE
  /\ exitCode = None

EntryStep ==
  \/ Contain \/ NotContained
  \/ CheckArguments \/ ReadPolicy \/ OpenController \/ Spawn

ControllerStep ==
  \/ BeginRefresh \/ EndRefresh \/ CloseController \/ ReturnExitCode

\* The proxy ends with the exit code StdioBridge explains, and the upstream with
\* it.
ProxyEnds ==
  /\ Finish
  /\ upstream' = "ended"
  /\ exitCode' \in {0, 1, 4, 5}
  /\ UNCHANGED <<platform, helper, containment, options, controlVars>>

Proxy(step) == step /\ UNCHANGED cliOnlyVars

ProxyStep == Proxy(ReloadStep \/ QueueStep \/ FinishStep)

Over == stage \in {"returned", "killed"}

\* A change of the file before it is first read only makes it another file, and
\* without a watcher nobody reads it again.
Next ==
  /\ ~Over
  /\ \/ EntryStep \/ Assign \/ Ready \/ JobCloses
     \/ FlagChanges \/ ControllerStep
     \/ ProxyEnds \/ ProxyStep
     \/ Proxy(Subscribe \/ WatcherFails)
     \/ /\ options.watch /\ stage \notin {"containment", "arguments", "policy"}
        /\ Proxy(QueueFrame \/ WriteFile)

Spec == Init /\ [][Next]_vars

\* The event loop, its timers and the writer of the ops log go on, and the frames
\* in the queue end (OperationsEnd of StdioBridge).
FairSpec ==
  /\ Spec
  /\ WF_vars(~Over /\ EntryStep)
  /\ WF_vars(~Over /\ ControllerStep)
  /\ WF_vars(~Over /\ ProxyStep)

-----------------------------------------------------------------------------
(* Properties.                                                              *)

\* On Windows no upstream runs that is not in the job of the proxy
\* (runEntrypoint awaits the containment before anything else).
UpstreamIsContained ==
  platform = "win32" /\ upstream = "running" => helper = "assigned"

\* What was wrong with the command line, the policy or the flag snapshot is found
\* before anything is started, and however the run ends it leaves no watcher, no
\* controller and no refresh behind.
NothingLeftOpen ==
  stage = "returned" =>
    /\ exitCode \in {2, 3} => upstream = "none" /\ watcher = "none"
    /\ watcher # "watching" /\ controller # "open" /\ refreshes = 0

\* What these and the properties of PolicyReload rest on.  First, what the stages say:
\* nothing is open or queued before the proxy subscribes, and from finish() on nothing
\* new is queued and what is queued is awaited.
BeforeProxy == {"containment", "arguments", "policy", "flags", "spawning", "subscribing"}

AfterProxy == {"draining", "stopping", "stopped", "closing"}

StagesTell ==
  /\ stage \in BeforeProxy =>
       /\ watcher = "none" /\ ~debounce /\ ~noticed
       /\ queue = <<>> /\ opsQueue = <<>> /\ opsLog = <<>> /\ awaited = 0
  /\ stage \in AfterProxy =>
       /\ watcher # "watching" /\ ~debounce /\ awaited = Len(queue)
       /\ exitCode \in {0, 1, 4, 5}
  /\ stage \in {"stopping", "stopped", "closing"} => queue = <<>> /\ opsQueue = <<>>
  /\ upstream = "running" => stage \in {"subscribing", "running"}
  /\ stage \in BeforeProxy \ {"subscribing"} => upstream = "none"
  /\ stage \in {"containment", "arguments", "policy", "flags"} => controller = "none"
  /\ stage = "closing" => controller # "open"
  /\ controller = "none" => refreshes = 0 /\ ~evaluating
  /\ evaluating => refreshes > 0
  /\ containment = "waiting" => stage \in {"containment", "killed"}
  /\ platform = "win32" /\ stage \notin {"containment", "returned", "killed"} =>
       helper = "assigned"

\* Then, that the last content that was tried is in force or waits in the queue, with
\* nothing after it that would replace it, and is the file's unless a change is
\* noticed.
LastAttemptStands ==
  /\ watcher = "watching" /\ ~noticed /\ ~debounce /\ file # None => lastAttempt = file
  /\ lastAttempt \in Usable =>
       \/ inForce = lastAttempt /\ \A i \in 1..Len(queue) : queue[i] \notin Usable
       \/ \E i \in 1..Len(queue) :
            /\ queue[i] = lastAttempt
            /\ \A j \in i + 1..Len(queue) : queue[j] \notin Usable

\* And that every update the listener was given waits in the queue or is counted, with
\* an event that waits or is written.
Waiting == {i \in 1..Len(queue) : queue[i] # Frame}

Total(counters) == counters.applied + counters.rejected

Stopped == opsLog # <<>> /\ opsLog[Len(opsLog)].event = "stop"

Ending == {"stopped", "closing", "returned", "killed"}

UpdatesAreCounted ==
  /\ handed = Total(metrics) + Cardinality(Waiting)
  /\ \A i \in 1..Len(opsLog) :
       IF opsLog[i].event = "stop" THEN i = Len(opsLog) ELSE Counted(i) = i
  /\ \A i \in 1..Len(opsQueue) :
       /\ opsQueue[i].event # "stop"
       /\ Total(opsQueue[i].metrics) = Len(opsLog) + i
  /\ ~Stopped => Total(metrics) = Len(opsLog) + Len(opsQueue)
  /\ Stopped => /\ stage \in Ending
                /\ queue = <<>> /\ opsQueue = <<>>
                /\ Counted(Len(opsLog)) = handed

\* And that a policy whose update is reported, or still to be, has been committed.
CommitsComeFirst == Cardinality(Applied(settled)) + Cardinality(Applied(reports)) <= revision

\* Neither the wait for the helper nor the end of the proxy hangs, whatever the
\* helper, the policy file and the flags do.
NoStageHangs ==
  \A s \in {"containment", "draining", "closing"} : stage = s ~> stage # s
=============================================================================
