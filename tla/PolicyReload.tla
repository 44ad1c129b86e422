----------------------------- MODULE PolicyReload -----------------------------
(***************************************************************************)
(* Live replacement of the policy: the file watcher of                     *)
(* packages/cli/src/policy-file-reloader.ts, the update path of            *)
(* runStdioProxy (recordPolicyUpdate and the ops events it queues) and the *)
(* way finish() closes both.  The frames of the bridge appear only as      *)
(* operations of the queue that an update has to wait for.                 *)
(***************************************************************************)
EXTENDS Naturals, Sequences, FiniteSets

CONSTANTS
  Usable,     \* policies with the active profile and its audit contract
  Missing,    \* valid policies without the active profile
  OtherAudit, \* valid policies whose active profile has another audit contract
  Malformed,  \* texts that are no valid policy
  MaxWrites,  \* how often the file changes, a bound
  MaxFrames,  \* how many frames are handled meanwhile, a bound
  None        \* a file that cannot be read, and no value at all

Content == Usable \cup Missing \cup OtherAudit \cup Malformed

ASSUME ReloadAssumption ==
  /\ None \notin Content
  /\ Usable \cap (Missing \cup OtherAudit \cup Malformed) = {}
  /\ MaxWrites \in Nat /\ MaxFrames \in Nat

VARIABLES
  file,          \* the content of the policy file
  writes, frames,
  noticed,       \* a directory event that has not been delivered
  watcher,       \* of the policy's directory
  debounce,      \* debounceTimer is armed
  lastAttempt,   \* lastAttemptFingerprint
  readFailed,    \* readFailureReported
  closed,        \* the subscription has been closed
  queue,         \* sessionOperationQueue
  inForce,       \* the session's policy
  revision,      \* and how often it has been replaced
  metrics,       \* policyReloadsApplied and policyReloadsRejected
  opsQueue,      \* events of policyOpsQueue
  opsLog,        \* events given to writeOpsEvent, which may fail or suppress them
  settled,       \* updates whose listener has returned, not yet reported
  reports,       \* what onResult has been told
  handed,        \* history: how many updates the listener was given
  stage,         \* of the run
  awaited        \* operations finish() found in the queue it awaits

fileVars    == <<file, writes, noticed>>
reloadVars  == <<watcher, debounce, lastAttempt, readFailed, closed, handed>>
sessionVars == <<queue, frames, inForce, revision, metrics>>
opsVars     == <<opsQueue, opsLog>>
reportVars  == <<settled, reports>>
reloadRunVars == <<fileVars, reloadVars, sessionVars, opsVars, reportVars, stage,
                   awaited>>

Reason ==
  {"read_failed", "invalid_policy", "profile_missing", "audit_changed",
   "watch_failed"}

\* A PolicyReloadUpdate is the accepted policy or the reason of a rejection.
Update == Usable \cup Reason

Event == {"applied", "rejected", "stop"}

Metrics == [applied : Nat, rejected : Nat]

Frame == "frame"

ASSUME UpdateAssumption == Usable \cap (Reason \cup {Frame}) = {}

ReloadTypeOK ==
  /\ file \in Content \cup {None}
  /\ writes \in 0..MaxWrites /\ frames \in 0..MaxFrames
  /\ watcher \in {"none", "watching", "failed", "closed"}
  /\ noticed \in BOOLEAN /\ debounce \in BOOLEAN
  /\ readFailed \in BOOLEAN /\ closed \in BOOLEAN
  /\ lastAttempt \in Content \cup {None}
  /\ queue \in Seq(Update \cup {Frame})
  /\ inForce \in Usable \cup {None}
  /\ revision \in Nat /\ handed \in Nat /\ awaited \in Nat
  /\ metrics \in Metrics
  /\ opsQueue \in Seq([event : Event, metrics : Metrics])
  /\ opsLog \in Seq([event : Event, metrics : Metrics])
  /\ settled \in Seq(Update) /\ reports \in Seq(Update)

-----------------------------------------------------------------------------
(* The reloader.                                                            *)

\* emit: the listener prepares the replacement and queues its commit.
Emit(update) ==
  /\ queue' = Append(queue, update)
  /\ handed' = handed + 1

\* scheduleReload in subscribe, or the directory cannot be watched.
Subscribe ==
  /\ stage = "subscribing"
  /\ stage' = "running"
  /\ \/ /\ watcher' = "watching" /\ debounce' = TRUE
        /\ UNCHANGED <<queue, handed>>
     \/ /\ watcher' = "failed"
        /\ Emit("watch_failed")
        /\ UNCHANGED debounce
  /\ UNCHANGED <<fileVars, lastAttempt, readFailed, closed, frames, inForce,
                 revision, metrics, opsVars, reportVars, awaited>>

\* onDirectoryChange: a pending timer starts again.
Notice ==
  /\ noticed
  /\ noticed' = FALSE
  /\ debounce' = (debounce \/ watcher = "watching")
  /\ UNCHANGED <<file, writes, watcher, lastAttempt, readFailed, closed, handed,
                 sessionVars, opsVars, reportVars, stage, awaited>>

WatcherFails ==
  /\ watcher = "watching" /\ ~closed
  /\ watcher' = "failed"
  /\ debounce' = FALSE
  /\ Emit("watch_failed")
  /\ UNCHANGED <<fileVars, lastAttempt, readFailed, closed, frames, inForce,
                 revision, metrics, opsVars, reportVars, stage, awaited>>

\* What a read of the file asks for.
Verdict(content) ==
  CASE content \in Malformed  -> "invalid_policy"
    [] content \in Missing    -> "profile_missing"
    [] content \in OtherAudit -> "audit_changed"
    [] OTHER                  -> content

\* Mutant: a change that is read while an update waits is left for later.
Reload_OneAtATime ==
  /\ debounce
  /\ debounce' = FALSE
  /\ IF file = None \/ file = lastAttempt \/ \E i \in DOMAIN queue : queue[i] # Frame
     THEN UNCHANGED <<lastAttempt, readFailed, queue, handed>>
     ELSE /\ readFailed' = FALSE
          /\ lastAttempt' = file
          /\ Emit(Verdict(file))
  /\ UNCHANGED <<fileVars, watcher, closed, frames, inForce, revision, metrics,
                 opsVars, reportVars, stage, awaited>>

\* reload: the timer fires, the file is read, and a content that was not tried
\* last is handed on.
Reload ==
  /\ debounce
  /\ debounce' = FALSE
  /\ \/ /\ file = None
        /\ readFailed' = TRUE
        /\ IF readFailed THEN UNCHANGED <<queue, handed>> ELSE Emit("read_failed")
        /\ UNCHANGED lastAttempt
     \/ /\ file # None
        /\ readFailed' = FALSE
        /\ lastAttempt' = file
        /\ IF file = lastAttempt
           THEN UNCHANGED <<queue, handed>>
           ELSE Emit(Verdict(file))
  /\ UNCHANGED <<fileVars, watcher, closed, frames, inForce, revision, metrics,
                 opsVars, reportVars, stage, awaited>>

\* emit after the listener has returned; a closed subscription reports nothing.
Report ==
  /\ settled # <<>>
  /\ settled' = Tail(settled)
  /\ reports' = IF closed THEN reports ELSE Append(reports, Head(settled))
  /\ UNCHANGED <<fileVars, reloadVars, sessionVars, opsVars, stage, awaited>>

-----------------------------------------------------------------------------
(* The bridge.                                                              *)

QueueFrame ==
  /\ stage = "running" /\ frames < MaxFrames
  /\ frames' = frames + 1
  /\ queue' = Append(queue, Frame)
  /\ UNCHANGED <<fileVars, reloadVars, inForce, revision, metrics, opsVars,
                 reportVars, stage, awaited>>

Dequeue ==
  /\ queue' = Tail(queue)
  /\ awaited' = IF awaited > 0 THEN awaited - 1 ELSE 0

EndFrame ==
  /\ queue # <<>> /\ Head(queue) = Frame
  /\ Dequeue
  /\ UNCHANGED <<fileVars, reloadVars, frames, inForce, revision, metrics,
                 opsVars, reportVars, stage>>

\* Mutant: a commit that fails is counted as rejected and reported as applied.
Settle_CommitFails ==
  /\ queue # <<>> /\ Head(queue) # Frame
  /\ Dequeue
  /\ settled' = Append(settled, Head(queue))
  /\ metrics' = [metrics EXCEPT !.rejected = @ + 1]
  /\ opsQueue' = Append(opsQueue, [event |-> "rejected", metrics |-> metrics'])
  /\ UNCHANGED <<fileVars, reloadVars, frames, inForce, revision, opsLog,
                 reports, stage>>

\* recordPolicyUpdate's operation: commit or count the rejection, then queue the
\* event.  The bridge can also reject an update that it was told to accept, for a
\* profile that is missing or an audit contract that changed; the reloader, which
\* is its only source here, has asked both questions before (Verdict).
Settle ==
  /\ queue # <<>> /\ Head(queue) # Frame
  /\ Dequeue
  /\ settled' = Append(settled, Head(queue))
  /\ \/ /\ Head(queue) \in Usable
        /\ inForce' = Head(queue) /\ revision' = revision + 1
        /\ metrics' = [metrics EXCEPT !.applied = @ + 1]
        /\ opsQueue' = Append(opsQueue, [event |-> "applied", metrics |-> metrics'])
     \/ /\ Head(queue) \in Reason
        /\ metrics' = [metrics EXCEPT !.rejected = @ + 1]
        /\ opsQueue' = Append(opsQueue, [event |-> "rejected", metrics |-> metrics'])
        /\ UNCHANGED <<inForce, revision>>
  /\ UNCHANGED <<fileVars, reloadVars, frames, opsLog, reports, stage>>

\* recordOps, in turn.
WriteOps ==
  /\ opsQueue # <<>>
  /\ opsQueue' = Tail(opsQueue)
  /\ opsLog' = Append(opsLog, Head(opsQueue))
  /\ UNCHANGED <<fileVars, reloadVars, sessionVars, reportVars, stage, awaited>>

\* closePolicyReload, and finish() awaits the operations queued so far.
Finish ==
  /\ stage = "running"
  /\ stage' = "draining"
  /\ closed' = TRUE /\ debounce' = FALSE
  /\ watcher' = IF watcher = "watching" THEN "closed" ELSE watcher
  /\ awaited' = Len(queue)
  /\ UNCHANGED <<fileVars, lastAttempt, readFailed, handed, sessionVars,
                 opsVars, reportVars>>

\* Mutant: finish does not await policyOpsQueue.
Drained_SkipsOps ==
  /\ stage = "draining" /\ awaited = 0
  /\ stage' = "stopping"
  /\ UNCHANGED <<fileVars, reloadVars, sessionVars, opsVars, reportVars,
                 awaited>>

\* finish() goes on to await the events queued so far; none can be queued after.
Drained ==
  /\ stage = "draining" /\ awaited = 0
  /\ opsQueue = <<>>
  /\ stage' = "stopping"
  /\ UNCHANGED <<fileVars, reloadVars, sessionVars, opsVars, reportVars,
                 awaited>>

RecordStop ==
  /\ stage = "stopping"
  /\ stage' = "stopped"
  /\ opsLog' = Append(opsLog, [event |-> "stop", metrics |-> metrics])
  /\ UNCHANGED <<fileVars, reloadVars, sessionVars, opsQueue, reportVars,
                 awaited>>

-----------------------------------------------------------------------------
(* The policy file.                                                         *)

WriteFile ==
  /\ writes < MaxWrites
  /\ writes' = writes + 1
  /\ file' \in (Content \cup {None}) \ {file}
  /\ noticed' = (watcher = "watching")
  /\ UNCHANGED <<reloadVars, sessionVars, opsVars, reportVars, stage, awaited>>

-----------------------------------------------------------------------------

ReloadStep == Notice \/ Reload \/ Report

QueueStep == EndFrame \/ Settle \/ WriteOps

FinishStep == Drained \/ RecordStop

ReloadNext ==
  \/ Subscribe \/ WatcherFails
  \/ ReloadStep \/ QueueStep \/ FinishStep
  \/ QueueFrame \/ Finish \/ WriteFile

-----------------------------------------------------------------------------
(* Safety.                                                                  *)

Quiet ==
  /\ stage = "running" /\ watcher = "watching"
  /\ ~noticed /\ ~debounce
  /\ \A i \in DOMAIN queue : queue[i] = Frame

\* When nothing is under way any more and the watcher works, a usable policy in
\* the file is the policy in force: no interleaving of writes, events, timers and
\* updates loses the last one (the fingerprint, the debounce and the queue).
QuietPolicyIsTheFile == Quiet /\ file \in Usable => inForce = file

Counted(i) == opsLog[i].metrics.applied + opsLog[i].metrics.rejected

\* The ops events tell the updates in their order, each with the counters as it
\* left them, and end with the stop event, which counts every update the listener
\* was given (finish closes the source, then awaits both queues).
OpsEventsTellAll ==
  \A i \in DOMAIN opsLog :
    IF opsLog[i].event = "stop"
    THEN i = Len(opsLog) /\ Counted(i) = handed
    ELSE Counted(i) = i

\* Those of the updates that replace the policy.
Applied(updates) == {i \in DOMAIN updates : updates[i] \in Usable}

\* "policy reload applied" is reported only of policies that have been committed,
\* and at most once for each commit.
AppliedReportsAreTrue == Cardinality(Applied(reports)) <= revision
=============================================================================
