------------------------------ MODULE StdioBridge -----------------------------
(***************************************************************************)
(* runStdioProxy of packages/proxy-runtime/src/stdio-bridge.ts: two readers *)
(* that hand frames to one operation queue, the audit that a frame waits   *)
(* for before it is written anywhere, and the shutdown that starts with    *)
(* whatever ends first: the client's input, the upstream's output or the   *)
(* upstream itself.  Client and upstream are processes of their own,       *)
(* behind bounded pipes.  Policy updates are PolicyReload's.               *)
(***************************************************************************)
EXTENDS Integers, Sequences

CONSTANTS
  MaxFrames,  \* how many frames client and upstream send in all, a bound
  MaxFaults,  \* how often a stream fails under the bridge, a bound
  MaxEvents,  \* how many audit events one frame causes, a bound
  PipeSize,   \* how many frames fit into a pipe
  Suspended,  \* a client's call that waits for its approval
  None

Peer == {"client", "upstream"}

ASSUME BoundsAssumption ==
  /\ {MaxFrames, MaxFaults, MaxEvents} \subseteq Nat
  /\ PipeSize \in Nat \ {0}

VARIABLES
  onFailure,  \* profile.audit.onFailure
  queue,      \* kinds of the operations chained in sessionOperationQueue
  running,    \* the frame operation that has begun: its progress
  leaked,     \* history: under fail_closed a frame took effect and not all of its
              \* events were written
  reader,     \* the two consumeFrames loops: how far, or how they ended
  stderr,     \* observeUpstreamStderr
  unread,     \* frames each peer has sent and the bridge has not read
  sent,       \* how many frames have arrived
  ended,      \* whether each peer's output has ended
  backlog,    \* frames written to each peer and not yet taken by it
  writable,   \* clientOutput and upstream.stdin: open, ended or closed
  faults,     \* how many streams have failed
  exit,       \* the exit code of the upstream process, None while it runs
  killed,     \* it was sent SIGKILL
  race,       \* the promise that settled Promise.race
  main,       \* where the body of runStdioProxy is
  timer,      \* the timers of waitForUpstreamExitOrKill
  shutdown,   \* its result
  exitCode,   \* what runStdioProxy returns
  awaited,    \* operations found in the queue by finish() and not yet over
  destroyed   \* upstream.stdout and stderr have been destroyed by the bridge

sessionVars == <<onFailure, queue, running, leaked>>
readerVars  == <<reader, stderr>>
peerVars    == <<unread, sent, ended, backlog, writable, faults>>
processVars == <<exit, killed>>
mainVars    == <<race, main, timer, shutdown, exitCode, awaited, destroyed>>
vars == <<sessionVars, readerVars, peerVars, processVars, mainVars>>

-----------------------------------------------------------------------------
(* State.                                                                   *)

Other(p) == IF p = "client" THEN "upstream" ELSE "client"

\* What a session handler returns, as far as the bridge looks at it: how many
\* audit events, and whether there is a line to answer the sender or one to
\* forward.  No handler returns both lines, and whatever is not forwarded is
\* audited.
Plan == {plan \in [events : 0..MaxEvents, response : BOOLEAN, forward : BOOLEAN] :
           /\ ~(plan.response /\ plan.forward)
           /\ plan.forward \/ plan.events > 0}

\* "flush" is a write whose callback has not been called yet.
Running ==
  [from : Peer, stage : {"audit", "flush"}, plan : Plan, written : 0..MaxEvents,
   left : 0..MaxEvents]

ReaderEnd == {"completed", "auditFailure", "failed", "premature"}

ExitCodes == {0, 1}

Timeout == -2   \* timeoutExitCode, -2 or -3

MainState == {"starting", "racing", "awaitingExit", "needStdout", "needStderr",
              "normalizing", "terminating", "draining", "stopped", "returned"}

\* waitForUpstreamExitOrKill.
Shutdown == [code : ExitCodes \cup {Timeout}, forced : BOOLEAN]

Race == {"client", "upstream-output", "exit", "auditFailure", "failed"}

ASSUME NoneAssumption ==
  /\ Suspended # None /\ None \notin Running /\ Suspended \notin Running
  /\ None \notin ExitCodes /\ None \notin {3, 4, 5} /\ None \notin Shutdown /\ None \notin Race

TypeOK ==
  /\ onFailure \in {"fail_closed", "warn_and_continue"}
  /\ queue \in Seq(Peer)
  /\ running \in Running \cup {Suspended, None}
  /\ awaited \in Nat
  /\ leaked \in BOOLEAN /\ destroyed \in BOOLEAN /\ killed \in BOOLEAN
  /\ reader \in [Peer -> {"idle", "reading", "waiting"} \cup ReaderEnd]
  /\ stderr \in {"idle", "reading"} \cup ReaderEnd
  /\ unread \in [Peer -> 0..PipeSize] /\ backlog \in [Peer -> 0..PipeSize]
  /\ sent \in 0..MaxFrames /\ faults \in 0..MaxFaults /\ ended \in [Peer -> BOOLEAN]
  /\ writable \in [Peer -> {"open", "ended", "closed"}]
  /\ exit \in ExitCodes \cup {None}
  /\ race \in Race \cup {None}
  /\ main \in MainState
  /\ timer \in {None, "grace", "force", "killing"}
  /\ shutdown \in Shutdown \cup {None}
  /\ exitCode \in {None, 0, 1, 3, 4, 5}

Exited == exit # None

\* The readers run: the start has succeeded.
Connected == reader["client"] # "idle"

\* The first promise to settle decides Promise.race.
Settle(outcome) == race' = IF main = "racing" /\ race = None THEN outcome ELSE race

-----------------------------------------------------------------------------
(* One frame operation, from its turn in the queue to its last write.      *)

\* The operation at the head of the queue is over, however it ended.
Dequeue ==
  /\ queue' = Tail(queue)
  /\ awaited' = IF awaited > 0 THEN awaited - 1 ELSE 0

Completed ==
  /\ Dequeue
  /\ running' = None
  /\ reader' = [reader EXCEPT ![running.from] = "reading"]
  /\ UNCHANGED race

\* onLine throws: the loop that fed the frame ends, and with it its promise.
Throws(failure) ==
  /\ Dequeue
  /\ running' = None
  /\ reader' = [reader EXCEPT ![running.from] = failure]
  /\ Settle(failure)

Audit(plan) ==
  [from |-> Head(queue), stage |-> "audit", plan |-> plan, written |-> 0,
   left |-> plan.events]

\* The handler of the session returns at once, or suspends a client's call that
\* waits for its approval.
Begin ==
  /\ running = None
  /\ queue # <<>>
  /\ \/ \E plan \in Plan : running' = Audit(plan)
     \/ Head(queue) = "client" /\ running' = Suspended
  /\ UNCHANGED <<onFailure, queue, leaked, readerVars, peerVars, processVars,
                 mainVars>>

\* The approval is given, refused, timed out or aborted.
Resume ==
  /\ running = Suspended
  /\ \E plan \in Plan : running' = Audit(plan)
  /\ UNCHANGED <<onFailure, queue, leaked, readerVars, peerVars, processVars,
                 mainVars>>

\* A frame has been decided.
Decided == running \notin {None, Suspended}

Auditing == Decided /\ running.stage = "audit" /\ running.left > 0

Audited == Decided /\ running.stage = "audit" /\ running.left = 0

AuditWritten ==
  /\ Auditing
  /\ running' = [running EXCEPT !.left = @ - 1, !.written = @ + 1]
  /\ UNCHANGED <<onFailure, queue, leaked, readerVars, peerVars, processVars,
                 mainVars>>

\* Mutant: the failure is counted and the frame goes on, whatever the policy.
AuditFails_Continues ==
  /\ Auditing
  /\ running' = [running EXCEPT !.left = @ - 1]
  /\ UNCHANGED <<onFailure, queue, leaked, readerVars, peerVars, processVars,
                 mainVars>>

AuditFails ==
  /\ Auditing
  /\ \/ /\ onFailure = "warn_and_continue"
        /\ running' = [running EXCEPT !.left = @ - 1]
        /\ UNCHANGED <<queue, reader, race, awaited>>
     \/ /\ onFailure = "fail_closed"
        /\ Throws("auditFailure")
  /\ UNCHANGED <<onFailure, leaked, stderr, peerVars, processVars, main, timer,
                 shutdown, exitCode, destroyed>>

HasLine(plan) == plan.response \/ plan.forward

Target == IF running.plan.response THEN running.from ELSE Other(running.from)

\* An answer to the upstream is dropped when its stdin is closed
\* (writeLineIfOpen); every other write to a closed stream throws (writeLine).
NothingToWrite ==
  \/ ~HasLine(running.plan)
  \/ /\ running.plan.response /\ running.from = "upstream"
     /\ writable["upstream"] # "open"

EndUnwritten ==
  /\ Audited /\ NothingToWrite
  /\ Completed
  /\ UNCHANGED <<onFailure, leaked, stderr, peerVars, processVars, main, timer,
                 shutdown, exitCode, destroyed>>

StartWrite ==
  /\ Audited /\ HasLine(running.plan) /\ writable[Target] = "open"
  /\ running' = [running EXCEPT !.stage = "flush"]
  /\ UNCHANGED <<onFailure, queue, leaked, readerVars, peerVars, processVars,
                 mainVars>>

Flush ==
  /\ Decided /\ running.stage = "flush"
  /\ writable[Target] # "closed" /\ backlog[Target] < PipeSize
  /\ backlog' = [backlog EXCEPT ![Target] = @ + 1]
  /\ leaked' = (leaked \/ (onFailure = "fail_closed"
                           /\ running.written < running.plan.events))
  /\ Completed
  /\ UNCHANGED <<onFailure, stderr, unread, sent, ended, writable, faults,
                 processVars, main, timer, shutdown, exitCode, destroyed>>

\* Mutant: nothing listens for the stream's close while a write is pending.
WriteFails_NoCloseListener ==
  /\ Decided
  /\ Audited /\ ~NothingToWrite /\ writable[Target] # "open"
  /\ Throws("failed")
  /\ UNCHANGED <<onFailure, leaked, stderr, peerVars, processVars, main, timer,
                 shutdown, exitCode, destroyed>>

\* The stream is not open when the write starts, or closes before it is flushed.
WriteFails ==
  /\ Decided
  /\ \/ Audited /\ ~NothingToWrite /\ writable[Target] # "open"
     \/ running.stage = "flush" /\ writable[Target] = "closed"
  /\ Throws("failed")
  /\ UNCHANGED <<onFailure, leaked, stderr, peerVars, processVars, main, timer,
                 shutdown, exitCode, destroyed>>

-----------------------------------------------------------------------------
(* The readers.                                                             *)

Read(p) ==
  /\ reader[p] = "reading" /\ unread[p] > 0
  /\ unread' = [unread EXCEPT ![p] = @ - 1]
  /\ reader' = [reader EXCEPT ![p] = "waiting"]
  /\ queue' = Append(queue, p)
  /\ UNCHANGED <<onFailure, running, leaked, stderr, sent, ended, backlog,
                 writable, faults, processVars, mainVars>>

\* Mutant: the loop does not wait for the operation of its last frame.
ReadEnd_DoesNotWait(p) ==
  /\ reader[p] \in {"reading", "waiting"} /\ unread[p] = 0 /\ ended[p]
  /\ reader' = [reader EXCEPT ![p] = "completed"]
  /\ Settle(IF p = "client" THEN "client" ELSE "upstream-output")
  /\ UNCHANGED <<sessionVars, stderr, peerVars, processVars, main, timer,
                 shutdown, exitCode, awaited, destroyed>>

ReadEnd(p) ==
  /\ reader[p] = "reading" /\ unread[p] = 0 /\ ended[p]
  /\ reader' = [reader EXCEPT ![p] = "completed"]
  /\ Settle(IF p = "client" THEN "client" ELSE "upstream-output")
  /\ UNCHANGED <<sessionVars, stderr, peerVars, processVars, main, timer,
                 shutdown, exitCode, awaited, destroyed>>

\* The stream itself fails.
ReadFails(p) ==
  /\ reader[p] = "reading" /\ faults < MaxFaults
  /\ faults' = faults + 1
  /\ reader' = [reader EXCEPT ![p] = "failed"]
  /\ Settle("failed")
  /\ UNCHANGED <<sessionVars, stderr, unread, sent, ended, backlog, writable,
                 processVars, main, timer, shutdown, exitCode, awaited,
                 destroyed>>

\* The bridge has destroyed upstream.stdout under the loop.
ReadPremature ==
  /\ reader["upstream"] = "reading" /\ destroyed
  /\ reader' = [reader EXCEPT !["upstream"] = "premature"]
  /\ UNCHANGED <<sessionVars, stderr, peerVars, processVars, mainVars>>

\* observeUpstreamStderr audits at the end that there were lines, if any; the
\* stream itself may fail, or be destroyed, before that.
StderrEnds ==
  /\ stderr = "reading"
  /\ \/ stderr' = "completed" /\ UNCHANGED faults
     \/ onFailure = "fail_closed" /\ stderr' = "auditFailure" /\ UNCHANGED faults
     \/ faults < MaxFaults /\ faults' = faults + 1 /\ stderr' = "failed"
     \/ destroyed /\ stderr' = "premature" /\ UNCHANGED faults
  /\ UNCHANGED <<sessionVars, reader, unread, sent, ended, backlog, writable,
                 processVars, mainVars>>

-----------------------------------------------------------------------------
(* The body of runStdioProxy.                                               *)

\* catch: the failure's exit code, and a forced termination.
Fatal(failure) ==
  /\ main' = "terminating"
  /\ exitCode' = IF failure = "auditFailure" THEN 5 ELSE 1
  /\ killed' = (killed \/ ~Exited)

\* finish awaits the queue as it is now.
Finish(code) ==
  /\ main' = "draining"
  /\ exitCode' = code
  /\ awaited' = Len(queue)

\* The profile is missing, the upstream cannot be spawned, the reload source
\* cannot be subscribed to, or the proxy runs.
Start ==
  /\ main = "starting"
  /\ \/ /\ main' = "returned"
        /\ exitCode' \in {3, 4}
        /\ UNCHANGED <<readerVars, killed>>
     \/ /\ Fatal("failed")
        /\ UNCHANGED <<readerVars>>
     \/ /\ main' = "racing"
        /\ reader' = [p \in Peer |-> "reading"]
        /\ stderr' = "reading"
        /\ UNCHANGED <<exitCode, killed>>
  /\ UNCHANGED <<sessionVars, peerVars, exit, race, timer, shutdown, awaited,
                 destroyed>>

\* The client's input or the upstream's output ended first.
BeginShutdown ==
  /\ main = "racing" /\ race \in {"client", "upstream-output"}
  /\ main' = "awaitingExit"
  /\ timer' = "grace"
  /\ writable' = IF race = "client" /\ writable["upstream"] = "open"
                 THEN [writable EXCEPT !["upstream"] = "ended"] ELSE writable
  /\ UNCHANGED <<sessionVars, readerVars, unread, sent, ended, backlog, faults,
                 processVars, race, shutdown, exitCode, awaited, destroyed>>

\* Mutant: when the upstream exits first, its output is not waited for.
ExitFirst_SkipsStdout ==
  /\ main = "racing" /\ race = "exit"
  /\ main' = "needStderr"
  /\ shutdown' = [code |-> exit, forced |-> FALSE]
  /\ UNCHANGED <<sessionVars, readerVars, peerVars, processVars, race, timer,
                 exitCode, awaited, destroyed>>

ExitFirst ==
  /\ main = "racing" /\ race = "exit"
  /\ main' = "needStdout"
  /\ shutdown' = [code |-> exit, forced |-> FALSE]
  /\ UNCHANGED <<sessionVars, readerVars, peerVars, processVars, race, timer,
                 exitCode, awaited, destroyed>>

FailureFirst ==
  /\ main = "racing" /\ race \in {"auditFailure", "failed"}
  /\ Fatal(race)
  /\ UNCHANGED <<sessionVars, readerVars, peerVars, exit, race, timer, shutdown,
                 awaited, destroyed>>

\* What is still required after the upstream is gone.
Required == IF race = "client" THEN "needStdout" ELSE "needStderr"

ExitInTime ==
  /\ main = "awaitingExit" /\ Exited
  /\ shutdown' = [code |-> exit, forced |-> FALSE]
  /\ main' = Required
  /\ timer' = IF timer = "killing" THEN timer ELSE None
  /\ UNCHANGED <<sessionVars, readerVars, peerVars, processVars, race, exitCode,
                 awaited, destroyed>>

\* Mutant: SIGTERM is sent and no force timer armed.
GraceExpires_NoForceTimer ==
  /\ timer = "grace" /\ ~Exited
  /\ timer' = None
  /\ UNCHANGED <<sessionVars, readerVars, peerVars, processVars, race, main,
                 shutdown, exitCode, awaited, destroyed>>

GraceExpires ==
  /\ timer = "grace" /\ ~Exited
  /\ timer' = "force"
  /\ UNCHANGED <<sessionVars, readerVars, peerVars, processVars, race, main,
                 shutdown, exitCode, awaited, destroyed>>

ForceExpires ==
  /\ timer = "force" /\ ~Exited
  /\ timer' = "killing"
  /\ killed' = TRUE
  /\ UNCHANGED <<sessionVars, readerVars, peerVars, exit, race, main, shutdown,
                 exitCode, awaited, destroyed>>

\* requestUpstreamTermination returns, and the pipes are destroyed.
Destroy ==
  /\ timer = "killing"
  /\ timer' = None
  /\ destroyed' = TRUE
  /\ writable' = [writable EXCEPT !["upstream"] = "closed"]
  /\ IF main = "awaitingExit"
     THEN /\ shutdown' = [code |-> Timeout, forced |-> TRUE]
          /\ main' = Required
     ELSE UNCHANGED <<shutdown, main>>
  /\ UNCHANGED <<sessionVars, readerVars, unread, sent, ended, backlog, faults,
                 processVars, race, exitCode, awaited>>

\* Mutant: a forced shutdown excuses every failure of a stream.
Acceptable_Forced(completion) ==
  completion = "completed" \/ shutdown.forced

\* requireStreamCompletion: completed, or destroyed by the forced shutdown.
Acceptable(completion) ==
  \/ completion = "completed"
  \/ completion = "premature" /\ shutdown.forced

RequireStdout ==
  /\ main = "needStdout" /\ reader["upstream"] \in ReaderEnd
  /\ \/ /\ Acceptable(reader["upstream"])
        /\ main' = "needStderr"
        /\ UNCHANGED <<exitCode, killed>>
     \/ /\ ~Acceptable(reader["upstream"])
        /\ Fatal(reader["upstream"])
  /\ UNCHANGED <<sessionVars, readerVars, peerVars, exit, race, timer, shutdown,
                 awaited, destroyed>>

RequireStderr ==
  /\ main = "needStderr" /\ stderr \in ReaderEnd
  /\ \/ /\ Acceptable(stderr)
        /\ main' = "normalizing"
        /\ UNCHANGED <<exitCode, killed>>
     \/ /\ ~Acceptable(stderr)
        /\ Fatal(stderr)
  /\ UNCHANGED <<sessionVars, readerVars, peerVars, exit, race, timer, shutdown,
                 awaited, destroyed>>

\* normalizeUpstreamExit: 0, or an audited failure of the upstream.
Normalize ==
  /\ main = "normalizing"
  /\ \/ /\ shutdown.code = 0
        /\ Finish(0)
        /\ UNCHANGED killed
     \/ /\ shutdown.code # 0
        /\ Finish(4)
        /\ UNCHANGED killed
     \/ /\ shutdown.code # 0 /\ onFailure = "fail_closed"
        /\ Fatal("auditFailure")
        /\ UNCHANGED awaited
  /\ UNCHANGED <<sessionVars, readerVars, peerVars, exit, race, timer, shutdown,
                 destroyed>>

Terminated ==
  /\ main = "terminating"
  /\ Finish(exitCode)
  /\ UNCHANGED <<sessionVars, readerVars, peerVars, processVars, race, timer,
                 shutdown, destroyed>>

\* finish() awaits the operations it found, then records the stop event; the
\* finally block awaits the queue again.
RecordStop ==
  /\ main = "draining" /\ awaited = 0
  /\ main' = "stopped"
  /\ awaited' = Len(queue)
  /\ UNCHANGED <<sessionVars, readerVars, peerVars, processVars, race, timer,
                 shutdown, exitCode, destroyed>>

Return ==
  /\ main = "stopped" /\ awaited = 0
  /\ main' = "returned"
  /\ UNCHANGED <<sessionVars, readerVars, peerVars, processVars, race, timer,
                 shutdown, exitCode, awaited, destroyed>>

-----------------------------------------------------------------------------
(* The peers.                                                               *)

Send(p) ==
  /\ Connected /\ ~ended[p] /\ (p = "upstream" => ~Exited)
  /\ sent < MaxFrames /\ unread[p] < PipeSize
  /\ sent' = sent + 1
  /\ unread' = [unread EXCEPT ![p] = @ + 1]
  /\ UNCHANGED <<sessionVars, readerVars, ended, backlog, writable, faults,
                 processVars, mainVars>>

\* The peer closes its output; an exit of the upstream closes it too, sooner or
\* later.
End(p) ==
  /\ Connected /\ ~ended[p]
  /\ ended' = [ended EXCEPT ![p] = TRUE]
  /\ UNCHANGED <<sessionVars, readerVars, unread, sent, backlog, writable,
                 faults, processVars, mainVars>>

Take(p) ==
  /\ backlog[p] > 0
  /\ backlog' = [backlog EXCEPT ![p] = @ - 1]
  /\ UNCHANGED <<sessionVars, readerVars, unread, sent, ended, writable, faults,
                 processVars, mainVars>>

\* The peer closes its input.
StopReading(p) ==
  /\ Connected /\ writable[p] # "closed" /\ faults < MaxFaults
  /\ faults' = faults + 1
  /\ writable' = [writable EXCEPT ![p] = "closed"]
  /\ UNCHANGED <<sessionVars, readerVars, unread, sent, ended, backlog,
                 processVars, mainVars>>

\* The upstream exits, which also closes the pipe to it.
Exit(code) ==
  /\ Connected /\ ~Exited
  /\ exit' = code
  /\ writable' = [writable EXCEPT !["upstream"] = "closed"]
  /\ backlog' = [backlog EXCEPT !["upstream"] = 0]
  /\ Settle("exit")
  /\ UNCHANGED <<sessionVars, readerVars, unread, sent, ended, faults, killed,
                 main, timer, shutdown, exitCode, awaited, destroyed>>

-----------------------------------------------------------------------------
(* Specification.                                                           *)

Init ==
  /\ onFailure \in {"fail_closed", "warn_and_continue"}
  /\ queue = <<>> /\ running = None /\ leaked = FALSE
  /\ reader = [p \in Peer |-> "idle"] /\ stderr = "idle"
  /\ unread = [p \in Peer |-> 0] /\ sent = 0 /\ faults = 0
  /\ ended = [p \in Peer |-> FALSE]
  /\ backlog = [p \in Peer |-> 0] /\ writable = [p \in Peer |-> "open"]
  /\ exit = None /\ killed = FALSE
  /\ race = None /\ main = "starting" /\ timer = None /\ shutdown = None
  /\ exitCode = None /\ awaited = 0 /\ destroyed = FALSE

QueueStep ==
  \/ Begin \/ Resume
  \/ AuditWritten \/ AuditFails
  \/ EndUnwritten \/ StartWrite \/ Flush \/ WriteFails

ReaderStep(p) == Read(p) \/ ReadEnd(p) \/ (p = "upstream" /\ ReadPremature)

TimerStep == GraceExpires \/ ForceExpires \/ Destroy

MainStep ==
  \/ BeginShutdown \/ ExitFirst \/ FailureFirst \/ ExitInTime
  \/ RequireStdout \/ RequireStderr \/ Normalize \/ Terminated
  \/ RecordStop \/ Return

PeerStep(p) == Send(p) \/ End(p) \/ Take(p) \/ StopReading(p)

ExitStep == \E code \in ExitCodes : Exit(code)

\* What happens after runStdioProxy has returned is its caller's.
Going == main # "returned"

Next ==
  /\ Going
  /\ \/ Start \/ MainStep \/ TimerStep
     \/ QueueStep
     \/ \E p \in Peer : ReaderStep(p) \/ ReadFails(p) \/ PeerStep(p)
     \/ StderrEnds
     \/ ExitStep

Spec == Init /\ [][Next]_vars

\* The event loop, the timers and the audit writer go on; the system delivers
\* SIGKILL and closes the pipes of a process that exited; the client goes on
\* reading.  Nothing is assumed of what anyone sends, or of an upstream that runs.
\* Every fair action is part of Next, so the fairness can always be met.
Fairness ==
  /\ WF_vars(Going /\ MainStep) /\ WF_vars(Going /\ TimerStep)
  /\ WF_vars(Going /\ QueueStep)
  /\ \A p \in Peer : WF_vars(Going /\ ReaderStep(p))
  /\ WF_vars(Going /\ Exited /\ StderrEnds)
  /\ WF_vars(Going /\ killed /\ ExitStep)
  /\ WF_vars(Going /\ Exited /\ End("upstream"))
  /\ WF_vars(Going /\ Take("client"))

FairSpec == Spec /\ Fairness

\* The upstream, too, goes on reading, whether or not its own output is read.
ReadingSpec == FairSpec /\ WF_vars(Going /\ Take("upstream"))

-----------------------------------------------------------------------------
(* Safety.                                                                  *)

\* Under fail_closed nothing of a frame reaches the client or the upstream
\* unless every audit event of it has been written (recordAudit before
\* writeLine, in both directions, whatever fails in between).
AuditBeforeEffect == ~leaked

\* upstream.stdin is ended only when all the client has sent has been handled.
StdinEndsAfterLastFrame ==
  writable["upstream"] = "ended" =>
    /\ unread["client"] = 0
    /\ \A i \in DOMAIN queue : queue[i] # "client"

\* Exit code 0 says that the upstream exited with 0, that all of its output was
\* handled, in whatever order exit and output ended, and that what it wrote to
\* stderr is audited.
CleanExitLosesNothing ==
  exitCode = 0 =>
    /\ exit = 0
    /\ unread["upstream"] = 0
    /\ reader["upstream"] = "completed" /\ stderr = "completed"

\* An audit failure on the upstream's output or stderr is never reported as
\* success or as the upstream's fault, and none is fatal when the policy says to
\* go on.
ExitCodeTellsAuditFailure ==
  /\ exitCode \in {0, 4} =>
       reader["upstream"] # "auditFailure" /\ stderr # "auditFailure"
  /\ exitCode = 5 => onFailure = "fail_closed"

\* What the first of these rests on: a frame waits in the queue once, its reader
\* waits for it, and the operation that runs is that of the queue's head, with
\* every event of it accounted for.
QueueInv ==
  /\ \A i \in 1..Len(queue) : reader[queue[i]] = "waiting"
  /\ \A i, j \in 1..Len(queue) : queue[i] = queue[j] => i = j
  /\ running # None => queue # <<>>
  /\ Decided =>
       /\ running.from = Head(queue)
       /\ running.written + running.left <= running.plan.events
       /\ onFailure = "fail_closed" =>
            running.written + running.left = running.plan.events
       /\ running.stage = "flush" => running.left = 0
  /\ ~leaked

\* And the others: how each stage of the shutdown is entered says how the streams
\* ended, and they stay so.
Accepted(completion) == completion \in {"completed", "premature"}

StreamsTell ==
  /\ \A p \in Peer : reader[p] = "completed" => ended[p] /\ unread[p] = 0
  /\ "auditFailure" \in {reader["client"], reader["upstream"], stderr, race} =>
       onFailure = "fail_closed"
  /\ race = "client" => reader["client"] = "completed"
  /\ race = "upstream-output" => reader["upstream"] = "completed"
  /\ race = "exit" => Exited
  /\ writable["upstream"] = "ended" => reader["client"] = "completed"

StagesTell ==
  /\ main = "starting" => reader = [p \in Peer |-> "idle"] /\ stderr = "idle"
  /\ main = "awaitingExit" => race \in {"client", "upstream-output"}
  /\ shutdown # None =>
       \/ shutdown.code = Timeout /\ shutdown.forced
       \/ shutdown.code = exit /\ Exited /\ ~shutdown.forced
  /\ main \in {"needStdout", "needStderr", "normalizing"} => shutdown # None
  /\ main \in {"needStderr", "normalizing"} => Acceptable(reader["upstream"])
  /\ main = "normalizing" => Acceptable(stderr)
  /\ main = "terminating" => exitCode \in {1, 5}
  /\ exitCode = 5 => onFailure = "fail_closed"
  /\ exitCode \in {0, 4} =>
       \/ Accepted(reader["upstream"]) /\ Accepted(stderr)
       \/ main = "returned" /\ "auditFailure" \notin {reader["upstream"], stderr}
  /\ exitCode = 0 =>
       exit = 0 /\ reader["upstream"] = "completed" /\ stderr = "completed"

StageInv == StreamsTell /\ StagesTell

-----------------------------------------------------------------------------
(* Liveness.                                                                *)

\* Whatever settles the race, runStdioProxy returns: no order of exits, stream
\* ends, stuck writes and timers leaves it waiting.
EveryShutdownReturns == race # None ~> main = "returned"

\* Every operation ends, so the ones behind it get their turn, unless the whole
\* bridge returns first: what is queued behind its last drain is left behind.
OperationsEnd == running # None ~> running = None \/ main = "returned"

\* After client input closes, the upstream's stdin is ended and the upstream is
\* terminated if it does not exit (docs/architecture/02-runtime-flow.md).
ClientEndEndsProxy == ended["client"] ~> main = "returned"
=============================================================================
