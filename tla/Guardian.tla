------------------------------- MODULE Guardian -------------------------------
(***************************************************************************)
(* The POSIX process tree of a run: the proxy, the guardian it spawns      *)
(* (packages/cli/src/posix-process-guardian.ts) and the upstream's process *)
(* group, which the guardian spawns and signals.  The proxy signals only   *)
(* the guardian's group (process-tree.ts, with the timers of               *)
(* waitForUpstreamExitOrKill in stdio-bridge.ts), and may die abruptly.    *)
(* The delays of the timers are not modelled, only what arms, fires and    *)
(* clears them.                                                            *)
(***************************************************************************)
EXTENDS Naturals, Sequences

CONSTANTS
  MaxChunks,  \* how many chunks the client sends, a bound
  None

ASSUME ChunksAssumption == MaxChunks \in Nat

ASSUME NoneAssumption == None \notin {"armed", "fired"} /\ None \notin {0, 1}

VARIABLES
  proxy,           \* open, grace, force: its shutdown timers; over; dead
  sent,            \* chunks the proxy has written to the guardian's stdin
  unread,          \* and those the guardian has not read
  guardian,        \* where runPosixProcessGuardian is
  forwarding,      \* forwardClientInput
  shutdownTimer, forceTimer,
  terminationStarted, parentInputClosed, upstreamExited,
  guardianCode,    \* exit code of the guardian, None while it runs
  signals,         \* history: what the guardian sent to the upstream's group
  group,           \* live processes of the upstream's group
  leaderCode,      \* exit code of the upstream itself, None while it runs
  shares,          \* the descendant has inherited the pipes of the upstream
  full,            \* the pipe to the upstream's stdin is full
  inputClosed      \* nobody reads that pipe any more

proxyVars    == <<proxy, sent, unread>>
guardianVars == <<guardian, forwarding, guardianCode>>
timerVars    == <<shutdownTimer, forceTimer, terminationStarted,
                  parentInputClosed, upstreamExited, signals>>
groupVars    == <<group, leaderCode, shares, full, inputClosed>>
vars == <<proxyVars, guardianVars, timerVars, groupVars>>

Member == {"upstream", "descendant"}

TimerState == {None, "armed", "fired"}

TypeOK ==
  /\ proxy \in {"open", "grace", "force", "over", "dead"}
  /\ sent \in 0..MaxChunks /\ unread \in 0..sent
  /\ guardian \in {"starting", "running", "reaped", "cleaning", "returned", "gone"}
  /\ forwarding \in {"reading", "writing", "ended"}
  /\ shutdownTimer \in TimerState /\ forceTimer \in TimerState
  /\ terminationStarted \in BOOLEAN /\ parentInputClosed \in BOOLEAN
  /\ upstreamExited \in BOOLEAN
  /\ guardianCode \in {None, 0, 1}
  /\ group \subseteq Member
  /\ leaderCode \in {None, 0, 1}
  /\ shares \in BOOLEAN /\ full \in BOOLEAN /\ inputClosed \in BOOLEAN

\* The event handlers of the guardian are installed.
Handling == guardian \in {"running", "reaped", "cleaning"}

\* Some live process holds the pipes of the upstream.
Attached == "upstream" \in group \/ (shares /\ "descendant" \in group)

-----------------------------------------------------------------------------
(* The guardian's signals.                                                  *)

\* signalUpstreamProcessGroup with SIGKILL, and code ?? 1: nothing happens to a
\* group that is empty.
Killed ==
  /\ group' = {}
  /\ leaderCode' = IF leaderCode = None THEN 1 ELSE leaderCode

\* Mutant: every request to terminate signals again.
Terminate_EveryTime ==
  /\ terminationStarted' = TRUE
  /\ signals' = Append(signals, "SIGTERM")
  /\ forceTimer' = IF forceTimer = None THEN "armed" ELSE forceTimer

\* terminateUpstreamProcessGroup and scheduleForceTermination.
Terminate ==
  /\ terminationStarted' = TRUE
  /\ IF terminationStarted
     THEN UNCHANGED <<signals, forceTimer>>
     ELSE /\ signals' = Append(signals, "SIGTERM")
          /\ forceTimer' = IF forceTimer = None THEN "armed" ELSE forceTimer

\* scheduleShutdown.
ScheduleShutdown ==
  shutdownTimer' =
    IF shutdownTimer # None \/ terminationStarted \/ upstreamExited
    THEN shutdownTimer ELSE "armed"

ShutdownTimerFires ==
  /\ Handling /\ shutdownTimer = "armed"
  /\ shutdownTimer' = "fired"
  /\ Terminate
  /\ UNCHANGED <<proxyVars, guardianVars, parentInputClosed, upstreamExited,
                 groupVars>>

ForceTimerFires ==
  /\ Handling /\ forceTimer = "armed"
  /\ forceTimer' = "fired"
  /\ signals' = Append(signals, "SIGKILL")
  /\ Killed
  /\ UNCHANGED <<proxyVars, guardianVars, shutdownTimer, terminationStarted,
                 parentInputClosed, upstreamExited, shares, full, inputClosed>>

-----------------------------------------------------------------------------
(* The life of the guardian.                                                *)

\* The guardian has read the control frame, and the upstream starts or does not.
StartUpstream ==
  /\ guardian = "starting"
  /\ \/ guardian' = "running" /\ group' = {"upstream"} /\ UNCHANGED leaderCode
     \/ guardian' = "running" /\ leaderCode' = 1 /\ UNCHANGED group
  /\ UNCHANGED <<proxyVars, forwarding, guardianCode, timerVars, shares, full,
                 inputClosed>>

\* The control frame ends before its delimiter, or is not one.
RejectControlFrame ==
  /\ guardian = "starting" /\ proxy = "dead"
  /\ guardian' = "returned" /\ guardianCode' = 1
  /\ UNCHANGED <<proxyVars, forwarding, timerVars, groupVars>>

ReadChunk ==
  /\ guardian = "running" /\ forwarding = "reading" /\ unread > 0
  /\ unread' = unread - 1
  /\ forwarding' = "writing"
  /\ UNCHANGED <<proxy, sent, guardian, guardianCode, timerVars, groupVars>>

WriteChunk ==
  /\ guardian = "running" /\ forwarding = "writing"
  /\ ~full /\ ~inputClosed /\ Attached
  /\ full' = TRUE
  /\ forwarding' = "reading"
  /\ UNCHANGED <<proxyVars, guardian, guardianCode, timerVars, group,
                 leaderCode, shares, inputClosed>>

\* The pipe has no reader.  Nothing listens for the error of upstream.stdin, and
\* the guardian ends with it, unless it has already seen the upstream's exit.
WriteBreaks ==
  /\ guardian = "running" /\ forwarding = "writing"
  /\ inputClosed \/ ~Attached
  /\ guardian' = "gone" /\ guardianCode' = 1
  /\ UNCHANGED <<proxyVars, forwarding, timerVars, groupVars>>

\* Mutant: the end of the parent's input schedules nothing.
SeeEnd_NoShutdown ==
  /\ guardian = "running" /\ forwarding = "reading" /\ unread = 0
  /\ proxy # "open"
  /\ forwarding' = "ended"
  /\ parentInputClosed' = TRUE
  /\ UNCHANGED <<proxyVars, guardian, guardianCode, shutdownTimer, forceTimer,
                 terminationStarted, upstreamExited, signals, groupVars>>

\* forwardClientInput sees the end of the parent's input, and the upstream's
\* stdin is ended.
SeeEnd ==
  /\ guardian = "running" /\ forwarding = "reading" /\ unread = 0
  /\ proxy # "open"
  /\ forwarding' = "ended"
  /\ parentInputClosed' = TRUE
  /\ ScheduleShutdown
  /\ UNCHANGED <<proxyVars, guardian, guardianCode, forceTimer,
                 terminationStarted, upstreamExited, signals, groupVars>>

\* Output of the upstream for a proxy that is dead.
OutputFails ==
  /\ Handling /\ proxy = "dead" /\ Attached
  /\ ScheduleShutdown
  /\ UNCHANGED <<proxyVars, guardianVars, forceTimer, terminationStarted,
                 parentInputClosed, upstreamExited, signals, groupVars>>

\* waitForChildExit settles; stdin is destroyed, which ends the forwarding.
Reap ==
  /\ guardian = "running" /\ leaderCode # None
  /\ guardian' = "reaped"
  /\ upstreamExited' = TRUE
  /\ forwarding' = "ended"
  /\ UNCHANGED <<proxyVars, guardianCode, shutdownTimer, forceTimer,
                 terminationStarted, parentInputClosed, signals, groupVars>>

ShutdownRequested ==
  parentInputClosed \/ terminationStarted \/ shutdownTimer # None

\* Mutant: the guardian signals what is left and does not wait.
AfterExit_DoesNotWait ==
  /\ guardian = "reaped"
  /\ guardian' = "returned" /\ guardianCode' = leaderCode
  /\ IF ShutdownRequested
     THEN Terminate
     ELSE UNCHANGED <<terminationStarted, signals, forceTimer>>
  /\ UNCHANGED <<proxyVars, forwarding, shutdownTimer, parentInputClosed,
                 upstreamExited, groupVars>>

\* Mutant: the upstream's exit is taken for a shutdown.
AfterExit_AlwaysTerminates ==
  /\ guardian = "reaped"
  /\ guardian' = "cleaning"
  /\ Terminate
  /\ UNCHANGED <<proxyVars, forwarding, guardianCode, shutdownTimer,
                 parentInputClosed, upstreamExited, groupVars>>

\* After the upstream's exit: what is left of its group is terminated if a
\* shutdown was under way.
AfterExit ==
  /\ guardian = "reaped"
  /\ \/ /\ ShutdownRequested
        /\ guardian' = "cleaning"
        /\ Terminate
        /\ UNCHANGED guardianCode
     \/ /\ ~ShutdownRequested
        /\ guardian' = "returned" /\ guardianCode' = leaderCode
        /\ UNCHANGED <<terminationStarted, signals, forceTimer>>
  /\ UNCHANGED <<proxyVars, forwarding, shutdownTimer, parentInputClosed,
                 upstreamExited, groupVars>>

\* forceCleanup is resolved.
Cleaned ==
  /\ guardian = "cleaning" /\ forceTimer = "fired"
  /\ guardian' = "returned" /\ guardianCode' = leaderCode
  /\ UNCHANGED <<proxyVars, forwarding, timerVars, groupVars>>

\* The guardian's process ends when no pipe of the upstream is left open.
EndGuardian ==
  /\ guardian = "returned" /\ ~Attached
  /\ guardian' = "gone"
  /\ UNCHANGED <<proxyVars, forwarding, guardianCode, timerVars, groupVars>>

-----------------------------------------------------------------------------
(* The proxy.                                                               *)

SendChunk ==
  /\ proxy = "open" /\ guardian # "gone" /\ sent < MaxChunks
  /\ sent' = sent + 1 /\ unread' = unread + 1
  /\ UNCHANGED <<proxy, guardianVars, timerVars, groupVars>>

\* The client's input has ended: upstream.stdin.end(), the grace timer.
EndInput ==
  /\ proxy = "open"
  /\ proxy' = "grace"
  /\ UNCHANGED <<sent, unread, guardianVars, timerVars, groupVars>>

\* kill(false): SIGTERM, which ends a guardian without handlers.
RequestTermination ==
  /\ proxy = "grace" /\ guardian # "gone"
  /\ proxy' = "force"
  /\ \/ /\ Handling
        /\ Terminate
        /\ UNCHANGED <<guardian, guardianCode>>
     \/ /\ ~Handling
        /\ guardian' = "gone" /\ guardianCode' = 1
        /\ UNCHANGED <<terminationStarted, signals, forceTimer>>
  /\ UNCHANGED <<sent, unread, forwarding, shutdownTimer, parentInputClosed,
                 upstreamExited, groupVars>>

\* kill(true): SIGKILL to the guardian's group, 250 ms after the SIGTERM or at
\* once when the bridge has failed.
ForceTermination ==
  /\ proxy \in {"open", "force"} /\ guardian # "gone"
  /\ proxy' = "over"
  /\ guardian' = "gone" /\ guardianCode' = 1
  /\ UNCHANGED <<sent, unread, forwarding, timerVars, groupVars>>

SeeExit ==
  /\ proxy \in {"open", "grace", "force"} /\ guardian = "gone"
  /\ proxy' = "over"
  /\ UNCHANGED <<sent, unread, guardianVars, timerVars, groupVars>>

Crash ==
  /\ proxy # "dead"
  /\ proxy' = "dead"
  /\ UNCHANGED <<sent, unread, guardianVars, timerVars, groupVars>>

-----------------------------------------------------------------------------
(* The upstream's group.                                                    *)

Fork ==
  /\ "upstream" \in group /\ "descendant" \notin group
  /\ group' = group \cup {"descendant"}
  /\ shares' \in BOOLEAN
  /\ UNCHANGED <<proxyVars, guardianVars, timerVars, leaderCode, full,
                 inputClosed>>

TakeInput ==
  /\ full /\ Attached
  /\ full' = FALSE
  /\ UNCHANGED <<proxyVars, guardianVars, timerVars, group, leaderCode, shares,
                 inputClosed>>

CloseInput ==
  /\ "upstream" \in group /\ ~inputClosed
  /\ inputClosed' = TRUE
  /\ UNCHANGED <<proxyVars, guardianVars, timerVars, group, leaderCode, shares,
                 full>>

Exit(m) ==
  /\ m \in group
  /\ group' = group \ {m}
  /\ IF m = "upstream" THEN leaderCode' \in {0, 1} ELSE UNCHANGED leaderCode
  /\ UNCHANGED <<proxyVars, guardianVars, timerVars, shares, full, inputClosed>>

-----------------------------------------------------------------------------
(* Specification.                                                           *)

Init ==
  /\ proxy = "open" /\ sent = 0 /\ unread = 0
  /\ guardian = "starting" /\ forwarding = "reading" /\ guardianCode = None
  /\ shutdownTimer = None /\ forceTimer = None
  /\ terminationStarted = FALSE /\ parentInputClosed = FALSE
  /\ upstreamExited = FALSE
  /\ signals = <<>>
  /\ group = {} /\ leaderCode = None
  /\ shares = FALSE /\ full = FALSE /\ inputClosed = FALSE

GuardianStep ==
  \/ StartUpstream \/ RejectControlFrame
  \/ ReadChunk \/ WriteChunk \/ WriteBreaks \/ SeeEnd
  \/ Reap \/ AfterExit \/ Cleaned \/ EndGuardian

TimerStep == ShutdownTimerFires \/ ForceTimerFires

ProxyShutdown == RequestTermination \/ SeeExit

ProxyStep == SendChunk \/ EndInput \/ ForceTermination \/ Crash

GroupStep == Fork \/ TakeInput \/ CloseInput \/ \E m \in Member : Exit(m)

Next ==
  \/ GuardianStep \/ TimerStep \/ OutputFails
  \/ ProxyShutdown \/ ProxyStep
  \/ GroupStep

Spec == Init /\ [][Next]_vars

\* The guardian's event loop and the timers of both processes go on.  Nothing is
\* assumed of the client or of the upstream's group.
FairSpec ==
  /\ Spec
  /\ WF_vars(GuardianStep) /\ WF_vars(TimerStep)
  /\ WF_vars(ProxyShutdown)
  /\ WF_vars(proxy = "force" /\ ForceTermination)

-----------------------------------------------------------------------------
(* Safety.                                                                  *)

\* However the shutdown is asked for (the end of the input, a broken output, the
\* proxy's SIGTERM, the upstream's exit) and how often, the group is signalled
\* once with SIGTERM and then at most once with SIGKILL
\* (terminateUpstreamProcessGroup, scheduleForceTermination).
OneEscalation == signals \in {<<>>, <<"SIGTERM">>, <<"SIGTERM", "SIGKILL">>}

\* A guardian that was asked to shut down returns only when no process of the
\* group is left (the await of forceCleanup), so that the upstream's exit before
\* its timers does not lose the descendants.
NothingLeftBehind ==
  guardian = "returned" /\ ShutdownRequested => group = {}

\* Neither an open parent nor the upstream's own exit is a reason to signal the
\* group.
SignalledOnlyInShutdown == signals # <<>> => proxy # "open"

\* What the signals rest on: they go with the flag and the force timer; a group
\* that was killed stays empty; whoever asked for the shutdown, the proxy is not
\* open any more; and the guardian waits for its timer before it returns.
SignalsTell ==
  \/ signals = <<>> /\ ~terminationStarted /\ forceTimer = None
  \/ signals = <<"SIGTERM">> /\ terminationStarted /\ forceTimer = "armed"
  \/ signals = <<"SIGTERM", "SIGKILL">> /\ terminationStarted /\ forceTimer = "fired"

GuardianInv ==
  /\ TypeOK
  /\ SignalsTell
  /\ forceTimer = "fired" => group = {}
  /\ ShutdownRequested => proxy # "open" /\ guardian # "starting"
  /\ guardian = "cleaning" => terminationStarted
  /\ NothingLeftBehind

-----------------------------------------------------------------------------
(* Liveness.                                                                *)

\* The guardian, having seen that its parent has died, rids itself of the whole
\* group, whatever the group does (docs/architecture/02-runtime-flow.md).
DeadParentsGroupEnds ==
  parentInputClosed /\ proxy = "dead" /\ guardian # "gone" ~> group = {}

\* Managed shutdown terminates the process group (docs/ops/config-and-env.md).
ManagedShutdownEndsGroup == proxy = "grace" ~> group = {} \/ proxy = "dead"
=============================================================================
