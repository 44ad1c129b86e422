--------------------------- MODULE Guardian_proofs ----------------------------
(***************************************************************************)
(* The safety of the POSIX process tree, for any number of chunks.  The     *)
(* proof goes by action: those that touch neither the signals nor what asks *)
(* for a shutdown have a step each, those that signal are split on whether  *)
(* the termination had already started.                                    *)
(***************************************************************************)
EXTENDS Guardian, SequenceTheorems, TLAPS

\* A tuple of one element with another appended to it.
LEMMA AppendToOne == ASSUME NEW a, NEW b PROVE Append(<<a>>, b) = <<a, b>>
<1> DEFINE S == {a, b}
<1>1. <<a>> \in Seq(S) /\ <<a, b>> \in Seq(S)
  OBVIOUS
<1>2. Len(<<a>>) = 1 /\ <<a>>[1] = a
  OBVIOUS
<1>3. Len(<<a, b>>) = 2 /\ <<a, b>>[1] = a /\ <<a, b>>[2] = b
  OBVIOUS
<1>4. /\ Append(<<a>>, b) \in Seq(S)
      /\ Len(Append(<<a>>, b)) = 2
      /\ Append(<<a>>, b)[1] = a /\ Append(<<a>>, b)[2] = b
  BY <1>1, <1>2, AppendProperties
<1>5. \A i \in 1..2 : Append(<<a>>, b)[i] = <<a, b>>[i]
  BY <1>3, <1>4
<1> HIDE DEF S
<1> QED BY <1>1, <1>3, <1>4, <1>5, SeqEqual

LEMMA InitHolds == Init => GuardianInv
<1> SUFFICES ASSUME Init PROVE GuardianInv
  OBVIOUS
<1>1. TypeOK
  <2>1. sent \in 0..MaxChunks /\ unread \in 0..sent
    BY ChunksAssumption DEF Init
  <2> QED BY <2>1 DEF Init, TypeOK, TimerState
<1>2. SignalsTell /\ forceTimer # "fired" /\ ~ShutdownRequested
  BY NoneAssumption DEF Init, SignalsTell, ShutdownRequested
<1>3. guardian = "starting"
  BY DEF Init
<1> QED BY <1>1, <1>2, <1>3 DEF GuardianInv, NothingLeftBehind

\* Terminate leaves the signals, the flag and the force timer in step, and started.
LEMMA TerminateKeepsStep ==
  ASSUME TypeOK, SignalsTell, Terminate
  PROVE  /\ SignalsTell' /\ terminationStarted'
         /\ forceTimer' \in TimerState
         /\ forceTimer' = "fired" => forceTimer = "fired"
<1>1. CASE terminationStarted
  BY <1>1 DEF TypeOK, SignalsTell, Terminate
<1>2. CASE ~terminationStarted
  BY <1>2, NoneAssumption DEF TypeOK, SignalsTell, Terminate, TimerState
<1> QED BY <1>1, <1>2

LEMMA StepHolds == GuardianInv /\ [Next]_vars => GuardianInv'
<1> SUFFICES ASSUME GuardianInv, [Next]_vars PROVE GuardianInv'
  OBVIOUS
<1> USE DEF GuardianInv
<1>1. CASE StartUpstream
  BY <1>1, NoneAssumption
     DEF StartUpstream, TypeOK, SignalsTell, ShutdownRequested, NothingLeftBehind,
         proxyVars, timerVars, Member, TimerState
<1>2. CASE RejectControlFrame
  BY <1>2 DEF RejectControlFrame, TypeOK, SignalsTell, ShutdownRequested,
              NothingLeftBehind, proxyVars, timerVars, groupVars
<1>3. CASE ReadChunk
  BY <1>3, ChunksAssumption
     DEF ReadChunk, TypeOK, SignalsTell, ShutdownRequested, NothingLeftBehind,
         timerVars, groupVars
<1>4. CASE WriteChunk
  BY <1>4 DEF WriteChunk, TypeOK, SignalsTell, ShutdownRequested, NothingLeftBehind,
              proxyVars, timerVars
<1>5. CASE WriteBreaks
  BY <1>5 DEF WriteBreaks, TypeOK, SignalsTell, ShutdownRequested, NothingLeftBehind,
              proxyVars, timerVars, groupVars
<1>6. CASE SeeEnd
  BY <1>6 DEF SeeEnd, ScheduleShutdown, TypeOK, SignalsTell, ShutdownRequested,
              NothingLeftBehind, proxyVars, groupVars, TimerState
<1>7. CASE Reap
  BY <1>7 DEF Reap, TypeOK, SignalsTell, ShutdownRequested, NothingLeftBehind,
              proxyVars, groupVars
<1>8. CASE AfterExit
  <2>1. CASE ShutdownRequested
    <3>1. Terminate /\ guardian' = "cleaning" /\ UNCHANGED guardianCode
      BY <1>8, <2>1 DEF AfterExit
    <3>2. /\ SignalsTell' /\ terminationStarted'
          /\ forceTimer' \in TimerState
          /\ forceTimer' = "fired" => forceTimer = "fired"
      BY <3>1, TerminateKeepsStep
    <3> QED
      BY <1>8, <2>1, <3>1, <3>2
         DEF AfterExit, TypeOK, ShutdownRequested, NothingLeftBehind, proxyVars, groupVars
  <2>2. CASE ~ShutdownRequested
    BY <1>8, <2>2
       DEF AfterExit, TypeOK, SignalsTell, ShutdownRequested, NothingLeftBehind,
           proxyVars, groupVars
  <2> QED BY <2>1, <2>2
<1>9. CASE Cleaned
  BY <1>9 DEF Cleaned, TypeOK, SignalsTell, ShutdownRequested, NothingLeftBehind,
              proxyVars, timerVars, groupVars
<1>10. CASE EndGuardian
  BY <1>10 DEF EndGuardian, TypeOK, SignalsTell, ShutdownRequested, NothingLeftBehind,
               proxyVars, timerVars, groupVars
<1>11. CASE ShutdownTimerFires
  <2>1. /\ SignalsTell' /\ terminationStarted'
        /\ forceTimer' \in TimerState
        /\ forceTimer' = "fired" => forceTimer = "fired"
    BY <1>11, TerminateKeepsStep DEF ShutdownTimerFires
  <2>2. shutdownTimer' \in TimerState /\ ShutdownRequested
    BY <1>11, NoneAssumption DEF ShutdownTimerFires, ShutdownRequested, TimerState
  <2> QED
    BY <1>11, <2>1, <2>2
       DEF ShutdownTimerFires, Handling, TypeOK, ShutdownRequested, NothingLeftBehind,
           proxyVars, guardianVars, groupVars
\* Only now is the group killed; what asked for it has not changed.
<1>12. CASE ForceTimerFires
  <2>1. SignalsTell'
    <3>1. signals = <<"SIGTERM">> /\ terminationStarted
      BY <1>12, NoneAssumption DEF ForceTimerFires, SignalsTell
    <3>2. Append(<<"SIGTERM">>, "SIGKILL") = <<"SIGTERM", "SIGKILL">>
      BY AppendToOne
    <3> QED BY <1>12, <3>1, <3>2 DEF ForceTimerFires, SignalsTell
  <2> QED
    BY <1>12, <2>1, NoneAssumption
       DEF ForceTimerFires, Killed, TypeOK, ShutdownRequested, NothingLeftBehind,
           proxyVars, guardianVars, TimerState
<1>13. CASE OutputFails
  BY <1>13 DEF OutputFails, Handling, ScheduleShutdown, TypeOK, SignalsTell,
               ShutdownRequested, NothingLeftBehind, proxyVars, guardianVars, groupVars,
               TimerState
<1>14. CASE RequestTermination
  <2>1. CASE Handling /\ Terminate
    <3>1. /\ SignalsTell' /\ terminationStarted'
          /\ forceTimer' \in TimerState
          /\ forceTimer' = "fired" => forceTimer = "fired"
      BY <2>1, TerminateKeepsStep
    <3> QED
      BY <1>14, <2>1, <3>1
         DEF RequestTermination, Handling, TypeOK, ShutdownRequested, NothingLeftBehind,
             groupVars
  <2>2. CASE ~Handling
    BY <1>14, <2>2
       DEF RequestTermination, TypeOK, SignalsTell, ShutdownRequested, NothingLeftBehind,
           groupVars
  <2> QED BY <1>14, <2>1, <2>2 DEF RequestTermination
<1>15. CASE SeeExit
  BY <1>15 DEF SeeExit, TypeOK, SignalsTell, ShutdownRequested, NothingLeftBehind,
               guardianVars, timerVars, groupVars
<1>16. CASE SendChunk
  BY <1>16, ChunksAssumption
     DEF SendChunk, TypeOK, SignalsTell, ShutdownRequested, NothingLeftBehind,
         guardianVars, timerVars, groupVars
<1>17. CASE EndInput
  BY <1>17 DEF EndInput, TypeOK, SignalsTell, ShutdownRequested, NothingLeftBehind,
               guardianVars, timerVars, groupVars
<1>18. CASE ForceTermination
  BY <1>18 DEF ForceTermination, TypeOK, SignalsTell, ShutdownRequested,
               NothingLeftBehind, timerVars, groupVars
<1>19. CASE Crash
  BY <1>19 DEF Crash, TypeOK, SignalsTell, ShutdownRequested, NothingLeftBehind,
               guardianVars, timerVars, groupVars
\* An empty group stays empty: there is nobody left to fork.
<1>20. CASE Fork
  BY <1>20 DEF Fork, TypeOK, SignalsTell, ShutdownRequested, NothingLeftBehind,
               proxyVars, guardianVars, timerVars, Member
<1>21. CASE TakeInput
  <2>1. /\ UNCHANGED <<proxyVars, guardianVars, timerVars, group, leaderCode, shares,
                       inputClosed>>
        /\ full' \in BOOLEAN
    BY <1>21 DEF TakeInput
  <2> QED
    BY <2>1 DEF TypeOK, SignalsTell, ShutdownRequested, NothingLeftBehind, proxyVars,
                guardianVars, timerVars
<1>22. CASE CloseInput
  BY <1>22 DEF CloseInput, TypeOK, SignalsTell, ShutdownRequested, NothingLeftBehind,
               proxyVars, guardianVars, timerVars
<1>23. ASSUME NEW m \in Member, Exit(m) PROVE GuardianInv'
  BY <1>23 DEF Exit, TypeOK, SignalsTell, ShutdownRequested, NothingLeftBehind,
               proxyVars, guardianVars, timerVars, Member
<1>24. CASE UNCHANGED vars
  BY <1>24 DEF vars, TypeOK, SignalsTell, ShutdownRequested, NothingLeftBehind,
               proxyVars, guardianVars, timerVars, groupVars
<1> QED
  BY <1>1, <1>2, <1>3, <1>4, <1>5, <1>6, <1>7, <1>8, <1>9, <1>10, <1>11, <1>12, <1>13,
     <1>14, <1>15, <1>16, <1>17, <1>18, <1>19, <1>20, <1>21, <1>22, <1>23, <1>24
     DEF Next, GuardianStep, TimerStep, ProxyShutdown, ProxyStep, GroupStep

\* Every reachable state of the process tree has the invariant: types, signals in
\* step with the timers, and a group that is gone when it should be.
THEOREM GuardianInvariant == Spec => []GuardianInv
BY InitHolds, StepHolds, PTL DEF Spec

\* Every reachable state of the process tree is well typed.
THEOREM GuardianTypes == Spec => []TypeOK
BY GuardianInvariant, PTL DEF GuardianInv

\* The group is signalled once with SIGTERM, then at most once with SIGKILL,
\* whoever asks for the shutdown and however often.
THEOREM EscalatesOnce == Spec => []OneEscalation
<1>1. GuardianInv => OneEscalation
  BY DEF GuardianInv, SignalsTell, OneEscalation
<1> QED BY <1>1, GuardianInvariant, PTL

\* A guardian that was asked to shut down and returns leaves no process behind.
THEOREM LeavesNothingBehind == Spec => []NothingLeftBehind
BY GuardianInvariant, PTL DEF GuardianInv

\* The group is signalled only when the proxy has begun to end or is dead.
THEOREM SignalsOnlyInShutdown == Spec => []SignalledOnlyInShutdown
<1>1. GuardianInv => SignalledOnlyInShutdown
  BY DEF GuardianInv, SignalsTell, ShutdownRequested, SignalledOnlyInShutdown
<1> QED BY <1>1, GuardianInvariant, PTL
===============================================================================
