--------------------------- MODULE StdioBridge_proofs --------------------------
(***************************************************************************)
(* The safety of the bridge for any number of frames, faults and events and *)
(* pipes of any size: nothing takes effect before its audit, and the exit   *)
(* code tells how the streams ended.  Three layers, each with one step per  *)
(* action: types, the queue, the stages of the shutdown.                    *)
(***************************************************************************)
EXTENDS StdioBridge, SequenceTheorems, TLAPS

(***************************************************************************)
(* The operation queue.                                                     *)
(***************************************************************************)

LEMMA Bounds == MaxFrames \in Nat /\ MaxFaults \in Nat /\ MaxEvents \in Nat /\ PipeSize \in Nat
BY BoundsAssumption

\* What the head and the tail of the queue are.
LEMMA QueueParts ==
  ASSUME TypeOK, queue # <<>>
  PROVE  /\ Head(queue) \in Peer /\ Head(queue) = queue[1]
         /\ Tail(queue) \in Seq(Peer) /\ Len(queue) \in Nat \ {0}
         /\ Len(Tail(queue)) = Len(queue) - 1
         /\ \A i \in 1..Len(Tail(queue)) : Tail(queue)[i] = queue[i + 1]
<1>1. queue \in Seq(Peer)
  BY DEF TypeOK
<1> QED BY <1>1, SMT

\* The operation that has been decided is a record of the head of the queue.
LEMMA DecidedRunning ==
  ASSUME TypeOK, QueueInv, Decided
  PROVE  /\ running \in Running /\ running.from \in Peer /\ queue # <<>>
         /\ running.plan.events \in 0..MaxEvents
<1>1. running \in Running
  BY DEF TypeOK, Decided
<1>2. queue # <<>>
  BY DEF QueueInv, Decided
<1> QED BY <1>1, <1>2 DEF Running, Plan

\* A handler's result is queued with all of its events to write.
LEMMA AuditRecord ==
  ASSUME TypeOK, queue # <<>>, NEW plan \in Plan
  PROVE  /\ Audit(plan) \in Running
         /\ Audit(plan).from = Head(queue) /\ Audit(plan).stage = "audit"
         /\ Audit(plan).written = 0 /\ Audit(plan).left = plan.events
         /\ Audit(plan).plan = plan /\ plan.events \in 0..MaxEvents
<1>1. plan.events \in 0..MaxEvents
  BY DEF Plan
<1>2. Head(queue) \in Peer
  BY QueueParts
<1>3. 0 \in 0..MaxEvents
  BY Bounds
<1> QED BY <1>1, <1>2, <1>3 DEF Audit, Running

\* An operation that is over leaves the queue to the others.
LEMMA DequeueKeepsQueue ==
  ASSUME TypeOK, QueueInv, queue # <<>>, Dequeue, running' = None, ~leaked',
         NEW state, reader' = [reader EXCEPT ![Head(queue)] = state]
  PROVE  QueueInv'
<1>1. queue' = Tail(queue)
  BY DEF Dequeue
<1>2. ~Decided'
  BY DEF Decided
<1>3. \A i \in 1..Len(queue') : /\ queue'[i] = queue[i + 1] /\ i + 1 \in 1..Len(queue)
                               /\ queue'[i] # Head(queue) /\ queue'[i] \in Peer
  <2> TAKE i \in 1..Len(queue')
  <2>1. queue'[i] = queue[i + 1] /\ i + 1 \in 1..Len(queue) /\ 1 \in 1..Len(queue)
    BY <1>1, QueueParts
  <2>2. queue[i + 1] # queue[1]
    BY <2>1 DEF QueueInv
  <2>3. queue[i + 1] \in Peer
    BY <2>1 DEF TypeOK
  <2> QED BY <2>1, <2>2, <2>3, QueueParts
<1>4. \A i \in 1..Len(queue') : reader'[queue'[i]] = "waiting"
  <2> TAKE i \in 1..Len(queue')
  <2>1. DOMAIN reader = Peer /\ queue'[i] \in Peer /\ queue'[i] # Head(queue)
    BY <1>3 DEF TypeOK
  <2>2. reader'[queue'[i]] = reader[queue'[i]]
    BY <2>1
  <2>3. reader[queue[i + 1]] = "waiting"
    BY <1>3 DEF QueueInv
  <2> QED BY <1>3, <2>2, <2>3
<1>5. \A i, j \in 1..Len(queue') : queue'[i] = queue'[j] => i = j
  <2> TAKE i, j \in 1..Len(queue')
  <2> SUFFICES ASSUME queue'[i] = queue'[j] PROVE i = j
    OBVIOUS
  <2>1. queue[i + 1] = queue[j + 1] /\ i + 1 \in 1..Len(queue) /\ j + 1 \in 1..Len(queue)
    BY <1>3
  <2>2. i + 1 = j + 1
    BY <2>1 DEF QueueInv
  <2> QED BY <2>2
<1> QED BY <1>2, <1>4, <1>5 DEF QueueInv

\* Types of what an operation that is over has changed.
LEMMA DequeueTypes ==
  ASSUME TypeOK, queue # <<>>, Dequeue, running' = None,
         NEW state \in {"reading", "auditFailure", "failed"},
         reader' = [reader EXCEPT ![Head(queue)] = state]
  PROVE  /\ queue' \in Seq(Peer) /\ running' \in Running \cup {Suspended, None}
         /\ awaited' \in Nat
         /\ reader' \in [Peer -> {"idle", "reading", "waiting"} \cup ReaderEnd]
<1>1. queue' \in Seq(Peer)
  BY QueueParts DEF Dequeue
<1>2. awaited' \in Nat
  BY DEF Dequeue, TypeOK
<1>3. reader' \in [Peer -> {"idle", "reading", "waiting"} \cup ReaderEnd]
  BY DEF TypeOK, ReaderEnd
<1> QED BY <1>1, <1>2, <1>3

LEMMA SettleType ==
  ASSUME TypeOK, NEW outcome \in Race, Settle(outcome)
  PROVE  race' \in Race \cup {None} /\ (race # None => race' = race)
BY DEF TypeOK, Settle

\* How an operation ends: its reader goes on, or fails.
LEMMA OperationOver ==
  ASSUME TypeOK, QueueInv, Decided,
         \/ Completed
         \/ Throws("auditFailure")
         \/ Throws("failed")
  PROVE  /\ Dequeue /\ running' = None /\ queue # <<>>
         /\ race' \in Race \cup {None} /\ (race # None => race' = race)
         /\ \E state \in {"reading", "auditFailure", "failed"} :
              reader' = [reader EXCEPT ![Head(queue)] = state]
<1>1. running.from = Head(queue) /\ queue # <<>>
  BY DEF QueueInv, Decided
<1>2. CASE Completed
  BY <1>1, <1>2 DEF Completed, TypeOK
<1>3. CASE Throws("auditFailure")
  BY <1>1, <1>3, SettleType DEF Throws, Race
<1>4. CASE Throws("failed")
  BY <1>1, <1>4, SettleType DEF Throws, Race
<1> QED BY <1>2, <1>3, <1>4

LEMMA TypesHold == ASSUME TypeOK, QueueInv, StageInv, [Next]_vars PROVE TypeOK'
<1> USE Bounds
<1>1. CASE Begin
  <2>1. running' \in Running \cup {Suspended, None}
    BY <1>1, AuditRecord DEF Begin
  <2> QED
    BY <1>1, <2>1 DEF Begin, TypeOK, readerVars, peerVars, processVars, mainVars, Exited
<1>2. CASE Resume
  <2>1. running' \in Running \cup {Suspended, None}
    BY <1>2, AuditRecord, NoneAssumption DEF Resume, QueueInv
  <2> QED
    BY <1>2, <2>1 DEF Resume, TypeOK, readerVars, peerVars, processVars, mainVars
<1>3. CASE AuditWritten
  <2>1. running \in Running /\ running.plan.events \in 0..MaxEvents /\ running.left > 0
    BY <1>3, DecidedRunning DEF AuditWritten, Auditing
  <2>2. /\ running.written \in 0..MaxEvents /\ running.left \in 0..MaxEvents
        /\ running.written + running.left <= running.plan.events
    BY <1>3, <2>1 DEF AuditWritten, Auditing, Running, QueueInv
  <2>3. running.left - 1 \in 0..MaxEvents /\ running.written + 1 \in 0..MaxEvents
    BY <2>1, <2>2
  <2>4. running' \in Running
    BY <1>3, <2>1, <2>3 DEF AuditWritten, Running
  <2> QED
    BY <1>3, <2>4 DEF AuditWritten, TypeOK, readerVars, peerVars, processVars, mainVars
<1>4. CASE AuditFails
  <2>1. Decided
    BY <1>4 DEF AuditFails, Auditing
  <2>2. CASE onFailure = "warn_and_continue" /\ UNCHANGED <<queue, reader, race, awaited>>
             /\ running' = [running EXCEPT !.left = @ - 1]
    <3>1. running' \in Running
      BY <1>4, <2>1, <2>2, DecidedRunning DEF AuditFails, Auditing, Running
    <3> QED
      BY <1>4, <2>2, <3>1 DEF AuditFails, TypeOK, peerVars, processVars
  <2>3. CASE Throws("auditFailure")
    <3>1. /\ queue' \in Seq(Peer) /\ running' \in Running \cup {Suspended, None}
          /\ awaited' \in Nat /\ race' \in Race \cup {None}
          /\ reader' \in [Peer -> {"idle", "reading", "waiting"} \cup ReaderEnd]
      BY <2>1, <2>3, OperationOver, DequeueTypes
    <3> QED
      BY <1>4, <3>1 DEF AuditFails, TypeOK, peerVars, processVars
  <2> QED BY <1>4, <2>2, <2>3 DEF AuditFails
<1>5. CASE EndUnwritten
  <2>1. /\ queue' \in Seq(Peer) /\ running' \in Running \cup {Suspended, None}
        /\ awaited' \in Nat /\ race' \in Race \cup {None}
        /\ reader' \in [Peer -> {"idle", "reading", "waiting"} \cup ReaderEnd]
    BY <1>5, OperationOver, DequeueTypes DEF EndUnwritten, Audited
  <2> QED
    BY <1>5, <2>1 DEF EndUnwritten, TypeOK, peerVars, processVars
<1>6. CASE StartWrite
  <2>1. running' \in Running
    BY <1>6, DecidedRunning DEF StartWrite, Audited, Running
  <2> QED
    BY <1>6, <2>1 DEF StartWrite, TypeOK, readerVars, peerVars, processVars, mainVars
<1>7. CASE Flush
  <2>1. /\ queue' \in Seq(Peer) /\ running' \in Running \cup {Suspended, None}
        /\ awaited' \in Nat /\ race' \in Race \cup {None}
        /\ reader' \in [Peer -> {"idle", "reading", "waiting"} \cup ReaderEnd]
    BY <1>7, OperationOver, DequeueTypes DEF Flush
  <2>2. leaked' \in BOOLEAN
    BY <1>7 DEF Flush
  <2>3. Target \in Peer
    BY <1>7, DecidedRunning DEF Flush, Target, Other, Peer
  <2>4. backlog' \in [Peer -> 0..PipeSize]
    BY <1>7, <2>3 DEF Flush, TypeOK
  <2> QED
    BY <1>7, <2>1, <2>2, <2>4 DEF Flush, TypeOK, processVars
<1>8. CASE WriteFails
  <2>1. /\ queue' \in Seq(Peer) /\ running' \in Running \cup {Suspended, None}
        /\ awaited' \in Nat /\ race' \in Race \cup {None}
        /\ reader' \in [Peer -> {"idle", "reading", "waiting"} \cup ReaderEnd]
    BY <1>8, OperationOver, DequeueTypes DEF WriteFails
  <2> QED
    BY <1>8, <2>1 DEF WriteFails, TypeOK, peerVars, processVars
<1>9. ASSUME NEW p \in Peer, Read(p) PROVE TypeOK'
  <2>1. queue' \in Seq(Peer) /\ unread' \in [Peer -> 0..PipeSize]
        /\ reader' \in [Peer -> {"idle", "reading", "waiting"} \cup ReaderEnd]
    BY <1>9 DEF Read, TypeOK
  <2> QED
    BY <1>9, <2>1 DEF Read, TypeOK, processVars, mainVars
<1>10. ASSUME NEW p \in Peer, ReadEnd(p) PROVE TypeOK'
  <2>1. race' \in Race \cup {None}
    BY <1>10, SettleType DEF ReadEnd, Race
  <2>2. reader' \in [Peer -> {"idle", "reading", "waiting"} \cup ReaderEnd]
    BY <1>10 DEF ReadEnd, TypeOK, ReaderEnd
  <2> QED
    BY <1>10, <2>1, <2>2 DEF ReadEnd, TypeOK, sessionVars, peerVars, processVars
<1>11. ASSUME NEW p \in Peer, ReadFails(p) PROVE TypeOK'
  <2>1. race' \in Race \cup {None}
    BY <1>11, SettleType DEF ReadFails, Race
  <2>2. reader' \in [Peer -> {"idle", "reading", "waiting"} \cup ReaderEnd]
    BY <1>11 DEF ReadFails, TypeOK, ReaderEnd
  <2> QED
    BY <1>11, <2>1, <2>2 DEF ReadFails, TypeOK, sessionVars, processVars
<1>12. CASE ReadPremature
  <2>1. reader' \in [Peer -> {"idle", "reading", "waiting"} \cup ReaderEnd]
    BY <1>12 DEF ReadPremature, TypeOK, ReaderEnd
  <2> QED
    BY <1>12, <2>1 DEF ReadPremature, TypeOK, sessionVars, peerVars, processVars, mainVars
<1>13. CASE StderrEnds
  BY <1>13 DEF StderrEnds, TypeOK, sessionVars, peerVars, processVars, mainVars, ReaderEnd
<1>14. CASE Start
  <2>1. main' \in MainState /\ exitCode' \in {None, 0, 1, 3, 4, 5} /\ killed' \in BOOLEAN
    BY <1>14 DEF Start, Fatal, TypeOK, MainState
  <2>2. /\ reader' \in [Peer -> {"idle", "reading", "waiting"} \cup ReaderEnd]
        /\ stderr' \in {"idle", "reading"} \cup ReaderEnd
    BY <1>14 DEF Start, TypeOK, readerVars
  <2> QED
    BY <1>14, <2>1, <2>2 DEF Start, TypeOK, sessionVars, peerVars
<1>15. CASE MainStep
  <2>1. CASE BeginShutdown
    <3>1. writable' \in [Peer -> {"open", "ended", "closed"}]
      BY <2>1 DEF BeginShutdown, TypeOK
    <3> QED
      BY <2>1, <3>1 DEF BeginShutdown, TypeOK, sessionVars, readerVars, processVars, MainState
  <2>2. CASE ExitFirst \/ ExitInTime
    <3>1. Exited /\ shutdown' = [code |-> exit, forced |-> FALSE]
      BY <2>2 DEF ExitFirst, ExitInTime, StageInv, StreamsTell
    <3>2. shutdown' \in Shutdown
      BY <3>1 DEF Exited, Shutdown, TypeOK
    <3> QED
      BY <2>2, <3>2 DEF ExitFirst, ExitInTime, Required, TypeOK, sessionVars, readerVars,
                        peerVars, processVars, MainState
  <2>3. CASE FailureFirst
    BY <2>3 DEF FailureFirst, Fatal, TypeOK, sessionVars, readerVars, peerVars, MainState
  <2>4. CASE RequireStdout
    <3>1. main' \in MainState /\ exitCode' \in {None, 0, 1, 3, 4, 5} /\ killed' \in BOOLEAN
      BY <2>4 DEF RequireStdout, Fatal, TypeOK, MainState
    <3> QED
      BY <2>4, <3>1 DEF RequireStdout, TypeOK, sessionVars, readerVars, peerVars
  <2>5. CASE RequireStderr
    <3>1. main' \in MainState /\ exitCode' \in {None, 0, 1, 3, 4, 5} /\ killed' \in BOOLEAN
      BY <2>5 DEF RequireStderr, Fatal, TypeOK, MainState
    <3> QED
      BY <2>5, <3>1 DEF RequireStderr, TypeOK, sessionVars, readerVars, peerVars
  <2>6. CASE Normalize
    <3>1. Len(queue) \in Nat
      BY DEF TypeOK
    <3>2. /\ main' \in MainState /\ exitCode' \in {None, 0, 1, 3, 4, 5}
          /\ killed' \in BOOLEAN /\ awaited' \in Nat
      BY <2>6, <3>1 DEF Normalize, Finish, Fatal, TypeOK, MainState
    <3> QED
      BY <2>6, <3>2 DEF Normalize, TypeOK, sessionVars, readerVars, peerVars
  <2>7. CASE Terminated \/ RecordStop \/ Return
    <3>1. Len(queue) \in Nat
      BY DEF TypeOK
    <3> QED
      BY <2>7, <3>1 DEF Terminated, RecordStop, Return, Finish, TypeOK, sessionVars,
                        readerVars, peerVars, processVars, MainState
  <2> QED BY <1>15, <2>1, <2>2, <2>3, <2>4, <2>5, <2>6, <2>7 DEF MainStep
<1>16. CASE GraceExpires \/ ForceExpires
  BY <1>16 DEF GraceExpires, ForceExpires, TypeOK, sessionVars, readerVars, peerVars,
               processVars
<1>17. CASE Destroy
  <2>1. shutdown' \in Shutdown \cup {None} /\ main' \in MainState
    <3>1. [code |-> Timeout, forced |-> TRUE] \in Shutdown
      BY DEF Shutdown
    <3>2. Required \in MainState
      BY DEF Required, MainState
    <3> QED BY <1>17, <3>1, <3>2 DEF Destroy, TypeOK
  <2>2. writable' \in [Peer -> {"open", "ended", "closed"}]
    BY <1>17 DEF Destroy, TypeOK
  <2> QED
    BY <1>17, <2>1, <2>2 DEF Destroy, TypeOK, sessionVars, readerVars, processVars
<1>18. ASSUME NEW p \in Peer, PeerStep(p) PROVE TypeOK'
  <2>1. CASE Send(p)
    <3>1. unread' \in [Peer -> 0..PipeSize] /\ sent' \in 0..MaxFrames
      BY <2>1 DEF Send, TypeOK
    <3> QED
      BY <2>1, <3>1 DEF Send, TypeOK, sessionVars, readerVars, processVars, mainVars
  <2>2. CASE End(p)
    <3>1. ended' \in [Peer -> BOOLEAN]
      BY <2>2 DEF End, TypeOK
    <3> QED
      BY <2>2, <3>1 DEF End, TypeOK, sessionVars, readerVars, processVars, mainVars
  <2>3. CASE Take(p)
    <3>1. backlog' \in [Peer -> 0..PipeSize]
      BY <2>3 DEF Take, TypeOK
    <3> QED
      BY <2>3, <3>1 DEF Take, TypeOK, sessionVars, readerVars, processVars, mainVars
  <2>4. CASE StopReading(p)
    <3>1. writable' \in [Peer -> {"open", "ended", "closed"}] /\ faults' \in 0..MaxFaults
      BY <2>4 DEF StopReading, TypeOK
    <3> QED
      BY <2>4, <3>1 DEF StopReading, TypeOK, sessionVars, readerVars, processVars, mainVars
  <2> QED BY <1>18, <2>1, <2>2, <2>3, <2>4 DEF PeerStep
<1>19. ASSUME NEW code \in ExitCodes, Exit(code) PROVE TypeOK'
  <2>1. race' \in Race \cup {None}
    BY <1>19, SettleType DEF Exit, Race
  <2>2. /\ writable' \in [Peer -> {"open", "ended", "closed"}]
        /\ backlog' \in [Peer -> 0..PipeSize]
    <3>1. 0 \in 0..PipeSize /\ backlog \in [Peer -> 0..PipeSize]
      BY DEF TypeOK
    <3>2. writable \in [Peer -> {"open", "ended", "closed"}]
      BY DEF TypeOK
    <3> QED BY <1>19, <3>1, <3>2 DEF Exit
  <2>3. /\ exit' \in ExitCodes \cup {None}
        /\ UNCHANGED <<onFailure, queue, running, leaked, reader, stderr, unread, sent, ended,
                       faults, killed, main, timer, shutdown, exitCode, awaited, destroyed>>
    BY <1>19 DEF Exit, sessionVars, readerVars
  <2> QED BY <2>1, <2>2, <2>3 DEF TypeOK
<1>20. CASE UNCHANGED vars
  BY <1>20 DEF vars, TypeOK, sessionVars, readerVars, peerVars, processVars, mainVars
<1> QED
  BY <1>1, <1>2, <1>3, <1>4, <1>5, <1>6, <1>7, <1>8, <1>9, <1>10, <1>11, <1>12, <1>13,
     <1>14, <1>15, <1>16, <1>17, <1>18, <1>19, <1>20
     DEF Next, QueueStep, ReaderStep, TimerStep, ExitStep

LEMMA QueueHolds == ASSUME TypeOK, QueueInv, StageInv, [Next]_vars PROVE QueueInv'
<1>1. ASSUME UNCHANGED <<onFailure, queue, running, leaked, reader>> PROVE QueueInv'
  BY <1>1 DEF QueueInv, Decided
\* An operation that begins accounts for all of its events.
<1>2. ASSUME NEW plan \in Plan, queue # <<>>, running' = Audit(plan),
             UNCHANGED <<onFailure, queue, leaked, reader>>
      PROVE  QueueInv'
  BY <1>2, AuditRecord DEF QueueInv, Decided
<1>3. CASE Begin
  <2>1. CASE running' = Suspended
    BY <1>3, <2>1 DEF Begin, QueueInv, Decided, readerVars
  <2> QED BY <1>2, <1>3, <2>1 DEF Begin, readerVars
<1>4. CASE Resume
  <2>1. queue # <<>>
    BY <1>4, NoneAssumption DEF Resume, QueueInv
  <2> QED BY <1>2, <1>4, <2>1 DEF Resume, readerVars
<1>5. CASE AuditWritten
  <2>1. /\ running \in Running /\ running.left > 0 /\ running.stage = "audit"
        /\ running.left \in Nat /\ running.written \in Nat
    BY <1>5, DecidedRunning, Bounds DEF AuditWritten, Auditing, Running
  <2>2. /\ running'.from = running.from /\ running'.stage = "audit"
        /\ running'.plan = running.plan /\ running'.left = running.left - 1
        /\ running'.written = running.written + 1
    BY <1>5, <2>1 DEF AuditWritten, Running
  <2>3. running'.written + running'.left = running.written + running.left
    BY <2>1, <2>2
  <2> QED
    BY <1>5, <2>2, <2>3 DEF AuditWritten, Auditing, QueueInv, Decided, readerVars
<1>6. CASE AuditFails
  <2>1. CASE Throws("auditFailure")
    <3>1. ~leaked' /\ Decided
      BY <1>6 DEF AuditFails, Auditing, QueueInv
    <3> QED BY <2>1, <3>1, OperationOver, DequeueKeepsQueue
  <2>2. CASE /\ onFailure = "warn_and_continue" /\ UNCHANGED <<queue, reader, race, awaited>>
             /\ running' = [running EXCEPT !.left = @ - 1]
    <3>1. /\ running \in Running /\ running.left > 0 /\ running.stage = "audit"
          /\ running.left \in Nat /\ running.written \in Nat
          /\ running.plan.events \in Nat
      BY <1>6, DecidedRunning, Bounds DEF AuditFails, Auditing, Running
    <3>2. /\ running'.from = running.from /\ running'.stage = "audit"
          /\ running'.plan = running.plan /\ running'.left = running.left - 1
          /\ running'.written = running.written
      BY <2>2, <3>1 DEF Running
    <3>3. running.written + running.left <= running.plan.events
      BY <1>6 DEF AuditFails, Auditing, QueueInv
    <3>4. running'.written + running'.left <= running'.plan.events
      BY <3>1, <3>2, <3>3
    <3> QED
      BY <1>6, <2>2, <3>2, <3>4 DEF AuditFails, Auditing, QueueInv, Decided
  <2> QED BY <1>6, <2>1, <2>2 DEF AuditFails
<1>7. CASE EndUnwritten
  <2>1. ~leaked' /\ Decided /\ Completed
    BY <1>7 DEF EndUnwritten, Audited, QueueInv
  <2> QED BY <2>1, OperationOver, DequeueKeepsQueue
<1>8. CASE StartWrite
  <2>1. /\ running \in Running /\ running.left = 0
    BY <1>8, DecidedRunning DEF StartWrite, Audited
  <2>2. /\ running'.from = running.from /\ running'.plan = running.plan
        /\ running'.left = running.left /\ running'.written = running.written
    BY <1>8, <2>1 DEF StartWrite, Running
  <2> QED
    BY <1>8, <2>1, <2>2 DEF StartWrite, Audited, QueueInv, Decided, readerVars
\* The write itself: every event has been written, unless the policy goes on.
<1>9. CASE Flush
  <2>1. /\ Decided /\ running.stage = "flush" /\ Completed
        /\ running.written \in Nat /\ running.plan.events \in Nat
    BY <1>9, DecidedRunning, Bounds DEF Flush, Running
  <2>2. onFailure = "fail_closed" => running.written = running.plan.events
    BY <2>1 DEF QueueInv
  <2>3. ~leaked'
    <3>1. ~(onFailure = "fail_closed" /\ running.written < running.plan.events)
      BY <2>1, <2>2
    <3>2. ~leaked
      BY DEF QueueInv
    <3> QED BY <1>9, <3>1, <3>2, Zenon DEF Flush
  <2> QED BY <2>1, <2>3, OperationOver, DequeueKeepsQueue
<1>10. CASE WriteFails
  <2>1. ~leaked' /\ Decided /\ Throws("failed")
    BY <1>10 DEF WriteFails, QueueInv
  <2> QED BY <2>1, OperationOver, DequeueKeepsQueue
\* A reader that hands over a frame has none in the queue.
<1>11. ASSUME NEW p \in Peer, Read(p) PROVE QueueInv'
  <2>1. /\ queue \in Seq(Peer) /\ DOMAIN reader = Peer
        /\ queue' = Append(queue, p) /\ reader[p] = "reading"
        /\ reader' = [reader EXCEPT ![p] = "waiting"]
        /\ UNCHANGED <<onFailure, running, leaked>>
    BY <1>11 DEF Read, TypeOK
  <2>2. /\ Len(queue') = Len(queue) + 1 /\ Len(queue) \in Nat
        /\ \A i \in 1..Len(queue) : queue'[i] = queue[i] /\ queue[i] \in Peer
        /\ queue'[Len(queue) + 1] = p /\ queue' # <<>>
    BY <2>1, AppendProperties
  <2>3. \A i \in 1..Len(queue) : queue[i] # p
    BY <2>1 DEF QueueInv
  <2>4. \A i \in 1..Len(queue') : reader'[queue'[i]] = "waiting"
    <3> TAKE i \in 1..Len(queue')
    <3>1. CASE i = Len(queue) + 1
      BY <2>1, <2>2, <3>1
    <3>2. CASE i \in 1..Len(queue)
      BY <2>1, <2>2, <3>2 DEF QueueInv
    <3> QED BY <2>2, <3>1, <3>2
  <2>5. \A i, j \in 1..Len(queue') : queue'[i] = queue'[j] => i = j
    <3> TAKE i, j \in 1..Len(queue')
    <3>1. CASE i \in 1..Len(queue) /\ j \in 1..Len(queue)
      BY <2>2, <3>1 DEF QueueInv
    <3> QED BY <2>2, <2>3, <3>1
  <2>6. running # None => Head(queue') = Head(queue)
    <3>1. queue # <<>> => Head(queue) = queue[1] /\ 1 \in 1..Len(queue)
      BY <2>1
    <3>2. Head(queue') = queue'[1]
      BY <2>1, <2>2
    <3> QED BY <2>2, <3>1, <3>2 DEF QueueInv
  <2> QED BY <2>1, <2>2, <2>4, <2>5, <2>6 DEF QueueInv, Decided
\* A reader that ends was not waiting.
<1>12. ASSUME NEW p \in Peer, reader[p] = "reading", NEW state \in ReaderEnd,
              reader' = [reader EXCEPT ![p] = state],
              UNCHANGED <<onFailure, queue, running, leaked>>
       PROVE  QueueInv'
  <2>1. \A i \in 1..Len(queue) : queue[i] \in Peer /\ queue[i] # p
    BY <1>12 DEF QueueInv, TypeOK
  <2>2. \A i \in 1..Len(queue) : reader'[queue[i]] = "waiting"
    BY <1>12, <2>1 DEF QueueInv, TypeOK
  <2> QED BY <1>12, <2>2 DEF QueueInv, Decided
<1>13. ASSUME NEW p \in Peer, ReadEnd(p) \/ ReadFails(p) PROVE QueueInv'
  BY <1>12, <1>13 DEF ReadEnd, ReadFails, sessionVars, ReaderEnd
<1>14. CASE ReadPremature
  BY <1>12, <1>14 DEF ReadPremature, sessionVars, ReaderEnd, Peer
\* Nothing is in the queue before the start.
<1>15. CASE Start
  <2>1. reader = [p \in Peer |-> "idle"]
    BY <1>15 DEF Start, StageInv, StagesTell
  <2>2. Len(queue) \in Nat /\ \A i \in 1..Len(queue) : queue[i] \in Peer
    BY DEF TypeOK
  <2>3. \A i \in 1..Len(queue) : FALSE
    BY <2>1, <2>2 DEF QueueInv
  <2> QED BY <1>15, <2>3 DEF Start, sessionVars, QueueInv, Decided
<1>16. CASE StderrEnds
  BY <1>1, <1>16 DEF StderrEnds, sessionVars
<1>17. CASE MainStep
  BY <1>1, <1>17 DEF MainStep, BeginShutdown, ExitFirst, FailureFirst, ExitInTime,
                     RequireStdout, RequireStderr, Normalize, Terminated, RecordStop, Return,
                     sessionVars, readerVars
<1>18. CASE TimerStep
  BY <1>1, <1>18 DEF TimerStep, GraceExpires, ForceExpires, Destroy, sessionVars, readerVars
<1>19. ASSUME NEW p \in Peer, PeerStep(p) PROVE QueueInv'
  BY <1>1, <1>19 DEF PeerStep, Send, End, Take, StopReading, sessionVars, readerVars
<1>20. CASE ExitStep
  BY <1>1, <1>20 DEF ExitStep, Exit, sessionVars, readerVars
<1>21. CASE UNCHANGED vars
  BY <1>1, <1>21 DEF vars, sessionVars, readerVars
<1> QED
  BY <1>3, <1>4, <1>5, <1>6, <1>7, <1>8, <1>9, <1>10, <1>11, <1>13, <1>14, <1>15, <1>16,
     <1>17, <1>18, <1>19, <1>20, <1>21
     DEF Next, QueueStep, ReaderStep

(***************************************************************************)
(* The stages of the shutdown.                                              *)
(***************************************************************************)

\* What has ended stays as it ended.
LEMMA EndsStay ==
  ASSUME TypeOK, QueueInv, StageInv, [Next]_vars
  PROVE  /\ UNCHANGED onFailure
         /\ \A p \in Peer : reader[p] \in ReaderEnd => reader'[p] = reader[p]
         /\ stderr \in ReaderEnd => stderr' = stderr
         /\ \A p \in Peer : ended[p] => ended'[p]
         /\ Exited => exit' = exit
         /\ race # None => race' = race
<1> DEFINE Stay == /\ UNCHANGED onFailure
                   /\ \A p \in Peer : reader[p] \in ReaderEnd => reader'[p] = reader[p]
                   /\ stderr \in ReaderEnd => stderr' = stderr
                   /\ \A p \in Peer : ended[p] => ended'[p]
                   /\ Exited => exit' = exit
                   /\ race # None => race' = race
<1> SUFFICES Stay
  OBVIOUS
<1>1. ASSUME UNCHANGED <<onFailure, reader, stderr, ended, exit, race>> PROVE Stay
  BY <1>1
<1>2. CASE Begin \/ Resume \/ AuditWritten \/ StartWrite
  BY <1>1, <1>2 DEF Begin, Resume, AuditWritten, StartWrite, readerVars, peerVars,
                    processVars, mainVars
<1>3. ASSUME Decided, Completed \/ Throws("auditFailure") \/ Throws("failed"),
             UNCHANGED <<onFailure, stderr, ended, exit>>
      PROVE  Stay
  <2>1. PICK state : reader' = [reader EXCEPT ![Head(queue)] = state]
    BY <1>3, OperationOver
  <2>2. queue # <<>> /\ (race # None => race' = race)
    BY <1>3, OperationOver
  <2>3. reader[Head(queue)] = "waiting" /\ Head(queue) \in Peer
    BY <2>2, QueueParts DEF QueueInv
  <2>4. \A p \in Peer : reader[p] \in ReaderEnd => reader'[p] = reader[p]
    BY <2>1, <2>3 DEF TypeOK, ReaderEnd
  <2> QED BY <1>3, <2>2, <2>4
<1>4. CASE AuditFails
  <2>1. CASE UNCHANGED <<queue, reader, race, awaited>>
    BY <1>1, <1>4, <2>1 DEF AuditFails, peerVars, processVars
  <2>2. CASE Throws("auditFailure")
    BY <1>3, <1>4, <2>2 DEF AuditFails, Auditing, peerVars, processVars
  <2> QED BY <1>4, <2>1, <2>2 DEF AuditFails
<1>5. CASE EndUnwritten \/ Flush \/ WriteFails
  BY <1>3, <1>5 DEF EndUnwritten, Flush, WriteFails, Audited, peerVars, processVars
<1>6. ASSUME NEW p \in Peer, reader[p] = "reading", NEW state,
             reader' = [reader EXCEPT ![p] = state], race # None => race' = race,
             UNCHANGED <<onFailure, stderr, ended, exit>>
      PROVE  Stay
  <2>1. \A q \in Peer : reader[q] \in ReaderEnd => reader'[q] = reader[q]
    BY <1>6 DEF TypeOK, ReaderEnd
  <2> QED BY <1>6, <2>1
<1>7. ASSUME NEW p \in Peer, Read(p) \/ ReadEnd(p) \/ ReadFails(p) PROVE Stay
  <2>1. CASE Read(p)
    BY <1>6, <2>1 DEF Read, processVars, mainVars
  <2>2. CASE ReadEnd(p)
    <3>1. race # None => race' = race
      BY <2>2 DEF ReadEnd, Settle
    <3> QED BY <1>6, <2>2, <3>1 DEF ReadEnd, sessionVars, peerVars, processVars
  <2>3. CASE ReadFails(p)
    <3>1. race # None => race' = race
      BY <2>3 DEF ReadFails, Settle
    <3> QED BY <1>6, <2>3, <3>1 DEF ReadFails, sessionVars, processVars
  <2> QED BY <1>7, <2>1, <2>2, <2>3
<1>8. CASE ReadPremature
  BY <1>6, <1>8 DEF ReadPremature, sessionVars, peerVars, processVars, mainVars, Peer
<1>9. CASE StderrEnds
  BY <1>9 DEF StderrEnds, sessionVars, peerVars, processVars, mainVars, ReaderEnd
<1>10. CASE Start
  <2>1. reader = [p \in Peer |-> "idle"] /\ stderr = "idle"
    BY <1>10 DEF Start, StageInv, StagesTell
  <2> QED BY <1>10, <2>1 DEF Start, sessionVars, peerVars, ReaderEnd
<1>11. CASE MainStep
  BY <1>1, <1>11 DEF MainStep, BeginShutdown, ExitFirst, FailureFirst, ExitInTime,
                     RequireStdout, RequireStderr, Normalize, Terminated, RecordStop, Return,
                     sessionVars, readerVars, peerVars, processVars
<1>12. CASE TimerStep
  BY <1>1, <1>12 DEF TimerStep, GraceExpires, ForceExpires, Destroy, sessionVars, readerVars,
                     peerVars, processVars
<1>13. ASSUME NEW p \in Peer, PeerStep(p) PROVE Stay
  <2>1. CASE Send(p) \/ Take(p) \/ StopReading(p)
    BY <1>1, <2>1 DEF Send, Take, StopReading, sessionVars, readerVars, processVars, mainVars
  <2>2. CASE End(p)
    <3>1. \A q \in Peer : ended[q] => ended'[q]
      BY <2>2 DEF End, TypeOK
    <3> QED BY <2>2, <3>1 DEF End, sessionVars, readerVars, processVars, mainVars
  <2> QED BY <1>13, <2>1, <2>2 DEF PeerStep
<1>14. CASE ExitStep
  <2>1. ~Exited /\ (race # None => race' = race)
    BY <1>14 DEF ExitStep, Exit, Settle
  <2> QED BY <1>14, <2>1 DEF ExitStep, Exit, sessionVars, readerVars
<1>15. CASE UNCHANGED vars
  BY <1>1, <1>15 DEF vars, sessionVars, readerVars, peerVars, processVars, mainVars
<1> HIDE DEF Stay
<1> QED
  BY <1>2, <1>4, <1>5, <1>7, <1>8, <1>9, <1>10, <1>11, <1>12, <1>13, <1>14, <1>15
     DEF Next, QueueStep, ReaderStep

LEMMA StreamsHold == ASSUME TypeOK, QueueInv, StageInv, [Next]_vars PROVE StreamsTell'
<1> USE DEF StageInv
<1>1. ASSUME UNCHANGED <<onFailure, reader, stderr, ended, unread, race, writable>>
      PROVE  StreamsTell'
  BY <1>1, EndsStay DEF StreamsTell, Exited
<1>2. CASE Begin \/ Resume \/ AuditWritten \/ StartWrite
  BY <1>1, <1>2 DEF Begin, Resume, AuditWritten, StartWrite, readerVars, peerVars,
                    processVars, mainVars
\* The reader of an operation that is over had not ended.
<1>3. ASSUME Decided, UNCHANGED <<stderr, ended, unread, writable>>,
             \/ Completed
             \/ Throws("auditFailure") /\ onFailure = "fail_closed"
             \/ Throws("failed")
      PROVE  StreamsTell'
  <2>1. running.from = Head(queue) /\ queue # <<>>
    BY <1>3 DEF QueueInv, Decided
  <2>2. reader[running.from] = "waiting" /\ running.from \in Peer /\ DOMAIN reader = Peer
    BY <2>1, QueueParts DEF QueueInv, TypeOK
  <2>3. \A p \in Peer : reader'[p] = "completed" => reader[p] = "completed"
    BY <1>3, <2>2 DEF Completed, Throws
  <2>4. "auditFailure" \in {reader'["client"], reader'["upstream"], stderr', race'} =>
          onFailure = "fail_closed"
    BY <1>3, <2>2 DEF Completed, Throws, Settle, StreamsTell, Peer
  <2>5. race' = race \/ race' \in {"auditFailure", "failed"}
    BY <1>3 DEF Completed, Throws, Settle
  <2>6. \A p \in Peer : reader[p] = "completed" => reader'[p] = "completed"
    BY <1>3, EndsStay DEF ReaderEnd
  <2>7. "client" \in Peer /\ "upstream" \in Peer
    BY DEF Peer
  <2>8. onFailure' = onFailure /\ (race # None => race' = race) /\ (Exited => exit' = exit)
    BY EndsStay
  <2> QED
    BY <1>3, <2>3, <2>4, <2>5, <2>6, <2>7, <2>8 DEF StreamsTell, Exited
<1>4. CASE AuditFails
  <2>1. CASE UNCHANGED <<queue, reader, race, awaited>>
    BY <1>1, <1>4, <2>1 DEF AuditFails, peerVars, processVars
  <2>2. CASE Throws("auditFailure") /\ onFailure = "fail_closed"
    BY <1>3, <1>4, <2>2 DEF AuditFails, Auditing, peerVars, processVars
  <2> QED BY <1>4, <2>1, <2>2 DEF AuditFails
<1>5. CASE EndUnwritten \/ Flush \/ WriteFails
  BY <1>3, <1>5 DEF EndUnwritten, Flush, WriteFails, Audited, peerVars, processVars
<1>6. ASSUME NEW p \in Peer, Read(p) PROVE StreamsTell'
  <2>1. DOMAIN reader = Peer /\ DOMAIN unread = Peer /\ {"client", "upstream"} \subseteq Peer
    BY DEF TypeOK, Peer
  <2>2. \A q \in Peer : reader'[q] = (IF q = p THEN "waiting" ELSE reader[q])
                        /\ (q # p => unread'[q] = unread[q])
    BY <1>6, <2>1 DEF Read
  <2>3. reader[p] = "reading" /\ UNCHANGED <<onFailure, stderr, ended, race, exit, writable>>
    BY <1>6 DEF Read, processVars, mainVars
  <2> QED BY <2>1, <2>2, <2>3 DEF StreamsTell, Exited
\* A reader completes with nothing left to read.
<1>7. ASSUME NEW p \in Peer, ReadEnd(p) PROVE StreamsTell'
  <2>1. DOMAIN reader = Peer /\ {"client", "upstream"} \subseteq Peer
    BY DEF TypeOK, Peer
  <2>2. /\ reader[p] = "reading" /\ ended[p] /\ unread[p] = 0
        /\ \A q \in Peer : reader'[q] = (IF q = p THEN "completed" ELSE reader[q])
        /\ UNCHANGED <<onFailure, stderr, ended, unread, exit, writable>>
    BY <1>7, <2>1 DEF ReadEnd, sessionVars, peerVars, processVars
  <2>3. race' = race \/ (race' = IF p = "client" THEN "client" ELSE "upstream-output")
    BY <1>7 DEF ReadEnd, Settle
  <2>4. p \in {"client", "upstream"}
    BY DEF Peer
  <2> QED BY <2>1, <2>2, <2>3, <2>4 DEF StreamsTell, Exited
<1>8. ASSUME NEW p \in Peer, ReadFails(p) PROVE StreamsTell'
  <2>1. DOMAIN reader = Peer /\ {"client", "upstream"} \subseteq Peer
    BY DEF TypeOK, Peer
  <2>2. /\ reader[p] = "reading"
        /\ \A q \in Peer : reader'[q] = (IF q = p THEN "failed" ELSE reader[q])
        /\ UNCHANGED <<onFailure, stderr, ended, unread, exit, writable>>
    BY <1>8, <2>1 DEF ReadFails, sessionVars, processVars
  <2>3. race' = race \/ race' = "failed"
    BY <1>8 DEF ReadFails, Settle
  <2> QED BY <2>1, <2>2, <2>3 DEF StreamsTell, Exited
<1>9. CASE ReadPremature
  <2>1. DOMAIN reader = Peer /\ {"client", "upstream"} \subseteq Peer
    BY DEF TypeOK, Peer
  <2>2. /\ reader["upstream"] = "reading"
        /\ \A q \in Peer : reader'[q] = (IF q = "upstream" THEN "premature" ELSE reader[q])
        /\ UNCHANGED <<onFailure, stderr, ended, unread, exit, writable, race>>
    BY <1>9, <2>1 DEF ReadPremature, sessionVars, peerVars, processVars, mainVars
  <2> QED BY <2>1, <2>2 DEF StreamsTell, Exited
<1>10. CASE StderrEnds
  BY <1>10 DEF StderrEnds, StreamsTell, Exited, sessionVars, peerVars, processVars, mainVars
<1>11. CASE Start
  <2>1. "client" \in Peer /\ "upstream" \in Peer
    BY DEF Peer
  <2>2. /\ reader = [p \in Peer |-> "idle"]
        /\ UNCHANGED <<onFailure, ended, unread, exit, writable, race>>
        /\ \/ UNCHANGED <<reader, stderr>>
           \/ reader' = [p \in Peer |-> "reading"] /\ stderr' = "reading"
    BY <1>11 DEF Start, StagesTell, sessionVars, peerVars, readerVars
  <2> QED BY <2>1, <2>2 DEF StreamsTell, Exited
\* The upstream's stdin is ended because the client's reader has completed.
<1>12. CASE BeginShutdown
  BY <1>12 DEF BeginShutdown, StreamsTell, Exited, TypeOK, Peer, sessionVars, readerVars,
               processVars
<1>13. CASE MainStep /\ ~BeginShutdown
  BY <1>1, <1>13 DEF MainStep, ExitFirst, FailureFirst, ExitInTime, RequireStdout,
                     RequireStderr, Normalize, Terminated, RecordStop, Return, sessionVars,
                     readerVars, peerVars
<1>14. CASE GraceExpires \/ ForceExpires
  BY <1>1, <1>14 DEF GraceExpires, ForceExpires, sessionVars, readerVars, peerVars
\* Whoever closes a stream does not end it.
<1>15. ASSUME UNCHANGED <<onFailure, reader, stderr, ended, unread>>,
              writable'["upstream"] \in {writable["upstream"], "closed"},
              \/ UNCHANGED <<race, exit>>
              \/ exit' # None /\ (race' = race \/ race' = "exit")
       PROVE  StreamsTell'
  BY <1>15 DEF StreamsTell, Exited
<1>16. CASE Destroy
  <2>1. writable'["upstream"] = "closed"
    BY <1>16 DEF Destroy, TypeOK, Peer
  <2> QED
    BY <1>15, <1>16, <2>1 DEF Destroy, sessionVars, readerVars, processVars
<1>17. ASSUME NEW p \in Peer, PeerStep(p) PROVE StreamsTell'
  <2>1. CASE Send(p)
    <3>1. DOMAIN unread = Peer
      BY DEF TypeOK
    <3>2. ~ended[p] /\ \A q \in Peer : q # p => unread'[q] = unread[q]
      BY <2>1, <3>1 DEF Send
    <3> QED
      BY <2>1, <3>2 DEF Send, StreamsTell, Exited, sessionVars, readerVars, processVars,
                        mainVars
  <2>2. CASE End(p)
    <3>1. \A q \in Peer : ended[q] => ended'[q]
      BY EndsStay
    <3> QED
      BY <2>2, <3>1 DEF End, StreamsTell, Exited, sessionVars, readerVars, processVars,
                        mainVars
  <2>3. CASE Take(p)
    BY <1>1, <2>3 DEF Take, sessionVars, readerVars, processVars, mainVars
  <2>4. CASE StopReading(p)
    <3>1. writable'["upstream"] \in {writable["upstream"], "closed"}
      BY <2>4 DEF StopReading, TypeOK, Peer
    <3> QED
      BY <1>15, <2>4, <3>1 DEF StopReading, sessionVars, readerVars, processVars, mainVars
  <2> QED BY <1>17, <2>1, <2>2, <2>3, <2>4 DEF PeerStep
<1>18. ASSUME NEW code \in ExitCodes, Exit(code) PROVE StreamsTell'
  <2>1. writable'["upstream"] = "closed"
    BY <1>18 DEF Exit, TypeOK, Peer
  <2>2. exit' # None /\ (race' = race \/ race' = "exit")
    BY <1>18, NoneAssumption DEF Exit, Settle
  <2> QED BY <1>15, <1>18, <2>1, <2>2 DEF Exit, sessionVars, readerVars
<1>19. CASE UNCHANGED vars
  BY <1>1, <1>19 DEF vars, sessionVars, readerVars, peerVars, processVars, mainVars
<1> QED
  BY <1>2, <1>4, <1>5, <1>6, <1>7, <1>8, <1>9, <1>10, <1>11, <1>12, <1>13, <1>14, <1>16,
     <1>17, <1>18, <1>19
     DEF Next, QueueStep, ReaderStep, TimerStep, MainStep, ExitStep

LEMMA StagesHold == ASSUME TypeOK, QueueInv, StageInv, [Next]_vars PROVE StagesTell'
<1> USE DEF StageInv
<1> DEFINE upstream == reader["upstream"]
<1>1. /\ upstream \in ReaderEnd => upstream' = upstream
      /\ stderr \in ReaderEnd => stderr' = stderr
      /\ Exited => exit' = exit
      /\ race # None => race' = race
      /\ onFailure' = onFailure
  BY EndsStay DEF Peer
\* The stage has not changed, and what it says of the streams still holds.
<1>2. ASSUME UNCHANGED <<main, shutdown, exitCode>>, main \notin {"starting", "returned"}
      PROVE  StagesTell'
  <2>1. main' # "starting"
    BY <1>2
  <2>2. main' = "awaitingExit" => race' \in {"client", "upstream-output"}
    BY <1>1, <1>2, NoneAssumption DEF StagesTell, Race
  <2>3. shutdown' # None => \/ shutdown'.code = Timeout /\ shutdown'.forced
                            \/ shutdown'.code = exit' /\ Exited' /\ ~shutdown'.forced
    BY <1>1, <1>2 DEF StagesTell, Exited
  <2>4. /\ Acceptable(upstream) => Acceptable(upstream)'
        /\ Acceptable(stderr) => Acceptable(stderr)'
        /\ Accepted(upstream) => Accepted(upstream)'
        /\ Accepted(stderr) => Accepted(stderr)'
    BY <1>1, <1>2 DEF Acceptable, Accepted, ReaderEnd
  <2>5. exitCode' = 0 => exit' = 0 /\ upstream' = "completed" /\ stderr' = "completed"
    BY <1>1, <1>2, NoneAssumption DEF StagesTell, Exited, ReaderEnd, ExitCodes
  <2> QED
    BY <1>1, <1>2, <2>1, <2>2, <2>3, <2>4, <2>5 DEF StagesTell
<1>3. ASSUME UNCHANGED <<onFailure, reader, stderr, exit, race, main, shutdown, exitCode>>
       PROVE  StagesTell'
  BY <1>3 DEF StagesTell, Exited, Acceptable, Accepted
<1>4. CASE UNCHANGED vars
  <2>1. UNCHANGED <<onFailure, reader, stderr, exit, race, main, shutdown, exitCode>>
    BY <1>4 DEF vars, sessionVars, readerVars, processVars, mainVars
  <2> QED BY <1>3, <2>1
<1> SUFFICES ASSUME Next PROVE StagesTell'
  BY <1>4
<1>0. main # "returned"
  BY DEF Next, Going
\* Nobody but the start runs before it.
<1>5. QueueStep => main # "starting"
  <2>1. queue # <<>> => Head(queue) \in Peer /\ reader[Head(queue)] = "waiting"
    BY QueueParts DEF QueueInv
  <2>2. QueueStep => queue # <<>>
    BY NoneAssumption
       DEF QueueStep, Begin, Resume, AuditWritten, AuditFails, EndUnwritten, StartWrite,
           Flush, WriteFails, Auditing, Audited, Decided, QueueInv
  <2> QED BY <2>1, <2>2 DEF StagesTell
<1>6. CASE QueueStep
  <2>1. UNCHANGED <<main, shutdown, exitCode>>
    BY <1>6 DEF QueueStep, Begin, Resume, AuditWritten, AuditFails, EndUnwritten, StartWrite,
                Flush, WriteFails, mainVars
  <2> QED BY <1>2, <1>5, <1>6, <1>0, <2>1
<1>7. ASSUME NEW p \in Peer, ReaderStep(p) \/ ReadFails(p) PROVE StagesTell'
  <2>1. reader[p] = "reading" \/ reader["upstream"] = "reading"
    BY <1>7 DEF ReaderStep, Read, ReadEnd, ReadFails, ReadPremature
  <2>2. main # "starting"
    BY <2>1 DEF StagesTell, Peer
  <2>3. UNCHANGED <<main, shutdown, exitCode>>
    BY <1>7 DEF ReaderStep, Read, ReadEnd, ReadFails, ReadPremature, mainVars
  <2> QED BY <1>0, <1>2, <2>2, <2>3
<1>8. CASE StderrEnds
  <2>1. main # "starting"
    BY <1>8 DEF StderrEnds, StagesTell
  <2> QED BY <1>0, <1>2, <1>8, <2>1 DEF StderrEnds, mainVars
<1>9. CASE GraceExpires \/ ForceExpires
  BY <1>9, <1>3 DEF GraceExpires, ForceExpires, sessionVars, readerVars, processVars
<1>10. ASSUME NEW p \in Peer, PeerStep(p) PROVE StagesTell'
  BY <1>10, <1>3 DEF PeerStep, Send, End, Take, StopReading, sessionVars, readerVars,
                     processVars, mainVars
\* The exit of a process that has not exited.
<1>11. ASSUME NEW code \in ExitCodes, Exit(code) PROVE StagesTell'
  <2>1. reader["client"] # "idle" /\ UNCHANGED <<main, shutdown, exitCode>>
    BY <1>11 DEF Exit, Connected
  <2>2. main # "starting"
    BY <2>1 DEF StagesTell, Peer
  <2> QED BY <1>0, <1>2, <2>1, <2>2
<1>12. CASE Start
  <2>1. /\ reader = [p \in Peer |-> "idle"] /\ stderr = "idle" /\ upstream = "idle"
        /\ main = "starting" /\ UNCHANGED <<exit, shutdown, onFailure>>
    BY <1>12, <1>1 DEF Start, StagesTell, Peer
  <2>2. exitCode \notin {0, 4}
    BY <2>1 DEF StagesTell, Accepted
  <2> QED
    BY <1>12, <2>1, <2>2 DEF Start, StagesTell, Exited, Fatal, Peer, readerVars
<1>13. CASE BeginShutdown
  <2>1. /\ main = "racing" /\ main' = "awaitingExit" /\ race \in {"client", "upstream-output"}
        /\ UNCHANGED <<onFailure, reader, stderr, exit, race, shutdown, exitCode>>
    BY <1>13 DEF BeginShutdown, sessionVars, readerVars, processVars
  <2> QED BY <2>1 DEF StagesTell, Exited
\* The upstream's exit settles the race, or ends the wait for it.
<1>14. CASE ExitFirst \/ ExitInTime
  <2>1. /\ Exited /\ shutdown' = [code |-> exit, forced |-> FALSE]
        /\ main' = "needStdout" \/ (main' = "needStderr" /\ upstream = "completed")
        /\ main \in {"racing", "awaitingExit"}
        /\ UNCHANGED <<onFailure, reader, stderr, exit, race, exitCode>>
    BY <1>14 DEF ExitFirst, ExitInTime, Required, StagesTell, StreamsTell, sessionVars,
                 readerVars, processVars
  <2>2. shutdown' # None /\ shutdown'.code = exit /\ ~shutdown'.forced
    <3>1. shutdown' \in Shutdown
      BY <2>1 DEF Shutdown, Exited, TypeOK
    <3> QED BY <2>1, <3>1, NoneAssumption
  <2>3. main' = "needStderr" => Acceptable(upstream)'
    BY <2>1 DEF Acceptable
  <2> QED BY <2>1, <2>2, <2>3 DEF StagesTell, Exited
<1>15. CASE FailureFirst
  <2>1. /\ main = "racing" /\ main' = "terminating"
        /\ exitCode' \in {1, 5} /\ (exitCode' = 5 => race = "auditFailure")
        /\ UNCHANGED <<onFailure, reader, stderr, exit, race, shutdown>>
    BY <1>15 DEF FailureFirst, Fatal, sessionVars, readerVars, peerVars
  <2> QED BY <2>1 DEF StagesTell, StreamsTell, Exited
<1>16. CASE RequireStdout
  <2>1. /\ main = "needStdout"
        /\ UNCHANGED <<onFailure, reader, stderr, exit, race, shutdown>>
        /\ \/ main' = "needStderr" /\ Acceptable(upstream) /\ UNCHANGED exitCode
           \/ /\ main' = "terminating" /\ exitCode' \in {1, 5}
              /\ exitCode' = 5 => upstream = "auditFailure"
    BY <1>16 DEF RequireStdout, Fatal, sessionVars, readerVars, peerVars
  <2> QED BY <2>1 DEF StagesTell, StreamsTell, Exited, Acceptable
<1>17. CASE RequireStderr
  <2>1. /\ main = "needStderr"
        /\ UNCHANGED <<onFailure, reader, stderr, exit, race, shutdown>>
        /\ \/ main' = "normalizing" /\ Acceptable(stderr) /\ UNCHANGED exitCode
           \/ /\ main' = "terminating" /\ exitCode' \in {1, 5}
              /\ exitCode' = 5 => stderr = "auditFailure"
    BY <1>17 DEF RequireStderr, Fatal, sessionVars, readerVars, peerVars
  <2> QED BY <2>1 DEF StagesTell, StreamsTell, Exited, Acceptable
\* An exit code of 0 is that of an upstream that was not forced.
<1>18. CASE Normalize
  <2>1. /\ main = "normalizing"
        /\ UNCHANGED <<onFailure, reader, stderr, exit, race, shutdown>>
        /\ \/ main' = "draining" /\ exitCode' = 0 /\ shutdown.code = 0
           \/ main' = "draining" /\ exitCode' = 4
           \/ main' = "terminating" /\ exitCode' = 5 /\ onFailure = "fail_closed"
    BY <1>18 DEF Normalize, Finish, Fatal, sessionVars, readerVars, peerVars
  <2>2. Accepted(upstream) /\ Accepted(stderr)
    BY <2>1 DEF StagesTell, Acceptable, Accepted
  <2>3. shutdown.code = 0 => exit = 0 /\ upstream = "completed" /\ stderr = "completed"
    BY <2>1 DEF StagesTell, Acceptable, Timeout
  <2> QED BY <2>1, <2>2, <2>3 DEF StagesTell, Exited, Accepted
<1>19. CASE Terminated \/ RecordStop \/ Return
  <2>1. /\ UNCHANGED <<onFailure, reader, stderr, exit, race, shutdown, exitCode>>
        /\ main' \in {"draining", "stopped", "returned"}
    BY <1>19 DEF Terminated, RecordStop, Return, Finish, sessionVars, readerVars, processVars
  <2> QED BY <1>0, <2>1 DEF StagesTell, Exited, Accepted
<1>20. CASE Destroy
  <2>1. CASE main = "awaitingExit"
    <3>1. /\ shutdown' = [code |-> Timeout, forced |-> TRUE]
          /\ main' = "needStdout" \/ (main' = "needStderr" /\ upstream = "completed")
          /\ UNCHANGED <<onFailure, reader, stderr, exit, race, exitCode>>
      BY <1>20, <2>1 DEF Destroy, Required, StagesTell, StreamsTell, sessionVars, readerVars,
                         processVars
    <3>2. shutdown' \in Shutdown
      BY <3>1 DEF Shutdown
    <3>3. shutdown' # None /\ shutdown'.code = Timeout /\ shutdown'.forced
      BY <3>1, <3>2, NoneAssumption
    <3>4. main' = "needStderr" => Acceptable(upstream)'
      BY <3>1 DEF Acceptable
    <3> QED BY <2>1, <3>1, <3>3, <3>4 DEF StagesTell, Exited
  <2>2. CASE main # "awaitingExit"
    BY <1>3, <1>20, <2>2 DEF Destroy, sessionVars, readerVars, processVars
  <2> QED BY <2>1, <2>2
<1> QED
  BY <1>6, <1>7, <1>8, <1>9, <1>10, <1>11, <1>12, <1>13, <1>14, <1>15, <1>16, <1>17,
     <1>18, <1>19, <1>20
     DEF Next, TimerStep, MainStep, ExitStep

(***************************************************************************)
(* The theorems.                                                            *)
(***************************************************************************)

LEMMA InitHolds == Init => TypeOK /\ QueueInv /\ StageInv
<1> SUFFICES ASSUME Init PROVE TypeOK /\ QueueInv /\ StageInv
  OBVIOUS
<1> USE Bounds
<1>1. /\ reader \in [Peer -> {"idle", "reading", "waiting"} \cup ReaderEnd]
      /\ unread \in [Peer -> 0..PipeSize] /\ backlog \in [Peer -> 0..PipeSize]
      /\ ended \in [Peer -> BOOLEAN] /\ writable \in [Peer -> {"open", "ended", "closed"}]
  BY DEF Init
<1>2. queue \in Seq(Peer)
  BY DEF Init
<1>3. sent \in 0..MaxFrames /\ faults \in 0..MaxFaults
  BY DEF Init
<1>4. TypeOK
  BY <1>1, <1>2, <1>3 DEF Init, TypeOK, MainState
<1>5. QueueInv
  BY DEF Init, QueueInv, Decided
<1>6. StageInv
  <2>1. /\ reader["client"] = "idle" /\ reader["upstream"] = "idle"
        /\ writable["upstream"] = "open" /\ \A p \in Peer : reader[p] = "idle"
    BY DEF Init, Peer
  <2>2. race = None /\ main = "starting" /\ shutdown = None /\ exitCode = None
        /\ stderr = "idle" /\ reader = [p \in Peer |-> "idle"]
    BY DEF Init
  <2>3. None \notin {0, 1, 3, 4, 5}
    BY NoneAssumption DEF ExitCodes
  <2>4. StreamsTell
    BY <2>1, <2>2, NoneAssumption DEF StreamsTell, Race
  <2> QED BY <2>1, <2>2, <2>3, <2>4 DEF StageInv, StagesTell
<1> QED BY <1>4, <1>5, <1>6

\* Every reachable state of the bridge has the invariant, whose parts are the types,
\* what is known of the queue and of the operation that runs, and what each stage of
\* the shutdown says of the streams.
THEOREM BridgeInvariant == Spec => [](TypeOK /\ QueueInv /\ StageInv)
<1>1. TypeOK /\ QueueInv /\ StageInv /\ [Next]_vars => (TypeOK /\ QueueInv /\ StageInv)'
  BY TypesHold, QueueHolds, StreamsHold, StagesHold DEF StageInv
<1> QED BY InitHolds, <1>1, PTL DEF Spec

\* Under fail_closed no frame takes effect before all of its events are written.
THEOREM AuditsFirst == Spec => []AuditBeforeEffect
<1>1. QueueInv => AuditBeforeEffect
  BY DEF QueueInv, AuditBeforeEffect
<1> QED BY <1>1, BridgeInvariant, PTL

\* The upstream's stdin is ended only after the client's last frame was handled.
THEOREM EndsStdinLast == Spec => []StdinEndsAfterLastFrame
<1>1. TypeOK /\ QueueInv /\ StageInv => StdinEndsAfterLastFrame
  <2> SUFFICES ASSUME TypeOK, QueueInv, StageInv, writable["upstream"] = "ended"
               PROVE  /\ unread["client"] = 0
                      /\ \A i \in DOMAIN queue : queue[i] # "client"
    BY DEF StdinEndsAfterLastFrame
  <2>1. reader["client"] = "completed" /\ "client" \in Peer
    BY DEF StageInv, StreamsTell, Peer
  <2>2. DOMAIN queue = 1..Len(queue)
    BY DEF TypeOK
  <2> QED BY <2>1, <2>2 DEF StageInv, StreamsTell, QueueInv
<1> QED BY <1>1, BridgeInvariant, PTL

\* Exit code 0 says that the upstream exited with 0 and nothing of it was lost.
THEOREM CleanExitIsComplete == Spec => []CleanExitLosesNothing
<1>1. StageInv => CleanExitLosesNothing
  BY DEF StageInv, StagesTell, StreamsTell, CleanExitLosesNothing, Peer
<1> QED BY <1>1, BridgeInvariant, PTL

\* An audit failure is never reported as success or as the upstream's fault, and none
\* is fatal under warn_and_continue.
THEOREM AuditFailureShows == Spec => []ExitCodeTellsAuditFailure
<1>1. StageInv => ExitCodeTellsAuditFailure
  BY DEF StageInv, StagesTell, Accepted, ExitCodeTellsAuditFailure
<1> QED BY <1>1, BridgeInvariant, PTL
=============================================================================
