----------------------------- MODULE CliRun_proofs -----------------------------
(***************************************************************************)
(* The safety of a run for any policies, writes, frames and flag changes:   *)
(* what the stages say, that the last content tried stands, and that every *)
(* update is counted and told.                                             *)
(***************************************************************************)
EXTENDS CliRun, FiniteSetTheorems, FunctionTheorems, SequenceTheorems, TLAPS

(***************************************************************************)
(* The queue of the bridge.                                                 *)
(***************************************************************************)

LEMMA WaitingIsFinite ==
  ASSUME queue \in Seq(Update \cup {Frame})
  PROVE  IsFiniteSet(Waiting) /\ Cardinality(Waiting) \in Nat
<1>1. Len(queue) \in Nat
  OBVIOUS
<1>2. IsFiniteSet(1..Len(queue))
  BY <1>1, FS_Interval
<1>3. Waiting \in SUBSET (1..Len(queue))
  BY DEF Waiting
<1> QED BY <1>2, <1>3, FS_Subset, FS_CardinalityType

\* An update that is queued is one more that waits; a frame is none.
LEMMA WaitingGrows ==
  ASSUME queue \in Seq(Update \cup {Frame}), NEW u \in Update \cup {Frame},
         queue' = Append(queue, u)
  PROVE  Cardinality(Waiting') =
           IF u = Frame THEN Cardinality(Waiting) ELSE Cardinality(Waiting) + 1
<1>1. /\ Len(queue') = Len(queue) + 1 /\ Len(queue) \in Nat
      /\ \A i \in 1..Len(queue) : queue'[i] = queue[i]
      /\ queue'[Len(queue) + 1] = u
  BY AppendProperties
<1>2. CASE u = Frame
  <2>1. Waiting' = Waiting
    BY <1>1, <1>2 DEF Waiting
  <2> QED BY <1>2, <2>1
<1>3. CASE u # Frame
  <2>1. Waiting' = Waiting \cup {Len(queue) + 1}
    BY <1>1, <1>3 DEF Waiting
  <2>2. Len(queue) + 1 \notin Waiting
    BY <1>1 DEF Waiting
  <2> QED BY <1>3, <2>1, <2>2, WaitingIsFinite, FS_AddElement
<1> QED BY <1>2, <1>3

\* What the head and the tail of the queue are.
LEMMA QueueParts ==
  ASSUME queue \in Seq(Update \cup {Frame}), queue # <<>>
  PROVE  /\ Head(queue) \in Update \cup {Frame} /\ Head(queue) = queue[1]
         /\ Tail(queue) \in Seq(Update \cup {Frame})
         /\ Len(queue) \in Nat \ {0} /\ Len(Tail(queue)) = Len(queue) - 1
         /\ \A i \in 1..Len(Tail(queue)) : Tail(queue)[i] = queue[i + 1]
OBVIOUS

\* An update that leaves the queue waits no longer.
LEMMA WaitingShrinks ==
  ASSUME queue \in Seq(Update \cup {Frame}), queue # <<>>, queue' = Tail(queue)
  PROVE  Cardinality(Waiting) =
           IF Head(queue) = Frame THEN Cardinality(Waiting') ELSE Cardinality(Waiting') + 1
<1>1. /\ Len(queue') = Len(queue) - 1 /\ Len(queue) \in Nat \ {0} /\ Head(queue) = queue[1]
      /\ \A i \in 1..Len(queue') : queue'[i] = queue[i + 1]
      /\ queue' \in Seq(Update \cup {Frame})
  BY QueueParts
<1> DEFINE Rest == Waiting \ {1}
           shift == [i \in Waiting' |-> i + 1]
<1>2. /\ \A i \in Waiting' : i \in 1..Len(queue') /\ i + 1 \in Rest
      /\ \A j \in Rest : j \in 2..Len(queue) /\ j - 1 \in Waiting'
  BY <1>1 DEF Waiting
<1>3. shift \in [Waiting' -> Rest] /\ \A a, b \in Waiting' : shift[a] = shift[b] => a = b
  BY <1>2
<1>4. \A j \in Rest : \E i \in Waiting' : shift[i] = j
  <2> TAKE j \in Rest
  <2>1. j - 1 \in Waiting' /\ j \in 2..Len(queue)
    BY <1>2
  <2>2. shift[j - 1] = j
    BY <2>1
  <2> QED BY <2>1, <2>2
<1>5. ExistsBijection(Waiting', Rest)
  <2> HIDE DEF shift
  <2>1. shift \in Bijection(Waiting', Rest)
    BY <1>3, <1>4, Fun_IsBij
  <2> QED BY <2>1 DEF ExistsBijection
<1>6. IsFiniteSet(Waiting') /\ Cardinality(Waiting') \in Nat
  <2>1. Waiting' \in SUBSET (1..Len(queue')) /\ Len(queue') \in Nat
    BY <1>1 DEF Waiting
  <2>2. IsFiniteSet(1..Len(queue'))
    BY <2>1, FS_Interval
  <2> QED BY <2>1, <2>2, FS_Subset, FS_CardinalityType
<1>7. Cardinality(Rest) = Cardinality(Waiting')
  BY <1>5, <1>6, FS_Bijection
<1>8. 1 \in Waiting <=> Head(queue) # Frame
  BY <1>1 DEF Waiting
<1>9. /\ Cardinality(Waiting) \in Nat
      /\ Cardinality(Rest) =
           IF 1 \in Waiting THEN Cardinality(Waiting) - 1 ELSE Cardinality(Waiting)
  BY WaitingIsFinite, FS_RemoveElement
<1> HIDE DEF Rest
<1> QED BY <1>6, <1>7, <1>8, <1>9

(***************************************************************************)
(* Types.                                                                   *)
(***************************************************************************)

LEMMA Bounds == MaxWrites \in Nat /\ MaxFrames \in Nat /\ MaxFlagChanges \in Nat
BY ReloadAssumption, RunAssumption

LEMMA VerdictIsUpdate ==
  ASSUME NEW content \in Content
  PROVE  /\ Verdict(content) \in Update
         /\ content \in Usable => Verdict(content) = content
         /\ content \notin Usable => Verdict(content) \in Reason
BY ReloadAssumption DEF Verdict, Content, Update, Reason

LEMMA EmitTypes ==
  ASSUME ReloadTypeOK, NEW update \in Update, Emit(update)
  PROVE  queue' \in Seq(Update \cup {Frame}) /\ handed' \in Nat
<1>1. update \in Update \cup {Frame} /\ queue \in Seq(Update \cup {Frame}) /\ handed \in Nat
  BY DEF ReloadTypeOK
<1> QED BY <1>1, AppendProperties DEF Emit

LEMMA ReloadKeepsTypes ==
  ASSUME ReloadTypeOK, Reload
  PROVE  /\ queue' \in Seq(Update \cup {Frame}) /\ handed' \in Nat
         /\ lastAttempt' \in Content \cup {None} /\ readFailed' \in BOOLEAN
<1>1. queue \in Seq(Update \cup {Frame}) /\ handed \in Nat
      /\ lastAttempt \in Content \cup {None} /\ file \in Content \cup {None}
  BY DEF ReloadTypeOK
<1>2. UNCHANGED <<queue, handed>> \/ \E u \in Update : Emit(u)
  <2>1. CASE file = None
    BY <2>1 DEF Reload, Update, Reason
  <2>2. CASE file # None
    BY <1>1, <2>2, VerdictIsUpdate DEF Reload
  <2> QED BY <2>1, <2>2
<1>3. queue' \in Seq(Update \cup {Frame}) /\ handed' \in Nat
  BY <1>1, <1>2, EmitTypes
<1>4. lastAttempt' \in Content \cup {None} /\ readFailed' \in BOOLEAN
  BY <1>1 DEF Reload
<1> QED BY <1>3, <1>4

LEMMA SettleKeepsTypes ==
  ASSUME ReloadTypeOK, Settle
  PROVE  /\ queue' \in Seq(Update \cup {Frame}) /\ awaited' \in Nat
         /\ settled' \in Seq(Update) /\ metrics' \in Metrics
         /\ opsQueue' \in Seq([event : Event, metrics : Metrics])
         /\ inForce' \in Usable \cup {None} /\ revision' \in Nat
<1>1. /\ queue \in Seq(Update \cup {Frame}) /\ queue # <<>> /\ awaited \in Nat
      /\ settled \in Seq(Update) /\ metrics \in Metrics
      /\ opsQueue \in Seq([event : Event, metrics : Metrics])
      /\ inForce \in Usable \cup {None} /\ revision \in Nat
  BY DEF ReloadTypeOK, Settle
<1>2. queue' \in Seq(Update \cup {Frame}) /\ Head(queue) \in Update
  BY <1>1, QueueParts DEF Settle, Dequeue
<1>3. awaited' \in Nat
  BY <1>1 DEF Settle, Dequeue
<1>4. settled' \in Seq(Update)
  BY <1>1, <1>2, AppendProperties DEF Settle
<1>5. metrics' \in Metrics
  BY <1>1 DEF Settle, Metrics
<1>6. \E e \in Event : opsQueue' = Append(opsQueue, [event |-> e, metrics |-> metrics'])
  BY DEF Settle, Event
<1>7. opsQueue' \in Seq([event : Event, metrics : Metrics])
  BY <1>1, <1>5, <1>6, AppendProperties
<1>8. inForce' \in Usable \cup {None} /\ revision' \in Nat
  BY <1>1 DEF Settle
<1> QED BY <1>2, <1>3, <1>4, <1>5, <1>7, <1>8

LEMMA ReloadTypesHold == ASSUME TypeOK, StagesTell, [Next]_vars PROVE ReloadTypeOK'
<1> USE DEF TypeOK
<1> USE Bounds
<1>1. ASSUME UNCHANGED <<fileVars, reloadVars, sessionVars, opsVars, reportVars, awaited>>
      PROVE  ReloadTypeOK'
  BY <1>1 DEF ReloadTypeOK, fileVars, reloadVars, sessionVars, opsVars, reportVars
<1>2. CASE Contain \/ NotContained \/ CheckArguments \/ OpenController \/ Spawn
  BY <1>1, <1>2 DEF Contain, NotContained, CheckArguments, OpenController, Spawn
<1>3. CASE ReadPolicy
  BY <1>3 DEF ReadPolicy, ReloadTypeOK, Content, fileVars, opsVars, reportVars
<1>4. CASE Assign \/ Ready \/ JobCloses \/ FlagChanges \/ ControllerStep
  BY <1>1, <1>4 DEF Assign, Ready, JobCloses, FlagChanges, ControllerStep, BeginRefresh,
                    EndRefresh, CloseController, ReturnExitCode
<1>5. CASE Finish
  <2>1. awaited' \in Nat
    BY <1>5 DEF Finish, ReloadTypeOK
  <2> QED
    BY <1>5, <2>1 DEF Finish, ReloadTypeOK, fileVars, sessionVars, opsVars, reportVars
<1>6. CASE Notice
  BY <1>6 DEF Notice, ReloadTypeOK, sessionVars, opsVars, reportVars
<1>7. CASE Reload
  <2>1. /\ queue' \in Seq(Update \cup {Frame}) /\ handed' \in Nat
        /\ lastAttempt' \in Content \cup {None} /\ readFailed' \in BOOLEAN
    BY <1>7, ReloadKeepsTypes
  <2> QED
    BY <1>7, <2>1 DEF Reload, ReloadTypeOK, fileVars, opsVars, reportVars
<1>8. CASE Report
  <2>1. settled' \in Seq(Update) /\ reports' \in Seq(Update)
    <3>1. settled \in Seq(Update) /\ settled # <<>> /\ reports \in Seq(Update)
      BY <1>8 DEF Report, ReloadTypeOK
    <3>2. Head(settled) \in Update /\ Tail(settled) \in Seq(Update)
      BY <3>1
    <3> QED BY <1>8, <3>1, <3>2, AppendProperties DEF Report
  <2> QED
    BY <1>8, <2>1 DEF Report, ReloadTypeOK, fileVars, reloadVars, sessionVars, opsVars
<1>9. CASE EndFrame
  <2>1. queue' \in Seq(Update \cup {Frame}) /\ awaited' \in Nat
    BY <1>9, QueueParts DEF EndFrame, Dequeue, ReloadTypeOK
  <2> QED
    BY <1>9, <2>1 DEF EndFrame, ReloadTypeOK, fileVars, reloadVars, opsVars, reportVars
<1>10. CASE Settle
  <2>1. /\ queue' \in Seq(Update \cup {Frame}) /\ awaited' \in Nat
        /\ settled' \in Seq(Update) /\ metrics' \in Metrics
        /\ opsQueue' \in Seq([event : Event, metrics : Metrics])
        /\ inForce' \in Usable \cup {None} /\ revision' \in Nat
    BY <1>10, SettleKeepsTypes
  <2> QED
    BY <1>10, <2>1 DEF Settle, ReloadTypeOK, fileVars, reloadVars
<1>11. CASE WriteOps \/ RecordStop
  <2>1. /\ opsQueue' \in Seq([event : Event, metrics : Metrics])
        /\ opsLog' \in Seq([event : Event, metrics : Metrics])
    <3> DEFINE E == [event : Event, metrics : Metrics]
    <3>1. opsQueue \in Seq(E) /\ opsLog \in Seq(E) /\ metrics \in Metrics
      BY DEF ReloadTypeOK
    <3>2. [event |-> "stop", metrics |-> metrics] \in E
      BY <3>1 DEF Event
    <3> HIDE DEF E
    <3>3. opsQueue # <<>> => Head(opsQueue) \in E /\ Tail(opsQueue) \in Seq(E)
      BY <3>1
    <3>4. opsQueue' \in Seq(E) /\ opsLog' \in Seq(E)
      <4>1. \A e \in E : Append(opsLog, e) \in Seq(E)
        BY <3>1, AppendProperties
      <4>2. CASE WriteOps
        BY <3>3, <4>1, <4>2 DEF WriteOps
      <4>3. CASE RecordStop
        BY <3>1, <3>2, <4>1, <4>3 DEF RecordStop
      <4> QED BY <1>11, <4>2, <4>3
    <3> QED BY <3>4 DEF E
  <2> QED
    BY <1>11, <2>1 DEF WriteOps, RecordStop, ReloadTypeOK, fileVars, reloadVars, sessionVars,
                       reportVars
<1>12. CASE Drained
  BY <1>1, <1>12 DEF Drained
<1>13. CASE Subscribe \/ WatcherFails
  <2>1. "watch_failed" \in Update
    BY DEF Update, Reason
  <2>2. queue' \in Seq(Update \cup {Frame}) /\ handed' \in Nat
    <3>1. CASE Emit("watch_failed")
      BY <2>1, <3>1, EmitTypes
    <3>2. CASE UNCHANGED <<queue, handed>>
      BY <3>2 DEF ReloadTypeOK
    <3> QED BY <1>13, <3>1, <3>2 DEF Subscribe, WatcherFails
  <2> QED
    BY <1>13, <2>2 DEF Subscribe, WatcherFails, ReloadTypeOK, fileVars, opsVars, reportVars
<1>14. CASE QueueFrame
  <2>1. queue' \in Seq(Update \cup {Frame}) /\ frames' \in 0..MaxFrames
    BY <1>14, AppendProperties DEF QueueFrame, ReloadTypeOK
  <2> QED
    BY <1>14, <2>1 DEF QueueFrame, ReloadTypeOK, fileVars, reloadVars, opsVars, reportVars
<1>15. CASE WriteFile
  BY <1>15 DEF WriteFile, ReloadTypeOK, reloadVars, sessionVars, opsVars, reportVars
<1>16. CASE UNCHANGED vars
  BY <1>1, <1>16 DEF vars
<1> QED
  BY <1>2, <1>3, <1>4, <1>5, <1>6, <1>7, <1>8, <1>9, <1>10, <1>11, <1>12, <1>13, <1>14, <1>15,
     <1>16
     DEF Next, EntryStep, ProxyEnds, ProxyStep, Proxy, ReloadStep, QueueStep, FinishStep

LEMMA RunTypesHold == ASSUME TypeOK, StagesTell, [Next]_vars PROVE RunTypeOK'
<1> USE DEF TypeOK, RunTypeOK
<1>1. ASSUME UNCHANGED cliOnlyVars, stage' \in Stage PROVE RunTypeOK'
  BY <1>1 DEF cliOnlyVars, entryVars, controlVars
<1>2. CASE EntryStep
  BY <1>2 DEF EntryStep, Contain, NotContained, CheckArguments, ReadPolicy, OpenController,
              Spawn, Return, Stage, controlVars
<1>3. CASE Assign \/ Ready \/ JobCloses
  BY <1>3 DEF Assign, Ready, JobCloses, Stage, controlVars
<1>4. CASE FlagChanges
  <2>1. flagChanges' \in 0..MaxFlagChanges /\ refreshes' \in 0..flagChanges'
    BY <1>4, Bounds DEF FlagChanges
  <2> QED BY <1>4, <2>1 DEF FlagChanges, entryVars
<1>5. CASE BeginRefresh \/ EndRefresh
  <2>1. refreshes' \in 0..flagChanges
    BY <1>5, Bounds DEF BeginRefresh, EndRefresh, StagesTell
  <2> QED BY <1>5, <2>1 DEF BeginRefresh, EndRefresh, entryVars
<1>6. CASE CloseController \/ ReturnExitCode
  BY <1>6 DEF CloseController, ReturnExitCode, Stage, entryVars, controlVars
<1>7. CASE ProxyEnds
  BY <1>7 DEF ProxyEnds, Finish, Stage, controlVars
<1>8. CASE ProxyStep \/ Proxy(Subscribe \/ WatcherFails) \/ Proxy(QueueFrame \/ WriteFile)
  <2>1. UNCHANGED cliOnlyVars
    BY <1>8 DEF ProxyStep, Proxy
  <2>2. stage' \in Stage
    BY <1>8 DEF ProxyStep, Proxy, ReloadStep, QueueStep, FinishStep, Subscribe, WatcherFails,
                QueueFrame, WriteFile, Notice, Reload, Report, EndFrame, Settle, WriteOps,
                Drained, RecordStop, Stage
  <2> QED BY <1>1, <2>1, <2>2
<1>9. CASE UNCHANGED vars
  BY <1>1, <1>9 DEF vars, cliOnlyVars
<1> QED
  BY <1>2, <1>3, <1>4, <1>5, <1>6, <1>7, <1>8, <1>9 DEF Next, ControllerStep

LEMMA TypesHold == ASSUME TypeOK, StagesTell, [Next]_vars PROVE TypeOK'
BY ReloadTypesHold, RunTypesHold DEF TypeOK

(***************************************************************************)
(* The stages.                                                              *)
(***************************************************************************)

LEMMA StagesHold == ASSUME TypeOK, StagesTell, [Next]_vars PROVE StagesTell'
<1> USE DEF StagesTell, BeforeProxy, AfterProxy
<1>1. CASE UNCHANGED vars
  BY <1>1 DEF vars, fileVars, reloadVars, sessionVars, opsVars, entryVars, controlVars
<1> SUFFICES ASSUME Next PROVE StagesTell'
  BY <1>1
<1>2. stage \notin {"returned", "killed"} /\ queue \in Seq(Update \cup {Frame}) /\ stage \in Stage
  BY DEF Next, Over, TypeOK, ReloadTypeOK, RunTypeOK
<1>3. CASE Contain \/ NotContained
  <2>1. /\ stage = "containment"
        /\ UNCHANGED <<watcher, debounce, noticed, queue, opsQueue, opsLog, awaited, upstream,
                       controller, refreshes, evaluating, platform>>
    BY <1>2, <1>3 DEF Contain, NotContained, fileVars, reloadVars, sessionVars, opsVars,
                      controlVars
  <2>2. \/ stage' = "arguments" /\ platform = "posix" /\ UNCHANGED containment
        \/ stage' = "containment"
        \/ stage' = "returned" /\ containment' # "waiting"
        \/ stage' = "killed" /\ containment' # "waiting"
    BY <1>3, <2>1 DEF Contain, NotContained, Return
  <2>3. CASE stage' = "arguments" /\ platform = "posix" /\ UNCHANGED containment
    <3>1. containment # "waiting"
      BY <1>3, <2>3 DEF Contain, NotContained, Return
    <3> QED BY <2>1, <2>3, <3>1
  <2>4. CASE stage' \in {"containment", "returned", "killed"}
    BY <2>1, <2>2, <2>4
  <2> QED BY <2>2, <2>3, <2>4
<1>4. CASE Assign
  BY <1>4 DEF Assign, fileVars, reloadVars, sessionVars, opsVars, controlVars
<1>5. CASE Ready
  <2>1. /\ stage = "containment" /\ stage' = "arguments" /\ helper' = "assigned"
        /\ containment' = "ready"
        /\ UNCHANGED <<watcher, debounce, noticed, queue, opsQueue, opsLog, awaited, upstream,
                       controller, refreshes, evaluating, platform>>
    BY <1>2, <1>5 DEF Ready, fileVars, reloadVars, sessionVars, opsVars, controlVars
  <2> QED BY <2>1
<1>6. CASE JobCloses
  <2>1. /\ stage' = "killed" /\ upstream' # "running"
        /\ UNCHANGED <<controller, refreshes, evaluating>>
    BY <1>6 DEF JobCloses, controlVars
  <2> QED BY <2>1
<1>7. CASE CheckArguments \/ ReadPolicy \/ OpenController
  <2>1. /\ stage \in {"arguments", "policy", "flags"}
        /\ UNCHANGED <<watcher, debounce, noticed, queue, opsQueue, opsLog, awaited, upstream,
                       refreshes, evaluating, platform, helper, containment>>
    BY <1>7 DEF CheckArguments, ReadPolicy, OpenController, fileVars, reloadVars, sessionVars,
                opsVars, controlVars
  <2>2. \/ stage' \in {"policy", "flags"} /\ UNCHANGED controller
        \/ stage' \in {"spawning", "returned"}
    BY <1>7 DEF CheckArguments, ReadPolicy, OpenController, Return, controlVars
  <2> QED BY <2>1, <2>2
<1>8. CASE Spawn
  <2>1. /\ stage = "spawning" /\ Len(queue) = 0
        /\ UNCHANGED <<watcher, debounce, noticed, queue, opsQueue, opsLog, awaited, controller,
                       refreshes, evaluating, platform, helper, containment>>
        /\ \/ stage' = "stopped" /\ exitCode' = 4 /\ UNCHANGED upstream
           \/ stage' \in {"subscribing", "running"}
    BY <1>8 DEF Spawn, fileVars, reloadVars, sessionVars, opsVars, controlVars
  <2> QED BY <2>1
<1>9. CASE FlagChanges \/ BeginRefresh \/ EndRefresh
  <2>1. /\ controller # "none" /\ UNCHANGED controller
        /\ evaluating' => refreshes' > 0
    BY <1>9 DEF FlagChanges, BeginRefresh, EndRefresh, TypeOK, RunTypeOK
  <2> QED
    BY <1>9, <2>1 DEF FlagChanges, BeginRefresh, EndRefresh, fileVars, reloadVars, sessionVars,
                      opsVars, entryVars
<1>10. CASE CloseController
  <2>1. /\ stage = "stopped" /\ stage' = "closing" /\ controller' # "open"
        /\ controller' = "none" => controller = "none"
    BY <1>10 DEF CloseController
  <2> QED
    BY <1>10, <2>1 DEF CloseController, fileVars, reloadVars, sessionVars, opsVars, entryVars
<1>11. CASE ReturnExitCode
  BY <1>11 DEF ReturnExitCode, fileVars, reloadVars, sessionVars, opsVars, entryVars,
               controlVars
<1>12. CASE ProxyEnds
  BY <1>12 DEF ProxyEnds, Finish, fileVars, sessionVars, opsVars, controlVars
<1>13. CASE Proxy(Notice \/ Reload \/ WatcherFails)
  BY <1>2, <1>13 DEF Proxy, Notice, Reload, WatcherFails, fileVars, opsVars, sessionVars,
                     cliOnlyVars, entryVars, controlVars
<1>14. CASE Proxy(Report)
  BY <1>14 DEF Proxy, Report, fileVars, reloadVars, sessionVars, opsVars, cliOnlyVars,
               entryVars, controlVars
<1>15. CASE Proxy(EndFrame \/ Settle)
  <2>1. /\ queue # <<>> /\ Len(queue') = Len(queue) - 1 /\ Len(queue) \in Nat \ {0}
        /\ awaited' = IF awaited > 0 THEN awaited - 1 ELSE 0
    BY <1>2, <1>15, QueueParts DEF Proxy, EndFrame, Settle, Dequeue
  <2>2. stage \notin BeforeProxy \cup {"stopping", "stopped", "closing"}
    BY <2>1
  <2> QED
    BY <1>15, <2>1, <2>2 DEF Proxy, EndFrame, Settle, fileVars, reloadVars, opsVars,
                             cliOnlyVars, entryVars, controlVars
<1>16. CASE Proxy(WriteOps)
  BY <1>16 DEF Proxy, WriteOps, fileVars, reloadVars, sessionVars, cliOnlyVars, entryVars,
               controlVars
<1>17. CASE Proxy(Drained)
  <2>1. queue = <<>>
    BY <1>2, <1>17 DEF Proxy, Drained
  <2> QED
    BY <1>17, <2>1 DEF Proxy, Drained, fileVars, reloadVars, sessionVars, opsVars, cliOnlyVars,
                       entryVars, controlVars
<1>18. CASE Proxy(RecordStop)
  BY <1>18 DEF Proxy, RecordStop, fileVars, reloadVars, sessionVars, opsVars, cliOnlyVars,
               entryVars, controlVars
<1>19. CASE Proxy(Subscribe)
  BY <1>19 DEF Proxy, Subscribe, fileVars, opsVars, cliOnlyVars, entryVars, controlVars
<1>20. CASE Proxy(QueueFrame)
  BY <1>20 DEF Proxy, QueueFrame, fileVars, reloadVars, opsVars, cliOnlyVars, entryVars,
               controlVars
<1>21. CASE Proxy(WriteFile)
  BY <1>21 DEF Proxy, WriteFile, reloadVars, sessionVars, opsVars, cliOnlyVars, entryVars,
               controlVars
<1> QED
  BY <1>3, <1>4, <1>5, <1>6, <1>7, <1>8, <1>9, <1>10, <1>11, <1>12, <1>13, <1>14, <1>15,
     <1>16, <1>17, <1>18, <1>19, <1>20, <1>21
     DEF Next, EntryStep, ControllerStep, ProxyStep, Proxy, ReloadStep, QueueStep, FinishStep

(***************************************************************************)
(* The last content that was tried.                                         *)
(***************************************************************************)

LEMMA NoUsableIsOther == Frame \notin Usable /\ Usable \cap Reason = {}
BY UpdateAssumption

\* It stands if what is queued after it would not replace it.
LEMMA QueuedAfterItStands ==
  ASSUME LastAttemptStands, queue \in Seq(Update \cup {Frame}), NEW u \in Update \cup {Frame},
         u \notin Usable, queue' = Append(queue, u), UNCHANGED <<lastAttempt, inForce>>,
         lastAttempt' \in Usable
  PROVE  \/ inForce' = lastAttempt' /\ \A i \in 1..Len(queue') : queue'[i] \notin Usable
         \/ \E i \in 1..Len(queue') :
              /\ queue'[i] = lastAttempt'
              /\ \A j \in i + 1..Len(queue') : queue'[j] \notin Usable
<1>1. /\ Len(queue') = Len(queue) + 1 /\ Len(queue) \in Nat
      /\ \A i \in 1..Len(queue) : queue'[i] = queue[i]
      /\ queue'[Len(queue) + 1] = u
  BY AppendProperties
<1>2. CASE inForce = lastAttempt /\ \A i \in 1..Len(queue) : queue[i] \notin Usable
  BY <1>1, <1>2
<1>3. ASSUME NEW i \in 1..Len(queue), queue[i] = lastAttempt,
             \A j \in i + 1..Len(queue) : queue[j] \notin Usable
      PROVE  \E k \in 1..Len(queue') :
               /\ queue'[k] = lastAttempt'
               /\ \A j \in k + 1..Len(queue') : queue'[j] \notin Usable
  <2>1. i \in 1..Len(queue') /\ queue'[i] = lastAttempt'
    BY <1>1, <1>3
  <2>2. ASSUME NEW j \in i + 1..Len(queue') PROVE queue'[j] \notin Usable
    <3>1. j = Len(queue) + 1 \/ j \in i + 1..Len(queue)
      BY <1>1
    <3> QED BY <1>1, <1>3, <3>1
  <2> QED BY <2>1, <2>2
<1> QED BY <1>2, <1>3 DEF LastAttemptStands

\* It stands when what leaves the queue has taken effect.
LEMMA HeadLeavesItStanding ==
  ASSUME LastAttemptStands, queue \in Seq(Update \cup {Frame}), queue # <<>>,
         queue' = Tail(queue), UNCHANGED lastAttempt, lastAttempt' \in Usable,
         inForce' = IF Head(queue) \in Usable THEN Head(queue) ELSE inForce
  PROVE  \/ inForce' = lastAttempt' /\ \A i \in 1..Len(queue') : queue'[i] \notin Usable
         \/ \E i \in 1..Len(queue') :
              /\ queue'[i] = lastAttempt'
              /\ \A j \in i + 1..Len(queue') : queue'[j] \notin Usable
<1>1. /\ Len(queue') = Len(queue) - 1 /\ Len(queue) \in Nat \ {0} /\ Head(queue) = queue[1]
      /\ \A i \in 1..Len(queue') : queue'[i] = queue[i + 1]
  BY QueueParts
<1>2. CASE inForce = lastAttempt /\ \A i \in 1..Len(queue) : queue[i] \notin Usable
  BY <1>1, <1>2
<1>3. ASSUME NEW i \in 1..Len(queue), queue[i] = lastAttempt,
             \A j \in i + 1..Len(queue) : queue[j] \notin Usable
      PROVE  \/ inForce' = lastAttempt' /\ \A k \in 1..Len(queue') : queue'[k] \notin Usable
             \/ \E k \in 1..Len(queue') :
                  /\ queue'[k] = lastAttempt'
                  /\ \A j \in k + 1..Len(queue') : queue'[j] \notin Usable
  <2>1. CASE i = 1
    <3>1. inForce' = lastAttempt'
      BY <1>1, <1>3, <2>1
    <3>2. ASSUME NEW k \in 1..Len(queue') PROVE queue'[k] \notin Usable
      BY <1>1, <1>3, <2>1
    <3> QED BY <3>1, <3>2
  <2>2. CASE i # 1
    <3>1. i - 1 \in 1..Len(queue') /\ queue'[i - 1] = lastAttempt'
      BY <1>1, <1>3, <2>2
    <3>2. ASSUME NEW j \in (i - 1) + 1..Len(queue') PROVE queue'[j] \notin Usable
      <4>1. j + 1 \in i + 1..Len(queue) /\ queue'[j] = queue[j + 1]
        BY <1>1, <2>2
      <4> QED BY <1>3, <4>1
    <3> QED BY <3>1, <3>2
  <2> QED BY <2>1, <2>2
<1> QED BY <1>2, <1>3 DEF LastAttemptStands

LEMMA FileIsTried ==
  ASSUME TypeOK, StagesTell, LastAttemptStands, [Next]_vars
  PROVE  (watcher = "watching" /\ ~noticed /\ ~debounce /\ file # None =>
            lastAttempt = file)'
<1> USE DEF LastAttemptStands
<1>1. CASE UNCHANGED <<watcher, noticed, debounce, file, lastAttempt>>
  BY <1>1
<1>2. CASE Subscribe \/ WatcherFails \/ Finish \/ WriteFile
  BY <1>2 DEF Subscribe, WatcherFails, Finish, WriteFile, fileVars, reloadVars
<1>3. CASE Notice
  BY <1>3 DEF Notice
<1>4. CASE Reload
  BY <1>4 DEF Reload, fileVars
<1>5. CASE ReadPolicy
  <2>1. watcher' = "none"
    BY <1>5 DEF ReadPolicy, StagesTell, BeforeProxy
  <2> QED BY <2>1
<1>6. ASSUME UNCHANGED <<fileVars, reloadVars>>
      PROVE  UNCHANGED <<watcher, noticed, debounce, file, lastAttempt>>
  BY <1>6 DEF fileVars, reloadVars
<1>7. CASE EntryStep /\ ~ReadPolicy
  BY <1>1, <1>6, <1>7 DEF EntryStep, Contain, NotContained, CheckArguments, OpenController, Spawn
<1>8. CASE Assign \/ Ready \/ JobCloses \/ FlagChanges \/ ControllerStep
  BY <1>1, <1>6, <1>8 DEF Assign, Ready, JobCloses, FlagChanges, ControllerStep, BeginRefresh,
                          EndRefresh, CloseController, ReturnExitCode
<1>9. CASE Report \/ QueueStep \/ FinishStep \/ QueueFrame
  BY <1>1, <1>6, <1>9 DEF Report, QueueStep, FinishStep, EndFrame, Settle, WriteOps, Drained,
                          RecordStop, QueueFrame
<1>10. CASE UNCHANGED vars
  BY <1>1, <1>6, <1>10 DEF vars
<1> QED
  BY <1>2, <1>3, <1>4, <1>5, <1>7, <1>8, <1>9, <1>10
     DEF Next, ProxyEnds, ProxyStep, Proxy, ReloadStep

LEMMA AttemptIsInForceOrQueued ==
  ASSUME TypeOK, StagesTell, LastAttemptStands, [Next]_vars, lastAttempt' \in Usable
  PROVE  \/ inForce' = lastAttempt' /\ \A i \in 1..Len(queue') : queue'[i] \notin Usable
         \/ \E i \in 1..Len(queue') :
              /\ queue'[i] = lastAttempt'
              /\ \A j \in i + 1..Len(queue') : queue'[j] \notin Usable
<1> DEFINE Goal ==
      \/ inForce' = lastAttempt' /\ \A i \in 1..Len(queue') : queue'[i] \notin Usable
      \/ \E i \in 1..Len(queue') :
           /\ queue'[i] = lastAttempt'
           /\ \A j \in i + 1..Len(queue') : queue'[j] \notin Usable
<1> SUFFICES Goal
  OBVIOUS
<1>1. /\ queue \in Seq(Update \cup {Frame}) /\ file \in Content \cup {None}
  BY DEF TypeOK, ReloadTypeOK
<1>2. CASE UNCHANGED <<lastAttempt, inForce, queue>>
  BY <1>2 DEF LastAttemptStands
<1>3. ASSUME NEW u \in Update \cup {Frame}, u \notin Usable, queue' = Append(queue, u),
             UNCHANGED <<lastAttempt, inForce>>
      PROVE  Goal
  BY <1>1, <1>3, QueuedAfterItStands
<1>4. ASSUME queue # <<>>, queue' = Tail(queue), UNCHANGED lastAttempt,
             inForce' = IF Head(queue) \in Usable THEN Head(queue) ELSE inForce
      PROVE  Goal
  BY <1>1, <1>4, HeadLeavesItStanding
<1>5. "watch_failed" \in Update /\ "read_failed" \in Update /\ "watch_failed" \notin Usable
      /\ "read_failed" \notin Usable /\ Frame \notin Usable
  BY NoUsableIsOther DEF Update, Reason
<1> HIDE DEF Goal
<1>6. CASE Subscribe \/ WatcherFails
  <2>1. CASE Emit("watch_failed")
    BY <1>3, <1>5, <1>6, <2>1 DEF Subscribe, WatcherFails, Emit
  <2>2. CASE UNCHANGED queue
    BY <1>2, <1>6, <2>2 DEF Subscribe, WatcherFails
  <2> QED BY <1>6, <2>1, <2>2 DEF Subscribe, WatcherFails
<1>7. CASE Reload
  <2>1. UNCHANGED inForce
    BY <1>7 DEF Reload
  <2>2. CASE file = None
    <3>1. UNCHANGED lastAttempt
      BY <1>7, <2>2 DEF Reload
    <3>2. CASE UNCHANGED queue
      BY <1>2, <2>1, <3>1, <3>2
    <3>3. CASE Emit("read_failed")
      BY <1>3, <1>5, <2>1, <3>1, <3>3 DEF Emit
    <3> QED BY <1>7, <2>2, <3>2, <3>3 DEF Reload
  <2>3. CASE file # None /\ file = lastAttempt
    BY <1>2, <1>7, <2>1, <2>3 DEF Reload
  <2>4. CASE file # None /\ file # lastAttempt
    <3>1. file \in Content /\ lastAttempt' = file /\ file \in Usable
          /\ queue' = Append(queue, Verdict(file))
      BY <1>1, <1>7, <2>4 DEF Reload, Emit
    <3>2. Verdict(file) = file /\ file \in Update
      BY <3>1, VerdictIsUpdate
    <3>3. Len(queue') = Len(queue) + 1 /\ Len(queue) \in Nat
          /\ queue'[Len(queue) + 1] = lastAttempt'
      BY <1>1, <3>1, <3>2, AppendProperties
    <3>4. /\ Len(queue) + 1 \in 1..Len(queue')
          /\ \A j \in (Len(queue) + 1) + 1..Len(queue') : queue'[j] \notin Usable
      BY <3>3
    <3> QED BY <3>3, <3>4 DEF Goal
  <2> QED BY <2>2, <2>3, <2>4
<1>8. CASE QueueFrame
  BY <1>3, <1>5, <1>8 DEF QueueFrame, reloadVars
<1>9. CASE EndFrame \/ Settle
  <2>1. queue # <<>> /\ queue' = Tail(queue) /\ UNCHANGED lastAttempt
    BY <1>9 DEF EndFrame, Settle, Dequeue, reloadVars
  <2>2. inForce' = IF Head(queue) \in Usable THEN Head(queue) ELSE inForce
    BY <1>9, NoUsableIsOther DEF EndFrame, Settle
  <2> QED BY <1>4, <2>1, <2>2
<1>10. CASE ReadPolicy
  <2>1. queue = <<>> /\ queue' = <<>> /\ Len(queue') = 0
    BY <1>10 DEF ReadPolicy, StagesTell, BeforeProxy
  <2>2. UNCHANGED <<lastAttempt, inForce>> \/ inForce' = lastAttempt'
    BY <1>10 DEF ReadPolicy
  <2>3. CASE UNCHANGED <<lastAttempt, inForce>>
    BY <1>2, <2>1, <2>3
  <2>4. CASE inForce' = lastAttempt'
    BY <2>1, <2>4 DEF Goal
  <2> QED BY <2>2, <2>3, <2>4
<1>11. ASSUME UNCHANGED <<reloadVars, sessionVars>>
       PROVE  UNCHANGED <<lastAttempt, inForce, queue>>
  BY <1>11 DEF reloadVars, sessionVars
<1>12. CASE EntryStep /\ ~ReadPolicy
  BY <1>2, <1>11, <1>12 DEF EntryStep, Contain, NotContained, CheckArguments, OpenController,
                            Spawn
<1>13. CASE Assign \/ Ready \/ JobCloses \/ FlagChanges \/ ControllerStep
  BY <1>2, <1>11, <1>13 DEF Assign, Ready, JobCloses, FlagChanges, ControllerStep, BeginRefresh,
                            EndRefresh, CloseController, ReturnExitCode
<1>14. CASE Report \/ WriteOps \/ FinishStep
  BY <1>2, <1>11, <1>14 DEF Report, WriteOps, FinishStep, Drained, RecordStop
<1>15. CASE Notice \/ Finish \/ WriteFile
  BY <1>2, <1>15 DEF Notice, Finish, WriteFile, reloadVars, sessionVars
<1>16. CASE UNCHANGED vars
  BY <1>2, <1>16 DEF vars, reloadVars, sessionVars
<1> QED
  BY <1>6, <1>7, <1>8, <1>9, <1>10, <1>12, <1>13, <1>14, <1>15, <1>16
     DEF Next, ProxyEnds, ProxyStep, Proxy, ReloadStep, QueueStep

LEMMA AttemptHolds ==
  ASSUME TypeOK, StagesTell, LastAttemptStands, [Next]_vars
  PROVE  LastAttemptStands'
BY FileIsTried, AttemptIsInForceOrQueued DEF LastAttemptStands

(***************************************************************************)
(* The updates, their counters and their events.                            *)
(***************************************************************************)

LEMMA NoUpdateIsAFrame == Frame \notin Update /\ Frame \notin Reason
BY UpdateAssumption DEF Frame, Update, Reason

LEMMA TotalsAreNatural ==
  ASSUME TypeOK
  PROVE  /\ Total(metrics) \in Nat /\ handed \in Nat
         /\ Len(opsLog) \in Nat /\ Len(opsQueue) \in Nat
         /\ opsLog \in Seq([event : Event, metrics : Metrics])
         /\ opsQueue \in Seq([event : Event, metrics : Metrics])
         /\ queue \in Seq(Update \cup {Frame})
BY DEF TypeOK, ReloadTypeOK, Total, Metrics

LEMMA NotStopped ==
  ASSUME UpdatesAreCounted,
         stage \notin Ending \/ queue # <<>> \/ opsQueue # <<>> \/ opsLog = <<>>
  PROVE  ~Stopped
BY DEF UpdatesAreCounted, Ending, Stopped

\* Without an update nothing changes.
LEMMA NothingCounted ==
  ASSUME UpdatesAreCounted, UNCHANGED <<handed, metrics, queue, opsQueue, opsLog>>,
         Stopped => stage' \in Ending
  PROVE  UpdatesAreCounted'
<1>1. UNCHANGED <<Cardinality(Waiting), Total(metrics), Stopped>>
  BY DEF Waiting, Total, Stopped
<1> QED BY <1>1 DEF UpdatesAreCounted, Ending, Counted, Total

\* An update that is queued waits; a frame does not count.
LEMMA QueuedIsCounted ==
  ASSUME TypeOK, UpdatesAreCounted, ~Stopped, NEW u \in Update \cup {Frame},
         queue' = Append(queue, u),
         handed' = IF u = Frame THEN handed ELSE handed + 1,
         UNCHANGED <<metrics, opsQueue, opsLog>>
  PROVE  UpdatesAreCounted'
<1>1. Cardinality(Waiting') =
        IF u = Frame THEN Cardinality(Waiting) ELSE Cardinality(Waiting) + 1
  BY TotalsAreNatural, WaitingGrows
<1>2. Cardinality(Waiting) \in Nat
  BY TotalsAreNatural, WaitingIsFinite
<1>3. UNCHANGED <<Total(metrics), Stopped>>
  BY DEF Total, Stopped
<1>4. handed = Total(metrics) + Cardinality(Waiting)
  BY DEF UpdatesAreCounted
<1>5. handed' = Total(metrics') + Cardinality(Waiting')
  BY <1>1, <1>2, <1>3, <1>4, TotalsAreNatural
<1> QED BY <1>3, <1>5 DEF UpdatesAreCounted, Counted, Total

LEMMA FrameEndsUncounted ==
  ASSUME TypeOK, UpdatesAreCounted, EndFrame
  PROVE  UpdatesAreCounted'
<1>1. queue # <<>> /\ queue' = Tail(queue) /\ Head(queue) = Frame
      /\ UNCHANGED <<handed, metrics, opsQueue, opsLog>>
  BY DEF EndFrame, Dequeue, reloadVars, opsVars
<1>2. Cardinality(Waiting') = Cardinality(Waiting)
  BY <1>1, TotalsAreNatural, WaitingShrinks
<1>3. ~Stopped
  BY <1>1, NotStopped
<1>4. UNCHANGED <<Total(metrics), Stopped>>
  BY <1>1 DEF Total, Stopped
<1> QED BY <1>1, <1>2, <1>3, <1>4 DEF UpdatesAreCounted, Counted, Total

\* An update that takes effect is counted once, and its event tells the counters.
LEMMA SettledIsCounted ==
  ASSUME TypeOK, UpdatesAreCounted, Settle
  PROVE  UpdatesAreCounted'
<1> DEFINE E == [event : Event, metrics : Metrics]
<1>1. queue # <<>> /\ queue' = Tail(queue) /\ Head(queue) # Frame
      /\ UNCHANGED <<handed, opsLog>>
  BY DEF Settle, Dequeue, reloadVars
<1>2. Cardinality(Waiting) = Cardinality(Waiting') + 1
  BY <1>1, TotalsAreNatural, WaitingShrinks
<1>3. Cardinality(Waiting') \in Nat
  <2>1. queue' \in Seq(Update \cup {Frame})
    BY <1>1, TotalsAreNatural, QueueParts
  <2>2. Waiting' \in SUBSET (1..Len(queue')) /\ Len(queue') \in Nat
    BY <2>1 DEF Waiting
  <2>3. IsFiniteSet(1..Len(queue'))
    BY <2>2, FS_Interval
  <2> QED BY <2>2, <2>3, FS_Subset, FS_CardinalityType
<1>4. ~Stopped /\ Stopped' = Stopped
  BY <1>1, NotStopped DEF Stopped
<1>5. metrics \in Metrics
  BY DEF TypeOK, ReloadTypeOK
<1>6. metrics' \in Metrics /\ Total(metrics') = Total(metrics) + 1
  <2>1. /\ metrics.applied \in Nat /\ metrics.rejected \in Nat
        /\ metrics = [applied |-> metrics.applied, rejected |-> metrics.rejected]
    BY <1>5 DEF Metrics
  <2>2. \/ metrics' = [applied |-> metrics.applied + 1, rejected |-> metrics.rejected]
        \/ metrics' = [applied |-> metrics.applied, rejected |-> metrics.rejected + 1]
    BY <2>1 DEF Settle
  <2>3. CASE metrics' = [applied |-> metrics.applied + 1, rejected |-> metrics.rejected]
    BY <2>1, <2>3 DEF Metrics, Total
  <2>4. CASE metrics' = [applied |-> metrics.applied, rejected |-> metrics.rejected + 1]
    BY <2>1, <2>4 DEF Metrics, Total
  <2> QED BY <2>2, <2>3, <2>4
<1>7. PICK e \in {"applied", "rejected"} :
        opsQueue' = Append(opsQueue, [event |-> e, metrics |-> metrics'])
  BY DEF Settle
<1>8. opsQueue \in Seq(E) /\ [event |-> e, metrics |-> metrics'] \in E
      /\ Len(opsLog) \in Nat /\ Len(opsQueue) \in Nat
  BY <1>6, TotalsAreNatural DEF Event
<1>9. /\ Len(opsQueue') = Len(opsQueue) + 1
      /\ \A i \in 1..Len(opsQueue) : opsQueue'[i] = opsQueue[i]
      /\ opsQueue'[Len(opsQueue) + 1] = [event |-> e, metrics |-> metrics']
  BY <1>7, <1>8, AppendProperties
<1>10. /\ handed = Total(metrics) + Cardinality(Waiting)
       /\ Total(metrics) = Len(opsLog) + Len(opsQueue)
       /\ \A i \in 1..Len(opsLog) :
            IF opsLog[i].event = "stop" THEN i = Len(opsLog) ELSE Counted(i) = i
       /\ \A i \in 1..Len(opsQueue) :
            opsQueue[i].event # "stop" /\ Total(opsQueue[i].metrics) = Len(opsLog) + i
  BY <1>4 DEF UpdatesAreCounted
<1>11. handed' = Total(metrics') + Cardinality(Waiting')
  BY <1>1, <1>2, <1>3, <1>6, <1>10, TotalsAreNatural
<1>12. Total(metrics') = Len(opsLog') + Len(opsQueue')
  BY <1>1, <1>6, <1>8, <1>9, <1>10
<1>13. ASSUME NEW i \in 1..Len(opsQueue')
       PROVE  opsQueue'[i].event # "stop" /\ Total(opsQueue'[i].metrics) = Len(opsLog') + i
  <2>1. CASE i = Len(opsQueue) + 1
    <3>1. opsQueue'[i].event = e /\ opsQueue'[i].metrics = metrics'
      BY <1>9, <2>1
    <3> QED BY <1>1, <1>7, <1>9, <1>12, <2>1, <3>1
  <2>2. CASE i # Len(opsQueue) + 1
    <3>1. i \in 1..Len(opsQueue)
      BY <1>8, <1>9, <2>2
    <3> QED BY <1>1, <1>9, <1>10, <3>1
  <2> QED BY <2>1, <2>2
<1>14. \A i \in 1..Len(opsLog') :
         IF opsLog'[i].event = "stop" THEN i = Len(opsLog')
         ELSE opsLog'[i].metrics.applied + opsLog'[i].metrics.rejected = i
  BY <1>1, <1>10 DEF Counted
<1> QED BY <1>4, <1>11, <1>12, <1>13, <1>14 DEF UpdatesAreCounted, Counted, Total

\* The event that is written is the next to be told.
LEMMA WrittenIsCounted ==
  ASSUME TypeOK, UpdatesAreCounted, WriteOps
  PROVE  UpdatesAreCounted'
<1> DEFINE E == [event : Event, metrics : Metrics]
<1>1. opsQueue # <<>> /\ opsQueue' = Tail(opsQueue) /\ opsLog' = Append(opsLog, Head(opsQueue))
      /\ UNCHANGED <<handed, metrics, queue>>
  BY DEF WriteOps, reloadVars, sessionVars
<1>2. opsQueue \in Seq(E) /\ opsLog \in Seq(E)
      /\ Len(opsLog) \in Nat /\ Len(opsQueue) \in Nat
  BY TotalsAreNatural
<1> HIDE DEF E
<1>3. /\ Head(opsQueue) \in E /\ Head(opsQueue) = opsQueue[1] /\ Len(opsQueue) \in Nat \ {0}
      /\ Len(opsQueue') = Len(opsQueue) - 1
      /\ \A i \in 1..Len(opsQueue') : opsQueue'[i] = opsQueue[i + 1]
  BY <1>1, <1>2
<1>4. /\ Len(opsLog') = Len(opsLog) + 1
      /\ \A i \in 1..Len(opsLog) : opsLog'[i] = opsLog[i]
      /\ opsLog'[Len(opsLog) + 1] = Head(opsQueue)
  BY <1>1, <1>2, <1>3, AppendProperties
<1>5. ~Stopped
  BY <1>1, NotStopped
<1>6. /\ handed = Total(metrics) + Cardinality(Waiting)
      /\ Total(metrics) = Len(opsLog) + Len(opsQueue)
      /\ \A i \in 1..Len(opsLog) :
           IF opsLog[i].event = "stop" THEN i = Len(opsLog) ELSE Counted(i) = i
      /\ \A i \in 1..Len(opsQueue) :
           opsQueue[i].event # "stop" /\ Total(opsQueue[i].metrics) = Len(opsLog) + i
  BY <1>5 DEF UpdatesAreCounted
<1>7. opsQueue[1].event # "stop" /\ Total(opsQueue[1].metrics) = Len(opsLog) + 1
  BY <1>3, <1>6
<1>8. ~Stopped'
  <2>1. opsLog'[Len(opsLog')].event # "stop"
    BY <1>3, <1>4, <1>7
  <2> QED BY <2>1 DEF Stopped
<1>9. handed' = Total(metrics') + Cardinality(Waiting')
  <2>1. Waiting' = Waiting
    BY <1>1 DEF Waiting
  <2> QED BY <1>1, <1>6, <2>1
<1>10. Total(metrics') = Len(opsLog') + Len(opsQueue')
  BY <1>1, <1>2, <1>3, <1>4, <1>6
<1>11. ASSUME NEW i \in 1..Len(opsQueue')
       PROVE  opsQueue'[i].event # "stop" /\ Total(opsQueue'[i].metrics) = Len(opsLog') + i
  <2>1. i + 1 \in 1..Len(opsQueue) /\ opsQueue'[i] = opsQueue[i + 1]
    BY <1>3, <1>11
  <2>2. Total(opsQueue[i + 1].metrics) = Len(opsLog) + (i + 1)
    BY <1>6, <2>1
  <2>3. Len(opsLog) + (i + 1) = Len(opsLog') + i
    BY <1>2, <1>3, <1>4
  <2> QED BY <1>6, <2>1, <2>2, <2>3
<1>12. ASSUME NEW i \in 1..Len(opsLog')
       PROVE  IF opsLog'[i].event = "stop" THEN i = Len(opsLog')
              ELSE opsLog'[i].metrics.applied + opsLog'[i].metrics.rejected = i
  <2>1. CASE i = Len(opsLog) + 1
    BY <1>3, <1>4, <1>7, <2>1 DEF Total
  <2>2. CASE i # Len(opsLog) + 1
    <3>1. i \in 1..Len(opsLog) /\ i # 0 /\ opsLog'[i] = opsLog[i]
      BY <1>2, <1>4, <2>2
    <3>2. opsLog[i].event # "stop"
      <4>1. opsLog[i].event = "stop" => i = Len(opsLog)
        BY <1>6, <3>1
      <4>2. opsLog # <<>>
        BY <1>2, <3>1
      <4> QED BY <1>5, <4>1, <4>2 DEF Stopped
    <3> QED BY <1>6, <3>1, <3>2 DEF Counted
  <2> QED BY <2>1, <2>2
<1> QED BY <1>8, <1>9, <1>10, <1>11, <1>12 DEF UpdatesAreCounted, Counted, Total

\* The stop event comes last and counts every update.
LEMMA StopCountsAll ==
  ASSUME TypeOK, StagesTell, UpdatesAreCounted, RecordStop
  PROVE  UpdatesAreCounted'
<1> DEFINE E == [event : Event, metrics : Metrics]
           stop == [event |-> "stop", metrics |-> metrics]
<1>1. /\ stage = "stopping" /\ stage' = "stopped" /\ opsLog' = Append(opsLog, stop)
      /\ queue = <<>> /\ opsQueue = <<>>
      /\ UNCHANGED <<handed, metrics, queue, opsQueue>>
  BY DEF RecordStop, StagesTell, reloadVars, sessionVars
<1>2. opsLog \in Seq(E) /\ stop \in E /\ Len(opsLog) \in Nat
  BY TotalsAreNatural DEF Event, TypeOK, ReloadTypeOK
<1>3. stop.event = "stop" /\ stop.metrics = metrics
  OBVIOUS
<1> HIDE DEF E, stop
<1>4. /\ Len(opsLog') = Len(opsLog) + 1
      /\ \A i \in 1..Len(opsLog) : opsLog'[i] = opsLog[i]
      /\ opsLog'[Len(opsLog) + 1] = stop
  BY <1>1, <1>2, AppendProperties
<1>5. ~Stopped
  BY <1>1, NotStopped DEF Ending
<1>6. /\ handed = Total(metrics) + Cardinality(Waiting)
      /\ \A i \in 1..Len(opsLog) :
           IF opsLog[i].event = "stop" THEN i = Len(opsLog) ELSE Counted(i) = i
  BY <1>5 DEF UpdatesAreCounted
<1>7. Waiting = {} /\ Waiting' = {} /\ Cardinality(Waiting) = 0 /\ Len(opsQueue') = 0
  <2>1. Len(queue) = 0 /\ Len(queue') = 0 /\ Len(opsQueue') = 0
    BY <1>1
  <2> QED BY <2>1, FS_EmptySet DEF Waiting
<1>8. handed = Total(metrics) /\ handed' = Total(metrics') + Cardinality(Waiting')
  BY <1>1, <1>6, <1>7, TotalsAreNatural
<1>9. Total(opsLog'[Len(opsLog')].metrics) = handed'
  BY <1>1, <1>3, <1>4, <1>8
<1>10. Stopped'
  <2>1. opsLog' # <<>> /\ opsLog'[Len(opsLog')].event = "stop"
    <3>1. opsLog' # <<>>
      BY <1>1, <1>2, AppendProperties
    <3> QED BY <1>3, <1>4, <3>1
  <2> QED BY <2>1 DEF Stopped
<1>11. ASSUME NEW i \in 1..Len(opsLog')
       PROVE  IF opsLog'[i].event = "stop" THEN i = Len(opsLog')
              ELSE opsLog'[i].metrics.applied + opsLog'[i].metrics.rejected = i
  <2>1. CASE i = Len(opsLog) + 1
    BY <1>3, <1>4, <2>1
  <2>2. CASE i # Len(opsLog) + 1
    <3>1. i \in 1..Len(opsLog) /\ i # 0 /\ opsLog'[i] = opsLog[i]
      BY <1>2, <1>4, <2>2
    <3>2. opsLog[i].event # "stop"
      <4>1. opsLog[i].event = "stop" => i = Len(opsLog)
        BY <1>6, <3>1
      <4>2. opsLog # <<>>
        BY <1>2, <3>1
      <4> QED BY <1>5, <4>1, <4>2 DEF Stopped
    <3> QED BY <1>6, <3>1, <3>2 DEF Counted
  <2> QED BY <2>1, <2>2
<1> QED
  BY <1>1, <1>7, <1>8, <1>9, <1>10, <1>11 DEF UpdatesAreCounted, Counted, Total, Ending

LEMMA CountsHold ==
  ASSUME TypeOK, StagesTell, UpdatesAreCounted, [Next]_vars
  PROVE  UpdatesAreCounted'
<1> DEFINE same == UNCHANGED <<handed, metrics, queue, opsQueue, opsLog>>
<1>1. ASSUME UNCHANGED <<reloadVars, sessionVars, opsVars>> PROVE same
  BY <1>1 DEF reloadVars, sessionVars, opsVars
<1>2. Stopped => stage \in Ending
  BY DEF UpdatesAreCounted
<1>3. /\ Frame \in Update \cup {Frame} /\ file \in Content \cup {None} /\ stage \in Stage
      /\ "watch_failed" \in Update /\ "read_failed" \in Update
  BY DEF TypeOK, ReloadTypeOK, RunTypeOK, Update, Reason
<1>4. CASE UNCHANGED vars
  <2>1. same /\ stage' = stage
    BY <1>1, <1>4 DEF vars
  <2> QED BY <1>2, <2>1, NothingCounted
<1> SUFFICES ASSUME Next PROVE UpdatesAreCounted'
  BY <1>4
<1>5. stage \notin {"returned", "killed"}
  BY DEF Next, Over
<1>6. watcher = "watching" \/ debounce \/ stage \in BeforeProxy => stage \notin Ending
  BY <1>3, <1>5 DEF StagesTell, Stage, BeforeProxy, AfterProxy, Ending
<1>7. ASSUME NEW u \in Update, Emit(u), UNCHANGED <<metrics, opsVars>>, stage \notin Ending
      PROVE  UpdatesAreCounted'
  <2>1. queue' = Append(queue, u) /\ handed' = handed + 1
        /\ UNCHANGED <<metrics, opsQueue, opsLog>>
    BY <1>7 DEF Emit, opsVars
  <2>2. ~Stopped /\ u # Frame
    BY <1>2, <1>7, NoUpdateIsAFrame
  <2> QED BY <1>7, <2>1, <2>2, QueuedIsCounted
<1>8. CASE EntryStep
  <2>1. same
    BY <1>8 DEF EntryStep, Contain, NotContained, CheckArguments, ReadPolicy, OpenController,
                Spawn, reloadVars, sessionVars, opsVars
  <2>2. stage \in BeforeProxy \/ containment = "waiting"
    BY <1>8 DEF EntryStep, Contain, NotContained, CheckArguments, ReadPolicy, OpenController,
                Spawn, BeforeProxy
  <2>3. ~Stopped
    BY <1>2, <1>5, <1>6, <2>2 DEF StagesTell, BeforeProxy
  <2> QED BY <2>1, <2>3, NothingCounted
<1>9. CASE Assign \/ FlagChanges \/ BeginRefresh \/ EndRefresh
  <2>1. same /\ stage' = stage
    BY <1>1, <1>9 DEF Assign, FlagChanges, BeginRefresh, EndRefresh
  <2> QED BY <1>2, <2>1, NothingCounted
<1>10. CASE Ready
  <2>1. same /\ stage = "containment"
    BY <1>1, <1>5, <1>10 DEF Ready, StagesTell
  <2>2. ~Stopped
    BY <1>2, <2>1 DEF Ending
  <2> QED BY <2>1, <2>2, NothingCounted
<1>11. CASE JobCloses \/ CloseController \/ ReturnExitCode
  <2>1. same /\ stage' \in Ending
    BY <1>1, <1>11 DEF JobCloses, CloseController, ReturnExitCode, Ending
  <2> QED BY <2>1, NothingCounted
<1>12. CASE Finish
  <2>1. same /\ ~Stopped
    BY <1>2, <1>12 DEF Finish, sessionVars, opsVars, Ending
  <2> QED BY <2>1, NothingCounted
<1>13. CASE Notice \/ Report \/ WriteFile
  <2>1. same /\ stage' = stage
    BY <1>13 DEF Notice, Report, WriteFile, reloadVars, sessionVars, opsVars
  <2> QED BY <1>2, <2>1, NothingCounted
<1>14. CASE Drained
  <2>1. same /\ stage = "draining"
    BY <1>1, <1>14 DEF Drained
  <2>2. ~Stopped
    BY <1>2, <2>1 DEF Ending
  <2> QED BY <2>1, <2>2, NothingCounted
<1>15. CASE Subscribe
  <2>1. stage \notin Ending /\ UNCHANGED <<metrics, opsVars>>
    BY <1>15 DEF Subscribe, Ending
  <2>2. CASE Emit("watch_failed")
    BY <1>3, <1>7, <2>1, <2>2
  <2>3. CASE UNCHANGED <<queue, handed>>
    <3>1. same /\ ~Stopped
      BY <1>2, <2>1, <2>3 DEF opsVars
    <3> QED BY <3>1, NothingCounted
  <2> QED BY <1>15, <2>2, <2>3 DEF Subscribe
<1>16. CASE WatcherFails
  <2>1. stage \notin Ending /\ UNCHANGED <<metrics, opsVars>> /\ Emit("watch_failed")
    BY <1>6, <1>16 DEF WatcherFails
  <2> QED BY <1>3, <1>7, <2>1
<1>17. CASE Reload
  <2>1. stage \notin Ending /\ UNCHANGED <<metrics, opsVars>>
    BY <1>6, <1>17 DEF Reload
  <2>2. UNCHANGED <<queue, handed>> \/ \E u \in Update : Emit(u)
    <3>1. CASE file = None
      BY <1>3, <1>17, <3>1 DEF Reload
    <3>2. CASE file # None
      BY <1>3, <1>17, <3>2, VerdictIsUpdate DEF Reload
    <3> QED BY <3>1, <3>2
  <2>3. CASE UNCHANGED <<queue, handed>>
    <3>1. same /\ ~Stopped
      BY <1>2, <2>1, <2>3 DEF opsVars
    <3> QED BY <3>1, NothingCounted
  <2> QED BY <1>7, <2>1, <2>2, <2>3
<1>18. CASE QueueFrame
  <2>1. /\ stage \notin Ending /\ queue' = Append(queue, Frame)
        /\ UNCHANGED <<handed, metrics, opsQueue, opsLog>>
    BY <1>18 DEF QueueFrame, reloadVars, opsVars, Ending
  <2> QED BY <1>2, <1>3, <2>1, QueuedIsCounted
<1>19. CASE EndFrame \/ Settle \/ WriteOps \/ RecordStop
  BY <1>19, FrameEndsUncounted, SettledIsCounted, WrittenIsCounted, StopCountsAll
<1> QED
  BY <1>8, <1>9, <1>10, <1>11, <1>12, <1>13, <1>14, <1>15, <1>16, <1>17, <1>18, <1>19
     DEF Next, ControllerStep, ProxyEnds, ProxyStep, Proxy, ReloadStep, QueueStep, FinishStep

(***************************************************************************)
(* The reports.                                                             *)
(***************************************************************************)

LEMMA AppliedIsFinite ==
  ASSUME NEW updates \in Seq(Update)
  PROVE  IsFiniteSet(Applied(updates)) /\ Cardinality(Applied(updates)) \in Nat
<1>1. Len(updates) \in Nat /\ Applied(updates) \in SUBSET (1..Len(updates))
  BY DEF Applied
<1>2. IsFiniteSet(1..Len(updates))
  BY <1>1, FS_Interval
<1> QED BY <1>1, <1>2, FS_Subset, FS_CardinalityType

\* An update more counts if it replaces the policy.
LEMMA AppliedGrows ==
  ASSUME NEW updates \in Seq(Update), NEW u \in Update
  PROVE  Cardinality(Applied(Append(updates, u))) =
           IF u \in Usable THEN Cardinality(Applied(updates)) + 1
           ELSE Cardinality(Applied(updates))
<1> DEFINE more == Append(updates, u)
<1>1. /\ Len(more) = Len(updates) + 1 /\ Len(updates) \in Nat /\ more \in Seq(Update)
      /\ \A i \in 1..Len(updates) : more[i] = updates[i]
      /\ more[Len(updates) + 1] = u
  BY AppendProperties
<1> HIDE DEF more
<1>2. DOMAIN more = 1..Len(more) /\ DOMAIN updates = 1..Len(updates)
  BY <1>1
<1>3. CASE u \in Usable
  <2>1. Applied(more) = Applied(updates) \cup {Len(updates) + 1}
    BY <1>1, <1>2, <1>3 DEF Applied
  <2>2. Len(updates) + 1 \notin Applied(updates)
    BY <1>1, <1>2 DEF Applied
  <2> QED BY <1>3, <2>1, <2>2, AppliedIsFinite, FS_AddElement DEF more
<1>4. CASE u \notin Usable
  <2>1. Applied(more) = Applied(updates)
    BY <1>1, <1>2, <1>4 DEF Applied
  <2> QED BY <1>4, <2>1 DEF more
<1> QED BY <1>3, <1>4

\* And the first counts no longer when it goes.
LEMMA AppliedShrinks ==
  ASSUME NEW updates \in Seq(Update), updates # <<>>
  PROVE  Cardinality(Applied(updates)) =
           IF Head(updates) \in Usable THEN Cardinality(Applied(Tail(updates))) + 1
           ELSE Cardinality(Applied(Tail(updates)))
<1> DEFINE rest == Tail(updates)
<1>1. /\ Len(rest) = Len(updates) - 1 /\ Len(updates) \in Nat \ {0} /\ Head(updates) = updates[1]
      /\ \A i \in 1..Len(rest) : rest[i] = updates[i + 1]
      /\ rest \in Seq(Update)
  OBVIOUS
<1> HIDE DEF rest
<1>2. DOMAIN rest = 1..Len(rest) /\ DOMAIN updates = 1..Len(updates)
  BY <1>1
<1> DEFINE Later == Applied(updates) \ {1}
           shift == [i \in Applied(rest) |-> i + 1]
<1>3. /\ \A i \in Applied(rest) : i \in 1..Len(rest) /\ i + 1 \in Later
      /\ \A j \in Later : j \in 2..Len(updates) /\ j - 1 \in Applied(rest)
  BY <1>1, <1>2 DEF Applied
<1>4. /\ shift \in [Applied(rest) -> Later]
      /\ \A a, b \in Applied(rest) : shift[a] = shift[b] => a = b
  BY <1>3
<1>5. \A j \in Later : \E i \in Applied(rest) : shift[i] = j
  <2> TAKE j \in Later
  <2>1. j - 1 \in Applied(rest) /\ j \in 2..Len(updates)
    BY <1>3
  <2>2. shift[j - 1] = j
    BY <2>1
  <2> QED BY <2>1, <2>2
<1>6. ExistsBijection(Applied(rest), Later)
  <2> HIDE DEF shift
  <2>1. shift \in Bijection(Applied(rest), Later)
    BY <1>4, <1>5, Fun_IsBij
  <2> QED BY <2>1 DEF ExistsBijection
<1>7. Cardinality(Later) = Cardinality(Applied(rest)) /\ Cardinality(Applied(rest)) \in Nat
  BY <1>1, <1>6, AppliedIsFinite, FS_Bijection
<1>8. 1 \in Applied(updates) <=> Head(updates) \in Usable
  BY <1>1, <1>2 DEF Applied
<1>9. /\ Cardinality(Applied(updates)) \in Nat
      /\ Cardinality(Later) =
           IF 1 \in Applied(updates) THEN Cardinality(Applied(updates)) - 1
           ELSE Cardinality(Applied(updates))
  BY AppliedIsFinite, FS_RemoveElement
<1> HIDE DEF Later
<1> QED BY <1>7, <1>8, <1>9 DEF rest

LEMMA SettledIsCommitted ==
  ASSUME TypeOK, CommitsComeFirst, Settle
  PROVE  CommitsComeFirst'
<1> DEFINE update == Head(queue)
<1>1. /\ queue \in Seq(Update \cup {Frame}) /\ queue # <<>> /\ update # Frame
      /\ settled \in Seq(Update) /\ reports \in Seq(Update) /\ revision \in Nat
  BY DEF Settle, TypeOK, ReloadTypeOK
<1>2. update \in Update /\ settled' = Append(settled, update) /\ reports' = reports
  BY <1>1, QueueParts DEF Settle
<1>3. IF update \in Usable THEN revision' = revision + 1 ELSE revision' = revision
  BY NoUsableIsOther DEF Settle
<1>4. Cardinality(Applied(settled')) =
        IF update \in Usable THEN Cardinality(Applied(settled)) + 1
        ELSE Cardinality(Applied(settled))
  BY <1>1, <1>2, AppliedGrows
<1>5. Cardinality(Applied(settled)) \in Nat /\ Cardinality(Applied(reports)) \in Nat
  BY <1>1, AppliedIsFinite
<1> HIDE DEF update
<1>6. Cardinality(Applied(settled')) + Cardinality(Applied(reports)) <= revision'
  BY <1>1, <1>3, <1>4, <1>5 DEF CommitsComeFirst
<1> QED BY <1>2, <1>6 DEF CommitsComeFirst, Applied

LEMMA ReportedIsCommitted ==
  ASSUME TypeOK, CommitsComeFirst, Report
  PROVE  CommitsComeFirst'
<1> DEFINE update == Head(settled)
<1>1. /\ settled \in Seq(Update) /\ settled # <<>> /\ reports \in Seq(Update) /\ revision \in Nat
      /\ revision' = revision /\ settled' = Tail(settled)
      /\ reports' = reports \/ reports' = Append(reports, update)
  BY DEF Report, TypeOK, ReloadTypeOK, sessionVars
<1>2. update \in Update /\ Tail(settled) \in Seq(Update)
  BY <1>1
<1>3. Cardinality(Applied(settled)) =
        IF update \in Usable THEN Cardinality(Applied(Tail(settled))) + 1
        ELSE Cardinality(Applied(Tail(settled)))
  BY <1>1, AppliedShrinks
<1>4. Cardinality(Applied(Append(reports, update))) =
        IF update \in Usable THEN Cardinality(Applied(reports)) + 1
        ELSE Cardinality(Applied(reports))
  BY <1>1, <1>2, AppliedGrows
<1>5. /\ Cardinality(Applied(settled)) \in Nat /\ Cardinality(Applied(reports)) \in Nat
      /\ Cardinality(Applied(Tail(settled))) \in Nat
  BY <1>1, <1>2, AppliedIsFinite
<1> HIDE DEF update
<1>6. /\ Cardinality(Applied(settled')) = Cardinality(Applied(Tail(settled)))
      /\ Cardinality(Applied(reports')) <=
           IF update \in Usable THEN Cardinality(Applied(reports)) + 1
           ELSE Cardinality(Applied(reports))
  <2>1. CASE reports' = reports
    BY <1>1, <1>5, <2>1
  <2>2. CASE reports' = Append(reports, update)
    <3>1. Cardinality(Applied(reports')) = Cardinality(Applied(Append(reports, update)))
      BY <2>2
    <3> QED BY <1>1, <1>4, <1>5, <3>1
  <2> QED BY <1>1, <2>1, <2>2
<1>7. Cardinality(Applied(reports')) \in Nat
  BY <1>1, <1>2, AppliedIsFinite, AppendProperties
<1>8. Cardinality(Applied(settled')) + Cardinality(Applied(reports')) <= revision'
  BY <1>1, <1>3, <1>5, <1>6, <1>7 DEF CommitsComeFirst
<1> QED BY <1>8 DEF CommitsComeFirst, Applied

\* Only an update that settles or is reported changes what is compared.
LEMMA CommitsHold ==
  ASSUME TypeOK, CommitsComeFirst, [Next]_vars
  PROVE  CommitsComeFirst'
<1> DEFINE same == UNCHANGED <<settled, reports, revision>>
<1>1. ASSUME same PROVE CommitsComeFirst'
  BY <1>1 DEF CommitsComeFirst, Applied
<1>2. CASE UNCHANGED vars
  BY <1>1, <1>2 DEF vars, sessionVars, reportVars
<1>3. CASE EntryStep \/ Assign \/ Ready \/ JobCloses
  BY <1>1, <1>3 DEF EntryStep, Contain, NotContained, CheckArguments, ReadPolicy, OpenController,
                    Spawn, Assign, Ready, JobCloses, sessionVars, reportVars
<1>4. CASE FlagChanges \/ ControllerStep
  BY <1>1, <1>4 DEF FlagChanges, ControllerStep, BeginRefresh, EndRefresh, CloseController,
                    ReturnExitCode, sessionVars, reportVars
<1>5. CASE Finish \/ FinishStep
  BY <1>1, <1>5 DEF Finish, FinishStep, Drained, RecordStop, sessionVars, reportVars
<1>6. CASE Notice \/ Reload \/ Subscribe \/ WatcherFails
  BY <1>1, <1>6 DEF Notice, Reload, Subscribe, WatcherFails, sessionVars, reportVars
<1>7. CASE EndFrame \/ WriteOps \/ QueueFrame \/ WriteFile
  BY <1>1, <1>7 DEF EndFrame, WriteOps, QueueFrame, WriteFile, sessionVars, reportVars
<1> QED
  BY <1>2, <1>3, <1>4, <1>5, <1>6, <1>7, SettledIsCommitted, ReportedIsCommitted
     DEF Next, ProxyEnds, ProxyStep, Proxy, ReloadStep, QueueStep

(***************************************************************************)
(* The theorems.                                                            *)
(***************************************************************************)

\* However a run ends, what it leaves behind.
LEMMA EndsCleanly ==
  ASSUME TypeOK, StagesTell, NothingLeftOpen, [Next]_vars
  PROVE  NothingLeftOpen'
<1>1. CASE UNCHANGED vars
  BY <1>1 DEF vars, reloadVars, entryVars, controlVars, NothingLeftOpen
<1> SUFFICES ASSUME Next, stage' = "returned" PROVE NothingLeftOpen'
  BY <1>1 DEF NothingLeftOpen
<1>2. stage \notin {"returned", "killed"}
  BY DEF Next, Over
<1>3. CASE ReturnExitCode
  <2>1. /\ stage = "closing" /\ refreshes = 0
        /\ UNCHANGED <<exitCode, watcher, controller, refreshes>>
    BY <1>3 DEF ReturnExitCode, reloadVars, entryVars, controlVars
  <2> QED BY <2>1 DEF StagesTell, AfterProxy, NothingLeftOpen
<1>4. CASE EntryStep
  <2>1. /\ stage \in {"containment", "arguments", "policy", "flags"}
        /\ UNCHANGED <<upstream, watcher, refreshes>> /\ controller' = controller
    BY <1>2, <1>4 DEF EntryStep, Contain, NotContained, CheckArguments, ReadPolicy, StagesTell,
                      OpenController, Spawn, Return, reloadVars, controlVars
  <2> QED BY <2>1 DEF StagesTell, BeforeProxy, NothingLeftOpen
<1>5. ~(Assign \/ Ready \/ JobCloses \/ FlagChanges \/ BeginRefresh \/ EndRefresh
          \/ CloseController)
  BY <1>2 DEF Assign, Ready, JobCloses, FlagChanges, BeginRefresh, EndRefresh, CloseController
<1>6. ~(Finish \/ ReloadStep \/ QueueStep \/ FinishStep \/ Subscribe \/ WatcherFails
          \/ QueueFrame \/ WriteFile)
  BY <1>2 DEF Finish, ReloadStep, QueueStep, FinishStep, Subscribe, WatcherFails, QueueFrame,
              WriteFile, Notice, Reload, Report, EndFrame, Settle, WriteOps, Drained, RecordStop
<1> QED
  BY <1>3, <1>4, <1>5, <1>6 DEF Next, ControllerStep, ProxyEnds, ProxyStep, Proxy

LEMMA InitHolds ==
  ASSUME Init
  PROVE  /\ TypeOK /\ StagesTell /\ LastAttemptStands /\ UpdatesAreCounted /\ NothingLeftOpen
         /\ CommitsComeFirst
<1>1. RunTypeOK
  <2>1. flagChanges \in 0..MaxFlagChanges /\ refreshes \in 0..flagChanges
    BY Bounds DEF Init
  <2>2. options \in Options /\ evaluating \in BOOLEAN
    BY RunAssumption DEF Init
  <2> QED BY <2>1, <2>2 DEF Init, RunTypeOK, Stage
<1>2. ReloadTypeOK
  <2>1. writes \in 0..MaxWrites /\ frames \in 0..MaxFrames
    BY Bounds DEF Init
  <2>2. metrics \in Metrics /\ revision \in Nat /\ handed \in Nat /\ awaited \in Nat
    BY DEF Init, Metrics
  <2>3. /\ noticed \in BOOLEAN /\ debounce \in BOOLEAN
        /\ readFailed \in BOOLEAN /\ closed \in BOOLEAN
    BY DEF Init
  <2>4. /\ queue \in Seq(Update \cup {Frame}) /\ settled \in Seq(Update)
        /\ reports \in Seq(Update)
        /\ opsQueue \in Seq([event : Event, metrics : Metrics])
        /\ opsLog \in Seq([event : Event, metrics : Metrics])
    BY DEF Init
  <2> QED BY <2>1, <2>2, <2>3, <2>4 DEF Init, ReloadTypeOK
<1>3. StagesTell /\ NothingLeftOpen
  BY DEF Init, StagesTell, BeforeProxy, AfterProxy, NothingLeftOpen
<1>4. LastAttemptStands
  <2>1. lastAttempt \notin Usable
    BY ReloadAssumption DEF Init, Content
  <2> QED BY <2>1 DEF Init, LastAttemptStands
<1>5. UpdatesAreCounted
  <2>1. /\ Len(queue) = 0 /\ Len(opsLog) = 0 /\ Len(opsQueue) = 0 /\ opsLog = <<>>
        /\ handed = 0 /\ metrics = [applied |-> 0, rejected |-> 0]
    BY DEF Init
  <2>2. Waiting = {} /\ Cardinality(Waiting) = 0
    BY <2>1, FS_EmptySet DEF Waiting
  <2>3. Total(metrics) = 0 /\ ~Stopped
    BY <2>1 DEF Total, Stopped
  <2> QED BY <2>1, <2>2, <2>3 DEF UpdatesAreCounted
<1>6. CommitsComeFirst
  <2>1. Applied(settled) = {} /\ Applied(reports) = {} /\ revision = 0
    BY DEF Init, Applied
  <2> QED BY <2>1, FS_EmptySet DEF CommitsComeFirst
<1> QED BY <1>1, <1>2, <1>3, <1>4, <1>5, <1>6 DEF TypeOK

RunInv ==
  /\ TypeOK /\ StagesTell /\ LastAttemptStands /\ UpdatesAreCounted /\ NothingLeftOpen
  /\ CommitsComeFirst

\* The strengthening the theorems below rest on, for any policies, writes, frames, flag
\* changes and command lines (runEntrypoint, runProxy and the policy reload).
THEOREM RunInvariant == Spec => []RunInv
<1>1. Init => RunInv
  BY InitHolds DEF RunInv
<1>2. RunInv /\ [Next]_vars => RunInv'
  BY TypesHold, StagesHold, AttemptHolds, CountsHold, EndsCleanly, CommitsHold DEF RunInv
<1> QED BY <1>1, <1>2, PTL DEF Spec

\* On Windows no upstream runs outside the job of the proxy (runEntrypoint awaits the
\* containment before anything else).
THEOREM ContainedOnly == Spec => []UpstreamIsContained
<1>1. RunInv => UpstreamIsContained
  BY DEF RunInv, StagesTell, UpstreamIsContained
<1> QED BY <1>1, RunInvariant, PTL

\* A run that returns leaves no watcher, no controller and no refresh behind, and has
\* started nothing if its inputs were wrong (runProxy).
THEOREM ClosesAll == Spec => []NothingLeftOpen
<1>1. RunInv => NothingLeftOpen
  BY DEF RunInv
<1> QED BY <1>1, RunInvariant, PTL

\* The last usable policy written is the one in force once the reloader is quiet
\* (policy-file-reloader.ts, recordPolicyUpdate).
THEOREM LastPolicyWins == Spec => []QuietPolicyIsTheFile
<1>1. RunInv => QuietPolicyIsTheFile
  <2> SUFFICES ASSUME RunInv, Quiet, file \in Usable PROVE inForce = file
    BY DEF QuietPolicyIsTheFile
  <2>1. lastAttempt = file
    BY ReloadAssumption DEF RunInv, LastAttemptStands, Quiet, Content
  <2>2. Len(queue) \in Nat /\ DOMAIN queue = 1..Len(queue)
    BY DEF RunInv, TypeOK, ReloadTypeOK
  <2>3. \A i \in 1..Len(queue) : queue[i] \notin Usable
    BY <2>2, NoUsableIsOther DEF Quiet
  <2> QED BY <2>1, <2>3 DEF RunInv, LastAttemptStands
<1> QED BY <1>1, RunInvariant, PTL

\* The ops events count the updates in their order and the stop event counts them all
\* (recordPolicyUpdate, recordOps and finish).
THEOREM OpsTellAll == Spec => []OpsEventsTellAll
<1>1. RunInv => OpsEventsTellAll
  <2> SUFFICES ASSUME RunInv, NEW i \in DOMAIN opsLog
               PROVE  IF opsLog[i].event = "stop"
                      THEN i = Len(opsLog) /\ Counted(i) = handed
                      ELSE Counted(i) = i
    BY DEF OpsEventsTellAll
  <2>1. Len(opsLog) \in Nat /\ DOMAIN opsLog = 1..Len(opsLog)
    BY DEF RunInv, TypeOK, ReloadTypeOK
  <2>2. IF opsLog[i].event = "stop" THEN i = Len(opsLog) ELSE Counted(i) = i
    BY <2>1 DEF RunInv, UpdatesAreCounted
  <2>3. ASSUME opsLog[i].event = "stop" PROVE Counted(i) = handed
    <3>1. i = Len(opsLog) /\ opsLog # <<>>
      BY <2>1, <2>2, <2>3
    <3>2. Stopped
      BY <2>3, <3>1 DEF Stopped
    <3> QED BY <3>1, <3>2 DEF RunInv, UpdatesAreCounted
  <2> QED BY <2>2, <2>3
<1> QED BY <1>1, RunInvariant, PTL

\* A policy that is reported as applied has been committed, once for every report
\* (recordPolicyUpdate commits before the listener returns to emit).
THEOREM ReportsAreTrue == Spec => []AppliedReportsAreTrue
<1>1. RunInv => AppliedReportsAreTrue
  <2> SUFFICES ASSUME RunInv PROVE Cardinality(Applied(reports)) <= revision
    BY DEF AppliedReportsAreTrue
  <2>1. settled \in Seq(Update) /\ reports \in Seq(Update) /\ revision \in Nat
    BY DEF RunInv, TypeOK, ReloadTypeOK
  <2>2. Cardinality(Applied(settled)) \in Nat /\ Cardinality(Applied(reports)) \in Nat
    BY <2>1, AppliedIsFinite
  <2> QED BY <2>1, <2>2 DEF RunInv, CommitsComeFirst
<1> QED BY <1>1, RunInvariant, PTL
=============================================================================
