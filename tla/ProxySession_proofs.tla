------------------------- MODULE ProxySession_proofs --------------------------
(***************************************************************************)
(* What holds of ProxySession for every value of its constants.            *)
(***************************************************************************)
EXTENDS ProxySession, TLAPS, FiniteSetTheorems

-----------------------------------------------------------------------------
(* The results the handlers build, and the pending maps.                   *)

\* A handler's result is well formed; only ForwardCall hands over a call.
LEMMA ResultShape ==
  ASSUME NEW i \in Id \cup ServerId \cup {None}, NEW why \in Reason
  PROVE  /\ NoResult \in Result /\ NoResult.call = None /\ NoResult.forward = "none"
         /\ Deny(i, why) \/ DenyInvalid(i, why) \/ Drop(why) =>
              result' \in Result /\ result'.call = None /\ result'.forward = "none"
         /\ \A to \in {"none", "upstream", "client"} : Forward(to, i, why) =>
              /\ result' \in Result /\ result'.call = None
              /\ result'.forward = to /\ result'.id = i /\ result'.reason = why
         /\ \A call \in SentCall : ForwardCall(i, why, call) =>
              /\ result' \in Result /\ result'.call = call
              /\ result'.forward = "upstream" /\ result'.id = i /\ result'.reason = why
BY DEF NoResult, Result, Reason, Deny, DenyInvalid, Drop, Forward, ForwardCall

\* Eviction and ageing keep a map well typed, add no entry and change none but
\* in its remaining time.
LEMMA MapShape ==
  ASSUME NEW S, NEW p \in [S -> Entry \cup {None}]
  PROVE  /\ Evict(p) \in [S -> Entry \cup {None}]
         /\ Aged(p) \in [S -> Entry \cup {None}]
         /\ \A i \in S : Evict(p)[i] \in {p[i], None}
         /\ \A i \in S : p[i] = None <=> Aged(p)[i] = None
         /\ \A i \in S : p[i] # None => /\ Aged(p)[i].method = p[i].method
                                        /\ Aged(p)[i].continues = p[i].continues
         /\ Live(p) \subseteq Taken(p) /\ Taken(p) \subseteq S
         /\ Taken(Evict(p)) = Live(p)
<1>1. \A i \in S : p[i] # None => p[i] \in Entry
  OBVIOUS
<1>2. \A e \in Entry : e.ttl > 0 => /\ [e EXCEPT !.ttl = @ - 1] \in Entry
                                    /\ [e EXCEPT !.ttl = @ - 1].method = e.method
                                    /\ [e EXCEPT !.ttl = @ - 1].continues = e.continues
  BY ConstantsAssumption DEF Entry
<1>3. Evict(p) \in [S -> Entry \cup {None}] /\ \A i \in S : Evict(p)[i] \in {p[i], None}
  BY <1>1 DEF Evict
<1>4. Aged(p) \in [S -> Entry \cup {None}]
  BY <1>1, <1>2 DEF Aged
<1>5. \A i \in S : p[i] = None <=> Aged(p)[i] = None
  BY <1>1, <1>2, NoneAssumption DEF Aged
<1>6. \A i \in S : p[i] # None => /\ Aged(p)[i].method = p[i].method
                                  /\ Aged(p)[i].continues = p[i].continues
  BY <1>1, <1>2 DEF Aged
<1>7. Live(p) \subseteq Taken(p) /\ Taken(p) \subseteq S /\ Taken(Evict(p)) = Live(p)
  BY <1>3 DEF Live, Taken
<1> QED
  BY <1>3, <1>4, <1>5, <1>6, <1>7

\* An entry's time runs down to 0 and no further; at 0 the entry is not live.
LEMMA TimeShape ==
  ASSUME NEW S, NEW p \in [S -> Entry \cup {None}], NEW i \in S, p[i] # None
  PROVE  /\ p[i].ttl \in 0 .. TTL
         /\ Aged(p)[i].ttl = IF p[i].ttl > 0 THEN p[i].ttl - 1 ELSE 0
         /\ i \in Live(p) => p[i].ttl > 0
<1>1. p[i] \in Entry
  OBVIOUS
<1>2. p[i].ttl \in 0 .. TTL
  BY <1>1 DEF Entry
<1>3. Aged(p)[i].ttl = IF p[i].ttl > 0 THEN p[i].ttl - 1 ELSE 0
  BY <1>1, <1>2, ConstantsAssumption DEF Aged, Entry
<1>4. i \in Live(p) => p[i].ttl > 0
  BY <1>2, ConstantsAssumption DEF Live, Taken, Evict
<1> QED
  BY <1>2, <1>3, <1>4

\* Remembering a request adds its entry, nothing else.
LEMMA RememberShape ==
  ASSUME NEW S, NEW p \in [S -> Entry \cup {None}], NEW i \in S \cup {None},
         NEW m \in Method, NEW continues \in BOOLEAN, None \notin S
  PROVE  /\ Remember(p, i, m, continues) \in [S -> Entry \cup {None}]
         /\ \A j \in S \ {i} : Remember(p, i, m, continues)[j] = Evict(p)[j]
         /\ i # None => /\ Remember(p, i, m, continues)[i] # None
                        /\ Remember(p, i, m, continues)[i].method = m
                        /\ Remember(p, i, m, continues)[i].ttl = TTL
<1> DEFINE e == [method |-> m, continues |-> continues, ttl |-> TTL]
<1>1. e \in Entry /\ e # None
  BY ConstantsAssumption, NoneAssumption DEF Entry
<1>2. Evict(p) \in [S -> Entry \cup {None}]
  BY MapShape
<1> HIDE DEF e
<1>3. Remember(p, i, m, continues) = IF i = None THEN Evict(p) ELSE [Evict(p) EXCEPT ![i] = e]
  BY DEF Remember, e
<1>4. e.method = m /\ e.ttl = TTL
  BY DEF e
<1> QED
  BY <1>1, <1>2, <1>3, <1>4

\* A promise is for one TTL, and one to nobody changes nothing.
LEMMA PromiseShape ==
  ASSUME TypeOK, NEW i \in Id \cup {None}
  PROVE  /\ Promised(i) \in [Id -> 0 .. TTL]
         /\ \A j \in Id : Promised(i)[j] = IF j = i THEN TTL ELSE awaiting[j]
         /\ i = None => Promised(i) = awaiting
<1>1. \A j \in Id : Promised(i)[j] = IF j = i THEN TTL ELSE awaiting[j]
  BY DEF Promised
<1>2. Promised(i) \in [Id -> 0 .. TTL]
  BY ConstantsAssumption DEF Promised, TypeOK
<1>3. i = None => Promised(i) = awaiting
  BY NoneAssumption DEF Promised, TypeOK
<1> QED
  BY <1>1, <1>2, <1>3

-----------------------------------------------------------------------------
(* Type correctness.                                                       *)

LEMMA InitType == Init => TypeOK
BY ConstantsAssumption, NoneAssumption DEF Init, TypeOK, NoResult, Result, Reason

\* The tail both call paths share.
LEMMA SendCallType ==
  ASSUME TypeOK, NEW i \in Id, NEW why \in Reason, NEW call \in SentCall,
         SendCall(i, why, call)
  PROVE  /\ pending' \in [Id -> Entry \cup {None}]
         /\ result' \in Result
         /\ awaiting' \in [Id -> 0 .. TTL]
         /\ UNCHANGED <<policy, visible, serverPending, prepared>>
<1>1. Evict(pending) \in [Id -> Entry \cup {None}]
  BY MapShape DEF TypeOK
<1>2. Remember(pending, i, "tools/call", FALSE) \in [Id -> Entry \cup {None}]
  BY NoneAssumption, RememberShape DEF TypeOK, Method
<1>3. Promised(i) \in [Id -> 0 .. TTL]
  BY PromiseShape
<1> QED
  BY <1>1, <1>2, <1>3, ResultShape DEF SendCall, TypeOK, Reason

LEMMA ClientFrameType == TypeOK /\ ClientFrame => TypeOK'
<1> SUFFICES ASSUME TypeOK, ClientFrame PROVE TypeOK'
  OBVIOUS
<1>m. /\ Evict(pending) \in [Id -> Entry \cup {None}]
      /\ Evict(serverPending) \in [ServerId -> Entry \cup {None}]
  BY MapShape DEF TypeOK
<1>n. None \notin Id
  BY NoneAssumption
<1>1. CASE ClientUnparsable
  BY <1>1, ResultShape DEF ClientUnparsable, TypeOK, Reason
<1>2. ASSUME NEW i \in ServerId, NEW emptyResult \in BOOLEAN, ClientAnswer(i, emptyResult)
      PROVE TypeOK'
  BY <1>2, <1>m, ResultShape DEF ClientAnswer, TypeOK, Reason
<1>3. ASSUME NEW i \in Id \cup {None}, NEW m \in MethodSeen, DeniedRequest(i, m)
      PROVE TypeOK'
  BY <1>3, <1>m, ResultShape DEF DeniedRequest, TypeOK, Reason
<1>4. ASSUME NEW i \in Id \cup {None}, NEW m \in MethodSeen, NEW cursor \in BOOLEAN,
             PlainRequest(i, m, cursor)
      PROVE TypeOK'
  <2>1. m \in Method
    BY <1>4, ConstantsAssumption DEF PlainRequest, Admissible, TypeOK
  <2>2. Remember(pending, i, m, m = "tools/list" /\ cursor) \in [Id -> Entry \cup {None}]
    BY <1>n, <2>1, RememberShape DEF TypeOK
  <2>3. Promised(i) \in [Id -> 0 .. TTL]
    BY PromiseShape
  <2> QED
    BY <1>4, <1>m, <2>2, <2>3, ResultShape DEF PlainRequest, TypeOK, Reason
<1>5. ASSUME NEW i \in Id, MalformedCall(i)
      PROVE TypeOK'
  BY <1>5, <1>m, ResultShape DEF MalformedCall, TypeOK, Reason
<1>6. ASSUME NEW i \in Id, NEW t \in Tool, HiddenCall(i, t)
      PROVE TypeOK'
  BY <1>6, <1>m, ResultShape DEF HiddenCall, TypeOK, Reason
<1>7. ASSUME NEW i \in Id, NEW t \in Tool, NEW a \in Args, AllowedCall(i, t, a)
      PROVE TypeOK'
  <2>1. [tool |-> t, caps |-> visible[t], args |-> a, under |-> policy] \in SentCall
    BY <1>7 DEF AllowedCall, Decided, TypeOK, SentCall
  <2> QED
    BY <1>7, <2>1, SendCallType DEF AllowedCall, TypeOK, Reason
<1>8. ASSUME NEW i \in Id, NEW t \in Tool, NEW a \in Args,
             DeniedCall(i, t, a) \/ UnaskableCall(i, t, a)
      PROVE TypeOK'
  BY <1>8, <1>m, ResultShape DEF DeniedCall, UnaskableCall, TypeOK, Reason
<1>9. ASSUME NEW c \in Call, NEW i \in Id, NEW t \in Tool, NEW a \in Args,
             AskApproval(c, i, t, a)
      PROVE TypeOK'
  <2>1. [id |-> i, tool |-> t, caps |-> visible[t], args |-> a,
         under |-> policy, outcome |-> "undecided"] \in Approval
    BY <1>9 DEF AskApproval, Decided, TypeOK, Approval, Outcome
  <2> QED
    BY <1>9, <1>m, <2>1, ResultShape DEF AskApproval, TypeOK, Reason
<1> QED
  BY <1>1, <1>2, <1>3, <1>4, <1>5, <1>6, <1>7, <1>8, <1>9 DEF ClientFrame

LEMMA ServerFrameType == TypeOK /\ ServerFrame => TypeOK'
<1> SUFFICES ASSUME TypeOK, ServerFrame PROVE TypeOK'
  OBVIOUS
<1>m. /\ Evict(pending) \in [Id -> Entry \cup {None}]
      /\ Evict(serverPending) \in [ServerId -> Entry \cup {None}]
  BY MapShape DEF TypeOK
<1>r. ASSUME NEW i \in Id, Relay(i)
      PROVE TypeOK' \/ visible' \notin [Tool -> Caps \cup {None}]
  <2>1. [awaiting EXCEPT ![i] = 0] \in [Id -> 0 .. TTL]
    BY ConstantsAssumption DEF TypeOK
  <2> QED
    BY <1>r, <1>m, <2>1, ResultShape DEF Relay, Take, TypeOK, Reason
<1>1. CASE ServerUnparsable
  BY <1>1, ResultShape DEF ServerUnparsable, TypeOK, Reason
<1>2. ASSUME NEW i \in ServerId \cup {None}, NEW m \in MethodSeen, NEW params \in BOOLEAN,
             ServerRequest(i, m, params)
      PROVE TypeOK'
  <2>1. m \in AllowedMethods(policy) => m \in Method
    BY ConstantsAssumption DEF TypeOK
  <2>2. m \in Method => Remember(serverPending, i, m, FALSE) \in [ServerId -> Entry \cup {None}]
    BY NoneAssumption, RememberShape DEF TypeOK
  <2> QED
    BY <1>2, <1>m, <2>1, <2>2, ResultShape DEF ServerRequest, TypeOK, Reason
<1>3. ASSUME NEW i \in Id, UnmatchedAnswer(i)
      PROVE TypeOK'
  BY <1>3, <1>m, ResultShape DEF UnmatchedAnswer, Take, TypeOK, Reason
<1>4. ASSUME NEW i \in Id, PlainAnswer(i)
      PROVE TypeOK'
  BY <1>4, <1>r DEF PlainAnswer, TypeOK
<1>5. ASSUME NEW i \in Id, DiscoveryError(i)
      PROVE TypeOK'
  BY <1>5, <1>r DEF DiscoveryError, NothingVisible, TypeOK
<1>6. ASSUME NEW i \in Id, NEW page \in SUBSET (Tool \X Caps), DiscoveryPage(i, page)
      PROVE TypeOK'
  BY <1>6, <1>r DEF DiscoveryPage, TypeOK
<1> QED
  BY <1>1, <1>2, <1>3, <1>4, <1>5, <1>6 DEF ServerFrame

LEMMA ApprovalStepType == TypeOK /\ ApprovalStep => TypeOK'
<1> SUFFICES ASSUME TypeOK, ApprovalStep PROVE TypeOK'
  OBVIOUS
<1>1. ASSUME NEW c \in Call, NEW outcome \in Outcome, Settle(c, outcome)
      PROVE TypeOK'
  <2>1. approvals[c] \in Approval
    BY <1>1 DEF Settle, Undecided, TypeOK
  <2>2. [approvals[c] EXCEPT !.outcome = outcome] \in Approval
    BY <2>1 DEF Approval
  <2> QED
    BY <1>1, <2>2, ResultShape DEF Settle, TypeOK, Reason
<1>2. ASSUME NEW c \in Call, FinishApproval(c)
      PROVE TypeOK'
  <2>1. approvals[c] \in Approval
    BY <1>2 DEF FinishApproval, TypeOK
  <2> DEFINE call == [tool |-> approvals[c].tool, caps |-> approvals[c].caps,
                      args |-> approvals[c].args, under |-> approvals[c].under]
  <2>2. call \in SentCall /\ approvals[c].id \in Id
    BY <2>1 DEF Approval, SentCall
  <2>3. CASE SendCall(approvals[c].id, "policy.approval_granted", call)
    BY <1>2, <2>2, <2>3, SendCallType DEF FinishApproval, TypeOK, Reason
  <2>4. CASE /\ UNCHANGED <<policy, visible, pending, serverPending, prepared, awaiting>>
             /\ \E why \in Reason : Deny(approvals[c].id, why)
    BY <1>2, <2>2, <2>4, ResultShape DEF FinishApproval, TypeOK
  <2> QED
    BY <1>2, <2>3, <2>4 DEF FinishApproval, Reason
<1> QED
  BY <1>1, <1>2 DEF ApprovalStep, HookReturns, ApprovalTimesOut, Outcome

LEMMA PolicyAndTimeType == TypeOK /\ (PolicyPrepare \/ PolicyCommit \/ Tick) => TypeOK'
<1> SUFFICES ASSUME TypeOK, PolicyPrepare \/ PolicyCommit \/ Tick PROVE TypeOK'
  OBVIOUS
<1>r. NoResult \in Result
  BY ResultShape DEF Reason
<1>1. ASSUME NEW h \in Handle, NEW p \in Policy, Prepare(h, p)
      PROVE TypeOK'
  <2>1. \A c \in Call : Undecided(c) => [approvals[c] EXCEPT !.outcome = "reloaded"] \in Approval
    BY DEF Undecided, TypeOK, Approval, Outcome
  <2> QED
    BY <1>1, <1>r, <2>1 DEF Prepare, TypeOK
<1>2. ASSUME NEW h \in Handle, Commit(h)
      PROVE TypeOK'
  BY <1>2, <1>r DEF Commit, NothingVisible, TypeOK
<1>3. CASE Tick
  <2>1. [i \in Id |-> IF awaiting[i] > 0 THEN awaiting[i] - 1 ELSE 0] \in [Id -> 0 .. TTL]
    BY ConstantsAssumption DEF TypeOK
  <2> QED
    BY <1>3, <1>r, <2>1, MapShape DEF Tick, TypeOK
<1> QED
  BY <1>1, <1>2, <1>3 DEF PolicyPrepare, PolicyCommit

LEMMA NextType == TypeOK /\ [Next]_vars => TypeOK'
<1>1. TypeOK /\ UNCHANGED vars => TypeOK'
  BY DEF TypeOK, vars
<1> QED
  BY <1>1, ClientFrameType, ServerFrameType, ApprovalStepType, PolicyAndTimeType DEF Next

\* Every reachable state is well typed.
THEOREM TypeCorrect == Spec => []TypeOK
BY InitType, NextType, PTL DEF Spec

-----------------------------------------------------------------------------
(* How one step changes the pending maps.                                  *)

\* No entry appears, and none outlives the promise made for it.
Shrinks ==
  \A i \in Id : pending'[i] # None => /\ pending[i] # None
                                      /\ pending'[i].method = pending[i].method
                                      /\ pending[i].ttl <= awaiting[i] => pending'[i].ttl <= awaiting'[i]

\* One request is remembered, below the limit and, for a discovery, alone.
Grows ==
  \E i \in Id, m \in Method, continues \in BOOLEAN :
    /\ ~Full(pending)
    /\ pending' = Remember(pending, i, m, continues)
    /\ awaiting' = Promised(i)
    /\ m = "tools/list" => ~DiscoveryPending

ServerShrinks == \A i \in ServerId : serverPending'[i] # None => serverPending[i] # None

ServerGrows ==
  \E i \in ServerId, m \in Method :
    ~Full(serverPending) /\ serverPending' = Remember(serverPending, i, m, FALSE)

LEMMA EvictShrinks ==
  ASSUME TypeOK, pending' = pending \/ pending' = Evict(pending), awaiting' = awaiting
  PROVE  Shrinks
BY MapShape DEF TypeOK, Shrinks

LEMMA SendCallStep ==
  ASSUME TypeOK, NEW i \in Id, NEW why, NEW call, SendCall(i, why, call)
  PROVE  Shrinks \/ Grows
<1>1. CASE Full(pending)
  BY <1>1, EvictShrinks DEF SendCall
<1>2. CASE ~Full(pending)
  BY <1>2 DEF SendCall, Grows, Method
<1> QED
  BY <1>1, <1>2

LEMMA PendingStep ==
  ASSUME TypeOK, [Next]_vars
  PROVE  Shrinks \/ Grows
<1>u. CASE UNCHANGED vars
  BY <1>u, EvictShrinks DEF vars
<1>1. CASE ClientFrame
  <2>1. ASSUME NEW i \in Id \cup {None}, NEW m \in MethodSeen, NEW cursor \in BOOLEAN,
               PlainRequest(i, m, cursor)
        PROVE Shrinks \/ Grows
    <3>1. m \in Method
      BY <2>1, ConstantsAssumption DEF PlainRequest, Admissible, TypeOK
    <3>2. CASE pending' = Evict(pending) /\ UNCHANGED awaiting
      BY <3>2, EvictShrinks
    <3>3. CASE i = None /\ pending' = Remember(pending, i, m, m = "tools/list" /\ cursor)
               /\ awaiting' = Promised(i)
      BY <3>3, EvictShrinks, PromiseShape DEF Remember
    <3>4. CASE i # None /\ ~Full(pending) /\ ~(m = "tools/list" /\ DiscoveryPending)
               /\ pending' = Remember(pending, i, m, m = "tools/list" /\ cursor)
               /\ awaiting' = Promised(i)
      BY <3>1, <3>4 DEF Grows
    <3> QED
      BY <2>1, <3>2, <3>3, <3>4 DEF PlainRequest
  <2>2. ASSUME NEW i \in Id, NEW t \in Tool, NEW a \in Args, AllowedCall(i, t, a)
        PROVE Shrinks \/ Grows
    BY <2>2, SendCallStep DEF AllowedCall
  <2>3. CASE pending' \in {pending, Evict(pending)} /\ UNCHANGED awaiting
    BY <2>3, EvictShrinks
  <2> QED
    BY <1>1, <2>1, <2>2, <2>3
    DEF ClientFrame, ClientUnparsable, ClientAnswer, DeniedRequest, MalformedCall, HiddenCall,
        DeniedCall, UnaskableCall, AskApproval
<1>2. CASE ServerFrame
  <2>1. ASSUME NEW i \in Id, Take(i), awaiting' = awaiting \/ awaiting' = [awaiting EXCEPT ![i] = 0]
        PROVE Shrinks
    BY <2>1, MapShape DEF Take, TypeOK, Shrinks
  <2>2. CASE UNCHANGED <<pending, awaiting>>
    BY <2>2, EvictShrinks
  <2> QED
    BY <1>2, <2>1, <2>2
    DEF ServerFrame, ServerUnparsable, ServerRequest, UnmatchedAnswer, Relay, PlainAnswer,
        DiscoveryError, DiscoveryPage
<1>3. CASE ApprovalStep
  <2>1. ASSUME NEW c \in Call, FinishApproval(c)
        PROVE Shrinks \/ Grows
    <3>1. approvals[c].id \in Id
      BY <2>1 DEF FinishApproval, TypeOK, Approval
    <3> QED
      BY <2>1, <3>1, SendCallStep, EvictShrinks DEF FinishApproval
  <2>2. CASE UNCHANGED <<pending, awaiting>>
    BY <2>2, EvictShrinks
  <2> QED
    BY <1>3, <2>1, <2>2 DEF ApprovalStep, HookReturns, ApprovalTimesOut, Settle
<1>4. CASE PolicyPrepare \/ PolicyCommit
  BY <1>4, EvictShrinks DEF PolicyPrepare, PolicyCommit, Prepare, Commit
<1>5. CASE Tick
  <2>1. SUFFICES ASSUME NEW i \in Id, pending'[i] # None
                 PROVE  /\ pending[i] # None
                        /\ pending'[i].method = pending[i].method
                        /\ pending[i].ttl <= awaiting[i] => pending'[i].ttl <= awaiting'[i]
    BY DEF Shrinks
  <2>2. pending \in [Id -> Entry \cup {None}] /\ awaiting \in [Id -> 0 .. TTL]
    BY DEF TypeOK
  <2>3. pending' = Aged(pending) /\ awaiting'[i] = IF awaiting[i] > 0 THEN awaiting[i] - 1 ELSE 0
    BY <1>5 DEF Tick
  <2>4. pending[i] # None /\ pending'[i].method = pending[i].method
    BY <2>1, <2>2, <2>3, MapShape
  <2>5. pending[i].ttl <= awaiting[i] => pending'[i].ttl <= awaiting'[i]
    BY <2>2, <2>3, <2>4, TimeShape, ConstantsAssumption
  <2> QED
    BY <2>4, <2>5
<1> QED
  BY <1>u, <1>1, <1>2, <1>3, <1>4, <1>5 DEF Next

LEMMA ServerPendingStep ==
  ASSUME TypeOK, [Next]_vars
  PROVE  ServerShrinks \/ ServerGrows
<1>e. ASSUME serverPending' = serverPending \/ serverPending' = Evict(serverPending)
      PROVE  ServerShrinks
  BY <1>e, MapShape DEF TypeOK, ServerShrinks
<1>u. CASE UNCHANGED vars
  BY <1>u, <1>e DEF vars
<1>1. CASE ClientFrame
  <2>1. ASSUME NEW i \in ServerId, NEW emptyResult \in BOOLEAN, ClientAnswer(i, emptyResult)
        PROVE ServerShrinks
    BY <2>1, MapShape DEF ClientAnswer, TypeOK, ServerShrinks
  <2> QED
    BY <1>1, <1>e, <2>1
    DEF ClientFrame, ClientUnparsable, DeniedRequest, PlainRequest, MalformedCall, HiddenCall,
        AllowedCall, SendCall, DeniedCall, UnaskableCall, AskApproval
<1>2. CASE ServerFrame
  <2>1. ASSUME NEW i \in ServerId \cup {None}, NEW m \in MethodSeen, NEW params \in BOOLEAN,
               ServerRequest(i, m, params)
        PROVE ServerShrinks \/ ServerGrows
    BY <2>1, <1>e DEF ServerRequest, ServerGrows, Method
  <2> QED
    BY <1>2, <1>e, <2>1
    DEF ServerFrame, ServerUnparsable, UnmatchedAnswer, Relay, PlainAnswer, DiscoveryError,
        DiscoveryPage
<1>3. CASE ApprovalStep \/ PolicyPrepare \/ PolicyCommit
  BY <1>3, <1>e DEF ApprovalStep, HookReturns, ApprovalTimesOut, Settle, FinishApproval, SendCall,
                    PolicyPrepare, PolicyCommit, Prepare, Commit
<1>4. CASE Tick
  BY <1>4, MapShape DEF Tick, ServerShrinks, TypeOK
<1> QED
  BY <1>u, <1>1, <1>2, <1>3, <1>4 DEF Next

-----------------------------------------------------------------------------
(* The invariants about pending requests.                                  *)

LEMMA DiscoveryStep ==
  ASSUME TypeOK, OneDiscoveryInFlight, [Next]_vars
  PROVE  OneDiscoveryInFlight'
<1>t. pending \in [Id -> Entry \cup {None}] /\ pending' \in [Id -> Entry \cup {None}]
  BY NextType DEF TypeOK
<1>1. CASE Shrinks
  BY <1>1, <1>t DEF Shrinks, OneDiscoveryInFlight, Taken
<1>2. CASE Grows
  <2>1. PICK i \in Id, m \in Method, continues \in BOOLEAN :
          /\ pending' = Remember(pending, i, m, continues)
          /\ m = "tools/list" => ~DiscoveryPending
    BY <1>2 DEF Grows
  <2>2. /\ \A j \in Id \ {i} : pending'[j] = Evict(pending)[j]
        /\ pending'[i].method = m
        /\ \A j \in Id : Evict(pending)[j] \in {pending[j], None}
    <3>1. None \notin Id /\ i # None
      BY NoneAssumption
    <3>2. /\ \A j \in Id \ {i} : Remember(pending, i, m, continues)[j] = Evict(pending)[j]
          /\ Remember(pending, i, m, continues)[i].method = m
      BY <3>1, <1>t, RememberShape
    <3>3. \A j \in Id : Evict(pending)[j] \in {pending[j], None}
      BY <1>t, MapShape
    <3> QED
      BY <2>1, <3>2, <3>3
  <2>3. CASE m # "tools/list"
    BY <2>2, <2>3, <1>t DEF OneDiscoveryInFlight, Taken
  <2>4. CASE m = "tools/list"
    <3>1. \A j \in Id \ {i} : pending'[j] # None => pending'[j].method # "tools/list"
      BY <2>1, <2>2, <2>4, <1>t, MapShape DEF DiscoveryPending, Live, Taken
    <3> QED
      BY <3>1, <1>t DEF OneDiscoveryInFlight, Taken
  <2> QED
    BY <2>3, <2>4
<1> QED
  BY <1>1, <1>2, PendingStep

LEMMA AwaitedStep ==
  ASSUME TypeOK, PendingIsAwaited, [Next]_vars
  PROVE  PendingIsAwaited'
<1>t. pending \in [Id -> Entry \cup {None}] /\ pending' \in [Id -> Entry \cup {None}]
  BY NextType DEF TypeOK
<1>1. CASE Shrinks
  BY <1>1, <1>t DEF Shrinks, PendingIsAwaited, Taken
<1>2. CASE Grows
  <2>1. PICK i \in Id, m \in Method, continues \in BOOLEAN :
          /\ pending' = Remember(pending, i, m, continues)
          /\ awaiting' = Promised(i)
    BY <1>2 DEF Grows
  <2>2. \A j \in Id \ {i} : pending'[j] # None => pending[j] # None /\ pending'[j] = pending[j]
    <3>1. None \notin Id
      BY NoneAssumption
    <3>2. \A j \in Id \ {i} : Remember(pending, i, m, continues)[j] = Evict(pending)[j]
      BY <3>1, <1>t, RememberShape
    <3>3. \A j \in Id : Evict(pending)[j] \in {pending[j], None}
      BY <1>t, MapShape
    <3> QED
      BY <2>1, <3>2, <3>3
  <2>3. pending'[i].ttl = TTL
    BY <2>1, <1>t, NoneAssumption, RememberShape
  <2>4. \A j \in Id : awaiting'[j] = IF j = i THEN TTL ELSE awaiting[j]
    BY <2>1, PromiseShape
  <2>5. TTL <= TTL
    BY ConstantsAssumption
  <2>6. ASSUME NEW j \in Id, pending'[j] # None
        PROVE  pending'[j].ttl <= awaiting'[j]
    <3>1. CASE j = i
      BY <3>1, <2>3, <2>4, <2>5
    <3>2. CASE j # i
      BY <2>6, <3>2, <2>2, <2>4, <1>t DEF PendingIsAwaited, Taken
    <3> QED
      BY <3>1, <3>2
  <2> QED
    BY <2>6, <1>t DEF PendingIsAwaited, Taken
<1> QED
  BY <1>1, <1>2, PendingStep

\* Below the limit, one more entry stays within it.
LEMMA RememberWithinLimit ==
  ASSUME NEW S, IsFiniteSet(S), None \notin S, NEW p \in [S -> Entry \cup {None}],
         NEW i \in S, NEW m \in Method, NEW continues \in BOOLEAN, ~Full(p)
  PROVE  Cardinality(Taken(Remember(p, i, m, continues))) <= MaxPending
<1> DEFINE q == Remember(p, i, m, continues)
<1>1. q \in [S -> Entry \cup {None}] /\ \A j \in S \ {i} : q[j] = Evict(p)[j]
  BY RememberShape
<1>2. Evict(p) \in [S -> Entry \cup {None}] /\ Live(p) \subseteq S
  BY MapShape
<1>3. Taken(q) \subseteq Live(p) \cup {i}
  BY <1>1, <1>2 DEF Live, Taken
<1>4. IsFiniteSet(Live(p))
  BY <1>2, FS_Subset
<1>5. /\ IsFiniteSet(Live(p) \cup {i})
      /\ Cardinality(Live(p) \cup {i}) <= Cardinality(Live(p)) + 1
      /\ Cardinality(Live(p)) \in Nat
  <2>1. Cardinality(Live(p)) \in Nat
    BY <1>4, FS_CardinalityType
  <2>2. /\ IsFiniteSet(Live(p) \cup {i})
        /\ \/ Cardinality(Live(p) \cup {i}) = Cardinality(Live(p))
           \/ Cardinality(Live(p) \cup {i}) = Cardinality(Live(p)) + 1
    BY <1>4, FS_AddElement
  <2> QED
    BY <2>1, <2>2
<1>6. Cardinality(Live(p)) < MaxPending /\ MaxPending \in Nat
  BY <1>5, ConstantsAssumption DEF Full
<1>7. /\ Cardinality(Taken(q)) <= Cardinality(Live(p) \cup {i})
      /\ Cardinality(Taken(q)) \in Nat /\ Cardinality(Live(p) \cup {i}) \in Nat
  BY <1>3, <1>5, FS_Subset, FS_CardinalityType
<1> QED
  BY <1>5, <1>6, <1>7

\* A map that gains no entry stays within the limit.
LEMMA ShrinkWithinLimit ==
  ASSUME NEW S, IsFiniteSet(S), NEW p \in [S -> Entry \cup {None}],
         NEW q \in [S -> Entry \cup {None}],
         \A i \in S : q[i] # None => p[i] # None, Cardinality(Taken(p)) <= MaxPending
  PROVE  Cardinality(Taken(q)) <= MaxPending
<1>1. Taken(q) \subseteq Taken(p) /\ Taken(p) \subseteq S
  BY DEF Taken
<1>2. /\ Cardinality(Taken(q)) <= Cardinality(Taken(p))
      /\ Cardinality(Taken(q)) \in Nat /\ Cardinality(Taken(p)) \in Nat
  BY <1>1, FS_Subset, FS_CardinalityType
<1> QED
  BY <1>2, ConstantsAssumption

LEMMA LimitStep ==
  ASSUME TypeOK, PendingWithinLimit, [Next]_vars
  PROVE  PendingWithinLimit'
<1>t. /\ pending \in [Id -> Entry \cup {None}] /\ pending' \in [Id -> Entry \cup {None}]
      /\ serverPending \in [ServerId -> Entry \cup {None}]
      /\ serverPending' \in [ServerId -> Entry \cup {None}]
  BY NextType DEF TypeOK
<1>f. IsFiniteSet(Id) /\ IsFiniteSet(ServerId) /\ None \notin Id /\ None \notin ServerId
  BY ConstantsAssumption, NoneAssumption
<1>1. Cardinality(Taken(pending')) <= MaxPending
  <2>1. CASE Shrinks
    BY <2>1, <1>t, <1>f, ShrinkWithinLimit DEF Shrinks, PendingWithinLimit
  <2>2. CASE Grows
    BY <2>2, <1>t, <1>f, RememberWithinLimit DEF Grows
  <2> QED
    BY <2>1, <2>2, PendingStep
<1>2. Cardinality(Taken(serverPending')) <= MaxPending
  <2>1. CASE ServerShrinks
    BY <2>1, <1>t, <1>f, ShrinkWithinLimit DEF ServerShrinks, PendingWithinLimit
  <2>2. CASE ServerGrows
    BY <2>2, <1>t, <1>f, RememberWithinLimit DEF ServerGrows
  <2> QED
    BY <2>1, <2>2, ServerPendingStep
<1> QED
  BY <1>1, <1>2 DEF PendingWithinLimit, Taken

-----------------------------------------------------------------------------
(* The remembered tools, the suspended approvals and the forwarded calls.  *)

LEMMA VisibleStep ==
  ASSUME TypeOK, VisibleUnderPolicyInForce, [Next]_vars
  PROVE  VisibleUnderPolicyInForce'
<1>k. CASE UNCHANGED <<policy, visible>>
  BY <1>k DEF VisibleUnderPolicyInForce
<1>1. ASSUME NEW h \in Handle, Commit(h)
      PROVE  VisibleUnderPolicyInForce'
  BY <1>1 DEF Commit, NothingVisible, VisibleUnderPolicyInForce
<1>2. ASSUME NEW i \in Id, DiscoveryError(i)
      PROVE  VisibleUnderPolicyInForce'
  BY <1>2 DEF DiscoveryError, Relay, NothingVisible, VisibleUnderPolicyInForce
<1>3. ASSUME NEW i \in Id, NEW page \in SUBSET (Tool \X Caps), DiscoveryPage(i, page)
      PROVE  VisibleUnderPolicyInForce'
  <2>1. policy' = policy
    BY <1>3 DEF DiscoveryPage, Relay
  <2>2. ASSUME NEW t \in Tool, visible'[t] # None
        PROVE  Discoverable(policy, t, visible'[t])
    <3>1. CASE \E c \in Caps : <<t, c>> \in Shown(page)
      <4>1. visible'[t] \in Caps /\ <<t, visible'[t]>> \in Shown(page)
        BY <1>3, <3>1 DEF DiscoveryPage
      <4> QED
        BY <4>1 DEF Shown
    <3>2. CASE ~ \E c \in Caps : <<t, c>> \in Shown(page)
      <4>1. visible'[t] = visible[t]
        BY <1>3, <2>2, <3>2 DEF DiscoveryPage
      <4> QED
        BY <2>2, <4>1 DEF VisibleUnderPolicyInForce
    <3> QED
      BY <3>1, <3>2
  <2> QED
    BY <2>1, <2>2 DEF VisibleUnderPolicyInForce
<1>4. CASE ClientFrame
  BY <1>4, <1>k DEF ClientFrame, ClientUnparsable, ClientAnswer, DeniedRequest, PlainRequest,
                    MalformedCall, HiddenCall, AllowedCall, SendCall, DeniedCall, UnaskableCall,
                    AskApproval
<1>5. CASE ServerFrame
  BY <1>5, <1>k, <1>2, <1>3
  DEF ServerFrame, ServerUnparsable, ServerRequest, UnmatchedAnswer, PlainAnswer, Relay
<1>6. CASE ApprovalStep \/ PolicyPrepare \/ Tick
  BY <1>6, <1>k DEF ApprovalStep, HookReturns, ApprovalTimesOut, Settle, FinishApproval, SendCall,
                    PolicyPrepare, Prepare, Tick
<1> QED
  BY <1>k, <1>1, <1>4, <1>5, <1>6 DEF Next, PolicyCommit, vars

LEMMA ApprovalsStep ==
  ASSUME TypeOK, VisibleUnderPolicyInForce, ApprovalsWereAsked, [Next]_vars
  PROVE  ApprovalsWereAsked'
<1>k. CASE UNCHANGED approvals
  BY <1>k DEF ApprovalsWereAsked
<1>o. ASSUME NEW a \in Approval, NEW outcome \in Outcome
      PROVE  LET b == [a EXCEPT !.outcome = outcome] IN
             b.under = a.under /\ b.tool = a.tool /\ b.caps = a.caps /\ b.args = a.args
  BY DEF Approval
<1>1. ASSUME NEW c \in Call, NEW i \in Id, NEW t \in Tool, NEW a \in Args, AskApproval(c, i, t, a)
      PROVE  ApprovalsWereAsked'
  BY <1>1 DEF AskApproval, Decided, ApprovalsWereAsked, VisibleUnderPolicyInForce, TypeOK
<1>2. ASSUME NEW c \in Call, NEW outcome \in Outcome, Settle(c, outcome)
      PROVE  ApprovalsWereAsked'
  BY <1>2, <1>o DEF Settle, Undecided, ApprovalsWereAsked, TypeOK
<1>3. ASSUME NEW c \in Call, FinishApproval(c)
      PROVE  ApprovalsWereAsked'
  BY <1>3 DEF FinishApproval, ApprovalsWereAsked, TypeOK
<1>4. ASSUME NEW h \in Handle, NEW p \in Policy, Prepare(h, p)
      PROVE  ApprovalsWereAsked'
  BY <1>4, <1>o DEF Prepare, Undecided, ApprovalsWereAsked, TypeOK, Outcome
<1>5. CASE ClientFrame
  BY <1>5, <1>k, <1>1
  DEF ClientFrame, ClientUnparsable, ClientAnswer, DeniedRequest, PlainRequest, MalformedCall,
      HiddenCall, AllowedCall, DeniedCall, UnaskableCall
<1>6. CASE ServerFrame \/ PolicyCommit \/ Tick
  BY <1>6, <1>k
  DEF ServerFrame, ServerUnparsable, ServerRequest, UnmatchedAnswer, PlainAnswer, DiscoveryError,
      DiscoveryPage, Relay, PolicyCommit, Commit, Tick
<1>7. CASE ApprovalStep
  BY <1>7, <1>2, <1>3 DEF ApprovalStep, HookReturns, ApprovalTimesOut, Outcome
<1> QED
  BY <1>k, <1>4, <1>5, <1>6, <1>7 DEF Next, PolicyPrepare, vars

\* Only ForwardCall puts a call into a result.
LEMMA QuietResult ==
  /\ result' = NoResult => result'.call = None /\ result'.forward = "none"
  /\ \A i, why : Deny(i, why) => result'.call = None /\ result'.forward = "none"
  /\ \A i, why : DenyInvalid(i, why) => result'.call = None /\ result'.forward = "none"
  /\ \A why : Drop(why) => result'.call = None /\ result'.forward = "none"
  /\ \A to, i, why : Forward(to, i, why) =>
       result'.call = None /\ result'.forward = to /\ result'.id = i /\ result'.reason = why
<1>1. result' = NoResult => result'.call = None /\ result'.forward = "none"
  BY DEF NoResult
<1>2. ASSUME NEW i, NEW why, Deny(i, why)
      PROVE  result'.call = None /\ result'.forward = "none"
  BY <1>2 DEF NoResult, Deny
<1>3. ASSUME NEW i, NEW why, DenyInvalid(i, why)
      PROVE  result'.call = None /\ result'.forward = "none"
  BY <1>3 DEF NoResult, DenyInvalid
<1>4. ASSUME NEW why, Drop(why)
      PROVE  result'.call = None /\ result'.forward = "none"
  BY <1>4 DEF NoResult, Drop
<1>5. ASSUME NEW to, NEW i, NEW why, Forward(to, i, why)
      PROVE  result'.call = None /\ result'.forward = to /\ result'.id = i /\ result'.reason = why
  BY <1>5 DEF NoResult, Forward
<1> QED
  BY <1>1, <1>2, <1>3, <1>4, <1>5

\* A call leaves with the reason and the terms it was sent under, or not at all.
LEMMA SendCallResult ==
  ASSUME NEW i, NEW why, NEW call, SendCall(i, why, call)
  PROVE  result'.call = None \/ (result'.call = call /\ result'.reason = why)
<1>1. CASE Deny(i, "pending_limit")
  BY <1>1, QuietResult
<1>2. CASE ForwardCall(i, why, call)
  BY <1>2 DEF ForwardCall, NoResult
<1> QED
  BY <1>1, <1>2 DEF SendCall

LEMMA ForwardedCallStep ==
  ASSUME TypeOK, VisibleUnderPolicyInForce, ApprovalsWereAsked, ForwardedCallWasAuthorised,
         [Next]_vars
  PROVE  ForwardedCallWasAuthorised'
<1>q. CASE result'.call = None
  BY <1>q DEF ForwardedCallWasAuthorised
<1>1. ASSUME NEW i \in Id, NEW t \in Tool, NEW a \in Args, AllowedCall(i, t, a)
      PROVE  ForwardedCallWasAuthorised'
  <2> DEFINE call == [tool |-> t, caps |-> visible[t], args |-> a, under |-> policy]
  <2>1. result'.call = None \/ (result'.call = call /\ result'.reason = "policy.allowed")
    BY <1>1, SendCallResult DEF AllowedCall
  <2>2. Verdict(policy, t, visible[t], a) = "allow" /\ Discoverable(policy, t, visible[t])
    BY <1>1 DEF AllowedCall, Decided, VisibleUnderPolicyInForce
  <2> QED
    BY <1>q, <2>1, <2>2 DEF ForwardedCallWasAuthorised
<1>2. ASSUME NEW c \in Call, FinishApproval(c)
      PROVE  ForwardedCallWasAuthorised'
  <2> DEFINE a == approvals[c]
             call == [tool |-> a.tool, caps |-> a.caps, args |-> a.args, under |-> a.under]
  <2>1. \/ result'.call = None
        \/ result'.call = call /\ result'.reason = "policy.approval_granted"
    <3>1. CASE SendCall(a.id, "policy.approval_granted", call)
      BY <3>1, SendCallResult
    <3>2. CASE \E why : Deny(a.id, why)
      BY <3>2, QuietResult
    <3> QED
      BY <1>2, <3>1, <3>2 DEF FinishApproval
  <2>2. /\ Verdict(a.under, a.tool, a.caps, a.args) = "approval_required"
        /\ Discoverable(a.under, a.tool, a.caps)
    BY <1>2 DEF FinishApproval, ApprovalsWereAsked
  <2> QED
    BY <1>q, <2>1, <2>2 DEF ForwardedCallWasAuthorised
<1>3. CASE ClientFrame
  BY <1>3, <1>q, <1>1, QuietResult
  DEF ClientFrame, ClientUnparsable, ClientAnswer, DeniedRequest, PlainRequest, MalformedCall,
      HiddenCall, DeniedCall, UnaskableCall, AskApproval
<1>4. CASE ServerFrame
  BY <1>4, <1>q, QuietResult
  DEF ServerFrame, ServerUnparsable, ServerRequest, UnmatchedAnswer, PlainAnswer, DiscoveryError,
      DiscoveryPage, Relay
<1>5. CASE ApprovalStep \/ PolicyPrepare \/ PolicyCommit \/ Tick
  BY <1>5, <1>q, <1>2, QuietResult
  DEF ApprovalStep, HookReturns, ApprovalTimesOut, Settle, PolicyPrepare, Prepare, PolicyCommit,
      Commit, Tick
<1>6. CASE UNCHANGED vars
  BY <1>6 DEF vars, ForwardedCallWasAuthorised
<1> QED
  BY <1>3, <1>4, <1>5, <1>6 DEF Next

-----------------------------------------------------------------------------
(* The theorems.                                                           *)

LEMMA InitInv == Init => SessionInv
<1> SUFFICES ASSUME Init PROVE SessionInv
  OBVIOUS
<1>1. Taken(pending) = {} /\ Taken(serverPending) = {}
  BY DEF Init, Taken
<1>2. PendingWithinLimit
  BY <1>1, FS_EmptySet, ConstantsAssumption DEF PendingWithinLimit
<1>3. OneDiscoveryInFlight /\ PendingIsAwaited
  BY <1>1 DEF OneDiscoveryInFlight, PendingIsAwaited
<1>4. VisibleUnderPolicyInForce /\ ApprovalsWereAsked /\ ForwardedCallWasAuthorised
  BY DEF Init, NoResult, VisibleUnderPolicyInForce, ApprovalsWereAsked, ForwardedCallWasAuthorised
<1> QED
  BY <1>2, <1>3, <1>4, InitType DEF SessionInv

LEMMA NextInv == SessionInv /\ [Next]_vars => SessionInv'
BY NextType, VisibleStep, DiscoveryStep, LimitStep, AwaitedStep, ApprovalsStep, ForwardedCallStep
DEF SessionInv

\* The invariant that carries all the others.
THEOREM SessionInvariant == Spec => []SessionInv
BY InitInv, NextInv, PTL DEF Spec

\* No policy change, discovery answer or overlap of the two leaves a tool
\* visible that the policy in force would hide.
THEOREM DiscoveryIsFiltered == Spec => []VisibleUnderPolicyInForce
<1>1. SessionInv => VisibleUnderPolicyInForce
  BY DEF SessionInv
<1> QED
  BY <1>1, SessionInvariant, PTL

\* A discovery answer always belongs to the one discovery that is waiting.
THEOREM DiscoveryIsSerial == Spec => []OneDiscoveryInFlight
<1>1. SessionInv => OneDiscoveryInFlight
  BY DEF SessionInv
<1> QED
  BY <1>1, SessionInvariant, PTL

\* Neither pending map ever holds more than maxPendingRequests entries.
THEOREM PendingIsBounded == Spec => []PendingWithinLimit
<1>1. SessionInv => PendingWithinLimit
  BY DEF SessionInv
<1> QED
  BY <1>1, SessionInvariant, PTL

\* Every call that reaches the upstream was allowed, or needed an approval and got it.
THEOREM CallsAreAuthorised == Spec => []ForwardedCallWasAuthorised
<1>1. SessionInv => ForwardedCallWasAuthorised
  BY DEF SessionInv
<1> QED
  BY <1>1, SessionInvariant, PTL

LEMMA AnswerStep ==
  ASSUME SessionInv, Next
  PROVE  result'.forward = "client" /\ result'.reason = "answer" => awaiting[result'.id] > 0
<1> DEFINE P == result'.forward = "client" /\ result'.reason = "answer" => awaiting[result'.id] > 0
<1>q. CASE result'.forward # "client" \/ result'.reason # "answer"
  BY <1>q
<1>1. ASSUME NEW i \in Id, Relay(i)
      PROVE  P
  <2>1. awaiting[i] > 0
    <3>1. pending \in [Id -> Entry \cup {None}] /\ awaiting \in [Id -> 0 .. TTL]
      BY DEF SessionInv, TypeOK
    <3>2. i \in Taken(pending) /\ pending[i] # None
      BY <1>1, <3>1, MapShape DEF Relay, Taken
    <3>3. pending[i].ttl \in 0 .. TTL /\ pending[i].ttl > 0 /\ pending[i].ttl <= awaiting[i]
      BY <1>1, <3>1, <3>2, TimeShape DEF Relay, SessionInv, PendingIsAwaited
    <3> QED
      BY <3>1, <3>3, ConstantsAssumption
  <2> QED
    BY <1>1, <2>1, QuietResult DEF Relay
<1>2. ASSUME NEW i, NEW why, NEW call, SendCall(i, why, call)
      PROVE  P
  <2>1. CASE Deny(i, "pending_limit")
    BY <2>1, QuietResult
  <2>2. CASE ForwardCall(i, why, call)
    BY <2>2 DEF ForwardCall, NoResult
  <2> QED
    BY <1>2, <2>1, <2>2 DEF SendCall
<1>3. CASE ClientFrame
  <2>1. ASSUME NEW i \in Id, NEW t \in Tool, NEW a \in Args, AllowedCall(i, t, a)
        PROVE  P
    BY <2>1, <1>2 DEF AllowedCall
  <2>2. ASSUME NEW i, NEW m, NEW cursor, PlainRequest(i, m, cursor)
        PROVE  P
    BY <2>2, QuietResult DEF PlainRequest
  <2>3. ASSUME NEW i, NEW emptyResult, ClientAnswer(i, emptyResult)
        PROVE  P
    BY <2>3, QuietResult DEF ClientAnswer
  <2> QED
    BY <1>3, <1>q, <2>1, <2>2, <2>3, QuietResult
    DEF ClientFrame, ClientUnparsable, DeniedRequest, MalformedCall, HiddenCall, DeniedCall,
        UnaskableCall, AskApproval
<1>4. CASE ServerFrame
  <2>1. CASE ServerUnparsable
    BY <2>1, QuietResult DEF ServerUnparsable
  <2>2. ASSUME NEW i, NEW m, NEW params, ServerRequest(i, m, params)
        PROVE  P
    <3>1. (\E why : Deny(i, why)) \/ Forward("client", i, "none")
      BY <2>2 DEF ServerRequest
    <3> QED
      BY <3>1, QuietResult
  <2>3. ASSUME NEW i, UnmatchedAnswer(i)
        PROVE  P
    BY <2>3, QuietResult DEF UnmatchedAnswer
  <2>4. ASSUME NEW i \in Id, PlainAnswer(i) \/ DiscoveryError(i)
        PROVE  P
    BY <2>4, <1>1 DEF PlainAnswer, DiscoveryError
  <2>5. ASSUME NEW i \in Id, NEW page, DiscoveryPage(i, page)
        PROVE  P
    BY <2>5, <1>1 DEF DiscoveryPage
  <2> QED
    BY <1>4, <2>1, <2>2, <2>3, <2>4, <2>5 DEF ServerFrame
<1>5. CASE ApprovalStep
  BY <1>5, <1>q, <1>2, QuietResult
  DEF ApprovalStep, HookReturns, ApprovalTimesOut, Settle, FinishApproval
<1>6. CASE PolicyPrepare \/ PolicyCommit \/ Tick
  BY <1>6, <1>q, QuietResult DEF PolicyPrepare, Prepare, PolicyCommit, Commit, Tick
<1> QED
  BY <1>3, <1>4, <1>5, <1>6 DEF Next

\* The client gets an upstream answer only to a request of its own that has
\* neither expired nor been answered.
THEOREM AnswersAreSolicited == Spec => NoUnsolicitedAnswer
<1>1. SessionInv /\ [Next]_vars =>
        [result'.forward = "client" /\ result'.reason = "answer" => awaiting[result'.id] > 0]_vars
  BY AnswerStep
<1> QED
  BY <1>1, SessionInvariant, PTL DEF Spec, NoUnsolicitedAnswer

LEMMA RefusalStep ==
  ASSUME TypeOK, [Next]_vars, NEW c \in Call,
         approvals[c] # None, approvals[c].outcome \notin {"undecided", "approved"}
  PROVE  \/ approvals'[c] = approvals[c]
         \/ approvals'[c] = None /\ result'.forward = "none"
<1> DEFINE P == \/ approvals'[c] = approvals[c]
                \/ approvals'[c] = None /\ result'.forward = "none"
<1>k. CASE UNCHANGED approvals
  BY <1>k
<1>1. ASSUME NEW d \in Call, NEW i \in Id, NEW t \in Tool, NEW a \in Args, AskApproval(d, i, t, a)
      PROVE  P
  BY <1>1 DEF AskApproval, TypeOK
<1>2. ASSUME NEW d \in Call, NEW outcome \in Outcome, Settle(d, outcome)
      PROVE  P
  BY <1>2 DEF Settle, Undecided, TypeOK
<1>3. ASSUME NEW d \in Call, FinishApproval(d)
      PROVE  P
  <2>1. CASE d = c
    <3>1. approvals'[c] = None
      BY <1>3, <2>1 DEF FinishApproval, TypeOK
    <3>2. \E why : Deny(approvals[c].id, why)
      BY <1>3, <2>1 DEF FinishApproval
    <3> QED
      BY <3>1, <3>2, QuietResult
  <2>2. CASE d # c
    BY <1>3, <2>2 DEF FinishApproval, TypeOK
  <2> QED
    BY <2>1, <2>2
<1>4. ASSUME NEW h \in Handle, NEW p \in Policy, Prepare(h, p)
      PROVE  P
  BY <1>4 DEF Prepare, Undecided
<1>5. CASE ClientFrame
  BY <1>5, <1>k, <1>1
  DEF ClientFrame, ClientUnparsable, ClientAnswer, DeniedRequest, PlainRequest, MalformedCall,
      HiddenCall, AllowedCall, DeniedCall, UnaskableCall
<1>6. CASE ServerFrame \/ PolicyCommit \/ Tick
  BY <1>6, <1>k
  DEF ServerFrame, ServerUnparsable, ServerRequest, UnmatchedAnswer, PlainAnswer, DiscoveryError,
      DiscoveryPage, Relay, PolicyCommit, Commit, Tick
<1>7. CASE ApprovalStep
  BY <1>7, <1>2, <1>3 DEF ApprovalStep, HookReturns, ApprovalTimesOut, Outcome
<1>8. CASE UNCHANGED vars
  BY <1>8, <1>k DEF vars
<1> QED
  BY <1>4, <1>5, <1>6, <1>7, <1>8 DEF Next, PolicyPrepare

\* No late approval, and nothing else, revives a call that was refused, timed
\* out or aborted by a policy reload.
THEOREM RefusalsStand == Spec => RefusalIsFinal
<1>1. TypeOK /\ [Next]_vars =>
        [\A c \in Call :
           approvals[c] # None /\ approvals[c].outcome \notin {"undecided", "approved"} =>
             \/ approvals'[c] = approvals[c]
             \/ approvals'[c] = None /\ result'.forward = "none"]_vars
  BY RefusalStep
<1> QED
  BY <1>1, TypeCorrect, PTL DEF Spec, RefusalIsFinal
=============================================================================
