------------------------- MODULE SerialSession_proofs -------------------------
(***************************************************************************)
(* What the operation queue adds to ProxySession, for every value of the   *)
(* constants, and that the session behind it implements ToolGate.          *)
(***************************************************************************)
EXTENDS SerialSession, ProxySession_proofs

-----------------------------------------------------------------------------
(* The inductive invariant.                                                *)

\* The queue lets one operation in at a time.
OneSuspended ==
  \A c, d \in Call : approvals[c] # None /\ approvals[d] # None => c = d

\* What was decided before the await is still so during it.
DecisionStands ==
  \A c \in Call : approvals[c] # None =>
    /\ approvals[c].under = policy
    /\ visible[approvals[c].tool] = approvals[c].caps
    /\ approvals[c].id \notin Live(pending)

SerialInv ==
  /\ SessionInv
  /\ OneSuspended
  /\ DecisionStands
  /\ ForwardedCallIsCurrent

LEMMA SerialStep == [SerialNext]_vars => [Next]_vars
BY DEF SerialNext, Next

LEMMA SessionStep == SerialInv /\ [SerialNext]_vars => SessionInv'
BY SerialStep, NextInv DEF SerialInv

\* A step is an operation that found the queue empty, a step of the suspended
\* approval, the preparation of a policy, or time.
LEMMA SuspendedStep ==
  ASSUME SerialInv, SerialNext
  PROVE  OneSuspended'
<1>t. approvals \in [Call -> Approval \cup {None}]
  BY DEF SerialInv, SessionInv, TypeOK
<1>k. CASE \A c \in Call : approvals'[c] # None => approvals[c] # None
  BY <1>k DEF OneSuspended, SerialInv
<1>1. ASSUME NEW c \in Call, NEW i \in Id, NEW t \in Tool, NEW a \in Args, Quiescent,
             AskApproval(c, i, t, a)
      PROVE  OneSuspended'
  BY <1>1, <1>t DEF Quiescent, AskApproval, OneSuspended
<1>2. CASE Quiescent /\ ClientFrame
  BY <1>2, <1>1, <1>k
  DEF ClientFrame, ClientUnparsable, ClientAnswer, DeniedRequest, PlainRequest, MalformedCall,
      HiddenCall, AllowedCall, DeniedCall, UnaskableCall
<1>3. CASE ServerFrame \/ PolicyCommit \/ Tick
  BY <1>3, <1>k
  DEF ServerFrame, ServerUnparsable, ServerRequest, UnmatchedAnswer, PlainAnswer, DiscoveryError,
      DiscoveryPage, Relay, PolicyCommit, Commit, Tick
<1>4. CASE ApprovalStep
  <2>1. ASSUME NEW c \in Call, NEW outcome \in Outcome, Settle(c, outcome)
        PROVE  OneSuspended'
    BY <2>1, <1>t, <1>k DEF Settle, Undecided
  <2>2. ASSUME NEW c \in Call, FinishApproval(c)
        PROVE  OneSuspended'
    BY <2>2, <1>t, <1>k DEF FinishApproval
  <2> QED
    BY <1>4, <2>1, <2>2 DEF ApprovalStep, HookReturns, ApprovalTimesOut, Outcome
<1>5. CASE PolicyPrepare
  BY <1>5, <1>k DEF PolicyPrepare, Prepare, Undecided
<1> QED
  BY <1>2, <1>3, <1>4, <1>5 DEF SerialNext

\* Neither eviction nor time makes an expired entry live.
LEMMA LiveShrinks ==
  ASSUME NEW S, NEW p \in [S -> Entry \cup {None}]
  PROVE  /\ Live(Evict(p)) \subseteq Live(p)
         /\ Live(Aged(p)) \subseteq Live(p)
<1>1. \A q \in [S -> Entry \cup {None}] :
        Live(q) = {i \in S : q[i] # None /\ q[i].ttl # 0}
  BY DEF Live, Taken, Evict
<1>2. /\ Evict(p) \in [S -> Entry \cup {None}] /\ \A i \in S : Evict(p)[i] \in {p[i], None}
      /\ Aged(p) \in [S -> Entry \cup {None}]
  BY MapShape
<1>3. Live(Evict(p)) \subseteq Live(p)
  BY <1>1, <1>2
<1>4. \A i \in S : Aged(p)[i] # None /\ Aged(p)[i].ttl # 0 => p[i] # None /\ p[i].ttl # 0
  <2> SUFFICES ASSUME NEW i \in S, Aged(p)[i] # None, Aged(p)[i].ttl # 0
               PROVE  p[i] # None /\ p[i].ttl # 0
    OBVIOUS
  <2>1. p[i] # None
    BY MapShape
  <2>2. CASE p[i].ttl = 0
    BY <2>2 DEF Aged
  <2> QED
    BY <2>1, <2>2
<1> QED
  BY <1>1, <1>2, <1>3, <1>4

LEMMA DecisionStep ==
  ASSUME SerialInv, SerialNext
  PROVE  DecisionStands'
<1>t. /\ approvals \in [Call -> Approval \cup {None}]
      /\ pending \in [Id -> Entry \cup {None}]
      /\ visible \in [Tool -> Caps \cup {None}]
  BY DEF SerialInv, SessionInv, TypeOK
<1>q. CASE \A c \in Call : approvals'[c] = None
  BY <1>q DEF DecisionStands
<1>k. CASE /\ \A c \in Call : approvals'[c] # None =>
                /\ approvals[c] # None
                /\ approvals'[c].under = approvals[c].under
                /\ approvals'[c].tool = approvals[c].tool
                /\ approvals'[c].caps = approvals[c].caps
                /\ approvals'[c].id = approvals[c].id
           /\ policy' = policy /\ visible' = visible
           /\ Live(pending') \subseteq Live(pending)
  BY <1>k DEF DecisionStands, SerialInv
<1>o. ASSUME NEW a \in Approval, NEW outcome \in Outcome
      PROVE  LET b == [a EXCEPT !.outcome = outcome] IN
             b.under = a.under /\ b.tool = a.tool /\ b.caps = a.caps /\ b.id = a.id
  BY DEF Approval
<1>1. ASSUME NEW c \in Call, NEW i \in Id, NEW t \in Tool, NEW a \in Args, Quiescent,
             AskApproval(c, i, t, a)
      PROVE  DecisionStands'
  <2>1. /\ \A d \in Call : approvals'[d] # None => d = c
        /\ approvals'[c] = [id |-> i, tool |-> t, caps |-> visible[t], args |-> a,
                            under |-> policy, outcome |-> "undecided"]
    BY <1>1, <1>t DEF AskApproval, Quiescent
  <2>2. policy' = policy /\ visible' = visible /\ pending' = Evict(pending)
    BY <1>1 DEF AskApproval
  <2>3. i \notin Live(pending')
    BY <1>1, <1>t, <2>2, LiveShrinks DEF AskApproval, Decided, Admissible
  <2> QED
    BY <2>1, <2>2, <2>3 DEF DecisionStands
<1>2. CASE Quiescent /\ ClientFrame
  BY <1>2, <1>1, <1>q
  DEF ClientFrame, ClientUnparsable, ClientAnswer, DeniedRequest, PlainRequest, MalformedCall,
      HiddenCall, AllowedCall, DeniedCall, UnaskableCall, Quiescent
<1>3. CASE Quiescent /\ (ServerFrame \/ PolicyCommit)
  BY <1>3, <1>q
  DEF ServerFrame, ServerUnparsable, ServerRequest, UnmatchedAnswer, PlainAnswer, DiscoveryError,
      DiscoveryPage, Relay, PolicyCommit, Commit, Quiescent
<1>4. ASSUME NEW c \in Call, NEW outcome \in Outcome, Settle(c, outcome)
      PROVE  DecisionStands'
  <2>1. pending' = pending /\ policy' = policy /\ visible' = visible
    BY <1>4 DEF Settle
  <2>2. approvals[c] \in Approval
    BY <1>4, <1>t DEF Settle, Undecided
  <2>3. approvals' = [approvals EXCEPT ![c] = [approvals[c] EXCEPT !.outcome = outcome]]
    BY <1>4 DEF Settle
  <2> QED
    BY <2>1, <2>2, <2>3, <1>k, <1>o, <1>t, <1>4 DEF Settle, Undecided
<1>5. ASSUME NEW c \in Call, FinishApproval(c)
      PROVE  DecisionStands'
  BY <1>5, <1>q, <1>t DEF FinishApproval, SerialInv, OneSuspended
<1>6. ASSUME NEW h \in Handle, NEW p \in Policy, Prepare(h, p)
      PROVE  DecisionStands'
  <2>1. pending' = pending /\ policy' = policy /\ visible' = visible
    BY <1>6 DEF Prepare
  <2>2. \A c \in Call : approvals[c] # None =>
          LET b == [approvals[c] EXCEPT !.outcome = "reloaded"] IN
          /\ b.under = approvals[c].under /\ b.tool = approvals[c].tool
          /\ b.caps = approvals[c].caps /\ b.id = approvals[c].id
    BY <1>o, <1>t DEF Outcome
  <2>3. \A c \in Call : \/ approvals'[c] = approvals[c]
                        \/ /\ approvals[c] # None
                           /\ approvals'[c] = [approvals[c] EXCEPT !.outcome = "reloaded"]
    BY <1>6 DEF Prepare, Undecided
  <2> QED
    BY <2>1, <2>2, <2>3, <1>k
<1>7. CASE Tick
  BY <1>7, <1>k, <1>t, LiveShrinks DEF Tick
<1> QED
  BY <1>2, <1>3, <1>4, <1>5, <1>6, <1>7
  DEF SerialNext, ApprovalStep, HookReturns, ApprovalTimesOut, PolicyPrepare, Outcome

LEMMA CurrentCallStep ==
  ASSUME SerialInv, SerialNext
  PROVE  ForwardedCallIsCurrent'
<1>q. CASE result'.call = None
  BY <1>q DEF ForwardedCallIsCurrent, ForwardedToolIsVisible
<1>1. ASSUME NEW i \in Id, NEW t \in Tool, NEW a \in Args, AllowedCall(i, t, a)
      PROVE  ForwardedCallIsCurrent'
  <2> DEFINE call == [tool |-> t, caps |-> visible[t], args |-> a, under |-> policy]
  <2>1. result'.call = None \/ result'.call = call
    BY <1>1, SendCallResult DEF AllowedCall
  <2>2. policy' = policy /\ visible' = visible
    BY <1>1 DEF AllowedCall, SendCall
  <2> QED
    BY <1>q, <2>1, <2>2 DEF ForwardedCallIsCurrent, ForwardedToolIsVisible
<1>2. ASSUME NEW c \in Call, FinishApproval(c)
      PROVE  ForwardedCallIsCurrent'
  <2> DEFINE a == approvals[c]
             call == [tool |-> a.tool, caps |-> a.caps, args |-> a.args, under |-> a.under]
  <2>1. result'.call = None \/ result'.call = call
    <3>1. CASE SendCall(a.id, "policy.approval_granted", call)
      BY <3>1, SendCallResult
    <3>2. CASE \E why : Deny(a.id, why)
      BY <3>2, QuietResult
    <3> QED
      BY <1>2, <3>1, <3>2 DEF FinishApproval
  <2>2. policy' = policy /\ visible' = visible
    BY <1>2 DEF FinishApproval, SendCall
  <2>3. a.under = policy /\ visible[a.tool] = a.caps
    BY <1>2 DEF FinishApproval, SerialInv, DecisionStands
  <2> QED
    BY <1>q, <2>1, <2>2, <2>3 DEF ForwardedCallIsCurrent, ForwardedToolIsVisible
<1>3. CASE ClientFrame
  BY <1>3, <1>q, <1>1, QuietResult
  DEF ClientFrame, ClientUnparsable, ClientAnswer, DeniedRequest, PlainRequest, MalformedCall,
      HiddenCall, DeniedCall, UnaskableCall, AskApproval
<1>4. CASE ServerFrame
  BY <1>4, <1>q, QuietResult
  DEF ServerFrame, ServerUnparsable, ServerRequest, UnmatchedAnswer, PlainAnswer, DiscoveryError,
      DiscoveryPage, Relay
<1>5. CASE ApprovalStep \/ PolicyPrepare \/ PolicyCommit \/ Tick
  BY <1>5, <1>q, <1>2, QuietResult
  DEF ApprovalStep, HookReturns, ApprovalTimesOut, Settle, PolicyPrepare, Prepare, PolicyCommit,
      Commit, Tick
<1> QED
  BY <1>3, <1>4, <1>5 DEF SerialNext

-----------------------------------------------------------------------------
(* The theorems.                                                           *)

LEMMA SerialInitInv == Init => SerialInv
<1> SUFFICES ASSUME Init PROVE SerialInv
  OBVIOUS
<1>1. OneSuspended /\ DecisionStands
  BY DEF Init, OneSuspended, DecisionStands
<1>2. ForwardedCallIsCurrent
  BY DEF Init, NoResult, ForwardedCallIsCurrent, ForwardedToolIsVisible
<1> QED
  BY <1>1, <1>2, InitInv DEF SerialInv

LEMMA SerialNextInv == SerialInv /\ [SerialNext]_vars => SerialInv'
<1> SUFFICES ASSUME SerialInv, [SerialNext]_vars PROVE SerialInv'
  OBVIOUS
<1>1. CASE SerialNext
  BY <1>1, SessionStep, SuspendedStep, DecisionStep, CurrentCallStep DEF SerialInv
<1>2. CASE UNCHANGED vars
  <2>1. OneSuspended' /\ DecisionStands'
    BY <1>2 DEF vars, SerialInv, OneSuspended, DecisionStands
  <2>2. ForwardedCallIsCurrent'
    BY <1>2 DEF vars, SerialInv, ForwardedCallIsCurrent, ForwardedToolIsVisible
  <2> QED
    BY <2>1, <2>2, SessionStep DEF SerialInv
<1> QED
  BY <1>1, <1>2

\* The invariant of the session behind the queue.
THEOREM SerialInvariant == SerialSpec => []SerialInv
BY SerialInitInv, SerialNextInv, PTL DEF SerialSpec

\* Behind the queue, no undecided approval outlives its policy.
THEOREM NoApprovalOutlivesItsPolicy == SerialSpec => []PendingApprovalsUnderPolicyInForce
<1>1. SerialInv => PendingApprovalsUnderPolicyInForce
  BY DEF SerialInv, DecisionStands, PendingApprovalsUnderPolicyInForce, Undecided
<1> QED
  BY <1>1, SerialInvariant, PTL

\* Behind the queue, a call that goes out was decided under the policy in force
\* for a tool that is still visible, however long its approval took.
THEOREM CallsAreCurrent == SerialSpec => []ForwardedCallIsCurrent
<1>1. SerialInv => ForwardedCallIsCurrent
  BY DEF SerialInv
<1> QED
  BY <1>1, SerialInvariant, PTL

LEMMA CorrelationStep ==
  ASSUME SerialInv, SerialNext
  PROVE  result'.forward = "upstream" /\ result'.reason # "answer" => result'.id \notin Live(pending)
<1> DEFINE P == result'.forward = "upstream" /\ result'.reason # "answer" =>
                  result'.id \notin Live(pending)
<1>q. CASE result'.forward # "upstream" \/ result'.reason = "answer"
  BY <1>q
<1>1. ASSUME NEW i, NEW why, NEW call, SendCall(i, why, call), i \notin Live(pending)
      PROVE  P
  <2>1. CASE Deny(i, "pending_limit")
    BY <2>1, QuietResult
  <2>2. CASE ForwardCall(i, why, call)
    BY <1>1, <2>2 DEF ForwardCall, NoResult
  <2> QED
    BY <1>1, <2>1, <2>2 DEF SendCall
<1>2. CASE ClientFrame
  <2>1. ASSUME NEW i \in Id, NEW t \in Tool, NEW a \in Args, AllowedCall(i, t, a)
        PROVE  P
    BY <2>1, <1>1 DEF AllowedCall, Decided, Admissible
  <2>2. ASSUME NEW i, NEW m, NEW cursor, PlainRequest(i, m, cursor)
        PROVE  P
    BY <2>2, QuietResult DEF PlainRequest, Admissible
  <2>3. ASSUME NEW i, NEW emptyResult, ClientAnswer(i, emptyResult)
        PROVE  P
    BY <2>3, QuietResult DEF ClientAnswer
  <2> QED
    BY <1>2, <1>q, <2>1, <2>2, <2>3, QuietResult
    DEF ClientFrame, ClientUnparsable, DeniedRequest, MalformedCall, HiddenCall, DeniedCall,
        UnaskableCall, AskApproval
<1>3. CASE ServerFrame
  <2>1. ASSUME NEW i, NEW m, NEW params, ServerRequest(i, m, params)
        PROVE  P
    <3>1. (\E why : Deny(i, why)) \/ Forward("client", i, "none")
      BY <2>1 DEF ServerRequest
    <3> QED
      BY <3>1, QuietResult
  <2> QED
    BY <1>3, <1>q, <2>1, QuietResult
    DEF ServerFrame, ServerUnparsable, UnmatchedAnswer, PlainAnswer, DiscoveryError, DiscoveryPage,
        Relay
<1>4. CASE ApprovalStep
  <2>1. ASSUME NEW c \in Call, FinishApproval(c)
        PROVE  P
    <3>1. approvals[c].id \notin Live(pending)
      BY <2>1 DEF FinishApproval, SerialInv, DecisionStands
    <3> QED
      BY <2>1, <3>1, <1>1, QuietResult DEF FinishApproval
  <2> QED
    BY <1>4, <2>1, QuietResult DEF ApprovalStep, HookReturns, ApprovalTimesOut, Settle
<1>5. CASE PolicyPrepare \/ PolicyCommit \/ Tick
  BY <1>5, QuietResult DEF PolicyPrepare, Prepare, PolicyCommit, Commit, Tick
<1> QED
  BY <1>2, <1>3, <1>4, <1>5 DEF SerialNext

\* Behind the queue, no request overwrites the correlation entry of another.
THEOREM CorrelationIsKept == SerialSpec => NoCorrelationOverwritten
<1>1. SerialInv /\ [SerialNext]_vars =>
        [result'.forward = "upstream" /\ result'.reason # "answer" =>
           result'.id \notin Live(pending)]_vars
  BY CorrelationStep
<1> QED
  BY <1>1, SerialInvariant, PTL DEF SerialSpec, NoCorrelationOverwritten

-----------------------------------------------------------------------------
(* The refinement of ToolGate.                                             *)

\* The gate's cardinalities are the session's.
LEMMA GateCardinality == \A S : Gate!Cardinality(S) = Cardinality(S)
BY DEF Gate!Cardinality, Cardinality

\* Remembering a request below the limit opens its id.
LEMMA OpenStep ==
  ASSUME TypeOK, NEW i \in Id, NEW m \in Method, NEW continues \in BOOLEAN,
         ~Full(pending), i \notin Live(pending), pending' = Remember(pending, i, m, continues)
  PROVE  Gate!Open(i)
<1>t. pending \in [Id -> Entry \cup {None}] /\ None \notin Id
  BY NoneAssumption DEF TypeOK
<1>1. /\ pending' \in [Id -> Entry \cup {None}]
      /\ \A j \in Id \ {i} : pending'[j] = Evict(pending)[j]
      /\ pending'[i] # None
  BY <1>t, RememberShape
<1>2. Evict(pending) \in [Id -> Entry \cup {None}] /\ Live(pending) \subseteq Taken(pending)
  BY <1>t, MapShape
<1>3. Taken(pending') = Live(pending) \cup {i}
  BY <1>1, <1>2 DEF Taken, Live
<1>4. Cardinality(Live(pending)) < MaxPending
  <2>1. Live(pending) \subseteq Id
    BY <1>2, <1>t DEF Taken
  <2>2. Cardinality(Live(pending)) \in Nat
    BY <2>1, FS_Subset, FS_CardinalityType, ConstantsAssumption
  <2> QED
    BY <2>2, ConstantsAssumption DEF Full
<1> QED
  BY <1>2, <1>3, <1>4, GateCardinality DEF Gate!Open

\* A step that only forgets requests is a step of the gate.
LEMMA CloseStep ==
  ASSUME Taken(pending') \subseteq Taken(pending), result'.call = None,
         policy' = policy, visible' = visible
  PROVE  Gate!Next
<1>1. Catalogue' = Catalogue
  BY DEF Catalogue
<1>2. Gate!Close
  BY <1>1 DEF Gate!Close
<1> QED
  BY <1>2 DEF Gate!Next

\* The tail of both tools/call paths is a step of the gate, whether the call
\* goes out or is refused for want of a slot.
LEMMA GateCallStep ==
  ASSUME TypeOK, VisibleUnderPolicyInForce, NEW i \in Id, NEW t \in Tool, NEW caps \in Caps,
         NEW a \in Args, NEW why, visible[t] = caps, i \notin Live(pending),
         Verdict(policy, t, caps, a) # "deny",
         SendCall(i, why, [tool |-> t, caps |-> caps, args |-> a, under |-> policy])
  PROVE  Gate!Next
<1> DEFINE call == [tool |-> t, caps |-> caps, args |-> a, under |-> policy]
<1>k. policy' = policy /\ visible' = visible
  BY DEF SendCall
<1>1. CASE Full(pending)
  <2>1. result'.call = None
    BY <1>1, QuietResult DEF SendCall
  <2>2. pending' = Evict(pending)
    BY <1>1 DEF SendCall
  <2>3. Taken(pending') \subseteq Taken(pending)
    BY <2>2, MapShape DEF TypeOK
  <2> QED
    BY <1>k, <2>1, <2>3, CloseStep
<1>2. CASE ~Full(pending)
  <2>1. result'.call = call
    BY <1>2 DEF SendCall, ForwardCall, NoResult
  <2>2. Gate!Open(i)
    BY <1>2, OpenStep DEF SendCall, Method
  <2>3. <<t, caps>> \in Catalogue /\ Catalogue' = Catalogue
    BY <1>k DEF Catalogue
  <2>4. Gate!SendCall(i, <<t, caps>>, a)
    BY <1>k, <2>1, <2>2, <2>3 DEF Gate!SendCall
  <2> QED
    BY <2>4 DEF Gate!Next
<1> QED
  BY <1>1, <1>2

LEMMA GateInit == Init => Gate!Init
<1> SUFFICES ASSUME Init PROVE Gate!Init
  OBVIOUS
<1>1. Taken(pending) = {}
  BY DEF Init, Taken
<1>2. Catalogue = {}
  BY NoneAssumption DEF Init, Catalogue
<1>3. result.call = None
  BY DEF Init, NoResult
<1> QED
  BY <1>1, <1>2, <1>3 DEF Init, Gate!Init

\* Eviction forgets requests, and the clock forgets none.
LEMMA ForgetfulSteps ==
  ASSUME TypeOK
  PROVE  /\ Taken(Evict(pending)) \subseteq Taken(pending)
         /\ Taken(Aged(pending)) \subseteq Taken(pending)
<1>1. Taken(Evict(pending)) \subseteq Taken(pending)
  BY MapShape DEF TypeOK
<1>2. /\ Aged(pending) \in [Id -> Entry \cup {None}]
      /\ \A i \in Id : pending[i] = None <=> Aged(pending)[i] = None
  BY MapShape DEF TypeOK
<1>3. Taken(Aged(pending)) \subseteq Taken(pending)
  BY <1>2 DEF Taken, TypeOK
<1> QED
  BY <1>1, <1>3

\* An answer consumes the entry of its request.
LEMMA TakeStep ==
  ASSUME TypeOK, NEW i \in Id, Take(i)
  PROVE  Taken(pending') \subseteq Taken(pending) \ {i}
<1>1. /\ Evict(pending) \in [Id -> Entry \cup {None}]
      /\ \A j \in Id : Evict(pending)[j] \in {pending[j], None}
  BY MapShape DEF TypeOK
<1>2. pending' \in [Id -> Entry \cup {None}] /\ pending'[i] = None
      /\ \A j \in Id : pending'[j] \in {pending[j], None}
  BY <1>1 DEF Take
<1> QED
  BY <1>2 DEF Taken, TypeOK

LEMMA GateClientFrame ==
  ASSUME SerialInv, ClientFrame
  PROVE  Gate!Next
<1>t. TypeOK /\ VisibleUnderPolicyInForce /\ None \notin Id
  BY NoneAssumption DEF SerialInv, SessionInv
<1>c. CASE /\ pending' = pending \/ pending' = Evict(pending)
           /\ result'.call = None /\ policy' = policy /\ visible' = visible
  BY <1>c, <1>t, ForgetfulSteps, CloseStep
<1>1. CASE \/ ClientUnparsable
           \/ \E i \in ServerId, emptyResult \in BOOLEAN : ClientAnswer(i, emptyResult)
           \/ \E i \in Id \cup {None}, m \in MethodSeen : DeniedRequest(i, m)
           \/ \E i \in Id : MalformedCall(i)
           \/ \E i \in Id, t \in Tool : HiddenCall(i, t)
           \/ \E i \in Id, t \in Tool, a \in Args : DeniedCall(i, t, a)
           \/ \E i \in Id, t \in Tool, a \in Args : UnaskableCall(i, t, a)
           \/ \E c \in Call, i \in Id, t \in Tool, a \in Args : AskApproval(c, i, t, a)
  BY <1>1, <1>c, QuietResult
  DEF ClientUnparsable, ClientAnswer, DeniedRequest, MalformedCall, HiddenCall, DeniedCall,
      UnaskableCall, AskApproval
<1>2. ASSUME NEW i \in Id \cup {None}, NEW m \in MethodSeen, NEW cursor \in BOOLEAN,
             PlainRequest(i, m, cursor)
      PROVE  Gate!Next
  <2>k. policy' = policy /\ visible' = visible
    BY <1>2 DEF PlainRequest
  <2>1. CASE pending' = Evict(pending) /\ ((\E why : Deny(i, why)) \/ Forward("upstream", i, "none"))
    BY <2>1, <2>k, <1>c, QuietResult
  <2>2. CASE /\ ~(i # None /\ Full(pending)) /\ i # None
             /\ Forward("upstream", i, "none")
             /\ pending' = Remember(pending, i, m, m = "tools/list" /\ cursor)
    <3>1. m \in Method /\ i \in Id /\ i \notin Live(pending) /\ ~Full(pending)
      BY <1>2, <1>t, <2>2, ConstantsAssumption DEF PlainRequest, Admissible, TypeOK
    <3>2. Gate!Open(i)
      BY <3>1, <1>t, <2>2, OpenStep
    <3>3. Gate!SendRequest(i)
      BY <3>2, <2>2, <2>k, QuietResult DEF Gate!SendRequest, Catalogue
    <3> QED
      BY <3>1, <3>3 DEF Gate!Next
  <2> QED
    BY <1>2, <2>1, <2>2 DEF PlainRequest, Remember
<1>3. ASSUME NEW i \in Id, NEW t \in Tool, NEW a \in Args, AllowedCall(i, t, a)
      PROVE  Gate!Next
  <2>1. /\ visible[t] \in Caps /\ i \notin Live(pending)
        /\ Verdict(policy, t, visible[t], a) = "allow"
    BY <1>3, <1>t DEF AllowedCall, Decided, Admissible, TypeOK
  <2> QED
    BY <1>3, <1>t, <2>1, GateCallStep DEF AllowedCall
<1> QED
  BY <1>1, <1>2, <1>3 DEF ClientFrame

LEMMA GateServerFrame ==
  ASSUME SerialInv, SessionInv', ServerFrame
  PROVE  Gate!Next
<1>t. TypeOK /\ TypeOK' /\ VisibleUnderPolicyInForce'
  BY DEF SerialInv, SessionInv
<1>1. CASE \/ ServerUnparsable
           \/ \E i \in ServerId \cup {None}, m \in MethodSeen, params \in BOOLEAN :
                ServerRequest(i, m, params)
  <2>1. /\ policy' = policy /\ visible' = visible /\ pending' = pending
        /\ result'.call = None
    BY <1>1, QuietResult DEF ServerUnparsable, ServerRequest
  <2> QED
    BY <2>1, CloseStep
<1>2. ASSUME NEW i \in Id, UnmatchedAnswer(i) \/ PlainAnswer(i)
      PROVE  Gate!Next
  <2>1. Take(i) /\ result'.call = None /\ policy' = policy /\ visible' = visible
    BY <1>2, QuietResult DEF UnmatchedAnswer, PlainAnswer, Relay
  <2> QED
    BY <2>1, <1>t, TakeStep, CloseStep
<1>3. ASSUME NEW i \in Id, Relay(i)
      PROVE  Gate!Next
  <2>1. Take(i) /\ result'.call = None /\ policy' = policy /\ i \in Live(pending)
    BY <1>3, QuietResult DEF Relay
  <2>2. i \in Taken(pending) /\ Taken(pending') \subseteq Taken(pending) \ {i}
    BY <2>1, <1>t, TakeStep, MapShape DEF TypeOK
  <2>3. Catalogue' \subseteq Gate!Allowed(policy)
    BY <1>t, <2>1, NoneAssumption
    DEF Catalogue, Gate!Allowed, VisibleUnderPolicyInForce
  <2>4. \A d, e \in Catalogue' : d[1] = e[1] => d = e
    BY DEF Catalogue
  <2>5. Gate!Discover(i)
    BY <2>1, <2>2, <2>3, <2>4 DEF Gate!Discover
  <2> QED
    BY <2>5 DEF Gate!Next
<1> QED
  BY <1>1, <1>2, <1>3 DEF ServerFrame, DiscoveryError, DiscoveryPage

LEMMA GateOtherSteps ==
  ASSUME SerialInv, ApprovalStep \/ PolicyPrepare \/ PolicyCommit \/ Tick
  PROVE  Gate!Next
<1>t. TypeOK /\ VisibleUnderPolicyInForce /\ ApprovalsWereAsked /\ DecisionStands
  BY DEF SerialInv, SessionInv
<1>c. CASE /\ pending' = pending \/ pending' = Aged(pending)
           /\ result'.call = None /\ policy' = policy /\ visible' = visible
  BY <1>c, <1>t, ForgetfulSteps, CloseStep
<1>1. ASSUME NEW c \in Call, FinishApproval(c)
      PROVE  Gate!Next
  <2> DEFINE a == approvals[c]
  <2>1. CASE SendCall(a.id, "policy.approval_granted",
                      [tool |-> a.tool, caps |-> a.caps, args |-> a.args, under |-> a.under])
    <3>1. a \in Approval
      BY <1>1, <1>t DEF FinishApproval, TypeOK
    <3>2. /\ a.id \in Id /\ a.tool \in Tool /\ a.caps \in Caps /\ a.args \in Args
          /\ a.under = policy /\ visible[a.tool] = a.caps /\ a.id \notin Live(pending)
          /\ Verdict(a.under, a.tool, a.caps, a.args) = "approval_required"
      BY <1>1, <1>t, <3>1 DEF FinishApproval, DecisionStands, ApprovalsWereAsked, Approval
    <3> QED
      BY <1>t, <2>1, <3>2, GateCallStep
  <2>2. CASE (\E why : Deny(a.id, why)) /\ UNCHANGED <<policy, visible, pending>>
    BY <2>2, <1>c, QuietResult
  <2> QED
    BY <1>1, <2>1, <2>2 DEF FinishApproval
<1>2. CASE PolicyCommit
  <2>1. PICK h \in Handle : Commit(h)
    BY <1>2 DEF PolicyCommit
  <2>2. prepared[h] \in Policy /\ policy' = prepared[h] /\ pending' = pending
    BY <2>1 DEF Commit
  <2>3. Catalogue' = {}
    BY <2>1, NoneAssumption DEF Commit, NothingVisible, Catalogue
  <2>4. Gate!Replace(prepared[h])
    BY <2>1, <2>2, <2>3, QuietResult DEF Commit, Gate!Replace
  <2> QED
    BY <2>2, <2>4 DEF Gate!Next
<1>3. CASE PolicyPrepare \/ Tick
  BY <1>3, <1>c, QuietResult DEF PolicyPrepare, Prepare, Tick
<1>4. CASE ApprovalStep
  BY <1>4, <1>1, <1>c, QuietResult DEF ApprovalStep, HookReturns, ApprovalTimesOut, Settle
<1> QED
  BY <1>2, <1>3, <1>4

LEMMA GateStep ==
  ASSUME SerialInv, [SerialNext]_vars
  PROVE  [Gate!Next]_(Gate!gateVars)
<1>1. CASE SerialNext
  BY <1>1, SessionStep, GateClientFrame, GateServerFrame, GateOtherSteps DEF SerialNext
<1>2. CASE UNCHANGED vars
  BY <1>2 DEF vars, Gate!gateVars, Catalogue
<1> QED
  BY <1>1, <1>2

\* Behind the queue the session implements the gate: what handleClientLine
\* decided before it awaited the approval is still true when the call goes out.
THEOREM SerialImplementsGate == SerialSpec => ImplementsToolGate
BY GateInit, GateStep, SerialInvariant, PTL DEF SerialSpec, ImplementsToolGate, Gate!Spec
=============================================================================
