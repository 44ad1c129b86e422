----------------------------- MODULE ProxySession -----------------------------
(***************************************************************************)
(* The protocol gate of the proxy: class ProxySession of                   *)
(* packages/proxy-runtime/src/session.ts.  It decides every JSON-RPC frame *)
(* a client or the upstream MCP server sends, remembers the requests that  *)
(* still wait for an answer, the tools the last discovery showed, and the  *)
(* policy in force.                                                        *)
(*                                                                         *)
(* A handler runs to its end without interruption, so it is one action;    *)
(* handleClientLineWithApproval is the exception: it awaits the approval   *)
(* hook, and anything may happen between AskApproval, the end of the race  *)
(* between hook, timer and abort signal, and FinishApproval.               *)
(*                                                                         *)
(* Frames are abstracted to what the gate tells apart: the id, the method, *)
(* whether a discovery cursor is present, the tool name, a class of        *)
(* arguments.  A policy is abstracted to three questions: which methods it *)
(* allows, whether a descriptor may be shown, and what it says of a call.  *)
(***************************************************************************)
EXTENDS Integers, FiniteSets

CONSTANTS
  Id,                   \* JSON-RPC ids a client uses
  ServerId,             \* JSON-RPC ids the upstream server uses
  Tool,                 \* tool names
  Caps,                 \* capability lists a classified descriptor can carry
  Args,                 \* argument shapes of a tools/call
  Policy,               \* validated policy snapshots
  InitialPolicy,
  AllowedMethods(_),    \* methodPolicy.allowedMethods of a policy
  Discoverable(_, _, _),\* toolIsDiscoverable(policy, name, capabilities)
  Verdict(_, _, _, _),  \* evaluateToolCall(policy, name, capabilities, args).action
  MaxPending,           \* maxPendingRequests
  TTL,                  \* pendingRequestTtlMs, in ticks of the clock
  Call,                 \* handleClientLineWithApproval calls that can overlap
  Handle,               \* replacements preparePolicyReplacement hands out
  Spent,                \* a replacement that was committed
  None                  \* no id, hidden tool, free entry, idle call, ...

\* What contracts/validation.ts lets a policy list (MVP_ALLOWED_METHODS).
Method == {"initialize", "notifications/initialized", "ping", "tools/list", "tools/call"}
MethodSeen == Method \cup {"unsupported"}
IdRequired == Method \ {"notifications/initialized"}

\* PendingRequestState.  The code stores expiresAt and compares it with the clock;
\* ttl stands for expiresAt - Date.now(), and for 0 once that time is reached.
Entry == [method : Method, continues : BOOLEAN, ttl : 0 .. TTL]

\* One suspended handleClientLineWithApproval: the frame, the tool metadata and
\* the policy its decision was taken under, and how the race has been decided.
Outcome == {"undecided", "approved", "rejected", "failed", "timeout", "reloaded"}
Approval == [id : Id, tool : Tool, caps : Caps, args : Args, under : Policy, outcome : Outcome]

\* A tools/call frame handed to the upstream, with the policy that decided it.
SentCall == [tool : Tool, caps : Caps, args : Args, under : Policy]

\* ProxyFrameResult: where the frame goes, whether the sender gets an error
\* response, and the reason recorded in the audit.
Reason == {"none", "jsonrpc.invalid", "jsonrpc.unmatched_response", "ping_response_not_empty",
           "method.unsupported", "method.server_origin", "bad_shape", "duplicate_id",
           "discovery_busy", "pending_limit", "call_params", "tool.not_visible",
           "policy.denied", "policy.allowed", "policy.approval_hook_missing",
           "policy.approval_hook_failed", "policy.reloaded", "policy.approval_denied",
           "policy.approval_granted", "answer"}
Result == [forward : {"none", "upstream", "client"}, respond : BOOLEAN,
           id : Id \cup ServerId \cup {None}, reason : Reason, call : SentCall \cup {None}]

ASSUME ConstantsAssumption ==
  /\ InitialPolicy \in Policy
  /\ \A p \in Policy : AllowedMethods(p) \subseteq Method
  /\ \A p \in Policy, t \in Tool, c \in Caps : Discoverable(p, t, c) \in BOOLEAN
  /\ \A p \in Policy, t \in Tool, c \in Caps, a \in Args :
        Verdict(p, t, c, a) \in {"allow", "approval_required", "deny"}
  /\ MaxPending \in Nat \ {0}
  /\ TTL \in Nat \ {0}
  /\ IsFiniteSet(Id) /\ IsFiniteSet(ServerId)

ASSUME NoneAssumption ==
  /\ None \notin Id \cup ServerId \cup Tool \cup Caps \cup Policy
  /\ None \notin Entry /\ None \notin Approval /\ None \notin SentCall
  /\ Spent \notin Policy /\ Spent # None

VARIABLES
  policy,         \* this.policy
  visible,        \* visibleTools: name -> capabilities, None when not visible
  pending,        \* pendingRequestMethods: client requests waiting upstream
  serverPending,  \* pendingServerOriginMethods: server pings waiting for the client
  approvals,      \* the suspended approval calls; a call is in it exactly while its
                  \* controller is in activeApprovalControllers
  prepared,       \* the policy each handed-out commit closes over
  result,         \* what the last handler returned
  awaiting        \* history: how long the client may still be given the answer to
                  \* the last request it sent under an id; 0 once it got it

vars == <<policy, visible, pending, serverPending, approvals, prepared, result, awaiting>>

-----------------------------------------------------------------------------
(* The pending maps.                                                       *)

Taken(p) == {i \in DOMAIN p : p[i] # None}

\* Mutant: the comparison with the clock is swapped.
Evict_Swapped(p) == [i \in DOMAIN p |-> IF p[i] # None /\ p[i].ttl > 0 THEN None ELSE p[i]]

\* Mutant: nothing is ever evicted.
Evict_Never(p) == p

\* evictExpiredPendingRequests: expiresAt <= now.
Evict(p) == [i \in DOMAIN p |-> IF p[i] # None /\ p[i].ttl = 0 THEN None ELSE p[i]]

Live(p) == Taken(Evict(p))

\* Mutant: one entry too many.
Full_OffByOne(p) == Cardinality(Live(p)) > MaxPending

\* denyPendingCapacityExceeded, for a frame that carries an id.
Full(p) == Cardinality(Live(p)) >= MaxPending

\* Map.set for a request; a notification has no id and is not remembered.
Remember(p, i, m, continues) ==
  IF i = None THEN Evict(p)
  ELSE [Evict(p) EXCEPT ![i] = [method |-> m, continues |-> continues, ttl |-> TTL]]

\* Mutant: a page that continues a discovery is taken for an ordinary request.
DiscoveryPending_FirstPageOnly ==
  \E j \in Live(pending) : pending[j].method = "tools/list" /\ ~pending[j].continues

\* denyConcurrentDiscoveryRequest
DiscoveryPending == \E j \in Live(pending) : pending[j].method = "tools/list"

-----------------------------------------------------------------------------
(* Results.                                                                *)

NoResult == [forward |-> "none", respond |-> FALSE, id |-> None, reason |-> "none", call |-> None]

\* denyEnvelope: an audit event, and an error response when the frame has an id.
Deny(i, why) == result' = [NoResult EXCEPT !.respond = (i # None), !.id = i, !.reason = why]

\* denyInvalidClientMessage and unparsable frames: answered even without an id.
DenyInvalid(i, why) == result' = [NoResult EXCEPT !.respond = TRUE, !.id = i, !.reason = why]

\* The frame disappears; only the audit sees it.
Drop(why) == result' = [NoResult EXCEPT !.reason = why]

Forward(to, i, why) == result' = [NoResult EXCEPT !.forward = to, !.id = i, !.reason = why]

ForwardCall(i, why, call) ==
  result' = [NoResult EXCEPT !.forward = "upstream", !.id = i, !.reason = why, !.call = call]

-----------------------------------------------------------------------------
(* Frames of the client: prepareClientLine.                                *)

\* parseJsonLine fails: too large, too deep, not JSON-RPC.
ClientUnparsable ==
  /\ DenyInvalid(None, "jsonrpc.invalid")
  /\ UNCHANGED <<policy, visible, pending, serverPending, approvals, prepared, awaiting>>

\* The answer to a server-origin request; the entry is consumed whatever the
\* answer holds, and only pings are ever remembered there.
ClientAnswer(i, emptyResult) ==
  /\ serverPending' = [Evict(serverPending) EXCEPT ![i] = None]
  /\ \/ i \notin Live(serverPending) /\ Drop("jsonrpc.unmatched_response")
     \/ i \in Live(serverPending) /\ ~emptyResult /\ Drop("ping_response_not_empty")
     \/ i \in Live(serverPending) /\ emptyResult /\ Forward("upstream", i, "answer")
  /\ UNCHANGED <<policy, visible, pending, approvals, prepared, awaiting>>

\* denyInvalidMethodShape
BadShape(i, m) ==
  \/ m \in IdRequired /\ i = None
  \/ m = "notifications/initialized" /\ i # None

\* The denials every request meets, in the order of the code.
DeniedRequest(i, m) ==
  /\ \/ /\ m \notin AllowedMethods(policy)
        /\ Deny(i, "method.unsupported")
        /\ UNCHANGED pending
     \/ /\ m \in AllowedMethods(policy)
        /\ BadShape(i, m)
        /\ DenyInvalid(i, "bad_shape")
        /\ UNCHANGED pending
     \/ /\ m \in AllowedMethods(policy)
        /\ ~BadShape(i, m)
        /\ i \in Live(pending)
        /\ Deny(i, "duplicate_id")
        /\ pending' = Evict(pending)
  /\ UNCHANGED <<policy, visible, serverPending, approvals, prepared, awaiting>>

Admissible(i, m) ==
  /\ m \in AllowedMethods(policy)
  /\ ~BadShape(i, m)
  /\ i \notin Live(pending)

\* A request handed to the upstream under id i may be answered for one TTL; i is
\* None for a notification, which nobody answers.
Promised(i) == [j \in Id |-> IF j = i THEN TTL ELSE awaiting[j]]

\* Every request but tools/call needs a free slot, and a tools/list needs that
\* no other discovery is under way.
PlainRequest(i, m, cursor) ==
  /\ m # "tools/call"
  /\ Admissible(i, m)
  /\ \/ /\ m = "tools/list" /\ DiscoveryPending
        /\ Deny(i, "discovery_busy")
        /\ pending' = Evict(pending)
        /\ UNCHANGED awaiting
     \/ /\ ~(m = "tools/list" /\ DiscoveryPending)
        /\ i # None /\ Full(pending)
        /\ Deny(i, "pending_limit")
        /\ pending' = Evict(pending)
        /\ UNCHANGED awaiting
     \/ /\ ~(m = "tools/list" /\ DiscoveryPending)
        /\ ~(i # None /\ Full(pending))
        /\ Forward("upstream", i, "none")
        /\ pending' = Remember(pending, i, m, m = "tools/list" /\ cursor)
        /\ awaiting' = Promised(i)
  /\ UNCHANGED <<policy, visible, serverPending, approvals, prepared>>

\* sanitizeToolCallRequestEnvelope refuses the params.
MalformedCall(i) ==
  /\ Admissible(i, "tools/call")
  /\ Deny(i, "call_params")
  /\ pending' = Evict(pending)
  /\ UNCHANGED <<policy, visible, serverPending, approvals, prepared, awaiting>>

-----------------------------------------------------------------------------
(* tools/call: handlePreparedClientRequest and its approval variant.       *)

HiddenCall(i, t) ==
  /\ Admissible(i, "tools/call")
  /\ visible[t] = None
  /\ Deny(i, "tool.not_visible")
  /\ pending' = Evict(pending)
  /\ UNCHANGED <<policy, visible, serverPending, approvals, prepared, awaiting>>

\* The policy's word on a visible tool, under the policy in force.
Decided(i, t, a, action) ==
  /\ Admissible(i, "tools/call")
  /\ visible[t] # None
  /\ Verdict(policy, t, visible[t], a) = action

\* Capacity check, correlation entry, forward: the tail of both paths.
SendCall(i, why, call) ==
  /\ \/ /\ Full(pending)
        /\ Deny(i, "pending_limit")
        /\ pending' = Evict(pending)
        /\ UNCHANGED awaiting
     \/ /\ ~Full(pending)
        /\ ForwardCall(i, why, call)
        /\ pending' = Remember(pending, i, "tools/call", FALSE)
        /\ awaiting' = Promised(i)
  /\ UNCHANGED <<policy, visible, serverPending, prepared>>

\* Mutant: anything the policy does not deny goes out.
AllowedCall_SkipsApproval(i, t, a) ==
  /\ ~Decided(i, t, a, "deny")
  /\ Admissible(i, "tools/call") /\ visible[t] # None
  /\ SendCall(i, "policy.allowed", [tool |-> t, caps |-> visible[t], args |-> a, under |-> policy])
  /\ UNCHANGED approvals

AllowedCall(i, t, a) ==
  /\ Decided(i, t, a, "allow")
  /\ SendCall(i, "policy.allowed", [tool |-> t, caps |-> visible[t], args |-> a, under |-> policy])
  /\ UNCHANGED approvals

DeniedCall(i, t, a) ==
  /\ Decided(i, t, a, "deny")
  /\ Deny(i, "policy.denied")
  /\ pending' = Evict(pending)
  /\ UNCHANGED <<policy, visible, serverPending, approvals, prepared, awaiting>>

\* handleClientLine has no hook to ask.
UnaskableCall(i, t, a) ==
  /\ Decided(i, t, a, "approval_required")
  /\ Deny(i, "policy.approval_hook_missing")
  /\ pending' = Evict(pending)
  /\ UNCHANGED <<policy, visible, serverPending, approvals, prepared, awaiting>>

\* callApprovalHook: register the controller, start the hook and the timer, await.
AskApproval(c, i, t, a) ==
  /\ approvals[c] = None
  /\ Decided(i, t, a, "approval_required")
  /\ approvals' = [approvals EXCEPT ![c] = [id |-> i, tool |-> t, caps |-> visible[t],
                                            args |-> a, under |-> policy, outcome |-> "undecided"]]
  /\ result' = NoResult
  /\ pending' = Evict(pending)
  /\ UNCHANGED <<policy, visible, serverPending, prepared, awaiting>>

Undecided(c) == approvals[c] # None /\ approvals[c].outcome = "undecided"

\* Mutant: a late outcome replaces an earlier refusal.
Settle_LateAnswerWins(c, outcome) ==
  /\ approvals[c] # None /\ approvals[c].outcome # "approved"
  /\ approvals' = [approvals EXCEPT ![c].outcome = outcome]
  /\ result' = NoResult
  /\ UNCHANGED <<policy, visible, pending, serverPending, prepared, awaiting>>

\* withApprovalTimeout: whichever of hook, timer and abort signal comes first
\* decides the race; what comes later is ignored.
Settle(c, outcome) ==
  /\ Undecided(c)
  /\ approvals' = [approvals EXCEPT ![c].outcome = outcome]
  /\ result' = NoResult
  /\ UNCHANGED <<policy, visible, pending, serverPending, prepared, awaiting>>

\* "failed" is a hook that throws or returns something that is no ApprovalResult.
HookReturns(c) == \E outcome \in {"approved", "rejected", "failed"} : Settle(c, outcome)

\* Mutant: the timer aborts the signal but nothing rejects the race.
ApprovalTimesOut_SignalOnly(c) == Undecided(c) /\ UNCHANGED vars

ApprovalTimesOut(c) == Settle(c, "timeout")

\* The code after the await.  Only the capacity is looked at again.
FinishApproval(c) ==
  /\ approvals[c] # None
  /\ approvals' = [approvals EXCEPT ![c] = None]
  /\ LET a == approvals[c] IN
     \/ /\ a.outcome = "approved"
        /\ SendCall(a.id, "policy.approval_granted",
                    [tool |-> a.tool, caps |-> a.caps, args |-> a.args, under |-> a.under])
     \/ /\ \/ a.outcome = "rejected" /\ Deny(a.id, "policy.approval_denied")
           \/ a.outcome \in {"failed", "timeout"} /\ Deny(a.id, "policy.approval_hook_failed")
           \/ a.outcome = "reloaded" /\ Deny(a.id, "policy.reloaded")
        /\ UNCHANGED <<policy, visible, pending, serverPending, prepared, awaiting>>

-----------------------------------------------------------------------------
(* Frames of the upstream server: handleServerFrame.                       *)

\* parseJsonLine fails: audited, never forwarded, never answered.
ServerUnparsable ==
  /\ Drop("jsonrpc.invalid")
  /\ UNCHANGED <<policy, visible, pending, serverPending, approvals, prepared, awaiting>>

\* evaluateServerOriginMethod: allowed by the policy, a ping, and without params.
ServerRequest(i, m, params) ==
  /\ \/ /\ m \notin AllowedMethods(policy)
        /\ Deny(i, "method.unsupported")
        /\ UNCHANGED serverPending
     \/ /\ m \in AllowedMethods(policy)
        /\ m # "ping" \/ params
        /\ Deny(i, "method.server_origin")
        /\ UNCHANGED serverPending
     \/ /\ m \in AllowedMethods(policy) /\ m = "ping" /\ ~params
        /\ \/ /\ i = None
              /\ Deny(i, "bad_shape")
              /\ UNCHANGED serverPending
           \/ /\ i \in Live(serverPending)
              /\ Deny(i, "duplicate_id")
              /\ serverPending' = Evict(serverPending)
           \/ /\ i # None /\ i \notin Live(serverPending) /\ Full(serverPending)
              /\ Deny(i, "pending_limit")
              /\ serverPending' = Evict(serverPending)
           \/ /\ i # None /\ i \notin Live(serverPending) /\ ~Full(serverPending)
              /\ Forward("client", i, "none")
              /\ serverPending' = Remember(serverPending, i, m, FALSE)
  /\ UNCHANGED <<policy, visible, pending, approvals, prepared, awaiting>>

\* takePendingRequest: every response consumes its entry.
Take(i) == pending' = [Evict(pending) EXCEPT ![i] = None]

UnmatchedAnswer(i) ==
  /\ i \notin Live(pending)
  /\ Drop("jsonrpc.unmatched_response")
  /\ Take(i)
  /\ UNCHANGED <<policy, visible, serverPending, approvals, prepared, awaiting>>

Relay(i) ==
  /\ i \in Live(pending)
  /\ Forward("client", i, "answer")
  /\ Take(i)
  /\ awaiting' = [awaiting EXCEPT ![i] = 0]
  /\ UNCHANGED <<policy, serverPending, approvals, prepared>>

PlainAnswer(i) ==
  /\ Relay(i)
  /\ pending[i].method # "tools/list"
  /\ UNCHANGED visible

NothingVisible == [t \in Tool |-> None]

DiscoveryError(i) ==
  /\ Relay(i)
  /\ pending[i].method = "tools/list"
  /\ visible' = IF pending[i].continues THEN visible ELSE NothingVisible

\* filterToolListResult on a page, a set of descriptors <<name, capabilities>>:
\* a name listed more than once on the page is hidden altogether.  A malformed
\* result is the empty page.
Shown(page) == {d \in page : /\ \A e \in page : e[1] = d[1] => e = d
                             /\ Discoverable(policy, d[1], d[2])}

DiscoveryPage(i, page) ==
  /\ Relay(i)
  /\ pending[i].method = "tools/list"
  /\ visible' = [t \in Tool |->
       IF \E c \in Caps : <<t, c>> \in Shown(page)
       THEN CHOOSE c \in Caps : <<t, c>> \in Shown(page)
       ELSE IF pending[i].continues THEN visible[t] ELSE None]

-----------------------------------------------------------------------------
(* Policy replacement and time.                                            *)

\* preparePolicyReplacement: every pending approval is aborted at once; a
\* candidate that fails validation throws before that and changes nothing.
Prepare(h, p) ==
  /\ prepared[h] = None
  /\ prepared' = [prepared EXCEPT ![h] = p]
  /\ approvals' = [c \in Call |-> IF Undecided(c)
                                  THEN [approvals[c] EXCEPT !.outcome = "reloaded"]
                                  ELSE approvals[c]]
  /\ result' = NoResult
  /\ UNCHANGED <<policy, visible, pending, serverPending, awaiting>>

\* Mutant: the remembered tools survive the commit.
Commit_KeepsDiscovery(h) ==
  /\ prepared[h] \in Policy
  /\ policy' = prepared[h]
  /\ prepared' = [prepared EXCEPT ![h] = Spent]
  /\ result' = NoResult
  /\ UNCHANGED <<visible, pending, serverPending, approvals, awaiting>>

\* The one-shot commit; a second call throws and changes nothing.
Commit(h) ==
  /\ prepared[h] \in Policy
  /\ policy' = prepared[h]
  /\ prepared' = [prepared EXCEPT ![h] = Spent]
  /\ visible' = NothingVisible
  /\ result' = NoResult
  /\ UNCHANGED <<pending, serverPending, approvals, awaiting>>

\* The clock, which is the environment's: Date.now() advances, so every expiresAt
\* comes nearer, and every promise runs out on its own.  No code runs; entries
\* stay in the maps until a handler evicts them.
Aged(p) == [i \in DOMAIN p |-> IF p[i] # None /\ p[i].ttl > 0
                               THEN [p[i] EXCEPT !.ttl = @ - 1] ELSE p[i]]

Tick ==
  /\ \/ \E i \in Id : pending[i] # None /\ pending[i].ttl > 0
     \/ \E j \in ServerId : serverPending[j] # None /\ serverPending[j].ttl > 0
  /\ pending' = Aged(pending)
  /\ serverPending' = Aged(serverPending)
  /\ awaiting' = [i \in Id |-> IF awaiting[i] > 0 THEN awaiting[i] - 1 ELSE 0]
  /\ result' = NoResult
  /\ UNCHANGED <<policy, visible, approvals, prepared>>

-----------------------------------------------------------------------------
(* The specification.                                                      *)

Init ==
  /\ policy = InitialPolicy
  /\ visible = [t \in Tool |-> None]
  /\ pending = [i \in Id |-> None]
  /\ serverPending = [i \in ServerId |-> None]
  /\ approvals = [c \in Call |-> None]
  /\ prepared = [h \in Handle |-> None]
  /\ result = NoResult
  /\ awaiting = [i \in Id |-> 0]

ClientFrame ==
  \/ ClientUnparsable
  \/ \E i \in ServerId, emptyResult \in BOOLEAN : ClientAnswer(i, emptyResult)
  \/ \E i \in Id \cup {None}, m \in MethodSeen : DeniedRequest(i, m)
  \/ \E i \in Id \cup {None}, m \in MethodSeen, cursor \in BOOLEAN : PlainRequest(i, m, cursor)
  \/ \E i \in Id : MalformedCall(i)
  \/ \E i \in Id, t \in Tool : HiddenCall(i, t)
  \/ \E i \in Id, t \in Tool, a \in Args : AllowedCall(i, t, a)
  \/ \E i \in Id, t \in Tool, a \in Args : DeniedCall(i, t, a)
  \/ \E i \in Id, t \in Tool, a \in Args : UnaskableCall(i, t, a)
  \/ \E c \in Call, i \in Id, t \in Tool, a \in Args : AskApproval(c, i, t, a)

ServerFrame ==
  \/ ServerUnparsable
  \/ \E i \in ServerId \cup {None}, m \in MethodSeen, params \in BOOLEAN : ServerRequest(i, m, params)
  \/ \E i \in Id : UnmatchedAnswer(i)
  \/ \E i \in Id : PlainAnswer(i)
  \/ \E i \in Id : DiscoveryError(i)
  \/ \E i \in Id, page \in SUBSET (Tool \X Caps) : DiscoveryPage(i, page)

ApprovalStep ==
  \/ \E c \in Call : HookReturns(c)
  \/ \E c \in Call : ApprovalTimesOut(c)
  \/ \E c \in Call : FinishApproval(c)

PolicyPrepare == \E h \in Handle, p \in Policy : Prepare(h, p)
PolicyCommit == \E h \in Handle : Commit(h)

Next == ClientFrame \/ ServerFrame \/ ApprovalStep \/ PolicyPrepare \/ PolicyCommit \/ Tick

Spec == Init /\ [][Next]_vars

\* The approval timer fires, continuations run, the clock advances.  Nothing is
\* assumed of the client, the upstream, the hook or the operator.
Fairness ==
  /\ \A c \in Call : WF_vars(ApprovalTimesOut(c)) /\ WF_vars(FinishApproval(c))
  /\ WF_vars(Tick)

FairSpec == Spec /\ Fairness

-----------------------------------------------------------------------------
(* Properties that hold however the embedder overlaps its calls.           *)

\* Every variable has its type.
TypeOK ==
  /\ policy \in Policy
  /\ visible \in [Tool -> Caps \cup {None}]
  /\ pending \in [Id -> Entry \cup {None}]
  /\ serverPending \in [ServerId -> Entry \cup {None}]
  /\ approvals \in [Call -> Approval \cup {None}]
  /\ prepared \in [Handle -> Policy \cup {None, Spent}]
  /\ result \in Result
  /\ awaiting \in [Id -> 0 .. TTL]

\* A remembered tool is one the policy in force would show: neither a commit nor
\* an answer to a discovery that was asked under the previous policy leaves a
\* tool visible that only the old policy allowed.
VisibleUnderPolicyInForce ==
  \A t \in Tool : visible[t] # None => Discoverable(policy, t, visible[t])

\* Two discoveries never wait at the same time, so the page an answer carries
\* belongs to the one discovery sequence whose tools are being remembered.
OneDiscoveryInFlight ==
  \A i, j \in Taken(pending) :
    pending[i].method = "tools/list" /\ pending[j].method = "tools/list" => i = j

\* Neither pending map outgrows maxPendingRequests, not even through calls that
\* were let in while an approval was awaited.
PendingWithinLimit ==
  /\ Cardinality(Taken(pending)) <= MaxPending
  /\ Cardinality(Taken(serverPending)) <= MaxPending

\* A call reaches the upstream only for a descriptor its policy shows, and only
\* if that policy allows it outright or the approval hook granted it.
ForwardedCallWasAuthorised ==
  result.call # None =>
    LET f == result.call IN
    /\ Discoverable(f.under, f.tool, f.caps)
    /\ \/ /\ Verdict(f.under, f.tool, f.caps, f.args) = "allow"
          /\ result.reason = "policy.allowed"
       \/ /\ Verdict(f.under, f.tool, f.caps, f.args) = "approval_required"
          /\ result.reason = "policy.approval_granted"

\* The client sees an upstream answer only under the id of a request that it sent
\* less than one TTL ago and that was not answered since: a repeated or an
\* invented answer dies at the gate, and so does one that comes after the
\* request expired, even while its entry is still in the map.
NoUnsolicitedAnswer ==
  [][result'.forward = "client" /\ result'.reason = "answer" => awaiting[result'.id] > 0]_vars

\* Once timer, abort signal or hook has decided against a call, nothing that
\* happens later lets it through: the outcome stands until the call ends denied.
RefusalIsFinal ==
  [][\A c \in Call :
       approvals[c] # None /\ approvals[c].outcome \notin {"undecided", "approved"} =>
         \/ approvals'[c] = approvals[c]
         \/ approvals'[c] = None /\ result'.forward = "none"]_vars

\* Strengthening: no entry outlives the promise made for it; what is suspended was
\* shown and needed its approval under the policy it was decided by.
PendingIsAwaited == \A i \in Taken(pending) : pending[i].ttl <= awaiting[i]

ApprovalsWereAsked ==
  \A c \in Call : approvals[c] # None =>
    LET a == approvals[c] IN
    /\ Discoverable(a.under, a.tool, a.caps)
    /\ Verdict(a.under, a.tool, a.caps, a.args) = "approval_required"

\* The inductive invariant.
SessionInv ==
  /\ TypeOK
  /\ VisibleUnderPolicyInForce
  /\ OneDiscoveryInFlight
  /\ PendingWithinLimit
  /\ PendingIsAwaited
  /\ ApprovalsWereAsked
  /\ ForwardedCallWasAuthorised

\* Every call that waits for its approval is answered, whether or not the hook
\* ever returns.
EveryApprovalEnds == \A c \in Call : approvals[c] # None ~> approvals[c] = None

\* A request whose answer is lost blocks its id, its slot and, for tools/list,
\* further discovery only until it expires.
NoRequestBlocksForever == \A i \in Id : i \in Live(pending) ~> i \notin Live(pending)

-----------------------------------------------------------------------------
(* Properties that need the embedder to run one operation at a time, as     *)
(* SerialSession does.                                                      *)

\* A request is forwarded only when no other request of the client waits under
\* the same id, so no correlation entry is overwritten.
NoCorrelationOverwritten ==
  [][result'.forward = "upstream" /\ result'.reason # "answer" =>
       result'.id \notin Live(pending)]_vars

\* No undecided approval outlives the policy it was asked under.
PendingApprovalsUnderPolicyInForce ==
  \A c \in Call : Undecided(c) => approvals[c].under = policy

\* A call reaches the upstream only for a tool that is still visible, with the
\* capabilities it was decided on, however long its approval took.
ForwardedToolIsVisible ==
  result.call # None => visible[result.call.tool] = result.call.caps

\* A call that reaches the upstream was decided under the policy in force, for
\* a tool that is still visible.
ForwardedCallIsCurrent ==
  /\ result.call # None => result.call.under = policy
  /\ ForwardedToolIsVisible
=============================================================================
