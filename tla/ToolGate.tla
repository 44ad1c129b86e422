------------------------------- MODULE ToolGate -------------------------------
(***************************************************************************)
(* What the proxy promises, with nothing of how it keeps the promise: the  *)
(* upstream sees a tool call only for a tool in the catalogue, under a     *)
(* policy that does not deny it; the catalogue holds only what the policy  *)
(* in force lets a client discover; and a bounded number of requests waits *)
(* for an answer, each under an id of its own.                             *)
(***************************************************************************)
EXTENDS Integers, FiniteSets

CONSTANTS Id, Tool, Caps, Args, Policy, InitialPolicy, MaxPending, None,
          Discoverable(_, _, _), Verdict(_, _, _, _)

VARIABLES
  policy,     \* the policy in force
  catalogue,  \* the descriptors <<name, capabilities>> a client may call
  open,       \* the ids of the requests that wait for the upstream
  sent        \* the tool call that was just sent, if the last step sent one

gateVars == <<policy, catalogue, open, sent>>

Allowed(p) == {d \in Tool \X Caps : Discoverable(p, d[1], d[2])}

Init ==
  /\ policy = InitialPolicy
  /\ catalogue = {}
  /\ open = {}
  /\ sent = None

\* A request goes out under an id nobody waits on, some expired ones forgotten.
Open(i) == \E kept \in SUBSET open :
  /\ i \notin kept
  /\ Cardinality(kept) < MaxPending
  /\ open' = kept \cup {i}

SendRequest(i) == Open(i) /\ sent' = None /\ UNCHANGED <<policy, catalogue>>

SendCall(i, d, a) ==
  /\ d \in catalogue
  /\ Verdict(policy, d[1], d[2], a) # "deny"
  /\ Open(i)
  /\ sent' = [tool |-> d[1], caps |-> d[2], args |-> a, under |-> policy]
  /\ UNCHANGED <<policy, catalogue>>

\* Requests are answered, expire or are refused.
Close == open' \in SUBSET open /\ sent' = None /\ UNCHANGED <<policy, catalogue>>

\* The answer to an open discovery replaces, extends or empties the catalogue.
Discover(i) ==
  /\ i \in open
  /\ open' \in SUBSET (open \ {i})
  /\ catalogue' \in SUBSET Allowed(policy)
  /\ \A d, e \in catalogue' : d[1] = e[1] => d = e
  /\ sent' = None
  /\ UNCHANGED policy

Replace(p) ==
  /\ policy' = p
  /\ catalogue' = {}
  /\ sent' = None
  /\ UNCHANGED open

Next ==
  \/ \E i \in Id : SendRequest(i)
  \/ \E i \in Id, d \in Tool \X Caps, a \in Args : SendCall(i, d, a)
  \/ Close
  \/ \E i \in Id : Discover(i)
  \/ \E p \in Policy : Replace(p)

Spec == Init /\ [][Next]_gateVars
=============================================================================
