---------------------------- MODULE SerialSession -----------------------------
(***************************************************************************)
(* ProxySession as the stdio bridge drives it.  runSessionOperation of     *)
(* packages/proxy-runtime/src/stdio-bridge.ts chains every operation on    *)
(* the session (a client frame, an upstream frame, the commit of a policy) *)
(* behind the one before it, so an operation that awaits its approval      *)
(* keeps every later one out.  Outside the queue are the hook and the      *)
(* timer of that approval, the clock, and preparePolicyReplacement, which  *)
(* recordPolicyUpdate calls at once.                                       *)
(***************************************************************************)
EXTENDS ProxySession

\* No operation is suspended in the queue.
Quiescent == \A c \in Call : approvals[c] = None

\* Mutants: client frames, upstream frames, or commits bypass the queue.
SerialNext_ClientFramesOverlap ==
  \/ ClientFrame
  \/ Quiescent /\ (ServerFrame \/ PolicyCommit)
  \/ ApprovalStep \/ PolicyPrepare \/ Tick

SerialNext_ServerFramesOverlap ==
  \/ ServerFrame
  \/ Quiescent /\ (ClientFrame \/ PolicyCommit)
  \/ ApprovalStep \/ PolicyPrepare \/ Tick

SerialNext_CommitsOverlap ==
  \/ PolicyCommit
  \/ Quiescent /\ (ClientFrame \/ ServerFrame)
  \/ ApprovalStep \/ PolicyPrepare \/ Tick

SerialNext ==
  \/ Quiescent /\ ClientFrame
  \/ Quiescent /\ ServerFrame
  \/ Quiescent /\ PolicyCommit
  \/ ApprovalStep
  \/ PolicyPrepare
  \/ Tick

SerialSpec == Init /\ [][SerialNext]_vars

FairSerialSpec == SerialSpec /\ Fairness

-----------------------------------------------------------------------------
(* The session implements the gate.                                        *)

Catalogue == {d \in Tool \X Caps : visible[d[1]] = d[2]}

Gate == INSTANCE ToolGate WITH
  catalogue <- Catalogue, open <- Taken(pending), sent <- result.call

\* Driven one operation at a time, the session does nothing the gate would not
\* do: what is decided before the approval is awaited is still true after it.
ImplementsToolGate == Gate!Spec
=============================================================================
