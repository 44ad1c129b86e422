---------------------------- MODULE Conformance -----------------------------
(***************************************************************************)
(* The conformance check an embedding host runs on its approval hook        *)
(* (approval-conformance.ts), and what a session makes of the same answers  *)
(* (session.ts).                                                           *)
(*                                                                         *)
(* An answer is [status, value, at]: "fulfilled" with a value, "rejected"   *)
(* or "never", `at` so many milliseconds after the call; what answers only  *)
(* because it was aborted has byAbort, and counts from the abort.  A value  *)
(* is [approved, reason], each Malformed when it has another type, or       *)
(* Malformed itself.  An adapter gives for each scenario how its hook comes *)
(* to be (`created`, the value being whether it is a function) and its      *)
(* answers.  No answer comes in the very millisecond of a timeout.          *)
(***************************************************************************)
EXTENDS Integers, Sequences

CONSTANTS
  Malformed,           \* a value of another type
  MaximumTimeout       \* maximumConformanceTimeoutMs

Scenario == {"approve", "reject", "error", "abort", "concurrent"}

\* Mutant: the reason may be anything.
IsApprovalResult_AnyReason(value) == value # Malformed /\ value.approved \in BOOLEAN

IsApprovalResult(value) ==
  value # Malformed /\ value.approved \in BOOLEAN /\ value.reason # Malformed

SettledWithin(answer, timeout) == answer.status # "never" /\ answer.at < timeout

Case(id, passed, code) == [id |-> id, passed |-> passed, code |-> code]

HookCreated(adapter, scenario, timeout) ==
  LET created == adapter[scenario].created
  IN  SettledWithin(created, timeout) /\ created.status = "fulfilled" /\ created.value

-----------------------------------------------------------------------------
(* The five cases, each with the code of its first failure.                *)

CheckExpectedResult(adapter, scenario, expected, id, passCode, timeout) ==
  LET answer == adapter[scenario].answers[1]
  IN  IF ~HookCreated(adapter, scenario, timeout) THEN Case(id, FALSE, "adapter_setup_failed")
      ELSE IF ~SettledWithin(answer, timeout) THEN Case(id, FALSE, "not_settled")
      ELSE IF answer.status = "rejected" THEN Case(id, FALSE, "unexpected_error")
      ELSE IF ~IsApprovalResult(answer.value) THEN Case(id, FALSE, "unexpected_result")
      ELSE IF answer.value.approved # expected THEN Case(id, FALSE, "unexpected_result")
      ELSE Case(id, TRUE, passCode)

CheckExpectedError(adapter, timeout) ==
  LET answer == adapter["error"].answers[1]
  IN  IF ~HookCreated(adapter, "error", timeout)
      THEN Case("hook-error", FALSE, "adapter_setup_failed")
      ELSE IF ~SettledWithin(answer, timeout) THEN Case("hook-error", FALSE, "not_settled")
      ELSE IF answer.status = "rejected" THEN Case("hook-error", TRUE, "error_rejected")
      ELSE Case("hook-error", FALSE, "unexpected_result")

\* The hook is aborted after a while, and must not have answered before.
CheckAbort(adapter, abortAfter, timeout) ==
  LET answer == adapter["abort"].answers[1]
      early == ~answer.byAbort /\ SettledWithin(answer, abortAfter)
      settled == SettledWithin(answer, IF answer.byAbort THEN timeout ELSE abortAfter + timeout)
  IN  IF ~HookCreated(adapter, "abort", timeout)
      THEN Case("abort-signal", FALSE, "adapter_setup_failed")
      ELSE IF early THEN Case("abort-signal", FALSE, "abort_settled_early")
      ELSE IF ~settled THEN Case("abort-signal", FALSE, "abort_not_settled")
      ELSE IF answer.status = "rejected" THEN Case("abort-signal", TRUE, "abort_settled")
      ELSE IF ~IsApprovalResult(answer.value) THEN Case("abort-signal", FALSE, "abort_approved")
      ELSE IF answer.value.approved THEN Case("abort-signal", FALSE, "abort_approved")
      ELSE Case("abort-signal", TRUE, "abort_settled")

\* Two requests at once, the first to be approved and the second rejected.
CheckConcurrentIsolation(adapter, timeout) ==
  LET answers == adapter["concurrent"].answers
      tells(i, approved) ==
        /\ answers[i].status = "fulfilled"
        /\ IsApprovalResult(answers[i].value)
        /\ answers[i].value.approved = approved
  IN  IF ~HookCreated(adapter, "concurrent", timeout)
      THEN Case("concurrent-isolation", FALSE, "adapter_setup_failed")
      ELSE IF \E i \in 1..2 : ~SettledWithin(answers[i], timeout)
      THEN Case("concurrent-isolation", FALSE, "not_settled")
      ELSE IF tells(1, TRUE) /\ tells(2, FALSE)
      THEN Case("concurrent-isolation", TRUE, "concurrent_isolated")
      ELSE Case("concurrent-isolation", FALSE, "concurrent_mismatch")

TimeoutOk(timeout) == timeout \in 1..MaximumTimeout

\* `refused` when the options are: the check throws before any case.
RunConformance(adapter, abortAfter, timeout) ==
  LET cases ==
        <<CheckExpectedResult(adapter, "approve", TRUE, "explicit-approval", "approve_valid", timeout),
          CheckExpectedResult(adapter, "reject", FALSE, "explicit-rejection", "reject_valid", timeout),
          CheckExpectedError(adapter, timeout),
          CheckAbort(adapter, abortAfter, timeout),
          CheckConcurrentIsolation(adapter, timeout)>>
  IN  IF ~TimeoutOk(abortAfter) \/ ~TimeoutOk(timeout)
      THEN [refused |-> TRUE, passed |-> FALSE, cases |-> <<>>]
      ELSE [refused |-> FALSE, passed |-> \A i \in DOMAIN cases : cases[i].passed,
            cases |-> cases]

-----------------------------------------------------------------------------
(* The session's side.                                                     *)

SessionTakes(value) ==
  value # Malformed /\ value.approved \in BOOLEAN /\ value.reason # Malformed

\* How a call ends whose approval is not overtaken by a reload.
SessionOutcome(answer, approvalTimeout) ==
  IF ~SettledWithin(answer, approvalTimeout) THEN "approval_hook_failed"
  ELSE IF answer.status = "rejected" \/ ~SessionTakes(answer.value) THEN "approval_hook_failed"
  ELSE IF answer.value.approved THEN "approval_granted" ELSE "approval_denied"
=============================================================================
