------------------------------- MODULE MCCliRun -------------------------------
(* Instances of CliRun for TLC. *)
EXTENDS CliRun

\* A wrong command line, one that watches the policy and one that takes its ops
\* flag from a snapshot; the two resources do not meet before the run ends.
OneResourceEach ==
  {[badUsage |-> TRUE, watch |-> FALSE, opsFlags |-> FALSE],
   [badUsage |-> FALSE, watch |-> TRUE, opsFlags |-> FALSE],
   [badUsage |-> FALSE, watch |-> FALSE, opsFlags |-> TRUE]}
=============================================================================
