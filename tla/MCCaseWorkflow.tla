--------------------------- MODULE MCCaseWorkflow ---------------------------
(* Small instances of CaseWorkflow.                                         *)
EXTENDS CaseWorkflow, TLC

Operators == Permutations(Request)

=============================================================================
