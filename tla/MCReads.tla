------------------------------- MODULE MCReads -------------------------------
(***************************************************************************)
(* WorkflowReads on the callers of MCWorkflow.                             *)
(***************************************************************************)
EXTENDS MCWorkflow, WorkflowReads

=============================================================================
