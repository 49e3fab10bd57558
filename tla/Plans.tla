------------------------------- MODULE Plans --------------------------------
(***************************************************************************)
(* The orchestrator's static plans (agents/orchestrator.py): which agents  *)
(* a workflow type runs, in which order, whether a person must approve its *)
(* result, and which permission the approvals row then names.  Beside it,  *)
(* what an agent's step can come back with, as far as the workflow service *)
(* tells outcomes apart.                                                   *)
(***************************************************************************)
EXTENDS Sequences

WorkflowType == {"document_intelligence", "kyc", "fraud_review", "compliance",
                 "audit_evidence", "loan"}

Plan(steps, gated, permission) ==
  [steps |-> steps, requires_human_approval |-> gated,
   approval_permission |-> permission]

PLANS ==
  [t \in WorkflowType |->
     CASE t = "document_intelligence" ->
            Plan(<<"document_agent", "summarization_agent">>, FALSE, "none")
       [] t = "kyc" ->
            Plan(<<"document_agent", "kyc_agent">>, TRUE, "kyc:review")
       [] t = "fraud_review" ->
            Plan(<<"fraud_agent">>, TRUE, "fraud:review")
       [] t = "compliance" ->
            Plan(<<"retrieval_agent", "compliance_agent">>, FALSE, "none")
       [] t = "audit_evidence" ->
            Plan(<<"audit_agent">>, FALSE, "none")
       [] t = "loan" ->
            Plan(<<"document_agent", "loan_agent">>, TRUE, "loan:process")]

(* An agent_runs row, reduced to what the service branches on: the step    *)
(* succeeded; it succeeded and its output asks for a human review; it      *)
(* failed (an AgentError or any other exception, which execute and start   *)
(* turn into a failed outcome without an output).                          *)
RunOutcome == {"succeeded", "flagged", "failed"}

(* The agents whose output has a requires_human_review field; the loan     *)
(* agent always sets it.                                                   *)
StepOutcomes(agent) ==
  CASE agent = "loan_agent" -> {"flagged", "failed"}
    [] agent \in {"document_agent", "kyc_agent", "fraud_agent"} -> RunOutcome
    [] OTHER -> {"succeeded", "failed"}

=============================================================================
