---------------------------- MODULE TemporalWorker ----------------------------
(***************************************************************************)
(* The other engine: apps/worker/banking_worker/workflows.py runs the same *)
(* plan on the same payload as the in-process engine of AgentExecutor, one *)
(* activity per step.  Temporal (external) keeps the history, gives an     *)
(* attempt sixty seconds, and tries again without limit after an exception *)
(* or a timeout.                                                           *)
(*                                                                         *)
(* An agent that fails returns an outcome, so its activity succeeds and    *)
(* the workflow goes on to the next step.  A payload its adapter refuses   *)
(* raises, so its activity is tried for ever.  Only the plan decides       *)
(* whether a person is asked.                                              *)
(***************************************************************************)
EXTENDS AgentExecutor

VARIABLES
  results,   \* the outcomes of the activities that completed
  attempt,   \* the current attempt: "none", "running", "raised" or "lost"
  returned   \* what the workflow returned: "none", "approval", "no_approval"

worker == <<results, attempt, returned>>
allvars == <<vars, worker>>

WorkerInit == Init /\ results = <<>> /\ attempt = "none" /\ returned = "none"

Busy == type # "none" /\ Len(results) < Len(PLANS[type].steps)
Agent == PLANS[type].steps[Len(results) + 1]

-----------------------------------------------------------------------------
(* execute_activity, or Temporal's next attempt.                           *)
Attempt ==
  /\ Busy /\ attempt # "running"
  /\ attempt' = "running"
  /\ UNCHANGED <<vars, results, returned>>

(* The router of an activity is real, its vector store new and empty: the  *)
(* compliance agent has nothing to cite and does not ask the router.       *)
ActivityOutcomes(agent) ==
  IF agent = "compliance_agent" THEN {"succeeded"}
                                ELSE AgentOutcomes(agent, payload)

ActivityReturnsAnyway ==  \* variant: the activity catches what run_step raises
  /\ Busy /\ attempt = "running"
  /\ \E o \in IF Accepted(Agent, payload) THEN ActivityOutcomes(Agent)
                                          ELSE {"failed"} :
       results' = Append(results, o)
  /\ attempt' = "none"
  /\ UNCHANGED <<vars, returned>>
ActivityReturns ==
  /\ Busy /\ attempt = "running"
  /\ Accepted(Agent, payload)
  /\ \E o \in ActivityOutcomes(Agent) : results' = Append(results, o)
  /\ attempt' = "none"
  /\ UNCHANGED <<vars, returned>>

ActivityRaises ==
  /\ Busy /\ attempt = "running"
  /\ ~Accepted(Agent, payload)
  /\ attempt' = "raised"
  /\ UNCHANGED <<vars, results, returned>>

(* start_to_close_timeout has passed, or the worker died: whatever the     *)
(* attempt still does is discarded.                                        *)
ActivityLost ==
  /\ Busy /\ attempt = "running"
  /\ attempt' = "lost"
  /\ UNCHANGED <<vars, results, returned>>

ReturnAfterAll ==  \* variant: the loop is left when every step has succeeded
  /\ type # "none" /\ ~Busy /\ returned = "none"
  /\ \A i \in 1 .. Len(results) : results[i] # "failed"
  /\ returned' = IF PLANS[type].requires_human_approval THEN "approval"
                                                        ELSE "no_approval"
  /\ UNCHANGED <<vars, results, attempt>>
Return ==
  /\ type # "none" /\ ~Busy /\ returned = "none"
  /\ returned' = IF PLANS[type].requires_human_approval THEN "approval"
                                                        ELSE "no_approval"
  /\ UNCHANGED <<vars, results, attempt>>

Work == Attempt \/ ActivityReturns \/ ActivityRaises \/ Return

WorkerNext == \/ Next /\ UNCHANGED worker
              \/ Work \/ ActivityLost

(* Temporal schedules what is due, and an attempt that is given the time   *)
(* ends.                                                                   *)
WorkerSpec == WorkerInit /\ [][WorkerNext]_allvars /\ WF_allvars(Work)

(* What the in-process engine has made of the same payload: the status     *)
(* WorkflowService.start leaves.                                           *)
InProcess ==
  IF \E i \in 1 .. Len(runs) : runs[i] = "failed" THEN "failed"
  ELSE IF Len(runs) < Len(PLANS[type].steps) THEN "running"
  ELSE IF \/ PLANS[type].requires_human_approval
          \/ \E i \in 1 .. Len(runs) : runs[i] = "flagged"
  THEN "awaiting_approval"
  ELSE "completed"

-----------------------------------------------------------------------------
(* Properties.                                                             *)

AllAccepted == \A i \in 1 .. Len(PLANS[type].steps) :
                 Accepted(PLANS[type].steps[i], payload)

(* The worker is said to mirror the in-process engine (workflows.py).      *)
(* This is how far that goes, where both have come to an end with the same *)
(* payload, however often activities were lost and tried again:            *)
(*   - a person the in-process engine waits for is passed over exactly     *)
(*     where the plan is not gated and a step asked for the review, which  *)
(*     is document intelligence; one it does not wait for is not asked;    *)
(*   - a failed workflow, of which the in-process engine asks nothing,     *)
(*     returns from the worker only if the step failed by itself, on a     *)
(*     model or on a division by zero, never if its payload was refused;   *)
(*     and the loan that divided by zero is put to a person nevertheless;  *)
(*   - the worker fails a step the other engine does not only in asking    *)
(*     for a summary.                                                      *)
WhereEnginesPart ==
  type # "none" /\ returned # "none" /\ InProcess # "running" =>
    LET steps == PLANS[type].steps IN
    /\ InProcess = "awaiting_approval" =>
         (returned = "no_approval" <=> type = "document_intelligence")
    /\ InProcess = "completed" => returned = "no_approval"
    /\ \A i \in 1 .. Len(runs) : runs[i] = "failed" =>
         /\ Accepted(steps[i], payload)
         /\ IF returned = "approval"
            THEN steps[i] = "loan_agent" /\ DividesByZero(payload.loan)
            ELSE steps[i] \in {"compliance_agent", "summarization_agent"}
    /\ \A i \in 1 .. Len(results) : results[i] = "failed" =>
         InProcess = "failed" \/ steps[i] = "summarization_agent"

(* A workflow whose payload is accepted returns, failed steps and all,     *)
(* unless its attempts are lost again and again: the timeout of sixty      *)
(* seconds is the only thing that can hold it up, as retries are without   *)
(* limit (workflow.execute_activity).                                      *)
WorkflowReturns ==
  [](type # "none" /\ AllAccepted =>
       <>(returned # "none") \/ []<>(attempt = "lost"))

=============================================================================
