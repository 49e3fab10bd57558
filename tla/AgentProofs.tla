----------------------------- MODULE AgentProofs -----------------------------
(***************************************************************************)
(* Proofs about the agents and the two engines that run them: what holds   *)
(* of AgentExecutor and TemporalWorker for every payload of the types the  *)
(* input models ask for, not only for those of MCAgents.                   *)
(*                                                                         *)
(* The engines meet in the rules: a step of either comes from              *)
(* RunStepOutcomes or ActivityOutcomes of one and the same payload, which  *)
(* never changes once a workflow has begun.  That is the invariant; the    *)
(* rest is about the rules.  What they compute by recursion (the fields of *)
(* a text, the growth of a debt) is unfolded once and reasoned about by    *)
(* induction over sets of numbers.                                         *)
(***************************************************************************)
EXTENDS TemporalWorker, WellFoundedInduction, TLAPS

-----------------------------------------------------------------------------
(* The plans and the outcomes.                                             *)

Agents == {"document_agent", "kyc_agent", "fraud_agent", "loan_agent",
           "retrieval_agent", "compliance_agent", "summarization_agent",
           "audit_agent"}

LEMMA PlanSteps ==
  ASSUME NEW t \in WorkflowType
  PROVE  /\ PLANS[t].steps \in Seq(Agents)
         /\ Len(PLANS[t].steps) \in {1, 2}
         /\ \A i \in 1 .. Len(PLANS[t].steps) : PLANS[t].steps[i] \in Agents
<1>1. \E a, b \in Agents : PLANS[t].steps = <<a>> \/ PLANS[t].steps = <<a, b>>
  BY DEF PLANS, Plan, WorkflowType, Agents
<1>2. PICK a \in Agents, b \in Agents :
        PLANS[t].steps = <<a>> \/ PLANS[t].steps = <<a, b>>
  BY <1>1
<1>3. CASE PLANS[t].steps = <<a>>
  <2>1. Len(<<a>>) = 1 /\ <<a>> \in Seq(Agents) /\ <<a>>[1] \in Agents
    OBVIOUS
  <2> QED
    BY <1>3, <2>1
<1>4. CASE PLANS[t].steps = <<a, b>>
  <2>1. /\ Len(<<a, b>>) = 2 /\ <<a, b>> \in Seq(Agents)
        /\ <<a, b>>[1] \in Agents /\ <<a, b>>[2] \in Agents
    OBVIOUS
  <2> QED
    BY <1>4, <2>1
<1> QED
  BY <1>2, <1>3, <1>4

LEMMA FraudPlan == PLANS["fraud_review"].steps = <<"fraud_agent">>
BY DEF PLANS, Plan, WorkflowType

(* Whatever the payload, an agent comes back with an outcome Plans allows. *)
LEMMA AgentAsPlanned ==
  ASSUME NEW agent \in Agents, NEW p, NEW o \in RunStepOutcomes(agent, p)
  PROVE  o \in StepOutcomes(agent)
<1>1. o = "failed" \/ o \in AgentOutcomes(agent, p)
  BY DEF RunStepOutcomes
<1>2. CASE o = "failed"
  BY <1>2 DEF StepOutcomes, RunOutcome, Agents
<1>3. CASE o \in AgentOutcomes(agent, p)
  <2>1. ASSUME NEW review PROVE Reviewed(review) \in {"flagged", "succeeded"}
    BY DEF Reviewed
  <2>2. CASE agent = "document_agent"
    BY <1>3, <2>1, <2>2 DEF AgentOutcomes, StepOutcomes, RunOutcome
  <2>3. CASE agent = "kyc_agent"
    BY <1>3, <2>1, <2>3 DEF AgentOutcomes, StepOutcomes, RunOutcome
  <2>4. CASE agent = "fraud_agent"
    BY <1>3, <2>1, <2>4 DEF AgentOutcomes, StepOutcomes, RunOutcome
  <2>5. CASE agent = "loan_agent"
    BY <1>3, <2>5 DEF AgentOutcomes, StepOutcomes, Reviewed, LoanReview
  <2>6. CASE agent \in {"retrieval_agent", "audit_agent"}
    BY <1>3, <2>6 DEF AgentOutcomes, StepOutcomes
  <2>7. CASE agent \in {"compliance_agent", "summarization_agent"}
    BY <1>3, <2>7 DEF AgentOutcomes, StepOutcomes, RouterOutcomes
  <2> QED
    BY <2>2, <2>3, <2>4, <2>5, <2>6, <2>7 DEF Agents
<1> QED
  BY <1>1, <1>2, <1>3

(* Where no model is asked, an agent is a function of its payload.         *)
LEMMA Deterministic ==
  ASSUME NEW agent \in Agents \ {"compliance_agent", "summarization_agent"},
         NEW p, NEW o \in AgentOutcomes(agent, p), NEW q \in AgentOutcomes(agent, p)
  PROVE  o = q
<1>1. PICK x : AgentOutcomes(agent, p) = {x}
  <2>1. CASE agent = "document_agent"
    BY <2>1 DEF AgentOutcomes
  <2>2. CASE agent = "kyc_agent"
    BY <2>2 DEF AgentOutcomes
  <2>3. CASE agent = "fraud_agent"
    BY <2>3 DEF AgentOutcomes
  <2>4. CASE agent = "loan_agent"
    BY <2>4 DEF AgentOutcomes
  <2>5. CASE agent \in {"retrieval_agent", "audit_agent"}
    BY <2>5 DEF AgentOutcomes
  <2> QED
    BY <2>1, <2>2, <2>3, <2>4, <2>5 DEF Agents
<1> QED
  BY <1>1

-----------------------------------------------------------------------------
(* The inductive invariant: every outcome, of either engine, is one the    *)
(* payload gives that step; before the workflow begins there are none.     *)

EngineTypes ==
  /\ type \in WorkflowType \cup {"none"}
  /\ runs \in Seq(RunOutcome) /\ results \in Seq(RunOutcome)
  /\ type = "none" => runs = <<>> /\ results = <<>> /\ returned = "none"
  /\ type # "none" => payload \in Payloads(type)

RunsFromPayload ==
  type # "none" =>
    /\ Len(runs) <= Len(PLANS[type].steps)
    /\ \A i \in 1 .. Len(runs) :
         runs[i] \in RunStepOutcomes(PLANS[type].steps[i], payload)

ResultsFromPayload ==
  type # "none" =>
    /\ Len(results) <= Len(PLANS[type].steps)
    /\ \A i \in 1 .. Len(results) :
         /\ Accepted(PLANS[type].steps[i], payload)
         /\ results[i] \in ActivityOutcomes(PLANS[type].steps[i])
    /\ returned # "none" =>
         /\ Len(results) = Len(PLANS[type].steps)
         /\ returned = IF PLANS[type].requires_human_approval
                       THEN "approval" ELSE "no_approval"

EngineInv == EngineTypes /\ RunsFromPayload /\ ResultsFromPayload

LEMMA InitEngine == WorkerInit => EngineInv
BY DEF WorkerInit, Init, EngineInv, EngineTypes, RunsFromPayload,
       ResultsFromPayload, RunOutcome

LEMMA AgentOutcomesTyped ==
  ASSUME NEW agent \in Agents, NEW p, NEW o,
         o \in RunStepOutcomes(agent, p) \cup AgentOutcomes(agent, p) \cup {"succeeded"}
  PROVE  o \in RunOutcome
<1>1. CASE o \in RunStepOutcomes(agent, p)
  BY <1>1, AgentAsPlanned DEF StepOutcomes, RunOutcome, Agents
<1>2. CASE o \in AgentOutcomes(agent, p)
  BY <1>2 DEF AgentOutcomes, Reviewed, RouterOutcomes, Agents, RunOutcome
<1> QED
  BY <1>1, <1>2 DEF RunOutcome

LEMMA BeginKeeps ==
  ASSUME EngineInv, NEW t \in WorkflowType, Begin(t), UNCHANGED worker
  PROVE  EngineInv'
<1>1. /\ type' = t /\ t # "none" /\ payload' \in Payloads(t)
      /\ runs' = <<>> /\ results' = <<>> /\ returned' = "none"
  BY DEF Begin, worker, EngineInv, EngineTypes, WorkflowType
<1>2. Len(PLANS[t].steps) \in Nat
  BY PlanSteps
<1> QED
  BY <1>1, <1>2 DEF EngineInv, EngineTypes, RunsFromPayload,
     ResultsFromPayload, RunOutcome

LEMMA RunStepKeeps ==
  ASSUME EngineInv, RunStep, UNCHANGED worker
  PROVE  EngineInv'
<1>1. PICK t \in WorkflowType : t = type /\ t # "none"
  BY DEF EngineInv, EngineTypes, RunStep
<1>2. PICK o \in RunStepOutcomes(PLANS[t].steps[Len(runs) + 1], payload) :
        runs' = Append(runs, o)
  BY <1>1 DEF RunStep
<1>3. /\ UNCHANGED <<type, payload, results, returned>>
      /\ Len(runs) < Len(PLANS[t].steps)
  BY <1>1 DEF RunStep, worker
<1>4. /\ runs \in Seq(RunOutcome) /\ Len(runs) \in Nat
      /\ Len(PLANS[t].steps) \in Nat
      /\ PLANS[t].steps[Len(runs) + 1] \in Agents
  BY <1>3, PlanSteps DEF EngineInv, EngineTypes
<1>5. o \in RunOutcome
  BY <1>4, AgentOutcomesTyped
<1>6. /\ runs' \in Seq(RunOutcome) /\ Len(runs') = Len(runs) + 1
      /\ \A i \in 1 .. Len(runs') :
           runs'[i] = IF i = Len(runs) + 1 THEN o ELSE runs[i]
  BY <1>2, <1>4, <1>5
<1>7. EngineTypes'
  BY <1>1, <1>3, <1>6 DEF EngineInv, EngineTypes
<1>8. RunsFromPayload'
  BY <1>1, <1>2, <1>3, <1>4, <1>6 DEF EngineInv, RunsFromPayload
<1>9. ResultsFromPayload'
  BY <1>3 DEF EngineInv, ResultsFromPayload, ActivityOutcomes
<1> QED
  BY <1>7, <1>8, <1>9 DEF EngineInv

LEMMA ActivityKeeps ==
  ASSUME EngineInv, ActivityReturns
  PROVE  EngineInv'
<1>1. PICK t \in WorkflowType : t = type /\ t # "none"
  BY DEF EngineInv, EngineTypes, ActivityReturns, Busy
<1>2. PICK a : a = PLANS[t].steps[Len(results) + 1]
  OBVIOUS
<1>3. /\ Accepted(a, payload) /\ Len(results) < Len(PLANS[t].steps)
      /\ UNCHANGED <<type, payload, runs, returned>>
      /\ \E o \in ActivityOutcomes(a) : results' = Append(results, o)
  BY <1>1, <1>2 DEF ActivityReturns, Busy, Agent, vars
<1>4. PICK o \in ActivityOutcomes(a) : results' = Append(results, o)
  BY <1>3
<1>5. /\ results \in Seq(RunOutcome) /\ Len(results) \in Nat
      /\ Len(PLANS[t].steps) \in Nat /\ a \in Agents
  BY <1>2, <1>3, PlanSteps DEF EngineInv, EngineTypes
<1>6. o \in RunOutcome
  BY <1>5, AgentOutcomesTyped DEF ActivityOutcomes
<1>7. /\ results' \in Seq(RunOutcome) /\ Len(results') = Len(results) + 1
      /\ \A i \in 1 .. Len(results') :
           results'[i] = IF i = Len(results) + 1 THEN o ELSE results[i]
  BY <1>4, <1>5, <1>6
<1>8. returned' = "none"
  BY <1>1, <1>3, <1>5 DEF EngineInv, ResultsFromPayload
<1>9. EngineTypes'
  BY <1>1, <1>3, <1>7 DEF EngineInv, EngineTypes
<1>10. RunsFromPayload'
  BY <1>3 DEF EngineInv, RunsFromPayload
<1>11. ResultsFromPayload'
  <2>1. ASSUME NEW i \in 1 .. Len(results')
        PROVE  /\ Accepted(PLANS[t].steps[i], payload)
               /\ results'[i] \in ActivityOutcomes(PLANS[t].steps[i])
    <3>1. CASE i = Len(results) + 1
      BY <1>2, <1>3, <1>4, <1>7, <3>1
    <3>2. CASE i # Len(results) + 1
      <4>1. i \in 1 .. Len(results) /\ results'[i] = results[i]
        BY <1>5, <1>7, <3>2
      <4> QED
        BY <1>1, <4>1 DEF EngineInv, ResultsFromPayload
    <3> QED
      BY <3>1, <3>2
  <2> QED
    BY <1>1, <1>3, <1>5, <1>7, <1>8, <2>1 DEF ResultsFromPayload, ActivityOutcomes
<1> QED
  BY <1>9, <1>10, <1>11 DEF EngineInv

LEMMA EngineStep == EngineInv /\ [WorkerNext]_allvars => EngineInv'
<1> SUFFICES ASSUME EngineInv, [WorkerNext]_allvars PROVE EngineInv'
  OBVIOUS
<1>1. ASSUME UNCHANGED <<vars, results, returned>> PROVE EngineInv'
  BY <1>1 DEF vars, EngineInv, EngineTypes, RunsFromPayload,
     ResultsFromPayload, ActivityOutcomes
<1>2. CASE UNCHANGED allvars
  BY <1>1, <1>2 DEF allvars, worker
<1>3. CASE Next /\ UNCHANGED worker
  BY <1>3, BeginKeeps, RunStepKeeps DEF Next
<1>4. CASE Attempt \/ ActivityRaises \/ ActivityLost
  BY <1>1, <1>4 DEF Attempt, ActivityRaises, ActivityLost
<1>5. CASE ActivityReturns
  BY <1>5, ActivityKeeps
<1>6. CASE Return
  <2>1. /\ type # "none" /\ Len(results) >= Len(PLANS[type].steps)
        /\ UNCHANGED <<type, payload, runs, results>>
    <3>1. Len(results) \in Nat /\ (type # "none" => Len(PLANS[type].steps) \in Nat)
      BY PlanSteps DEF EngineInv, EngineTypes
    <3> QED
      BY <1>6, <3>1 DEF Return, Busy, vars
  <2>2. Len(results) = Len(PLANS[type].steps)
    <3>1. Len(results) \in Nat /\ Len(PLANS[type].steps) \in Nat
      BY <2>1, PlanSteps DEF EngineInv, EngineTypes
    <3> QED
      BY <2>1, <3>1 DEF EngineInv, ResultsFromPayload
  <2>3. returned' = IF PLANS[type].requires_human_approval
                    THEN "approval" ELSE "no_approval"
    BY <1>6 DEF Return
  <2> QED
    BY <2>1, <2>2, <2>3 DEF EngineInv, EngineTypes, RunsFromPayload,
       ResultsFromPayload, ActivityOutcomes
<1> QED
  BY <1>2, <1>3, <1>4, <1>5, <1>6 DEF WorkerNext, Work

LEMMA EngineInvariance == WorkerSpec => []EngineInv
BY InitEngine, EngineStep, PTL DEF WorkerSpec

-----------------------------------------------------------------------------
(* What the engines do.                                                    *)

(* Every outcome the agents come to, on any payload, is one that the       *)
(* workflow service is verified against (AgentExecutor.run_step).          *)
THEOREM OutcomesArePlanned == WorkerSpec => []OutcomesAsPlanned
<1>1. EngineInv => OutcomesAsPlanned
  <2> SUFFICES ASSUME EngineInv, NEW i \in 1 .. Len(runs)
               PROVE  runs[i] \in StepOutcomes(PLANS[type].steps[i])
    BY DEF OutcomesAsPlanned
  <2>1. type \in WorkflowType
    BY DEF EngineInv, EngineTypes
  <2>2. /\ runs[i] \in RunStepOutcomes(PLANS[type].steps[i], payload)
        /\ PLANS[type].steps[i] \in Agents
    <3>1. Len(runs) \in Nat /\ Len(PLANS[type].steps) \in Nat
      BY <2>1, PlanSteps DEF EngineInv, EngineTypes
    <3>2. type # "none"
      BY <2>1 DEF WorkflowType
    <3> QED
      BY <2>1, <3>1, <3>2, PlanSteps DEF EngineInv, RunsFromPayload
  <2> QED
    BY <2>2, AgentAsPlanned
<1> QED
  BY <1>1, EngineInvariance, PTL

(* Which plans ask for a person, and which steps they have.                *)
LEMMA GatedPlans ==
  ASSUME NEW t \in WorkflowType, NEW i \in 1 .. Len(PLANS[t].steps)
  PROVE  IF PLANS[t].requires_human_approval
         THEN /\ t # "document_intelligence"
              /\ PLANS[t].steps[i] \notin {"compliance_agent", "summarization_agent"}
         ELSE /\ PLANS[t].steps[i] \in Agents \ {"kyc_agent", "fraud_agent", "loan_agent"}
              /\ PLANS[t].steps[i] = "document_agent" => t = "document_intelligence"
<1> USE DEF Agents
<1>1. CASE t = "document_intelligence"
  <2>1. /\ PLANS[t].steps = <<"document_agent", "summarization_agent">>
        /\ PLANS[t].requires_human_approval = FALSE
    BY <1>1 DEF PLANS, Plan, WorkflowType
  <2>2. i \in 1 .. 2
    BY <2>1
  <2> QED
    BY <1>1, <2>1, <2>2
<1>2. CASE t = "kyc"
  <2>1. /\ PLANS[t].steps = <<"document_agent", "kyc_agent">>
        /\ PLANS[t].requires_human_approval = TRUE
    BY <1>2 DEF PLANS, Plan, WorkflowType
  <2>2. i \in 1 .. 2
    BY <2>1
  <2> QED
    BY <1>2, <2>1, <2>2
<1>3. CASE t = "compliance"
  <2>1. /\ PLANS[t].steps = <<"retrieval_agent", "compliance_agent">>
        /\ PLANS[t].requires_human_approval = FALSE
    BY <1>3 DEF PLANS, Plan, WorkflowType
  <2>2. i \in 1 .. 2
    BY <2>1
  <2> QED
    BY <1>3, <2>1, <2>2
<1>4. CASE t = "loan"
  <2>1. /\ PLANS[t].steps = <<"document_agent", "loan_agent">>
        /\ PLANS[t].requires_human_approval = TRUE
    BY <1>4 DEF PLANS, Plan, WorkflowType
  <2>2. i \in 1 .. 2
    BY <2>1
  <2> QED
    BY <1>4, <2>1, <2>2
<1>5. CASE t = "fraud_review"
  <2>1. /\ PLANS[t].steps = <<"fraud_agent">>
        /\ PLANS[t].requires_human_approval = TRUE
    BY <1>5 DEF PLANS, Plan, WorkflowType
  <2>2. i \in 1 .. 1
    BY <2>1
  <2> QED
    BY <1>5, <2>1, <2>2
<1>6. CASE t = "audit_evidence"
  <2>1. /\ PLANS[t].steps = <<"audit_agent">>
        /\ PLANS[t].requires_human_approval = FALSE
    BY <1>6 DEF PLANS, Plan, WorkflowType
  <2>2. i \in 1 .. 1
    BY <2>1
  <2> QED
    BY <1>6, <2>1, <2>2
<1> QED
  BY <1>1, <1>2, <1>3, <1>4, <1>5, <1>6 DEF WorkflowType

(* Which agents fail on a payload they were given, and which ask for the   *)
(* review.                                                                 *)
LEMMA WhichFail ==
  ASSUME NEW agent \in Agents, NEW p, NEW o \in AgentOutcomes(agent, p)
  PROVE  /\ o = "failed" =>
              \/ agent \in {"compliance_agent", "summarization_agent"}
              \/ agent = "loan_agent" /\ DividesByZero(p.loan)
         /\ o = "flagged" =>
              agent \in {"document_agent", "kyc_agent", "fraud_agent", "loan_agent"}
<1>1. ASSUME NEW review PROVE Reviewed(review) \in {"flagged", "succeeded"}
  BY DEF Reviewed
<1>2. CASE agent = "document_agent"
  BY <1>1, <1>2 DEF AgentOutcomes
<1>3. CASE agent = "kyc_agent"
  BY <1>1, <1>3 DEF AgentOutcomes
<1>4. CASE agent = "fraud_agent"
  BY <1>1, <1>4 DEF AgentOutcomes
<1>5. CASE agent = "loan_agent"
  BY <1>1, <1>5 DEF AgentOutcomes
<1>6. CASE agent \in {"retrieval_agent", "audit_agent"}
  BY <1>6 DEF AgentOutcomes
<1>7. CASE agent \in {"compliance_agent", "summarization_agent"}
  BY <1>7 DEF AgentOutcomes, RouterOutcomes
<1> QED
  BY <1>2, <1>3, <1>4, <1>5, <1>6, <1>7 DEF Agents

(* Where the worker and the in-process engine come to different ends on    *)
(* the same payload, however often an activity is lost and tried again:    *)
(* no person is asked about a document that needs one, failed models do    *)
(* not stop the worker, and the loan that divided by zero is put to a      *)
(* person; nowhere else (BankingWorkflow.run, run_agent_step,              *)
(* AgentExecutor.run_step, WorkflowService.start).                         *)
THEOREM EnginesPart == WorkerSpec => []WhereEnginesPart
<1>1. EngineInv => WhereEnginesPart
  <2> SUFFICES ASSUME EngineInv, type # "none", returned # "none",
                      InProcess # "running"
               PROVE  WhereEnginesPart
    BY DEF WhereEnginesPart
  <2> DEFINE steps == PLANS[type].steps
             gated == PLANS[type].requires_human_approval
  <2>1. /\ type \in WorkflowType
        /\ Len(runs) \in Nat /\ Len(steps) \in Nat
        /\ Len(runs) <= Len(steps) /\ Len(results) = Len(steps)
    BY PlanSteps DEF EngineInv, EngineTypes, RunsFromPayload, ResultsFromPayload
  <2>2. returned = IF gated THEN "approval" ELSE "no_approval"
    BY DEF EngineInv, ResultsFromPayload
  <2>3. ASSUME NEW i \in 1 .. Len(steps)
        PROVE  /\ steps[i] \in Agents /\ Accepted(steps[i], payload)
               /\ results[i] \in ActivityOutcomes(steps[i])
               /\ i <= Len(runs) => runs[i] \in AgentOutcomes(steps[i], payload)
    <3>1. Accepted(steps[i], payload) /\ results[i] \in ActivityOutcomes(steps[i])
      BY <2>1 DEF EngineInv, ResultsFromPayload
    <3>2. i <= Len(runs) => runs[i] \in RunStepOutcomes(steps[i], payload)
      BY <2>1 DEF EngineInv, RunsFromPayload
    <3>3. steps[i] \in Agents
      BY <2>1, PlanSteps
    <3> QED
      BY <3>1, <3>2, <3>3 DEF RunStepOutcomes
  <2>4. \A i \in 1 .. Len(runs) : i \in 1 .. Len(steps)
    BY <2>1
  <2>5. \/ \E i \in 1 .. Len(runs) : runs[i] = "failed"
        \/ Len(runs) = Len(steps)
    BY <2>1 DEF InProcess
  <2>6. ASSUME InProcess = "awaiting_approval"
        PROVE  returned = "no_approval" <=> type = "document_intelligence"
    <3>1. CASE gated
      <4>1. 1 \in 1 .. Len(steps)
        <5>1. Len(steps) \in {1, 2}
          BY <2>1, PlanSteps
        <5> HIDE DEF steps
        <5>2. PICK n \in {1, 2} : n = Len(steps)
          BY <5>1
        <5> QED
          BY <5>2
      <4>2. type # "document_intelligence"
        BY <2>1, <3>1, <4>1, GatedPlans
      <4> QED
        BY <2>2, <3>1, <4>2
    <3>2. CASE ~gated
      <4>1. PICK i \in 1 .. Len(runs) : runs[i] = "flagged"
        BY <2>6, <3>2 DEF InProcess
      <4>2. i \in 1 .. Len(steps) /\ i <= Len(runs)
        BY <2>1, <2>4
      <4>3. steps[i] \in {"document_agent", "kyc_agent", "fraud_agent", "loan_agent"}
        BY <2>3, <4>1, <4>2, WhichFail
      <4>4. type = "document_intelligence"
        BY <2>1, <3>2, <4>2, <4>3, GatedPlans
      <4> QED
        BY <2>2, <3>2, <4>4
    <3> QED
      BY <3>1, <3>2
  <2>7. InProcess = "completed" => returned = "no_approval"
    BY <2>2 DEF InProcess
  <2>8. ASSUME NEW i \in 1 .. Len(runs), runs[i] = "failed"
        PROVE  /\ Accepted(steps[i], payload)
               /\ IF returned = "approval"
                  THEN steps[i] = "loan_agent" /\ DividesByZero(payload.loan)
                  ELSE steps[i] \in {"compliance_agent", "summarization_agent"}
    <3>1. i \in 1 .. Len(steps) /\ i <= Len(runs)
      BY <2>1, <2>4
    <3>2. \/ steps[i] \in {"compliance_agent", "summarization_agent"}
          \/ steps[i] = "loan_agent" /\ DividesByZero(payload.loan)
      BY <2>3, <2>8, <3>1, WhichFail
    <3>3. IF gated THEN steps[i] \notin {"compliance_agent", "summarization_agent"}
                   ELSE steps[i] # "loan_agent"
      BY <2>1, <3>1, GatedPlans
    <3> QED
      BY <2>2, <2>3, <3>1, <3>2, <3>3
  <2>9. ASSUME NEW i \in 1 .. Len(results), results[i] = "failed"
        PROVE  InProcess = "failed" \/ steps[i] = "summarization_agent"
    <3>1. i \in 1 .. Len(steps)
      BY <2>1
    <3>2. steps[i] # "compliance_agent" /\ results[i] \in AgentOutcomes(steps[i], payload)
      BY <2>3, <2>9, <3>1 DEF ActivityOutcomes
    <3>3. CASE \E j \in 1 .. Len(runs) : runs[j] = "failed"
      BY <3>3 DEF InProcess
    <3>4. CASE Len(runs) = Len(steps) /\ steps[i] # "summarization_agent"
      <4>1. i \in 1 .. Len(runs) /\ i <= Len(runs)
        BY <2>1, <3>1, <3>4
      <4>2. runs[i] = "failed"
        BY <2>3, <2>9, <3>1, <3>2, <3>4, <4>1, Deterministic
      <4> QED
        BY <4>1, <4>2 DEF InProcess
    <3> QED
      BY <2>5, <3>3, <3>4
  <2> QED
    BY <2>6, <2>7, <2>8, <2>9 DEF WhereEnginesPart
<1> QED
  BY <1>1, EngineInvariance, PTL

-----------------------------------------------------------------------------
(* The fraud rules.                                                        *)

LEMMA Rules ==
  DOMAIN WEIGHT = {"large_absolute_amount", "amount_anomaly", "new_account",
                   "new_beneficiary_large", "high_risk_destination",
                   "failed_login_burst", "odd_hour_large"}
BY DEF WEIGHT

(* The total is a sum of weights, one for every rule that fires.           *)
LEMMA PointsOfRules ==
  ASSUME NEW t, NEW avg
  PROVE  /\ Points("large_absolute_amount", t, avg) =
              IF Fires("large_absolute_amount", t, avg) THEN 30 ELSE 0
         /\ Points("amount_anomaly", t, avg) =
              IF Fires("amount_anomaly", t, avg) THEN 25 ELSE 0
         /\ Points("new_account", t, avg) =
              IF Fires("new_account", t, avg) THEN 15 ELSE 0
         /\ Points("new_beneficiary_large", t, avg) =
              IF Fires("new_beneficiary_large", t, avg) THEN 15 ELSE 0
         /\ Points("high_risk_destination", t, avg) =
              IF Fires("high_risk_destination", t, avg) THEN 20 ELSE 0
         /\ Points("failed_login_burst", t, avg) =
              IF Fires("failed_login_burst", t, avg) THEN 20 ELSE 0
         /\ Points("odd_hour_large", t, avg) =
              IF Fires("odd_hour_large", t, avg) THEN 10 ELSE 0
BY DEF Points, WEIGHT

LEMMA ReviewByTotal ==
  ASSUME NEW t, NEW avg
  PROVE  /\ Total(t, avg) \in 0 .. 135
         /\ FraudReview(t, avg) <=> Total(t, avg) >= 45
<1>1. Total(t, avg) \in 0 .. 135
  BY PointsOfRules DEF Total
<1> QED
  BY <1>1 DEF FraudReview, FraudRisk, ScoreToRisk, Score

(* One rule alone never holds a transaction for a person.                  *)
LEMMA OneIsNotEnough ==
  ASSUME NEW t, NEW avg, FraudReview(t, avg)
  PROVE  \E r, s \in DOMAIN WEIGHT : r # s /\ Fires(r, t, avg) /\ Fires(s, t, avg)
<1> SUFFICES ASSUME \A r, s \in DOMAIN WEIGHT :
                      Fires(r, t, avg) /\ Fires(s, t, avg) => r = s
             PROVE  Total(t, avg) < 45
  BY ReviewByTotal
<1>1. CASE \A r \in DOMAIN WEIGHT : ~Fires(r, t, avg)
  BY <1>1, PointsOfRules, Rules DEF Total
<1>2. ASSUME NEW r \in DOMAIN WEIGHT, Fires(r, t, avg) PROVE Total(t, avg) < 45
  <2>1. \A s \in DOMAIN WEIGHT \ {r} : ~Fires(s, t, avg)
    BY <1>2
  <2> QED
    BY <1>2, <2>1, PointsOfRules, Rules DEF Total
<1> QED
  BY <1>1, <1>2

(* A large amount with any further signal but an odd hour does.            *)
LEMMA LargeAndAnother ==
  ASSUME NEW t, NEW avg, Fires("large_absolute_amount", t, avg),
         NEW r \in DOMAIN WEIGHT \ {"large_absolute_amount", "odd_hour_large"},
         Fires(r, t, avg)
  PROVE  FraudReview(t, avg)
<1>1. Total(t, avg) >= 45
  BY PointsOfRules, Rules DEF Total
<1> QED
  BY <1>1, ReviewByTotal

(* The same of the runs: a fraud step is flagged exactly when the rules    *)
(* ask for it (AgentExecutor.run_step, FraudAgent.run).                    *)
THEOREM TwoSignalsNeeded == WorkerSpec => []TwoSignalsForReview
<1>1. EngineInv => TwoSignalsForReview
  <2> SUFFICES ASSUME EngineInv, type = "fraud_review", runs # <<>>,
                      runs[1] # "failed"
               PROVE  TwoSignalsForReview
    BY DEF TwoSignalsForReview
  <2> DEFINE t == payload.transaction
             avg == payload.customer_avg_amount
             fired == {r \in DOMAIN WEIGHT : Fires(r, t, avg)}
  <2>1. 1 \in 1 .. Len(runs)
    BY DEF EngineInv, EngineTypes
  <2>2. runs[1] \in RunStepOutcomes("fraud_agent", payload)
    BY <2>1, FraudPlan DEF EngineInv, RunsFromPayload
  <2>3. runs[1] = Reviewed(FraudReview(t, avg))
    BY <2>2 DEF RunStepOutcomes, AgentOutcomes
  <2>4. runs[1] = "flagged" <=> FraudReview(t, avg)
    BY <2>3 DEF Reviewed
  <2>5. runs[1] = "flagged" => \E r, s \in fired : r # s
    BY <2>4, OneIsNotEnough
  <2>6. ASSUME "large_absolute_amount" \in fired,
               fired \ {"large_absolute_amount", "odd_hour_large"} # {}
        PROVE  runs[1] = "flagged"
    BY <2>4, <2>6, LargeAndAnother
  <2> QED
    BY <2>5, <2>6 DEF TwoSignalsForReview
<1> QED
  BY <1>1, EngineInvariance, PTL

(* What a rule looks at, one worsening at a time.                          *)
LEMMA TotalNeverSafer ==
  ASSUME NEW t, NEW worse, NEW avg,
         \A r \in DOMAIN WEIGHT : Fires(r, t, avg) => Fires(r, worse, avg)
  PROVE  /\ NoSafer(FraudRisk(t, avg), FraudRisk(worse, avg))
         /\ FraudReview(t, avg) => FraudReview(worse, avg)
<1>1. Total(t, avg) <= Total(worse, avg)
  <2>1. \A r \in DOMAIN WEIGHT : Points(r, t, avg) <= Points(r, worse, avg)
    BY PointsOfRules, Rules
  <2>2. \A r \in DOMAIN WEIGHT : Points(r, t, avg) \in Nat /\ Points(r, worse, avg) \in Nat
    BY PointsOfRules, Rules
  <2> QED
    BY <2>1, <2>2, Rules DEF Total
<1>2. FraudReview(t, avg) => FraudReview(worse, avg)
  BY <1>1, ReviewByTotal
<1>3. Total(t, avg) \in 0 .. 135 /\ Total(worse, avg) \in 0 .. 135
  BY ReviewByTotal
<1>4. NoSafer(FraudRisk(t, avg), FraudRisk(worse, avg))
  BY <1>1, <1>3 DEF NoSafer, FraudRisk, ScoreToRisk, Score, RISK_ORDER
<1> QED
  BY <1>2, <1>4

Numbers(t) == /\ t.amount \in Int /\ t.account_age_days \in Int
              /\ t.recent_failed_logins \in Int

LEMMA RulesMonotone ==
  ASSUME NEW t \in Transaction, NEW worse, Numbers(worse), NEW avg \in Int,
         worse.amount >= t.amount,
         worse.account_age_days <= t.account_age_days,
         t.is_new_beneficiary => worse.is_new_beneficiary,
         worse.beneficiary_country \in {t.beneficiary_country, "XX"},
         worse.recent_failed_logins >= t.recent_failed_logins,
         worse.hour_of_day \in {t.hour_of_day, 3},
         NEW r \in DOMAIN WEIGHT, Fires(r, t, avg)
  PROVE  Fires(r, worse, avg)
<1>1. /\ t.amount \in Int /\ worse.amount \in Int
      /\ t.account_age_days \in Int /\ worse.account_age_days \in Int
      /\ t.recent_failed_logins \in Int /\ worse.recent_failed_logins \in Int
  BY DEF Transaction, Numbers
<1>2. CASE r = "large_absolute_amount"
  BY <1>1, <1>2 DEF Fires
<1>3. CASE r = "amount_anomaly"
  BY <1>1, <1>3 DEF Fires
<1>4. CASE r = "new_account"
  BY <1>1, <1>4 DEF Fires
<1>5. CASE r = "new_beneficiary_large"
  BY <1>1, <1>5 DEF Fires
<1>6. CASE r = "high_risk_destination"
  BY <1>6 DEF Fires, Upper, HIGH_RISK_COUNTRIES
<1>7. CASE r = "failed_login_burst"
  BY <1>1, <1>7 DEF Fires
<1>8. CASE r = "odd_hour_large"
  BY <1>1, <1>8 DEF Fires
<1> QED
  BY <1>2, <1>3, <1>4, <1>5, <1>6, <1>7, <1>8, Rules

LEMMA WorseTransactionsAre ==
  ASSUME NEW t \in Transaction, NEW worse \in WorseTransactions(t)
  PROVE  /\ Numbers(worse)
         /\ worse.account_age_days <= t.account_age_days
         /\ t.is_new_beneficiary => worse.is_new_beneficiary
         /\ worse.beneficiary_country \in {t.beneficiary_country, "XX"}
         /\ worse.recent_failed_logins >= t.recent_failed_logins
         /\ worse.hour_of_day \in {t.hour_of_day, 3}
<1>1. CASE \E a \in Int : worse = [t EXCEPT !.amount = a]
  BY <1>1 DEF Transaction, Numbers
<1>2. CASE worse = [t EXCEPT !.account_age_days = @ - 1]
  BY <1>2 DEF Transaction, Numbers
<1>3. CASE worse = [t EXCEPT !.is_new_beneficiary = TRUE]
  <2>1. Numbers(worse)
    BY <1>3 DEF Transaction, Numbers
  <2>2. worse.is_new_beneficiary = TRUE
    BY <1>3 DEF Transaction
  <2>3. /\ worse.account_age_days = t.account_age_days
        /\ worse.beneficiary_country = t.beneficiary_country
        /\ worse.recent_failed_logins = t.recent_failed_logins
        /\ worse.hour_of_day = t.hour_of_day
    BY <1>3 DEF Transaction
  <2> QED
    BY <2>1, <2>2, <2>3 DEF Transaction
<1>4. CASE worse = [t EXCEPT !.beneficiary_country = "XX"]
  <2>1. Numbers(worse)
    BY <1>4 DEF Transaction, Numbers
  <2>2. worse.beneficiary_country = "XX"
    BY <1>4 DEF Transaction
  <2>3. /\ worse.account_age_days = t.account_age_days
        /\ worse.is_new_beneficiary = t.is_new_beneficiary
        /\ worse.recent_failed_logins = t.recent_failed_logins
        /\ worse.hour_of_day = t.hour_of_day
    BY <1>4 DEF Transaction
  <2> QED
    BY <2>1, <2>2, <2>3 DEF Transaction
<1>5. CASE worse = [t EXCEPT !.recent_failed_logins = @ + 1]
  BY <1>5 DEF Transaction, Numbers
<1>6. CASE worse = [t EXCEPT !.hour_of_day = 3]
  BY <1>6 DEF Transaction, Numbers
<1>7. t.amount .. t.amount + 2 \cup {10000, 60000} \subseteq Int
  BY DEF Transaction
<1> QED
  BY <1>1, <1>2, <1>3, <1>4, <1>5, <1>6, <1>7 DEF WorseTransactions

(* No worsening of a transaction lowers its risk or spares it the review,  *)
(* whatever the transaction (FraudAgent.run).                              *)
LEMMA FraudIsMonotone == WorkerSpec => []FraudNeverSafer
<1>1. EngineInv => FraudNeverSafer
  <2> SUFFICES ASSUME EngineInv, type = "fraud_review" PROVE FraudNeverSafer
    BY DEF FraudNeverSafer
  <2>1. PICK t \in Transaction, avg \in Int :
          t = payload.transaction /\ avg = payload.customer_avg_amount
    BY PayloadAssumption DEF EngineInv, EngineTypes
  <2>2. ASSUME NEW worse \in WorseTransactions(t), worse.amount >= t.amount
        PROVE  /\ NoSafer(FraudRisk(t, avg), FraudRisk(worse, avg))
               /\ FraudReview(t, avg) => FraudReview(worse, avg)
    <3>1. \A r \in DOMAIN WEIGHT : Fires(r, t, avg) => Fires(r, worse, avg)
      BY <2>2, WorseTransactionsAre, RulesMonotone
    <3> QED
      BY <3>1, TotalNeverSafer
  <2> QED
    BY <2>1, <2>2 DEF FraudNeverSafer
<1> QED
  BY <1>1, EngineInvariance, PTL

-----------------------------------------------------------------------------
(* The customer checks.                                                    *)

(* The level a customer is rated is decided by three questions.            *)
LEMMA KycRiskIs ==
  ASSUME NEW p, NEW d
  PROVE  KycRisk(p, d, Today) =
           IF Underage(p, Today) \/ Upper(p.country) \in HIGH_RISK_COUNTRIES
           THEN "high"
           ELSE IF Inconsistencies(p, d, Today) # {} THEN "medium" ELSE "low"
BY DEF KycRisk, Escalate, NoSafer, RISK_ORDER

LEMMA SomethingInconsistent ==
  ASSUME NEW p, NEW d
  PROVE  /\ Underage(p, Today) <=> "underage" \in Inconsistencies(p, d, Today)
         /\ /\ p.full_name # Empty /\ d.full_name # Empty
            /\ p.full_name.word # d.full_name.word
            => Inconsistencies(p, d, Today) # {}
         /\ /\ p.document_number # Empty /\ d.document_number # Empty
            /\ p.document_number.word # d.document_number.word
            => Inconsistencies(p, d, Today) # {}
BY DEF Inconsistencies, NormName, Strip

LEMMA KycRiskOrder ==
  ASSUME NEW p, NEW d, NEW q, NEW e,
         Underage(p, Today) => Underage(q, Today),
         Upper(p.country) \in HIGH_RISK_COUNTRIES =>
           Underage(q, Today) \/ Upper(q.country) \in HIGH_RISK_COUNTRIES,
         Inconsistencies(p, d, Today) # {} =>
           \/ Inconsistencies(q, e, Today) # {}
           \/ Upper(q.country) \in HIGH_RISK_COUNTRIES
  PROVE  NoSafer(KycRisk(p, d, Today), KycRisk(q, e, Today))
<1>1. Underage(q, Today) => Inconsistencies(q, e, Today) # {}
  BY SomethingInconsistent
<1> QED
  BY <1>1, KycRiskIs DEF NoSafer, RISK_ORDER

LEMMA OtherText ==
  ASSUME NEW v
  PROVE  OtherThan(v) # Empty /\ OtherThan(v).word # v.word
<1>1. OtherThan(v).word \in {"another", "someone else"} /\ OtherThan(v).word # v.word
  BY DEF OtherThan
<1>2. Empty.word = ""
  BY DEF Empty
<1> QED
  BY <1>1, <1>2

LEMMA MinorIsUnderage ==
  ASSUME NEW q, q.date_of_birth = MinorsBirth
  PROVE  Underage(q, Today)
<1>1. PICK y \in Int, m \in Int, d \in Int : Today = <<y, m, d>>
  BY PayloadAssumption
<1>2. ParseDate(MinorsBirth) = <<y - 10, 1, 1>>
  BY <1>1 DEF ParseDate, MinorsBirth
<1>3. <<y - 10, 1, 1>> # NoDate
  BY DEF NoDate
<1>4. AgeOn(Today, <<y - 10, 1, 1>>) < 18
  BY <1>1 DEF AgeOn
<1> QED
  BY <1>2, <1>3, <1>4 DEF Underage

(* A contradiction, a listed country or a minor's date of birth never      *)
(* lowers a customer's risk, and nothing left out spares the review, for   *)
(* every profile and document (KycAgent.run).                              *)
LEMMA KycIsMonotone == WorkerSpec => []KycNeverSafer
<1>1. EngineInv => KycNeverSafer
  <2> SUFFICES ASSUME EngineInv, type = "kyc" PROVE KycNeverSafer
    BY DEF KycNeverSafer
  <2>1. PICK p \in Profile, d \in [full_name : Written, document_number : Written] :
          p = payload.profile /\ d = payload.document_fields
    BY PayloadAssumption DEF EngineInv, EngineTypes
  <2> DEFINE WorseThan(q, e) ==
               /\ NoSafer(KycRisk(p, d, Today), KycRisk(q, e, Today))
               /\ KycReview(p, d, Today) => KycReview(q, e, Today)
  <2>2. ASSUME p.full_name # Empty
        PROVE  WorseThan(p, [d EXCEPT !.full_name = OtherThan(p.full_name)])
    <3>0. PICK e : e = [d EXCEPT !.full_name = OtherThan(p.full_name)]
      OBVIOUS
    <3>1. /\ e = [d EXCEPT !.full_name = OtherThan(p.full_name)]
          /\ e.full_name = OtherThan(p.full_name)
      BY <3>0
    <3>2. Inconsistencies(p, e, Today) # {}
      BY <2>2, <3>1, OtherText, SomethingInconsistent
    <3> QED
      BY <3>1, <3>2, KycRiskOrder DEF KycReview
  <2>3. ASSUME p.document_number # Empty
        PROVE  WorseThan(p, [d EXCEPT !.document_number =
                               OtherThan(p.document_number)])
    <3>0. PICK e : e = [d EXCEPT !.document_number = OtherThan(p.document_number)]
      OBVIOUS
    <3>1. /\ e = [d EXCEPT !.document_number = OtherThan(p.document_number)]
          /\ e.document_number = OtherThan(p.document_number)
      BY <3>0
    <3>2. Inconsistencies(p, e, Today) # {}
      BY <2>3, <3>1, OtherText, SomethingInconsistent
    <3> QED
      BY <3>1, <3>2, KycRiskOrder DEF KycReview
  <2>4. WorseThan([p EXCEPT !.country = "zz"], d)
    <3>0. PICK q : q = [p EXCEPT !.country = "zz"]
      OBVIOUS
    <3>1. /\ q = [p EXCEPT !.country = "zz"]
          /\ q.country = "zz" /\ q.date_of_birth = p.date_of_birth
      BY <3>0 DEF Profile
    <3>2. /\ Upper(q.country) \in HIGH_RISK_COUNTRIES
          /\ Underage(p, Today) => Underage(q, Today)
      BY <3>1 DEF Upper, HIGH_RISK_COUNTRIES, Underage
    <3>3. KycRisk(q, d, Today) = "high"
      BY <3>2, KycRiskIs
    <3> QED
      BY <3>1, <3>2, <3>3, KycRiskOrder DEF KycReview
  <2>5. WorseThan([p EXCEPT !.date_of_birth = MinorsBirth], d)
    <3>0. PICK q : q = [p EXCEPT !.date_of_birth = MinorsBirth]
      OBVIOUS
    <3>1. /\ q = [p EXCEPT !.date_of_birth = MinorsBirth]
          /\ q.date_of_birth = MinorsBirth
      BY <3>0 DEF Profile
    <3>2. Underage(q, Today)
      BY <3>1, MinorIsUnderage
    <3>3. Inconsistencies(q, d, Today) # {}
      BY <3>2, SomethingInconsistent
    <3> QED
      BY <3>1, <3>2, <3>3, KycRiskOrder DEF KycReview
  <2>6. /\ KycReview([p EXCEPT !.full_name = Empty], d, Today)
        /\ KycReview([p EXCEPT !.country = ""], d, Today)
    BY DEF KycReview, MissingFields, Profile
  <2> QED
    BY <2>1, <2>2, <2>3, <2>4, <2>5, <2>6, Zenon DEF KycNeverSafer
<1> QED
  BY <1>1, EngineInvariance, PTL

(* Counting birthdays one at a time comes to the age the code computes.    *)
LEMMA AdultByBirthdays ==
  ASSUME NEW y \in Int, NEW m \in Int, NEW d \in Int
  PROVE  (\E b \in Birthdays(<<y, m, d>>) : b - y = 18) <=>
           AgeOn(Today, <<y, m, d>>) >= 18
<1>1. PICK ty \in Int, tm \in Int, td \in Int : Today = <<ty, tm, td>>
  BY PayloadAssumption
<1>2. Birthdays(<<y, m, d>>) =
        {b \in y + 1 .. ty : b < ty \/ m < tm \/ (m = tm /\ d <= td)}
  BY <1>1 DEF Birthdays
<1>3. (\E b \in Birthdays(<<y, m, d>>) : b - y = 18) <=>
        y + 18 \in Birthdays(<<y, m, d>>)
  BY <1>2
<1>4. AgeOn(Today, <<y, m, d>>) =
        IF tm < m \/ (tm = m /\ td < d) THEN ty - y - 1 ELSE ty - y
  BY <1>1 DEF AgeOn
<1> QED
  BY <1>2, <1>3, <1>4

(* The reading the code takes is one of those the date allows.             *)
LEMMA ParsedIsAReading ==
  ASSUME NEW raw \in [form : STRING, year : Int, first : Int, second : Int],
         Readings(raw) # {}
  PROVE  /\ ParseDate(raw) \in Readings(raw)
         /\ \E y, m, d \in Int : ParseDate(raw) = <<y, m, d>>
         /\ ParseDate(raw) # NoDate
         /\ \A x \in Readings(raw) :
              raw.form = "slash" /\ x = <<raw.year, raw.second, raw.first>> =>
                ParseDate(raw) = x
<1>1. PICK y \in Int, a \in Int, b \in Int :
        y = raw.year /\ a = raw.first /\ b = raw.second
  OBVIOUS
<1>2. <<y, a, b>>[2] = a /\ <<y, b, a>>[2] = b
  OBVIOUS
<1>3. /\ 0 \notin 1 .. 12
      /\ <<y, a, b>> = NoDate => a = 0
      /\ <<y, b, a>> = NoDate => b = 0
  BY DEF NoDate
<1>4. CASE raw.form = "iso"
  <2>1. Readings(raw) = {x \in {<<y, a, b>>} : x[2] \in 1 .. 12}
    BY <1>1, <1>4 DEF Readings
  <2>2. ParseDate(raw) = <<y, a, b>> /\ a \in 1 .. 12
    BY <1>1, <1>2, <1>4, <2>1 DEF ParseDate
  <2> QED
    BY <1>2, <1>3, <2>1, <2>2
<1>5. CASE raw.form = "slash"
  <2>1. Readings(raw) = {x \in {<<y, a, b>>, <<y, b, a>>} : x[2] \in 1 .. 12}
    BY <1>1, <1>5 DEF Readings
  <2>2. a \in 1 .. 12 \/ b \in 1 .. 12
    BY <1>2, <2>1
  <2>3. CASE b \in 1 .. 12
    <3>1. ParseDate(raw) = <<y, b, a>>
      BY <1>1, <1>5, <2>3 DEF ParseDate
    <3> QED
      BY <1>1, <1>2, <1>3, <2>1, <2>3, <3>1
  <2>4. CASE b \notin 1 .. 12 /\ a \in 1 .. 12
    <3>1. ParseDate(raw) = <<y, a, b>>
      BY <1>1, <1>5, <2>4 DEF ParseDate
    <3>2. <<y, b, a>> \notin Readings(raw)
      BY <1>2, <2>1, <2>4
    <3> QED
      BY <1>1, <1>2, <1>3, <2>1, <2>4, <3>1, <3>2
  <2> QED
    BY <2>2, <2>3, <2>4
<1>6. CASE raw.form \notin {"iso", "slash"}
  BY <1>6 DEF Readings
<1> QED
  BY <1>4, <1>5, <1>6

(* A customer who is a minor under every reading of the date of birth is   *)
(* rated high and reviewed; one who is of age under every reading is not   *)
(* called underage; and where they differ the day comes first, for every   *)
(* date and every today (_parse_date, _age_on, KycAgent.run).              *)
THEOREM MinorsAlwaysCaught == WorkerSpec => []MinorsAreCaught
<1>1. EngineInv => MinorsAreCaught
  <2> SUFFICES ASSUME EngineInv, type = "kyc",
                      Readings(payload.profile.date_of_birth) # {}
               PROVE  MinorsAreCaught
    BY DEF MinorsAreCaught
  <2>1. PICK p \in Profile : p = payload.profile
    BY PayloadAssumption DEF EngineInv, EngineTypes
  <2>2. PICK raw \in [form : STRING, year : Int, first : Int, second : Int] :
          raw = p.date_of_birth
    BY DEF Profile
  <2>3. PICK y \in Int, m \in Int, d \in Int : ParseDate(raw) = <<y, m, d>>
    BY <2>1, <2>2, ParsedIsAReading
  <2>4. <<y, m, d>> \in Readings(raw) /\ <<y, m, d>> # NoDate
    BY <2>1, <2>2, <2>3, ParsedIsAReading
  <2> DEFINE Adult(x) == \E b \in Birthdays(x) : b - x[1] = 18
             doc == payload.document_fields
  <2>5. Adult(<<y, m, d>>) <=> AgeOn(Today, <<y, m, d>>) >= 18
    <3>1. <<y, m, d>>[1] = y
      OBVIOUS
    <3> QED
      BY <3>1, AdultByBirthdays
  <2>6. AgeOn(Today, <<y, m, d>>) \in Int
    <3>1. PICK ty \in Int, tm \in Int, td \in Int : Today = <<ty, tm, td>>
      BY PayloadAssumption
    <3> QED
      BY <3>1 DEF AgeOn
  <2>7. Underage(p, Today) <=> ~Adult(<<y, m, d>>)
    BY <2>2, <2>3, <2>4, <2>5, <2>6 DEF Underage
  <2> HIDE DEF Adult
  <2>8. ASSUME \A x \in Readings(raw) : ~Adult(x)
        PROVE  KycRisk(p, doc, Today) = "high" /\ KycReview(p, doc, Today)
    BY <2>4, <2>7, <2>8, KycRiskIs DEF KycReview
  <2>9. ASSUME \A x \in Readings(raw) : Adult(x)
        PROVE  "underage" \notin Inconsistencies(p, doc, Today)
    BY <2>4, <2>7, <2>9, SomethingInconsistent
  <2>10. ASSUME NEW x \in Readings(raw), raw.form = "slash",
                x = <<raw.year, raw.second, raw.first>>
         PROVE  ~Adult(x) <=> "underage" \in Inconsistencies(p, doc, Today)
    <3>1. x = <<y, m, d>>
      BY <2>3, <2>10, ParsedIsAReading
    <3> QED
      BY <2>7, <3>1, SomethingInconsistent
  <2> QED
    BY <2>1, <2>2, <2>8, <2>9, <2>10, Zenon DEF MinorsAreCaught, Adult
<1> QED
  BY <1>1, EngineInvariance, PTL

-----------------------------------------------------------------------------
(* Induction, of sets.                                                     *)
LEMMA Induction ==
  ASSUME NEW S, 0 \in S, \A n \in S \cap Nat : n + 1 \in S
  PROVE  Nat \subseteq S
<1> DEFINE T == Nat \ S
<1> SUFFICES ASSUME T # {} PROVE FALSE
  OBVIOUS
<1>1. PICK x \in T : \A y \in T : ~(<<y, x>> \in OpToRel(<, Nat))
  <2>1. T \in SUBSET Nat
    OBVIOUS
  <2> HIDE DEF T
  <2> QED
    BY <2>1, NatLessThanWellFounded, WFMin
<1>2. \A y \in T : ~(y < x)
  BY <1>1 DEF OpToRel
<1>3. x - 1 \in S \cap Nat
  BY <1>2
<1>4. (x - 1) + 1 = x
  OBVIOUS
<1> QED
  BY <1>3, <1>4, Zenon

-----------------------------------------------------------------------------
(* Fields of a text.                                                       *)

(* What the first i lines say of a key: the last value that is not blank.  *)
Said(lines, i, k) ==
  {j \in 1 .. i : NormaliseKey(lines[j].label) = k /\ lines[j].value # ""}
Latest(S) == CHOOSE i \in S : \A j \in S : j <= i
LastValue(lines, i, k) ==
  IF Said(lines, i, k) = {} THEN "" ELSE lines[Latest(Said(lines, i, k))].value
Read(lines, i) == [k \in KeysOf(lines) |-> LastValue(lines, i, k)]

(* One round of the loop of parse_fields.                                  *)
Round(lines, i, before) ==
  IF NormaliseKey(lines[i].label) = "none" \/ lines[i].value = ""
  THEN before
  ELSE [before EXCEPT ![NormaliseKey(lines[i].label)] = lines[i].value]

Rounds(lines, f) ==
  [i \in 0 .. Len(lines) |-> IF i = 0 THEN [k \in KeysOf(lines) |-> ""]
                             ELSE Round(lines, i, f[i - 1])]

(* The recursive function of ParseFields, unfolded.                        *)
LEMMA ParseIsRounds ==
  ASSUME NEW lines
  PROVE ParseFields(lines) = (CHOOSE f : f = Rounds(lines, f))[Len(lines)]
BY DEF ParseFields, Rounds, Round

LEMMA LatestIsLast ==
  ASSUME NEW lines, NEW i \in Nat, NEW k, i \in Said(lines, i, k)
  PROVE  Latest(Said(lines, i, k)) = i
<1> DEFINE S == Said(lines, i, k)
<1>1. S \subseteq 1 .. i /\ i \in S
  BY DEF Said
<1> HIDE DEF S
<1>2. \A j \in S : j <= i
  BY <1>1
<1>3. \A x \in S : (\A j \in S : j <= x) => x = i
  BY <1>1
<1>4. (CHOOSE x \in S : \A j \in S : j <= x) = i
  BY <1>1, <1>2, <1>3
<1> QED
  BY <1>4 DEF Latest, S

(* One more line changes what was read as ParseFields says.                *)
LEMMA RoundReads ==
  ASSUME NEW lines \in Seq(TextLine), NEW i \in 1 .. Len(lines)
  PROVE  Round(lines, i, Read(lines, i - 1)) = Read(lines, i)
<1> DEFINE key == NormaliseKey(lines[i].label)
           value == lines[i].value
<1>1. i \in Nat /\ i - 1 \in Nat /\ 1 .. i = 1 .. (i - 1) \cup {i}
  OBVIOUS
<1>2. ASSUME NEW k, k # key \/ value = ""
      PROVE  Said(lines, i, k) = Said(lines, i - 1, k)
  BY <1>1, <1>2 DEF Said
<1>3. ASSUME value # "" PROVE LastValue(lines, i, key) = value
  <2>1. i \in Said(lines, i, key)
    BY <1>1, <1>3 DEF Said
  <2> QED
    BY <1>1, <2>1, LatestIsLast DEF LastValue
<1>4. CASE key = "none" \/ value = ""
  <2>1. ASSUME NEW k \in KeysOf(lines) PROVE Said(lines, i, k) = Said(lines, i - 1, k)
    BY <1>2, <1>4 DEF KeysOf
  <2> QED
    BY <1>4, <2>1 DEF Round, Read, LastValue
<1>5. CASE key # "none" /\ value # ""
  <2>1. ASSUME NEW k \in KeysOf(lines), k # key
        PROVE  LastValue(lines, i, k) = LastValue(lines, i - 1, k)
    <3>1. Said(lines, i, k) = Said(lines, i - 1, k)
      BY <1>2, <2>1
    <3> QED
      BY <3>1, Zenon DEF LastValue
  <2>2. Round(lines, i, Read(lines, i - 1)) = [Read(lines, i - 1) EXCEPT ![key] = value]
    BY <1>5 DEF Round
  <2> HIDE DEF key, value
  <2> QED
    BY <1>3, <1>5, <2>1, <2>2 DEF Read
<1> QED
  BY <1>4, <1>5

LEMMA NothingReadAtFirst ==
  ASSUME NEW lines
  PROVE  Read(lines, 0) = [k \in KeysOf(lines) |-> ""]
<1>1. \A k : Said(lines, 0, k) = {}
  BY DEF Said
<1> QED
  BY <1>1 DEF Read, LastValue

LEMMA ParseReads ==
  ASSUME NEW lines \in Seq(TextLine)
  PROVE  ParseFields(lines) = Read(lines, Len(lines))
<1> DEFINE n == Len(lines)
           g == [i \in 0 .. n |-> Read(lines, i)]
           f == CHOOSE h : h = Rounds(lines, h)
<1>0. n \in Nat
  OBVIOUS
<1>1. g = Rounds(lines, g)
  <2>1. ASSUME NEW i \in 1 .. n PROVE g[i - 1] = Read(lines, i - 1)
    BY <1>0
  <2>2. ASSUME NEW i \in 1 .. n PROVE g[i] = Round(lines, i, g[i - 1])
    BY <1>0, <2>1, <2>2, RoundReads
  <2>3. g[0] = [k \in KeysOf(lines) |-> ""]
    <3>1. g[0] = Read(lines, 0)
      BY <1>0
    <3> QED
      BY <3>1, NothingReadAtFirst, Zenon
  <2> HIDE DEF g
  <2>4. \A i \in 0 .. n : i = 0 \/ i \in 1 .. n
    BY <1>0
  <2>5. \A i \in 0 .. n : g[i] = IF i = 0 THEN [k \in KeysOf(lines) |-> ""]
                                  ELSE Round(lines, i, g[i - 1])
    BY <2>2, <2>3, <2>4
  <2>6. g = [i \in 0 .. n |-> g[i]]
    BY DEF g
  <2> QED
    BY <2>5, <2>6 DEF Rounds
<1>2. f = Rounds(lines, f)
  <2> HIDE DEF g
  <2> QED
    BY <1>1
<1> HIDE DEF f
<1>3. f[0] = Read(lines, 0)
  <2>1. Rounds(lines, f)[0] = [k \in KeysOf(lines) |-> ""]
    BY <1>0 DEF Rounds
  <2> QED
    BY <1>2, <2>1, NothingReadAtFirst, Zenon
<1>4. ASSUME NEW i \in 1 .. n PROVE f[i] = Round(lines, i, f[i - 1])
  <2>0. i \in 0 .. Len(lines) /\ i # 0
    BY <1>0
  <2>1. Rounds(lines, f)[i] = Round(lines, i, f[i - 1])
    BY <2>0, Zenon DEF Rounds
  <2> QED
    BY <1>2, <2>1, Zenon
<1>5. \A i \in 0 .. n : f[i] = Read(lines, i)
  <2> DEFINE S == {i \in Nat : i <= n => f[i] = Read(lines, i)}
  <2>1. 0 \in S
    BY <1>3
  <2>2. ASSUME NEW i \in S \cap Nat PROVE i + 1 \in S
    <3> SUFFICES ASSUME i + 1 <= n PROVE f[i + 1] = Read(lines, i + 1)
      OBVIOUS
    <3>1. i + 1 \in 1 .. n /\ (i + 1) - 1 = i /\ f[i] = Read(lines, i)
      BY <1>0
    <3>2. f[i + 1] = Round(lines, i + 1, Read(lines, i))
      BY <1>4, <3>1, Zenon
    <3>3. Round(lines, i + 1, Read(lines, (i + 1) - 1)) = Read(lines, i + 1)
      BY <3>1, RoundReads
    <3> QED
      BY <3>1, <3>2, <3>3, Zenon
  <2>3. Nat \subseteq S
    <3> HIDE DEF S
    <3> QED
      BY <2>1, <2>2, Induction
  <2> QED
    BY <1>0, <2>3
<1>6. ParseFields(lines) = f[n]
  BY ParseIsRounds DEF f
<1> QED
  BY <1>0, <1>5, <1>6

(* Whatever the text, parse_fields keeps for every key the value of the    *)
(* last line that has one, and no blank line erases it (parse_fields).     *)
THEOREM LastValuesWin == WorkerSpec => []LastValueWins
<1>1. EngineInv => LastValueWins
  <2> SUFFICES ASSUME EngineInv, type # "none", "text" \in DOMAIN payload,
                      NEW k \in KeysOf(payload.text)
               PROVE  ParseFields(payload.text)[k] =
                        LastValue(payload.text, Len(payload.text), k)
    BY DEF LastValueWins, LastValue, Said, Latest
  <2>1. payload.text \in Seq(TextLine)
    BY PayloadAssumption DEF EngineInv, EngineTypes
  <2> QED
    BY <2>1, ParseReads DEF Read
<1> QED
  BY <1>1, EngineInvariance, PTL

-----------------------------------------------------------------------------
(* Powers: the recursive function of Power, unfolded.                      *)
Multiplied(b, n, f) == [i \in 0 .. n |-> IF i = 0 THEN 1 ELSE b * f[i - 1]]
Powers(b, n) == CHOOSE f : f = Multiplied(b, n, f)

LEMMA PowerIs ==
  ASSUME NEW b, NEW n
  PROVE  Power(b, n) = Powers(b, n)[n]
BY DEF Power, Powers, Multiplied

LEMMA MultipliedAt ==
  ASSUME NEW b, NEW n \in Nat, NEW f, f = Multiplied(b, n, f)
  PROVE  /\ f[0] = 1
         /\ \A i \in 1 .. n : f[i] = b * f[i - 1]
<1>1. Multiplied(b, n, f)[0] = 1
  BY DEF Multiplied
<1>2. ASSUME NEW i \in 1 .. n PROVE Multiplied(b, n, f)[i] = b * f[i - 1]
  <2>1. i \in 0 .. n /\ i # 0
    OBVIOUS
  <2> QED
    BY <2>1, Zenon DEF Multiplied
<1> QED
  BY <1>1, <1>2, Zenon

LEMMA MultipliedWhen ==
  ASSUME NEW b, NEW n \in Nat, NEW f, f = [i \in 0 .. n |-> f[i]],
         f[0] = 1, \A i \in 1 .. n : f[i] = b * f[i - 1]
  PROVE  f = Multiplied(b, n, f)
<1>1. \A i \in 0 .. n : i = 0 \/ i \in 1 .. n
  OBVIOUS
<1>2. \A i \in 0 .. n : f[i] = IF i = 0 THEN 1 ELSE b * f[i - 1]
  BY <1>1, Zenon
<1> QED
  BY <1>2, Zenon DEF Multiplied

(* There is such a function: each is the one before, with a value more.    *)
LEMMA PowersExist ==
  ASSUME NEW b, NEW n \in Nat
  PROVE  Powers(b, n) = Multiplied(b, n, Powers(b, n))
<1> DEFINE S == {m \in Nat : \E f : f = Multiplied(b, m, f)}
<1>1. 0 \in S
  <2> DEFINE f == [i \in 0 .. 0 |-> 1]
  <2>1. f = [i \in 0 .. 0 |-> f[i]] /\ f[0] = 1 /\ \A i \in 1 .. 0 : f[i] = b * f[i - 1]
    OBVIOUS
  <2> HIDE DEF f
  <2>2. 0 \in Nat
    OBVIOUS
  <2>3. f = Multiplied(b, 0, f)
    BY <2>1, <2>2, MultipliedWhen, Zenon
  <2> QED
    BY <2>3
<1>2. ASSUME NEW m \in S \cap Nat PROVE m + 1 \in S
  <2>1. PICK f : f = Multiplied(b, m, f)
    OBVIOUS
  <2> DEFINE g == [i \in 0 .. m + 1 |-> IF i = m + 1 THEN b * f[m] ELSE f[i]]
  <2>2. /\ f[0] = 1 
        /\ \A i \in 1 .. m : f[i] = b * f[i - 1]
    BY <2>1, MultipliedAt
  <2>3. \A i \in 0 .. m : g[i] = f[i]
    OBVIOUS
  <2>4. g[m + 1] = b * f[m]
    OBVIOUS
  <2>5. g = [i \in 0 .. m + 1 |-> g[i]]
    OBVIOUS
  <2> HIDE DEF g
  <2>6. ASSUME NEW i \in 1 .. m + 1 PROVE g[i] = b * g[i - 1]
    <3>1. g[i - 1] = f[i - 1]
      BY <2>3
    <3>2. CASE i = m + 1
      <4>1. i - 1 = m
        BY <3>2
      <4> QED
        BY <2>4, <3>1, <3>2, <4>1, Zenon
    <3>3. CASE i # m + 1
      <4>1. i \in 1 .. m /\ i \in 0 .. m
        BY <3>3
      <4> QED
        BY <2>2, <2>3, <3>1, <4>1, Zenon
    <3> QED
      BY <3>2, <3>3
  <2>7. g[0] = 1
    BY <2>2, <2>3
  <2>8. m + 1 \in Nat
    OBVIOUS
  <2>9. g = Multiplied(b, m + 1, g)
    BY <2>5, <2>6, <2>7, <2>8, MultipliedWhen, Zenon
  <2> QED
    BY <2>9
<1> HIDE DEF S
<1>3. n \in S
  BY <1>1, <1>2, Induction
<1>4. PICK f : f = Multiplied(b, n, f)
  BY <1>3 DEF S
<1> QED
  BY <1>4, Zenon DEF Powers

LEMMA PowerZero == ASSUME NEW b PROVE Power(b, 0) = 1
<1>1. Powers(b, 0) = Multiplied(b, 0, Powers(b, 0))
  BY PowersExist
<1> QED
  BY <1>1, MultipliedAt, PowerIs

LEMMA PowerNext ==
  ASSUME NEW b, NEW n \in Nat
  PROVE  Power(b, n + 1) = b * Power(b, n)
<1> DEFINE f == Powers(b, n)
           g == Powers(b, n + 1)
           S == {i \in Nat : i <= n => g[i] = f[i]}
<1>0. n + 1 \in Nat
  OBVIOUS
<1>1. f = Multiplied(b, n, f) /\ g = Multiplied(b, n + 1, g)
  BY <1>0, PowersExist
<1>2. /\ f[0] = 1 /\ \A i \in 1 .. n : f[i] = b * f[i - 1]
      /\ g[0] = 1 /\ \A i \in 1 .. n + 1 : g[i] = b * g[i - 1]
  <2> HIDE DEF f, g
  <2> QED
    BY <1>0, <1>1, MultipliedAt, Zenon
<1> HIDE DEF f, g
<1>3. 0 \in S
  BY <1>2
<1>4. ASSUME NEW i \in S \cap Nat PROVE i + 1 \in S
  <2> SUFFICES ASSUME i + 1 <= n PROVE g[i + 1] = f[i + 1]
    OBVIOUS
  <2>1. i + 1 \in 1 .. n /\ i + 1 \in 1 .. n + 1 /\ (i + 1) - 1 = i /\ g[i] = f[i]
    OBVIOUS
  <2> QED
    BY <1>2, <2>1, Zenon
<1> HIDE DEF S
<1>5. n \in S
  BY <1>3, <1>4, Induction
<1>6. g[n] = f[n]
  BY <1>5 DEF S
<1>7. n + 1 \in 1 .. n + 1 /\ (n + 1) - 1 = n
  OBVIOUS
<1> QED
  BY <1>2, <1>6, <1>7, PowerIs, Zenon DEF f, g

(* A larger base gives a larger power.                                     *)
LEMMA PowerGrows ==
  ASSUME NEW b \in Nat \ {0}, NEW h \in Nat, NEW n \in Nat
  PROVE  /\ Power(b, n) \in Nat \ {0}
         /\ Power(b, n) <= Power(b + h, n)
         /\ h # 0 /\ n # 0 => Power(b, n) < Power(b + h, n)
<1> DEFINE S == {m \in Nat : /\ Power(b, m) \in Nat \ {0}
                             /\ Power(b + h, m) \in Nat
                             /\ Power(b, m) <= Power(b + h, m)
                             /\ h # 0 /\ m # 0 => Power(b, m) < Power(b + h, m)}
<1>1. 0 \in S
  BY PowerZero
<1>2. ASSUME NEW m \in S \cap Nat PROVE m + 1 \in S
  <2>1. PICK x \in Nat \ {0}, y \in Nat :
          x = Power(b, m) /\ y = Power(b + h, m) /\ x <= y
    OBVIOUS
  <2>2. b * x \in Nat \ {0} /\ (b + h) * y \in Nat
    BY <2>1
  <2>3. b * x <= b * y
    BY <2>1
  <2>4. (b + h) * y = b * y + h * y /\ h * y \in Nat /\ (h # 0 => h * y > 0)
    BY <2>1
  <2>5. Power(b, m + 1) = b * x /\ Power(b + h, m + 1) = (b + h) * y
    BY <2>1, PowerNext
  <2>6. b * x <= (b + h) * y /\ (h # 0 => b * x < (b + h) * y)
    BY <2>2, <2>3, <2>4
  <2> QED
    BY <2>2, <2>5, <2>6
<1> HIDE DEF S
<1>3. n \in S
  BY <1>1, <1>2, Induction
<1> QED
  BY <1>3 DEF S

LEMMA PowerPositive ==
  ASSUME NEW b \in Nat \ {0}, NEW n \in Nat
  PROVE  Power(b, n) \in Nat \ {0}
<1>1. 0 \in Nat
  OBVIOUS
<1> QED
  BY <1>1, PowerGrows

(* Interest on a shrinking debt is at most interest on the whole of it.    *)
LEMMA InterestBounded ==
  ASSUME NEW b \in Nat \ {0}, NEW h \in Nat, NEW n \in Nat
  PROVE  b * (Power(b + h, n) - Power(b, n)) <= h * (n * Power(b + h, n))
<1> DEFINE G(m) == Power(b + h, m)
           D(m) == Power(b, m)
           S == {m \in Nat : b * (G(m) - D(m)) <= h * (m * G(m))}
<1>1. 0 \in S
  BY PowerZero
<1>2. ASSUME NEW m \in S \cap Nat PROVE m + 1 \in S
  <2>1. PICK d \in Nat \ {0} : d = D(m)
    BY PowerPositive
  <2>2. PICK g \in Nat \ {0} : g = G(m)
    <3>1. b + h \in Nat \ {0}
      OBVIOUS
    <3> QED
      BY <3>1, PowerPositive
  <2>3. G(m + 1) = (b + h) * g /\ D(m + 1) = b * d
    BY <2>1, <2>2, PowerNext
  <2>4. b * (g - d) <= h * (m * g)
    BY <2>1, <2>2
  <2> HIDE DEF G, D
  <2>5. b * (b * (g - d)) <= b * (h * (m * g))
    BY <2>4
  <2>6. b * ((b + h) * g - b * d) = b * (b * (g - d)) + b * (h * g)
    OBVIOUS
  <2>7. b * (h * (m * g)) + b * (h * g) = b * (h * ((m + 1) * g))
    OBVIOUS
  <2>8. h * ((m + 1) * ((b + h) * g)) = b * (h * ((m + 1) * g)) + h * (h * ((m + 1) * g))
    OBVIOUS
  <2>9. h * (h * ((m + 1) * g)) \in Nat
    OBVIOUS
  <2>10. b * ((b + h) * g - b * d) <= h * ((m + 1) * ((b + h) * g))
    BY <2>5, <2>6, <2>7, <2>8, <2>9
  <2> QED
    BY <2>3, <2>10
<1> HIDE DEF S
<1>3. n \in S
  BY <1>1, <1>2, Induction
<1> QED
  BY <1>3 DEF S

(* A dearer loan costs more: what a rate adds to the payment is convex.    *)
LEMMA RateConvex ==
  ASSUME NEW b \in Nat \ {0}, NEW h \in Nat, NEW n \in Nat
  PROVE  LET D == Power(b, n)
             A == Power(b + h, n)
             B == Power(b + h + 1, n) IN
         (h + 1) * (B * D) <= A * B + h * (A * D)
<1> DEFINE D(m) == Power(b, m)
           A(m) == Power(b + h, m)
           B(m) == Power(b + h + 1, m)
           S == {m \in Nat : (h + 1) * (B(m) * D(m)) <= A(m) * B(m) + h * (A(m) * D(m))}
<1>1. 0 \in S
  BY PowerZero
<1>2. ASSUME NEW m \in S \cap Nat PROVE m + 1 \in S
  <2>1. PICK d \in Nat \ {0} : d = D(m)
    BY PowerPositive
  <2>2. PICK x \in Nat \ {0} : x = A(m)
    <3>1. b + h \in Nat \ {0}
      OBVIOUS
    <3> QED
      BY <3>1, PowerPositive
  <2>3. PICK y \in Nat \ {0} : y = B(m)
    <3>1. b + h + 1 \in Nat \ {0}
      OBVIOUS
    <3> QED
      BY <3>1, PowerPositive
  <2>4. D(m + 1) = b * d /\ A(m + 1) = (b + h) * x /\ B(m + 1) = (b + h + 1) * y
    BY <2>1, <2>2, <2>3, PowerNext
  <2>5. d <= y
    <3>1. h + 1 \in Nat /\ b + (h + 1) = b + h + 1
      OBVIOUS
    <3> QED
      BY <2>1, <2>3, <3>1, PowerGrows
  <2>6. (h + 1) * (y * d) <= x * y + h * (x * d)
    BY <2>1, <2>2, <2>3
  <2> HIDE DEF D, A, B
  <2> DEFINE c == b * (b + h + 1)
             left == (h + 1) * (((b + h + 1) * y) * (b * d))
             right == ((b + h) * x) * ((b + h + 1) * y) + h * (((b + h) * x) * (b * d))
             before == (h + 1) * (y * d)
             after == x * y + h * (x * d)
             slack == h * x * ((b + h + 1) * y - b * d)
  <2>7. left = c * before /\ right = c * after + slack
    OBVIOUS
  <2>8. b * d <= (b + h + 1) * y
    BY <2>5
  <2>9. slack \in Nat
    BY <2>8
  <2>10. c \in Nat /\ before \in Nat /\ after \in Nat
    OBVIOUS
  <2>11. left <= right
    <3> HIDE DEF c, left, right, before, after, slack
    <3>1. before <= after
      BY <2>6 DEF before, after
    <3>2. c * before <= c * after
      BY <2>10, <3>1
    <3> QED
      BY <2>7, <2>9, <2>10, <3>2
  <2> QED
    BY <2>4, <2>11
<1> HIDE DEF S
<1>3. n \in S
  BY <1>1, <1>2, Induction
<1> QED
  BY <1>3 DEF S

-----------------------------------------------------------------------------
(* Payments.                                                               *)

LEMMA YearPositive == Year \in Nat \ {0}
BY RateAssumption DEF Year

(* A payment with interest, its powers named.                              *)
LEMMA PaymentIs ==
  ASSUME NEW P \in Nat \ {0}, NEW r \in Nat \ {0}, NEW n \in Nat \ {0}
  PROVE  /\ Power(Year + r, n) \in Nat \ {0} /\ Power(Year, n) \in Nat \ {0}
         /\ Power(Year, n) < Power(Year + r, n)
         /\ ExactPayment(P, r, n) =
              <<P * r * Power(Year + r, n), Year * (Power(Year + r, n) - Power(Year, n))>>
<1>1. Year + r \in Nat \ {0}
  BY YearPositive
<1>2. Power(Year + r, n) \in Nat \ {0} /\ Power(Year, n) \in Nat \ {0}
  BY <1>1, YearPositive, PowerPositive
<1>3. Power(Year, n) < Power(Year + r, n)
  BY YearPositive, PowerGrows
<1> QED
  BY <1>2, <1>3 DEF ExactPayment

LEMMA PaymentType ==
  ASSUME NEW P \in Nat \ {0}, NEW r \in Nat, NEW n \in Nat \ {0}
  PROVE  /\ ExactPayment(P, r, n)[1] \in Nat
         /\ ExactPayment(P, r, n)[2] \in Nat \ {0}
<1>1. CASE r = 0
  BY <1>1 DEF ExactPayment
<1>2. CASE r # 0
  <2>0. r \in Nat \ {0} /\ P + 1 \in Nat \ {0} /\ n + 1 \in Nat \ {0}
    BY <1>2
  <2> DEFINE g == Power(Year + r, n)
             d == Power(Year, n)
  <2>1. /\ g \in Nat \ {0} /\ d \in Nat \ {0} /\ d < g
        /\ ExactPayment(P, r, n) = <<P * r * g, Year * (g - d)>>
    BY <2>0, PaymentIs, Zenon
  <2> HIDE DEF g, d
  <2>2. P * r * g \in Nat /\ Year * (g - d) \in Nat \ {0}
    BY <2>1, YearPositive
  <2> QED
    BY <2>1, <2>2
<1> QED
  BY <1>1, <1>2

(* Payment v is no smaller than payment u.                                 *)
Dearer(u, v) == u[1] * v[2] <= v[1] * u[2]

LEMMA LargerPrincipal ==
  ASSUME NEW P \in Nat \ {0}, NEW r \in Nat, NEW n \in Nat \ {0}
  PROVE  Dearer(ExactPayment(P, r, n), ExactPayment(P + 1, r, n))
<1>1. CASE r = 0
  BY <1>1 DEF ExactPayment, Dearer
<1>2. CASE r # 0
  <2>0. r \in Nat \ {0} /\ P + 1 \in Nat \ {0} /\ n + 1 \in Nat \ {0}
    BY <1>2
  <2> DEFINE g == Power(Year + r, n)
             d == Power(Year, n)
  <2>1. /\ g \in Nat \ {0} /\ d \in Nat \ {0} /\ d < g
        /\ ExactPayment(P, r, n) = <<P * r * g, Year * (g - d)>>
        /\ ExactPayment(P + 1, r, n) = <<(P + 1) * r * g, Year * (g - d)>>
    BY <2>0, PaymentIs, Zenon
  <2> HIDE DEF g, d
  <2>2. PICK q \in Nat : q = Year * (g - d)
    BY <2>1, YearPositive
  <2>3. PICK k \in Nat : k = r * g
    BY <2>1
  <2>4. P * r * g = P * k /\ (P + 1) * r * g = (P + 1) * k
    BY <2>1, <2>3
  <2>5. (P * k) * q <= ((P + 1) * k) * q
    <3>1. ((P + 1) * k) * q = (P * k) * q + k * q /\ k * q \in Nat /\ (P * k) * q \in Nat
      OBVIOUS
    <3> QED
      BY <3>1
  <2> QED
    BY <2>1, <2>2, <2>4, <2>5 DEF Dearer
<1> QED
  BY <1>1, <1>2

(* No payment is below an equal share of the principal.                    *)
LEMMA EqualShare ==
  ASSUME NEW P \in Nat \ {0}, NEW r \in Nat, NEW n \in Nat \ {0}
  PROVE  Dearer(<<P, n>>, ExactPayment(P, r, n))
<1>1. CASE r = 0
  BY <1>1 DEF ExactPayment, Dearer
<1>2. CASE r # 0
  <2>0. r \in Nat \ {0} /\ P + 1 \in Nat \ {0} /\ n + 1 \in Nat \ {0}
    BY <1>2
  <2> DEFINE g == Power(Year + r, n)
             d == Power(Year, n)
  <2>1. /\ g \in Nat \ {0} /\ d \in Nat \ {0} /\ d < g
        /\ ExactPayment(P, r, n) = <<P * r * g, Year * (g - d)>>
    BY <2>0, PaymentIs, Zenon
  <2>2. Year * (g - d) <= r * (n * g)
    BY YearPositive, InterestBounded
  <2> HIDE DEF g, d
  <2>3. PICK q \in Nat : q = Year * (g - d)
    BY <2>1, YearPositive
  <2>4. PICK k \in Nat : k = r * (n * g)
    BY <2>1
  <2>5. P * q <= P * k
    BY <2>2, <2>3, <2>4
  <2>6. (P * r * g) * n = P * k
    BY <2>1, <2>4
  <2> QED
    BY <2>1, <2>3, <2>5, <2>6 DEF Dearer
<1> QED
  BY <1>1, <1>2

LEMMA HigherRate ==
  ASSUME NEW P \in Nat \ {0}, NEW r \in Nat, NEW n \in Nat \ {0}
  PROVE  Dearer(ExactPayment(P, r, n), ExactPayment(P, r + 1, n))
<1>1. CASE r = 0
  <2>1. ExactPayment(P, r, n) = <<P, n>>
    BY <1>1 DEF ExactPayment
  <2>2. r + 1 \in Nat
    OBVIOUS
  <2> QED
    BY <2>1, <2>2, EqualShare
<1>2. CASE r # 0
  <2>0. r \in Nat \ {0} /\ P + 1 \in Nat \ {0} /\ n + 1 \in Nat \ {0}
    BY <1>2
  <2> DEFINE x == Power(Year + r, n)
             y == Power(Year + r + 1, n)
             d == Power(Year, n)
  <2>1. /\ x \in Nat \ {0} /\ d \in Nat \ {0} /\ d < x
        /\ ExactPayment(P, r, n) = <<P * r * x, Year * (x - d)>>
    BY <2>0, PaymentIs, Zenon
  <2>2. /\ y \in Nat \ {0} /\ d < y
        /\ ExactPayment(P, r + 1, n) = <<P * (r + 1) * y, Year * (y - d)>>
    <3>1. r + 1 \in Nat \ {0} /\ Year + (r + 1) = Year + r + 1
      BY YearPositive
    <3>2. y = Power(Year + (r + 1), n)
      BY <3>1
    <3> HIDE DEF y, d
    <3> QED
      BY <3>1, <3>2, PaymentIs, Zenon DEF d
  <2>3. (r + 1) * (y * d) <= x * y + r * (x * d)
    BY YearPositive, RateConvex
  <2> HIDE DEF x, y, d
  <2>4. PICK k \in Nat : k = P * Year
    BY YearPositive
  <2>5. r * x * (y - d) <= (r + 1) * y * (x - d)
    BY <2>1, <2>2, <2>3
  <2>6. /\ (P * r * x) * (Year * (y - d)) = k * (r * x * (y - d))
        /\ (P * (r + 1) * y) * (Year * (x - d)) = k * ((r + 1) * y * (x - d))
    BY <2>1, <2>2, <2>4, YearPositive
  <2>7. PICK i \in Int, j \in Int : /\ i = r * x * (y - d)
                                    /\ j = (r + 1) * y * (x - d)
    BY <2>1, <2>2
  <2>8. k * i <= k * j
    BY <2>5, <2>7
  <2> QED
    BY <2>1, <2>2, <2>6, <2>7, <2>8 DEF Dearer
<1> QED
  BY <1>1, <1>2

LEMMA ShorterTerm ==
  ASSUME NEW P \in Nat \ {0}, NEW r \in Nat, NEW n \in Nat \ {0}
  PROVE  Dearer(ExactPayment(P, r, n + 1), ExactPayment(P, r, n))
<1>1. CASE r = 0
  BY <1>1 DEF ExactPayment, Dearer
<1>2. CASE r # 0
  <2>0. r \in Nat \ {0} /\ P + 1 \in Nat \ {0} /\ n + 1 \in Nat \ {0}
    BY <1>2
  <2> DEFINE g == Power(Year + r, n)
             d == Power(Year, n)
  <2>1. /\ g \in Nat \ {0} /\ d \in Nat \ {0} /\ d < g
        /\ ExactPayment(P, r, n) = <<P * r * g, Year * (g - d)>>
    BY <2>0, PaymentIs, Zenon
  <2>2. Power(Year + r, n + 1) = (Year + r) * g /\ Power(Year, n + 1) = Year * d
    BY PowerNext
  <2> HIDE DEF g, d
  <2>3. ExactPayment(P, r, n + 1) =
          <<P * r * ((Year + r) * g), Year * ((Year + r) * g - Year * d)>>
    <3>1. ExactPayment(P, r, n + 1) =
            <<P * r * Power(Year + r, n + 1),
              Year * (Power(Year + r, n + 1) - Power(Year, n + 1))>>
      BY <2>0, PaymentIs, Zenon
    <3> QED
      BY <2>2, <3>1, Zenon
  <2>4. PICK k \in Nat : k = P * r * g * Year
    BY <2>1, YearPositive
  <2>5. /\ (P * r * ((Year + r) * g)) * (Year * (g - d)) = k * ((Year + r) * (g - d))
        /\ (P * r * g) * (Year * ((Year + r) * g - Year * d))
             = k * ((Year + r) * g - Year * d)
    BY <2>1, <2>4, YearPositive
  <2>6. PICK i \in Int, j \in Int : /\ i = (Year + r) * (g - d)
                                    /\ j = (Year + r) * g - Year * d
    BY <2>1, YearPositive
  <2>7. j = i + r * d /\ r * d \in Nat
    BY <2>1, <2>6, YearPositive
  <2>8. k * i <= k * j
    BY <2>7
  <2> QED
    BY <2>1, <2>3, <2>5, <2>6, <2>8 DEF Dearer
<1> QED
  BY <1>1, <1>2

-----------------------------------------------------------------------------
(* The rating of a loan.                                                   *)

PaymentOf(l) == MonthlyPayment(l)

(* LoanRisk in terms of the payment p / q: the share of the income, and    *)
(* what is left of it.                                                     *)
AtLeast(l, percent) ==
  100 * PaymentOf(l)[1] >=
    (percent * l.monthly_income - 100 * l.monthly_debt) * PaymentOf(l)[2]
Short(l) ==
  PaymentOf(l)[1] >
    (l.monthly_income - l.monthly_expenses - l.monthly_debt) * PaymentOf(l)[2]

(* What the sum keeps of a trace of a rate is positive or nothing, and a   *)
(* trace it keeps is off by less than half.                                *)
LEMMA KeptBounds ==
  ASSUME NEW q \in Nat
  PROVE  /\ Kept(q) \in Nat
         /\ Kept(q) # 0 => 8 * Kept(q) < q /\ q < 24 * Kept(q)
<1>1. PICK w \in Nat, r \in 0 .. 15 :
        q = 16 * w + r /\ q \div 16 = w /\ q % 16 = r
  <2>1. /\ q \div 16 \in Nat /\ q % 16 \in 0 .. 15
        /\ q = 16 * (q \div 16) + (q % 16)
    OBVIOUS
  <2> QED
    BY <2>1
<1>2. Kept(q) = IF 2 * r > 16 \/ (2 * r = 16 /\ w % 2 = 1) THEN w + 1 ELSE w
  BY <1>1 DEF Kept, LastPlace
<1>3. w = 1 => w % 2 = 1
  OBVIOUS
<1>4. w = 0 => w % 2 # 1
  OBVIOUS
<1> QED
  BY <1>1, <1>2, <1>3, <1>4

LEMMA TracePayment ==
  ASSUME NEW l \in Loan, ValidLoan(l), ~DividesByZero(l), l.dust # 0
  PROVE  /\ l.dust \in Nat /\ Kept(l.dust) \in Nat \ {0}
         /\ PaymentOf(l) = <<l.loan_amount * l.dust,
                             16 * l.term_months * Kept(l.dust)>>
<1>1. l.dust \in Nat
  BY DEF Loan, ValidLoan
<1>2. Kept(l.dust) \in Nat \ {0}
  BY <1>1, KeptBounds DEF DividesByZero
<1> QED
  BY <1>1, <1>2 DEF PaymentOf, MonthlyPayment, LastPlace

LEMMA ValidPayment ==
  ASSUME NEW l \in Loan, ValidLoan(l), ~DividesByZero(l)
  PROVE  /\ l.loan_amount \in Nat \ {0} /\ l.rate \in Nat
         /\ l.term_months \in Nat \ {0}
         /\ PaymentOf(l)[1] \in Nat /\ PaymentOf(l)[2] \in Nat \ {0}
<1>1. /\ l.loan_amount \in Nat \ {0} /\ l.rate \in Nat
      /\ l.term_months \in Nat \ {0}
  BY RateAssumption DEF Loan, ValidLoan
<1>2. CASE l.dust = 0
  BY <1>1, <1>2, PaymentType DEF PaymentOf, MonthlyPayment
<1>3. CASE l.dust # 0
  <2>1. PICK k \in Nat \ {0} : k = Kept(l.dust)
    BY <1>3, TracePayment
  <2>2. PICK n \in Nat \ {0} : n = l.term_months
    BY <1>1
  <2>3. PICK a \in Nat, q \in Nat : a = l.loan_amount /\ q = l.dust
    BY <1>1, <1>3, TracePayment
  <2>4. a * q \in Nat /\ 16 * n * k \in Nat \ {0}
    OBVIOUS
  <2>5. PaymentOf(l) = <<a * q, 16 * n * k>>
    BY <1>3, <2>1, <2>2, <2>3, TracePayment
  <2> QED
    BY <1>1, <2>4, <2>5
<1> QED
  BY <1>2, <1>3

LEMMA RiskByPayment ==
  ASSUME NEW l \in Loan, ValidLoan(l), ~DividesByZero(l)
  PROVE  LoanRisk(l) = IF AtLeast(l, 43) \/ Short(l) THEN "high"
                       ELSE IF AtLeast(l, 36) THEN "medium" ELSE "low"
<1>1. PICK p \in Nat : p = PaymentOf(l)[1]
  BY ValidPayment
<1>2. PICK q \in Nat \ {0} : q = PaymentOf(l)[2]
  BY ValidPayment
<1>3. PICK income \in Int : income = l.monthly_income
  BY DEF Loan
<1>4. PICK debt \in Int : debt = l.monthly_debt
  BY DEF Loan
<1>5. PICK expenses \in Int : expenses = l.monthly_expenses
  BY DEF Loan
<1> DEFINE Reaches(percent) == 100 * (debt * q + p) >= percent * income * q
           Overdrawn == (income - expenses) * q - (debt * q + p) < 0
<1>6. Reaches(43) <=> 100 * p >= (43 * income - 100 * debt) * q
  OBVIOUS
<1>7. Reaches(36) <=> 100 * p >= (36 * income - 100 * debt) * q
  OBVIOUS
<1>8. Overdrawn <=> p > (income - expenses - debt) * q
  OBVIOUS
<1>9. LoanRisk(l) = IF Reaches(43) \/ Overdrawn THEN "high"
                    ELSE IF Reaches(36) THEN "medium" ELSE "low"
  BY <1>1, <1>2, <1>3, <1>4, <1>5, Zenon DEF LoanRisk, PaymentOf
<1> HIDE DEF Reaches, Overdrawn
<1>10. /\ AtLeast(l, 43) <=> Reaches(43)
       /\ AtLeast(l, 36) <=> Reaches(36)
       /\ Short(l) <=> Overdrawn
  BY <1>1, <1>2, <1>3, <1>4, <1>5, <1>6, <1>7, <1>8, Zenon DEF AtLeast, Short
<1> QED
  BY <1>9, <1>10

(* A larger payment p / q reaches every mark a smaller one reaches, and a  *)
(* lower mark sooner.                                                      *)
LEMMA MarkReached ==
  ASSUME NEW c \in Nat \ {0}, NEW p \in Nat, NEW q \in Nat \ {0},
         NEW pp \in Nat, NEW qq \in Nat \ {0}, p * qq <= pp * q,
         NEW mark \in Int, NEW lower \in Int, lower <= mark
  PROVE  /\ c * p >= mark * q => c * pp >= lower * qq
         /\ c * p > mark * q => c * pp > lower * qq
<1>1. c * (p * qq) <= c * (pp * q)
  BY SMT
<1>2. lower * (q * qq) <= mark * (q * qq)
  OBVIOUS
<1>3. ASSUME c * p >= mark * q PROVE c * pp >= lower * qq
  <2>1. (c * p) * qq >= (mark * q) * qq
    BY <1>3
  <2>2. (c * pp) * q >= (lower * qq) * q
    BY <1>1, <1>2, <2>1
  <2>3. PICK i \in Int, j \in Int : i = c * pp /\ j = lower * qq
    OBVIOUS
  <2>4. i * q >= j * q => i >= j
    OBVIOUS
  <2> QED
    BY <2>2, <2>3, <2>4
<1>4. ASSUME c * p > mark * q PROVE c * pp > lower * qq
  <2>1. (c * p) * qq > (mark * q) * qq
    BY <1>4
  <2>2. (c * pp) * q > (lower * qq) * q
    BY <1>1, <1>2, <2>1
  <2>3. PICK i \in Int, j \in Int : i = c * pp /\ j = lower * qq
    OBVIOUS
  <2>4. i * q > j * q => i > j
    OBVIOUS
  <2> QED
    BY <2>2, <2>3, <2>4
<1> QED
  BY <1>3, <1>4

LEMMA WorseTerms ==
  ASSUME NEW l \in Loan, NEW m \in Loan, ValidLoan(l), ValidLoan(m),
         ~DividesByZero(l), ~DividesByZero(m),
         m.monthly_income <= l.monthly_income,
         l.monthly_debt <= m.monthly_debt,
         l.monthly_expenses <= m.monthly_expenses,
         Dearer(PaymentOf(l), PaymentOf(m))
  PROVE  NoSafer(LoanRisk(l), LoanRisk(m))
<1> DEFINE p == PaymentOf(l)[1]
           q == PaymentOf(l)[2]
           pp == PaymentOf(m)[1]
           qq == PaymentOf(m)[2]
<1>1. /\ p \in Nat /\ q \in Nat \ {0} /\ pp \in Nat /\ qq \in Nat \ {0}
      /\ p * qq <= pp * q
  BY ValidPayment DEF Dearer
<1>2. ASSUME NEW c \in {36, 43} PROVE AtLeast(l, c) => AtLeast(m, c)
  <2> DEFINE mark == c * l.monthly_income - 100 * l.monthly_debt
             lower == c * m.monthly_income - 100 * m.monthly_debt
  <2>1. mark \in Int /\ lower \in Int /\ lower <= mark
    BY DEF Loan
  <2>2. 100 \in Nat \ {0}
    OBVIOUS
  <2>3. 100 * p >= mark * q => 100 * pp >= lower * qq
    <3> HIDE DEF mark, lower, p, q, pp, qq
    <3> QED
      BY ONLY <1>1, <2>1, <2>2, MarkReached
  <2> QED
    BY <2>3, Zenon DEF AtLeast
<1>3. Short(l) => Short(m)
  <2> DEFINE mark == l.monthly_income - l.monthly_expenses - l.monthly_debt
             lower == m.monthly_income - m.monthly_expenses - m.monthly_debt
  <2>1. mark \in Int /\ lower \in Int /\ lower <= mark
    BY DEF Loan
  <2>2. 1 \in Nat \ {0} /\ 1 * p = p /\ 1 * pp = pp
    BY <1>1
  <2>3. 1 * p > mark * q => 1 * pp > lower * qq
    <3> HIDE DEF mark, lower, p, q, pp, qq
    <3> QED
      BY ONLY <1>1, <2>1, <2>2, MarkReached
  <2>4. p > mark * q => pp > lower * qq
    BY <2>2, <2>3, Zenon
  <2> QED
    BY <2>4, Zenon DEF Short
<1> HIDE DEF p, q, pp, qq
<1>4. /\ AtLeast(l, 43) => AtLeast(m, 43)
      /\ AtLeast(l, 36) => AtLeast(m, 36)
  BY <1>2
<1> QED
  BY <1>3, <1>4, RiskByPayment DEF NoSafer, RISK_ORDER

(* Each way of being worse, one by one.                                    *)
(* A trace of a rate on a larger principal or over a shorter term.         *)
LEMMA DearerTrace ==
  ASSUME NEW P \in Nat \ {0}, NEW n \in Nat \ {0}, NEW q \in Nat,
         NEW k \in Nat \ {0}
  PROVE  /\ Dearer(<<P * q, 16 * n * k>>, <<(P + 1) * q, 16 * n * k>>)
         /\ Dearer(<<P * q, 16 * (n + 1) * k>>, <<P * q, 16 * n * k>>)
<1>1. PICK d \in Nat : d = 16 * n * k
  OBVIOUS
<1>2. (P + 1) * q = P * q + q
  OBVIOUS
<1>3. PICK a \in Nat : a = P * q
  OBVIOUS
<1>4. a * d <= (a + q) * d
  <2>1. (a + q) * d = a * d + q * d /\ q * d \in Nat /\ a * d \in Nat
    OBVIOUS
  <2> QED
    BY <2>1
<1>5. 16 * (n + 1) * k = d + 16 * k
  BY <1>1
<1>6. a * d <= a * (d + 16 * k)
  <2>1. PICK e \in Nat : e = 16 * k
    OBVIOUS
  <2>2. a * (d + e) = a * d + a * e /\ a * d \in Nat /\ a * e \in Nat
    OBVIOUS
  <2> QED
    BY <2>1, <2>2
<1> QED
  BY <1>1, <1>2, <1>3, <1>4, <1>5, <1>6 DEF Dearer

LEMMA WorseLoanIsNoSafer ==
  ASSUME NEW l \in Loan, ValidLoan(l), ~DividesByZero(l),
         NEW m \in WorseLoans(l), ValidLoan(m)
  PROVE  NoSafer(LoanRisk(l), LoanRisk(m))
<1> USE DEF Loan
<1>0. /\ l.loan_amount \in Nat \ {0} /\ l.rate \in Nat
      /\ l.term_months \in Nat \ {0}
  BY ValidPayment
<1>1. Dearer(PaymentOf(l), PaymentOf(l))
  BY ValidPayment DEF Dearer
<1>9. m \in Loan /\ m.dust = l.dust /\ ~DividesByZero(m)
  BY DEF WorseLoans, DividesByZero
<1>2. CASE m = [l EXCEPT !.monthly_income = @ - 1]
  <2>1. m \in Loan /\ m.monthly_income <= l.monthly_income
    BY <1>2
  <2>2. m.monthly_debt = l.monthly_debt /\ m.monthly_expenses = l.monthly_expenses
    BY <1>2
  <2>3. PaymentOf(m) = PaymentOf(l)
    BY <1>2 DEF PaymentOf, MonthlyPayment
  <2> QED
    BY <1>1, <1>9, <2>1, <2>2, <2>3, WorseTerms
<1>3. CASE m = [l EXCEPT !.monthly_debt = @ + 1]
  <2>1. m \in Loan /\ l.monthly_debt <= m.monthly_debt
    BY <1>3
  <2>2. m.monthly_income = l.monthly_income /\ m.monthly_expenses = l.monthly_expenses
    BY <1>3
  <2>3. PaymentOf(m) = PaymentOf(l)
    BY <1>3 DEF PaymentOf, MonthlyPayment
  <2> QED
    BY <1>1, <1>9, <2>1, <2>2, <2>3, WorseTerms
<1>4. CASE m = [l EXCEPT !.monthly_expenses = @ + 1]
  <2>1. m \in Loan /\ l.monthly_expenses <= m.monthly_expenses
    BY <1>4
  <2>2. m.monthly_income = l.monthly_income /\ m.monthly_debt = l.monthly_debt
    BY <1>4
  <2>3. PaymentOf(m) = PaymentOf(l)
    BY <1>4 DEF PaymentOf, MonthlyPayment
  <2> QED
    BY <1>1, <1>9, <2>1, <2>2, <2>3, WorseTerms
<1>5. ASSUME m \in Loan, Dearer(PaymentOf(l), PaymentOf(m)),
             m.monthly_income = l.monthly_income, m.monthly_debt = l.monthly_debt,
             m.monthly_expenses = l.monthly_expenses
      PROVE  NoSafer(LoanRisk(l), LoanRisk(m))
  BY <1>5, <1>9, WorseTerms
<1>6. CASE m = [l EXCEPT !.loan_amount = @ + 1]
  <2>1. /\ m \in Loan /\ m.monthly_income = l.monthly_income
        /\ m.monthly_debt = l.monthly_debt /\ m.monthly_expenses = l.monthly_expenses
    BY <1>6
  <2>2. CASE l.dust = 0
    <3>1. /\ PaymentOf(l) = ExactPayment(l.loan_amount, l.rate, l.term_months)
          /\ PaymentOf(m) = ExactPayment(l.loan_amount + 1, l.rate, l.term_months)
      BY <1>6, <2>2 DEF PaymentOf, MonthlyPayment
    <3>2. Dearer(PaymentOf(l), PaymentOf(m))
      BY <1>0, <3>1, LargerPrincipal
    <3> QED
      BY <1>5, <2>1, <3>2
  <2>3. CASE l.dust # 0
    <3>1. /\ m.loan_amount = l.loan_amount + 1 /\ m.term_months = l.term_months
          /\ m.dust # 0
      BY <1>6, <1>9, <2>3
    <3>2. /\ l.dust \in Nat /\ Kept(l.dust) \in Nat \ {0}
          /\ PaymentOf(l) = <<l.loan_amount * l.dust,
                              16 * l.term_months * Kept(l.dust)>>
      BY <2>3, TracePayment
    <3>3. PaymentOf(m) = <<(l.loan_amount + 1) * l.dust,
                           16 * l.term_months * Kept(l.dust)>>
      BY <1>9, <3>1, TracePayment
    <3>4. Dearer(PaymentOf(l), PaymentOf(m))
      BY <1>0, <3>2, <3>3, DearerTrace
    <3> QED
      BY <1>5, <2>1, <3>4
  <2> QED
    BY <2>2, <2>3
<1>7. CASE l.dust = 0 /\ m = [l EXCEPT !.rate = @ + 1]
  <2>1. /\ m \in Loan /\ m.monthly_income = l.monthly_income
        /\ m.monthly_debt = l.monthly_debt /\ m.monthly_expenses = l.monthly_expenses
    BY <1>7
  <2>2. /\ PaymentOf(l) = ExactPayment(l.loan_amount, l.rate, l.term_months)
        /\ PaymentOf(m) = ExactPayment(l.loan_amount, l.rate + 1, l.term_months)
    BY <1>7 DEF PaymentOf, MonthlyPayment
  <2>3. Dearer(PaymentOf(l), PaymentOf(m))
    BY <1>0, <2>2, HigherRate
  <2> QED
    BY <1>5, <2>1, <2>3
<1>8. CASE m = [l EXCEPT !.term_months = @ - 1]
  <2>1. /\ m \in Loan /\ m.monthly_income = l.monthly_income
        /\ m.monthly_debt = l.monthly_debt /\ m.monthly_expenses = l.monthly_expenses
        /\ m.loan_amount = l.loan_amount /\ m.rate = l.rate
    BY <1>8
  <2>2. m.term_months \in Nat \ {0} /\ l.term_months = m.term_months + 1
    BY <1>0, <1>8, <1>9, <2>1, ValidPayment
  <2>3. CASE l.dust = 0
    <3>1. Dearer(ExactPayment(l.loan_amount, l.rate, m.term_months + 1),
                 ExactPayment(l.loan_amount, l.rate, m.term_months))
      BY <1>0, <2>2, ShorterTerm
    <3>2. Dearer(PaymentOf(l), PaymentOf(m))
      BY <1>9, <2>1, <2>2, <2>3, <3>1 DEF PaymentOf, MonthlyPayment
    <3> QED
      BY <1>5, <2>1, <3>2
  <2>4. CASE l.dust # 0
    <3>1. /\ l.dust \in Nat /\ Kept(l.dust) \in Nat \ {0}
          /\ PaymentOf(l) = <<l.loan_amount * l.dust,
                              16 * (m.term_months + 1) * Kept(l.dust)>>
      BY <2>2, <2>4, TracePayment
    <3>2. PaymentOf(m) = <<l.loan_amount * l.dust,
                           16 * m.term_months * Kept(l.dust)>>
      BY <1>9, <2>1, <2>4, TracePayment
    <3>3. Dearer(PaymentOf(l), PaymentOf(m))
      <4>1. Dearer(<<l.loan_amount * l.dust,
                     16 * (m.term_months + 1) * Kept(l.dust)>>,
                   <<l.loan_amount * l.dust,
                     16 * m.term_months * Kept(l.dust)>>)
        BY <1>0, <2>2, <3>1, DearerTrace, Zenon
      <4> QED
        BY <3>1, <3>2, <4>1, Zenon
    <3> QED
      BY <1>5, <2>1, <3>3
  <2> QED
    BY <2>3, <2>4
<1> QED
  BY <1>2, <1>3, <1>4, <1>6, <1>7, <1>8 DEF WorseLoans

(* No worsening of a transaction or a customer lowers its risk or spares   *)
(* it the review; and no worsening of a loan lowers its risk, for every    *)
(* term and every rate that is zero or a multiple of 1 / RateUnit, where   *)
(* no payment is below an equal share either: the special case of a zero   *)
(* rate, the growth of interest with the rate and its fall with the term   *)
(* leave no gap.  Where 1 + r loses a part of the rate, a higher rate may  *)
(* be the safer one: there the theorem bounds the error of the payment by  *)
(* half an equal share, and leaves out the rates that divide by zero       *)
(* (FraudAgent.run, KycAgent.run, LoanAgent.run, _monthly_payment).        *)
THEOREM WorseIsNeverSafer == WorkerSpec => []WorseNeverSafer
<1>1. EngineInv => LoanNeverSafer
  <2> SUFFICES ASSUME EngineInv, type = "loan", ValidLoan(payload.loan),
                      ~DividesByZero(payload.loan)
               PROVE  LoanNeverSafer
    BY DEF LoanNeverSafer
  <2>1. PICK l \in Loan : l = payload.loan
    BY PayloadAssumption DEF EngineInv, EngineTypes
  <2>2. /\ l.loan_amount \in Nat \ {0} /\ l.rate \in Nat
        /\ l.term_months \in Nat \ {0}
        /\ PaymentOf(l)[1] \in Nat /\ PaymentOf(l)[2] \in Nat \ {0}
    BY <2>1, ValidPayment
  <2> DEFINE paid == MonthlyPayment(l)[1] * l.term_months
             owed == l.loan_amount * MonthlyPayment(l)[2]
  <2>3. ASSUME l.dust = 0 PROVE paid >= owed
    <3>1. PaymentOf(l) = ExactPayment(l.loan_amount, l.rate, l.term_months)
      BY <2>3 DEF PaymentOf, MonthlyPayment
    <3> QED
      BY <2>2, <3>1, EqualShare DEF Dearer, PaymentOf
  <2>4. ASSUME l.dust # 0 PROVE 2 * paid > owed /\ 2 * paid < 3 * owed
    <3>0. /\ l.dust \in Nat /\ Kept(l.dust) \in Nat \ {0}
          /\ MonthlyPayment(l) = <<l.loan_amount * l.dust,
                                   16 * l.term_months * Kept(l.dust)>>
      BY <2>1, <2>4, TracePayment DEF PaymentOf
    <3>1. PICK a \in Nat \ {0}, n \in Nat \ {0}, q \in Nat, k \in Nat \ {0} :
            /\ a = l.loan_amount /\ n = l.term_months /\ q = l.dust
            /\ k = Kept(l.dust)
      BY <2>2, <3>0
    <3>9. MonthlyPayment(l) = <<a * q, 16 * n * k>>
      BY <3>0, <3>1
    <3>2. 8 * k < q /\ q < 24 * k
      BY <3>1, KeptBounds
    <3>3. PICK u \in Nat \ {0} : u = a * n
      OBVIOUS
    <3>4. (a * q) * n = u * q /\ a * (16 * n * k) = 16 * (u * k)
      BY <3>3
    <3>5. 8 * (u * k) < u * q /\ u * q < 24 * (u * k)
      <4>1. u * (8 * k) < u * q /\ u * q < u * (24 * k)
        BY <3>2
      <4> QED
        BY <4>1
    <3>6. PICK x \in Int, y \in Int : x = u * q /\ y = u * k
      OBVIOUS
    <3>7. 2 * x > 16 * y /\ 2 * x < 3 * (16 * y)
      BY <3>5, <3>6
    <3>8. paid = x /\ owed = 16 * y
      <4>1. MonthlyPayment(l)[1] = a * q /\ MonthlyPayment(l)[2] = 16 * n * k
        BY <3>9
      <4> QED
        BY <3>1, <3>4, <3>6, <4>1, Zenon
    <3> QED
      BY <3>7, <3>8
  <2>5. \A worse \in {x \in WorseLoans(l) : ValidLoan(x)} :
          NoSafer(LoanRisk(l), LoanRisk(worse))
    BY <2>1, WorseLoanIsNoSafer
  <2>6. IF l.dust = 0 THEN paid >= owed ELSE 2 * paid > owed /\ 2 * paid < 3 * owed
    BY <2>3, <2>4, Zenon
  <2> QED
    BY <2>1, <2>5, <2>6, Zenon DEF LoanNeverSafer
<1>2. WorkerSpec => []LoanNeverSafer
  BY <1>1, EngineInvariance, PTL
<1> QED
  BY <1>2, FraudIsMonotone, KycIsMonotone, PTL DEF WorseNeverSafer

=============================================================================
