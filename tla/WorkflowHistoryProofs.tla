------------------------ MODULE WorkflowHistoryProofs ------------------------
(***************************************************************************)
(* What the record of WorkflowService promises, for every set of           *)
(* workflows, requests and users: the whole of IInv is inductive, the      *)
(* audit trail explains every conflict, agent runs explain the status, the *)
(* record only grows, a closed case stays closed, the tables implement the *)
(* abstract ApprovalGate step by step, and what callers are shown in two   *)
(* statements makes sense.                                                 *)
(***************************************************************************)
EXTENDS WorkflowServiceProofs, WorkflowReads

-----------------------------------------------------------------------------
(* The shape of a step: it commits a start, commits a decision, or commits *)
(* nothing.                                                                *)

LEMMA StepShape ==
  ASSUME TablesInv, [Next]_vars
  PROVE  \/ Quiet
         \/ \E w \in Workflows : CommitStart(w)
         \/ \E d \in Deciders : CommitDecision(d)
<1>1. CASE Next
  BY <1>1, QuietSteps DEF Next, ServeStart, ServeDecision, Requests
<1>2. CASE UNCHANGED vars
  BY <1>2 DEF vars, Quiet, tables
<1> QED
  BY <1>1, <1>2

(* Nothing deletes or rewrites an audit entry.                             *)
LEMMA AuditGrows ==
  ASSUME TablesInv, [Next]_vars
  PROVE  audit \subseteq audit'
<1>1. CASE Quiet
  BY <1>1 DEF Quiet, tables
<1>2. ASSUME NEW w \in Workflows, CommitStart(w) PROVE audit \subseteq audit'
  BY <1>2 DEF CommitStart
<1>3. ASSUME NEW d \in Deciders, CommitDecision(d) PROVE audit \subseteq audit'
  BY <1>3 DEF CommitDecision
<1> QED
  BY <1>1, <1>2, <1>3, StepShape

LEMMA TrailGrows ==
  ASSUME TablesInv, [Next]_vars, NEW w
  PROVE  /\ Settled(w) => Settled(w)'
         /\ WasEscalated(w) => WasEscalated(w)'
BY AuditGrows DEF Settled, WasEscalated

(* A step that is not decision request d's own leaves its session, its     *)
(* progress and its answer alone.                                          *)
LEMMA DecisionFrame ==
  ASSUME TablesInv, [Next]_vars, NEW d \in Deciders
  PROVE  \/ dec'[d] = dec[d] /\ pc'[d] = pc[d] /\ answer'[d] = answer[d]
         \/ Decide(d) \/ RefuseDecision(d) \/ ReadWorkflow(d)
         \/ ReadApprovals(d) \/ FlushDecision(d) \/ CommitDecision(d)
         \/ Respond(d) \/ Rollback(d) \/ LoseAnswer(d)
<1> DEFINE Alone == dec'[d] = dec[d] /\ pc'[d] = pc[d] /\ answer'[d] = answer[d]
<1> USE ParametersAssumption DEF Requests, Goto, Answer, Refuse
<1>1. /\ pc \in [Requests -> {"new"} \cup Live \cup Ended]
      /\ answer \in [Requests -> {"none", "ok", "failed", "forbidden",
                                  "not_found", "conflict"}]
      /\ dec \in [Deciders -> DecisionSession]
  BY DEF TablesInv, TypeOK
<1>2. ASSUME NEW w \in Workflows,
             \/ StartWorkflow(w) \/ RefuseStart(w) \/ RunStep(w)
             \/ FinishStart(w) \/ CommitStart(w)
      PROVE  Alone
  BY <1>1, <1>2 DEF StartWorkflow, RefuseStart, RunStep, FinishStart, CommitStart
<1>3. ASSUME NEW e \in Deciders \ {d},
             Decide(e) \/ RefuseDecision(e) \/ FlushDecision(e)
             \/ CommitDecision(e)
      PROVE  Alone
  BY <1>1, <1>3 DEF Decide, RefuseDecision, FlushDecision, CommitDecision
<1>4. ASSUME NEW e \in Deciders \ {d}, ReadWorkflow(e) \/ ReadApprovals(e)
      PROVE  Alone
  BY <1>1, <1>4 DEF ReadWorkflow, ReadApprovals
<1>5. ASSUME NEW r \in Requests \ {d}, Respond(r) \/ LoseAnswer(r)
      PROVE  Alone
  BY <1>1, <1>5 DEF Respond, LoseAnswer
<1>6. ASSUME NEW r \in Requests \ {d}, Rollback(r)
      PROVE  Alone
  BY <1>1, <1>6 DEF Rollback
<1>7. CASE UNCHANGED vars
  BY <1>7 DEF vars
<1> QED
  BY <1>2, <1>3, <1>4, <1>5, <1>6, <1>7 DEF Next, ServeStart, ServeDecision

LEMMA StartFrame ==
  ASSUME TablesInv, [Next]_vars, NEW w \in Workflows
  PROVE  \/ exec'[w] = exec[w] /\ pc'[w] = pc[w]
         \/ StartWorkflow(w) \/ RefuseStart(w) \/ RunStep(w)
         \/ FinishStart(w) \/ CommitStart(w) \/ Rollback(w)
<1> DEFINE Alone == exec'[w] = exec[w] /\ pc'[w] = pc[w]
<1> USE ParametersAssumption DEF Requests, Goto, Answer, Refuse
<1>1. /\ pc \in [Requests -> {"new"} \cup Live \cup Ended]
      /\ exec \in [Workflows -> StartSession]
  BY DEF TablesInv, TypeOK
<1>2. ASSUME NEW v \in Workflows \ {w},
             \/ StartWorkflow(v) \/ RefuseStart(v) \/ RunStep(v)
             \/ FinishStart(v) \/ CommitStart(v)
      PROVE  Alone
  BY <1>1, <1>2 DEF StartWorkflow, RefuseStart, RunStep, FinishStart, CommitStart
<1>3. ASSUME NEW d \in Deciders,
             Decide(d) \/ RefuseDecision(d) \/ ReadWorkflow(d)
             \/ ReadApprovals(d) \/ FlushDecision(d) \/ CommitDecision(d)
      PROVE  Alone
  BY <1>1, <1>3 DEF Decide, RefuseDecision, ReadWorkflow, ReadApprovals,
                    FlushDecision, CommitDecision
<1>4. ASSUME NEW r \in Requests, Respond(r) \/ LoseAnswer(r)
      PROVE  Alone
  BY <1>1, <1>4 DEF Respond, LoseAnswer
<1>5. ASSUME NEW r \in Requests \ {w}, Rollback(r)
      PROVE  Alone
  BY <1>1, <1>5 DEF Rollback
<1>6. CASE UNCHANGED vars
  BY <1>6 DEF vars
<1> QED
  BY <1>2, <1>3, <1>4, <1>5, <1>6 DEF Next, ServeStart, ServeDecision

-----------------------------------------------------------------------------
(* The history part of the invariant holds before the first request.       *)

LEMMA InitHistory == Init => HistoryInv
<1> SUFFICES ASSUME Init PROVE HistoryInv
  OBVIOUS
<1> USE ParametersAssumption DEF Init, Requests
<1>1. CommitsAudited
  BY DEF CommitsAudited, NoWorkflow
<1>2. ReadingsAudited
  BY DEF ReadingsAudited, ReadingAudited
<1>3. DecisionsTraced
  BY DEF DecisionsTraced
<1>4. AllRunsInOrder
  BY DEF AllRunsInOrder, RunsInOrder
<1>5. NothingInsertedEarly
  BY DEF NothingInsertedEarly
<1> QED
  BY <1>1, <1>2, <1>3, <1>4, <1>5 DEF HistoryInv

(* Every commit leaves its entry, and whoever settles a workflow leaves    *)
(* one that says so.                                                       *)
LEMMA CommitsAuditedStep ==
  ASSUME TablesInv, CommitsAudited, [Next]_vars
  PROVE  CommitsAudited'
<1> USE ParametersAssumption DEF Requests
<1>1. CASE Quiet
  BY <1>1 DEF Quiet, tables, CommitsAudited, Settled
<1>2. ASSUME NEW w \in Workflows, CommitStart(w) PROVE CommitsAudited'
  <2> DEFINE e == [request |-> w, workflow |-> w, actor |-> exec[w].created_by,
                   action |-> exec[w].status]
  <2>1. /\ e \in audit' /\ e.request = w /\ e.workflow = w
        /\ e.action = exec[w].status
        /\ pc' = [pc EXCEPT ![w] = "committed"]
        /\ workflows' = [workflows EXCEPT
             ![w] = [type |-> exec[w].type, status |-> exec[w].status]]
    BY <1>2, CommitStartFacts
  <2>2. /\ pc \in [Requests -> {"new"} \cup Live \cup Ended]
        /\ workflows \in [Workflows -> WorkflowRow]
    BY DEF TablesInv, TypeOK
  <2>3. \A r \in Requests : pc'[r] = "committed" => \E x \in audit' : x.request = r
    BY <2>1, <2>2, AuditGrows DEF CommitsAudited
  <2>4. ASSUME NEW v \in Workflows,
               workflows'[v].status \in {"failed", "completed", "rejected"}
        PROVE  Settled(v)'
    <3>1. CASE v = w
      <4>1. exec[w].status \in {"failed", "completed"}
        BY <1>2, <2>1, <2>2, <2>4, <3>1, CommitStartFacts
      <4> QED
        BY <2>1, <3>1, <4>1 DEF Settled
    <3>2. CASE v # w
      BY <2>1, <2>2, <2>4, <3>2, TrailGrows DEF CommitsAudited
    <3> QED
      BY <3>1, <3>2
  <2> QED
    BY <2>3, <2>4 DEF CommitsAudited
<1>3. ASSUME NEW d \in Deciders, CommitDecision(d) PROVE CommitsAudited'
  <2>0. PICK w \in Workflows, op \in Op : w = dec[d].workflow /\ op = dec[d].op
    BY <1>3, CommitDecisionFacts
  <2> DEFINE e == [request |-> d, workflow |-> w, actor |-> dec[d].decided_by,
                   action |-> Decision(op)]
  <2>1. /\ e \in audit' /\ e.request = d /\ e.workflow = w
        /\ e.action = Decision(op)
        /\ pc' = [pc EXCEPT ![d] = "committed"]
        /\ workflows'[w].status \in {workflows[w].status, TargetStatus(op)}
        /\ \A v \in Workflows \ {w} : workflows'[v] = workflows[v]
    BY <1>3, <2>0, CommitDecisionFacts
  <2>2. /\ pc \in [Requests -> {"new"} \cup Live \cup Ended]
        /\ workflows \in [Workflows -> WorkflowRow]
    BY DEF TablesInv, TypeOK
  <2>3. \A r \in Requests : pc'[r] = "committed" => \E x \in audit' : x.request = r
    BY <2>1, <2>2, AuditGrows DEF CommitsAudited
  <2>4. ASSUME NEW v \in Workflows,
               workflows'[v].status \in {"failed", "completed", "rejected"}
        PROVE  Settled(v)'
    <3>1. CASE workflows'[v].status = workflows[v].status
      BY <2>4, <3>1, TrailGrows DEF CommitsAudited
    <3>2. CASE workflows'[v].status # workflows[v].status
      <4>1. v = w /\ TargetStatus(op) \in {"failed", "completed", "rejected"}
        BY <2>1, <2>4, <3>2
      <4>2. e.action \in {"approved", "rejected"}
        BY <2>1, <4>1, DecisionValues DEF Decided
      <4> QED
        BY <2>1, <4>1, <4>2 DEF Settled
    <3> QED
      BY <3>1, <3>2
  <2> QED
    BY <2>3, <2>4 DEF CommitsAudited
<1> QED
  BY <1>1, <1>2, <1>3, StepShape

LEMMA NothingInsertedEarlyStep ==
  ASSUME TablesInv, NothingInsertedEarly, [Next]_vars
  PROVE  NothingInsertedEarly'
<1> SUFFICES ASSUME NEW d \in Deciders, pc'[d] # "committed"
             PROVE  approvals'[d] = NoApproval
  BY DEF NothingInsertedEarly
<1> USE ParametersAssumption DEF Requests
<1>1. /\ pc \in [Requests -> {"new"} \cup Live \cup Ended]
      /\ approvals \in [Requests -> ApprovalRow]
  BY DEF TablesInv, TypeOK
<1>2. CASE Quiet
  BY <1>2 DEF Quiet, tables, NothingInsertedEarly
<1>3. ASSUME NEW w \in Workflows, CommitStart(w) PROVE approvals'[d] = NoApproval
  BY <1>1, <1>3, CommitStartFacts DEF NothingInsertedEarly
<1>4. ASSUME NEW e \in Deciders, CommitDecision(e) PROVE approvals'[d] = NoApproval
  <2>1. e # d /\ pc'[d] = pc[d]
    BY <1>1, <1>4, CommitDecisionFacts
  <2>2. PICK w \in Workflows : w = dec[e].workflow
    BY <1>4, CommitDecisionFacts
  <2>3. approvals'[d] = approvals[d]
    BY <1>4, <2>1, <2>2, DecidedRow
  <2> QED
    BY <2>1, <2>3 DEF NothingInsertedEarly
<1> QED
  BY <1>2, <1>3, <1>4, StepShape

(* What a request read stays explained: it was explained when it was read, *)
(* and the trail only grows.                                               *)
LEMMA StatusExplained ==
  ASSUME TablesInv, CommitsAudited, NEW w \in Workflows,
         workflows[w].status # "absent"
  PROVE  /\ workflows[w].status \notin DECIDABLE => Settled(w)
         /\ workflows[w].status = "escalated" => WasEscalated(w)
<1>1. workflows[w].status \in Status
  BY DEF TablesInv, TypeOK, WorkflowRow
<1>2. workflows[w].status \notin DECIDABLE => Settled(w)
  BY <1>1 DEF CommitsAudited, DECIDABLE, Status
<1>3. ASSUME workflows[w].status = "escalated" PROVE WasEscalated(w)
  <2>1. PICK r \in RowsOf(w) : approvals[r].decision = "escalated"
    BY <1>3 DEF TablesInv, StatusBacked
  <2> QED
    BY <2>1 DEF TablesInv, DecisionsAudited, RowsOf, Decided, WasEscalated
<1> QED
  BY <1>2, <1>3

LEMMA ReadingsAuditedStep ==
  ASSUME TablesInv, CommitsAudited, ReadingsAudited, [Next]_vars
  PROVE  ReadingsAudited'
<1> SUFFICES ASSUME NEW d \in Deciders PROVE ReadingAudited(d)'
  BY DEF ReadingsAudited
<1> USE ParametersAssumption DEF Requests, Goto, Answer, Refuse
<1>1. /\ pc \in [Requests -> {"new"} \cup Live \cup Ended]
      /\ answer \in [Requests -> {"none", "ok", "failed", "forbidden",
                                  "not_found", "conflict"}]
      /\ dec \in [Deciders -> DecisionSession]
      /\ ReadingAudited(d)
  BY DEF TablesInv, TypeOK, ReadingsAudited
<1>2. CASE dec'[d] = dec[d] /\ pc'[d] = pc[d] /\ answer'[d] = answer[d]
  BY <1>1, <1>2, TrailGrows DEF ReadingAudited
<1>3. CASE Decide(d)
  BY <1>1, <1>3 DEF Decide, ReadingAudited
<1>4. CASE RefuseDecision(d)
  BY <1>1, <1>4 DEF RefuseDecision, ReadingAudited
<1>5. CASE ReadWorkflow(d)
  <2>1. PICK w \in Workflows : pc[d] = "begun" /\ w = dec[d].workflow
    BY <1>5 DEF ReadWorkflow, TablesInv, DecisionSessions, DecisionSessionOK
  <2>2. CASE workflows[w].status = "absent"
    BY <1>1, <1>5, <2>1, <2>2 DEF ReadWorkflow, ReadingAudited
  <2>3. CASE workflows[w].status # "absent"
    <3>1. /\ pc'[d] = "read"
          /\ dec'[d].seen = workflows[w].status
          /\ dec'[d].workflow = w
          /\ answer' = answer
      BY <1>1, <1>5, <2>1, <2>3 DEF ReadWorkflow, DecisionSession
    <3>2. /\ workflows[w].status \notin DECIDABLE => Settled(w)'
          /\ workflows[w].status = "escalated" => WasEscalated(w)'
      BY <2>1, <2>3, StatusExplained, TrailGrows
    <3>3. answer[d] # "conflict"
      BY <1>1, <2>1 DEF ReadingAudited
    <3> QED
      BY <3>1, <3>2, <3>3 DEF ReadingAudited, Settled, WasEscalated
  <2> QED
    BY <2>2, <2>3
<1>6. CASE ReadApprovals(d)
  <2>1. CASE dec[d].seen \notin DECIDABLE
    <3>1. /\ pc[d] = "read" /\ pc'[d] = "refused" /\ dec'[d] = dec[d]
      BY <1>1, <1>6, <2>1 DEF ReadApprovals
    <3>2. Settled(dec[d].workflow)'
      BY <1>1, <2>1, <3>1, TrailGrows DEF ReadingAudited
    <3> QED
      BY <3>1, <3>2 DEF ReadingAudited, Settled
  <2>2. CASE dec[d].seen \in DECIDABLE
    <3>1. /\ pc[d] = "read" /\ pc'[d] = "loaded" /\ answer' = answer
          /\ dec'[d].workflow = dec[d].workflow
          /\ dec'[d].seen = dec[d].seen
      BY <1>1, <1>6, <2>2 DEF ReadApprovals, DecisionSession
    <3> QED
      BY <1>1, <3>1, TrailGrows DEF ReadingAudited, WasEscalated
  <2> QED
    BY <2>1, <2>2
<1>7. CASE FlushDecision(d)
  BY <1>1, <1>7, TrailGrows DEF FlushDecision, ReadingAudited
<1>8. CASE CommitDecision(d)
  BY <1>1, <1>8 DEF CommitDecision, MayCommit, ReadingAudited
<1>9. CASE Respond(d)
  <2>1. dec'[d] = dec[d] /\ pc'[d] = pc[d] /\ answer'[d] = "ok"
    BY <1>1, <1>9 DEF Respond
  <2> QED
    BY <1>1, <2>1, TrailGrows DEF ReadingAudited
<1>10. CASE Rollback(d)
  <2>1. pc[d] \in Live /\ pc'[d] = "rolledback" /\ answer[d] # "conflict"
    BY <1>1, <1>10 DEF Rollback, Live, ReadingAudited
  <2>2. answer'[d] # "conflict"
    BY <1>1, <1>10, <2>1 DEF Rollback
  <2> QED
    BY <2>1, <2>2 DEF ReadingAudited
<1>11. CASE LoseAnswer(d)
  <2>1. dec'[d] = dec[d] /\ pc'[d] = pc[d] /\ answer'[d] = "failed"
    BY <1>1, <1>11 DEF LoseAnswer
  <2> QED
    BY <1>1, <2>1, TrailGrows DEF ReadingAudited
<1> QED
  BY <1>2, <1>3, <1>4, <1>5, <1>6, <1>7, <1>8, <1>9, <1>10, <1>11, DecisionFrame

(* A commit writes the entry with the session's own workflow, and what a   *)
(* committed session holds stays.                                          *)
LEMMA TracedStep ==
  ASSUME TablesInv, DecisionsTraced, [Next]_vars
  PROVE  DecisionsTraced'
<1> SUFFICES ASSUME NEW d \in Deciders, pc'[d] = "committed"
             PROVE  \E e \in audit' : /\ e.workflow = dec'[d].workflow
                                      /\ e.request = d
  BY DEF DecisionsTraced, TrailOf
<1> USE ParametersAssumption DEF Requests, Goto, Answer, Refuse
<1>1. /\ pc \in [Requests -> {"new"} \cup Live \cup Ended]
      /\ dec \in [Deciders -> DecisionSession]
      /\ audit \subseteq audit'
  BY AuditGrows DEF TablesInv, TypeOK
<1>2. CASE CommitDecision(d)
  <2> DEFINE entry == [request |-> d, workflow |-> dec[d].workflow,
                       actor |-> dec[d].decided_by,
                       action |-> Decision(dec[d].op)]
  <2>1. dec' = dec /\ audit' = audit \cup {entry}
    BY <1>2 DEF CommitDecision
  <2>2. entry.workflow = dec[d].workflow /\ entry.request = d
    OBVIOUS
  <2> HIDE DEF entry
  <2> QED
    BY <2>1, <2>2
<1>3. CASE pc[d] = "committed" /\ dec'[d] = dec[d]
  BY <1>1, <1>3 DEF DecisionsTraced, TrailOf
<1>4. CASE Respond(d) \/ LoseAnswer(d)
  BY <1>1, <1>3, <1>4 DEF Respond, LoseAnswer
<1>5. CASE Decide(d) \/ RefuseDecision(d) \/ FlushDecision(d)
  BY <1>1, <1>5 DEF Decide, RefuseDecision, FlushDecision
<1>6. CASE ReadWorkflow(d) \/ ReadApprovals(d)
  BY <1>1, <1>6 DEF ReadWorkflow, ReadApprovals
<1>7. CASE Rollback(d)
  BY <1>1, <1>7 DEF Rollback
<1> QED
  BY <1>2, <1>3, <1>4, <1>5, <1>6, <1>7, DecisionFrame

-----------------------------------------------------------------------------
(* The agent runs.                                                         *)

LEMMA PlanSteps ==
  ASSUME NEW t \in WorkflowType
  PROVE  Len(PLANS[t].steps) \in 1 .. 2
BY DEF WorkflowType, PLANS, Plan

LEMMA AppendRun ==
  ASSUME NEW runs \in Seq(RunOutcome), NEW o \in RunOutcome,
         ~Came(runs, "failed")
  PROVE  /\ Len(Append(runs, o)) = Len(runs) + 1
         /\ \A i \in 1 .. Len(Append(runs, o)) :
              Append(runs, o)[i] = "failed" => i = Len(Append(runs, o))
BY DEF Came

LEMMA RunsStep ==
  ASSUME TablesInv, AllRunsInOrder, [Next]_vars
  PROVE  AllRunsInOrder'
<1> SUFFICES ASSUME NEW w \in Workflows PROVE RunsInOrder(w)'
  BY DEF AllRunsInOrder
<1> USE ParametersAssumption DEF Requests, Goto, Answer, Refuse
<1>1. /\ pc \in [Requests -> {"new"} \cup Live \cup Ended]
      /\ exec \in [Workflows -> StartSession]
      /\ workflows \in [Workflows -> WorkflowRow]
      /\ RunsInOrder(w)
      /\ StartSessionOK(w)
  BY DEF TablesInv, TypeOK, AllRunsInOrder, StartSessions
<1>2. CASE exec'[w] = exec[w] /\ pc'[w] = pc[w]
  <2>1. pc[w] = "committed" =>
          (workflows'[w].status = "failed" <=> workflows[w].status = "failed")
    <3>1. CASE Quiet
      BY <3>1 DEF Quiet, tables
    <3>2. ASSUME NEW v \in Workflows, CommitStart(v), pc[w] = "committed"
          PROVE  workflows'[w] = workflows[w]
      BY <1>1, <3>2 DEF CommitStart, MayCommit
    <3>3. ASSUME NEW d \in Deciders, CommitDecision(d)
          PROVE  workflows'[w].status = "failed" <=> workflows[w].status = "failed"
      <4>1. CASE w = dec[d].workflow
        BY <3>3, <4>1, CommitDecisionFacts, DecisionValues
      <4>2. CASE w # dec[d].workflow
        BY <3>3, <4>2, CommitDecisionFacts
      <4> QED
        BY <4>1, <4>2
    <3> QED
      BY <3>1, <3>2, <3>3, StepShape
  <2> QED
    BY <1>1, <1>2, <2>1 DEF RunsInOrder, Steps, StepLeft, Came
<1>3. CASE StartWorkflow(w)
  <2>1. PICK t \in WorkflowType :
          pc'[w] = "open" /\ exec'[w].type = t /\ exec'[w].runs = <<>>
    BY <1>1, <1>3 DEF StartWorkflow
  <2> QED
    BY <2>1, PlanSteps DEF RunsInOrder, Steps
<1>4. CASE RefuseStart(w)
  BY <1>1, <1>4 DEF RefuseStart, RunsInOrder
<1>5. CASE RunStep(w)
  <2>1. PICK o \in RunOutcome :
          exec' = [exec EXCEPT ![w].runs = Append(@, o)]
    BY <1>5, OutcomeValues DEF RunStep
  <2>2. /\ pc[w] = "open" /\ pc'[w] = "open" /\ StepLeft(w)
        /\ exec[w].runs \in Seq(RunOutcome)
        /\ exec'[w].runs = Append(exec[w].runs, o)
        /\ exec'[w].type = exec[w].type
    BY <1>1, <1>5, <2>1 DEF RunStep, StartSession
  <2>3. /\ Len(exec'[w].runs) = Len(exec[w].runs) + 1
        /\ \A i \in 1 .. Len(exec'[w].runs) :
             exec'[w].runs[i] = "failed" => i = Len(exec'[w].runs)
    BY <2>2, AppendRun DEF StepLeft
  <2>4. Len(Steps(w)) \in Nat /\ Len(exec[w].runs) \in Nat
    BY <1>1, <2>2, PlanSteps DEF StartSessionOK, Steps
  <2>5. Len(exec'[w].runs) <= Len(Steps(w)) /\ Steps(w)' = Steps(w)
    BY <2>2, <2>3, <2>4 DEF StepLeft, Steps
  <2> QED
    BY <2>2, <2>3, <2>5 DEF RunsInOrder
<1>6. CASE FinishStart(w)
  <2>1. /\ pc[w] = "open" /\ pc'[w] = "flushed" /\ ~StepLeft(w)
        /\ exec'[w].runs = exec[w].runs
        /\ exec'[w].type = exec[w].type
    BY <1>1, <1>6 DEF FinishStart, StartSession
  <2> QED
    BY <1>1, <2>1 DEF RunsInOrder, Steps, StepLeft
<1>7. CASE CommitStart(w)
  <2>1. /\ pc[w] = "flushed" /\ pc'[w] = "committed" /\ exec' = exec
        /\ workflows'[w].status = FinalStatus(w)
    BY <1>1, <1>7, CommitStartFacts DEF CommitStart, MayCommit
  <2>2. workflows'[w].status = "failed" <=> Came(exec[w].runs, "failed")
    BY <2>1 DEF FinalStatus
  <2> QED
    BY <1>1, <2>1, <2>2 DEF RunsInOrder, Steps, StepLeft
<1>8. CASE Rollback(w)
  BY <1>1, <1>8 DEF Rollback, RunsInOrder
<1> QED
  BY <1>2, <1>3, <1>4, <1>5, <1>6, <1>7, <1>8, StartFrame

-----------------------------------------------------------------------------
(* The whole invariant.                                                    *)

LEMMA IInvStep == IInv /\ [Next]_vars => IInv'
<1> SUFFICES ASSUME TablesInv, HistoryInv, [Next]_vars PROVE IInv'
  BY DEF IInv
<1>1. TablesInv'
  BY TablesInvStep
<1>2. /\ CommitsAudited' /\ NothingInsertedEarly' /\ ReadingsAudited'
      /\ DecisionsTraced' /\ AllRunsInOrder'
  BY CommitsAuditedStep, NothingInsertedEarlyStep, ReadingsAuditedStep,
     TracedStep, RunsStep DEF HistoryInv
<1> QED
  BY <1>1, <1>2 DEF IInv, HistoryInv

(* The inductive invariant: what every open session has read, the tables   *)
(* and the audit trail stay consistent through every interleaving of       *)
(* starts, decisions, rollbacks and lost answers (workflow_service.py).    *)
THEOREM Invariance == Spec => []IInv
<1>1. Init => IInv
  BY InitTablesInv, InitHistory DEF IInv
<1> QED
  BY <1>1, IInvStep, PTL DEF Spec

(* A 409 of _decide is deserved: the trail shows who settled the workflow  *)
(* before, although the status it is based on was read earlier.            *)
THEOREM ConflictJustifiedHolds == Spec => []ConflictJustified
<1>1. IInv => ConflictJustified
  BY DEF IInv, HistoryInv, ReadingsAudited, ReadingAudited, Settled,
         ConflictJustified
<1> QED
  BY <1>1, Invariance, PTL

LEMMA RunsFromInvariant == IInv => RunsExplainStatus
<1> SUFFICES ASSUME IInv, NEW w \in Workflows, workflows[w].status # "absent"
             PROVE  LET runs == agentRuns[w] IN
                    /\ \A i \in 1 .. Len(runs) :
                         runs[i] = "failed" =>
                           i = Len(runs) /\ workflows[w].status = "failed"
                    /\ \/ Came(runs, "failed")
                       \/ Len(runs) = Len(PLANS[workflows[w].type].steps)
  BY DEF RunsExplainStatus
<1>1. /\ pc[w] = "committed"
      /\ agentRuns[w] = exec[w].runs
      /\ workflows[w].type = exec[w].type
      /\ exec[w].type \in WorkflowType
      /\ exec[w].runs \in Seq(RunOutcome)
      /\ RunsInOrder(w)
  BY DEF IInv, TablesInv, TablesAgree, StartSessions, StartSessionOK,
         TypeOK, StartSession, HistoryInv, AllRunsInOrder
<1>2. Len(exec[w].runs) \in Nat /\ Len(Steps(w)) \in Nat
  BY <1>1, PlanSteps DEF Steps
<1>3. Came(exec[w].runs, "failed") \/ Len(exec[w].runs) = Len(Steps(w))
  BY <1>1, <1>2 DEF RunsInOrder, StepLeft
<1> QED
  BY <1>1, <1>3 DEF RunsInOrder, Steps, Came

(* The agent_runs explain the status, whatever people decided meanwhile:   *)
(* start stops at the first failed step and fails the workflow, and only   *)
(* then.                                                                   *)
THEOREM RunsExplainStatusHolds == Spec => []RunsExplainStatus
BY Invariance, RunsFromInvariant, PTL

-----------------------------------------------------------------------------
(* The record only grows.                                                  *)

LEMMA RecordKeptStep ==
  ASSUME IInv, [Next]_vars
  PROVE  /\ audit \subseteq audit'
         /\ \A r \in Requests :
              approvals[r].decision \in Decided => approvals'[r].decision \in Decided
         /\ \A d \in Deciders :
              approvals[d] # NoApproval => approvals'[d] = approvals[d]
<1> USE ParametersAssumption DEF Requests, IInv
<1>1. approvals \in [Requests -> ApprovalRow]
  BY DEF TablesInv, TypeOK
<1>2. audit \subseteq audit'
  BY AuditGrows
<1>3. CASE Quiet
  BY <1>2, <1>3 DEF Quiet, tables
<1>4. ASSUME NEW w \in Workflows, CommitStart(w)
      PROVE  \A r \in Requests : approvals[r].decision # "absent" \/ r \in Deciders
                                  => approvals'[r] = approvals[r]
  BY <1>1, <1>4, CommitStartFacts
<1>5. ASSUME NEW d \in Deciders, CommitDecision(d)
      PROVE  /\ \A r \in Requests : approvals[r].decision \in Decided
                                     => approvals'[r].decision \in Decided
             /\ \A e \in Deciders : approvals[e] # NoApproval
                                     => approvals'[e] = approvals[e]
  <2>1. PICK w \in Workflows, op \in Op : w = dec[d].workflow /\ op = dec[d].op
    BY <1>5, CommitDecisionFacts
  <2>2. PICK t \in {w, d} :
          /\ approvals'[t].decision = Decision(op)
          /\ \A r \in Requests \ {t} : approvals'[r] = approvals[r]
    BY <1>5, <2>1, DecidedRow
  <2>3. approvals[d] = NoApproval
    BY <1>5 DEF CommitDecision, MayCommit, HistoryInv, NothingInsertedEarly
  <2> QED
    BY <2>2, <2>3, DecisionValues
<1>6. "absent" \notin Decided
  BY DEF Decided
<1> QED
  BY <1>2, <1>3, <1>4, <1>5, <1>6, StepShape

(* No commit deletes an audit entry, makes a decided row pending again, or *)
(* overwrites the row an earlier decision inserted.                        *)
THEOREM RecordIsKept == Spec => RecordKept
<1>1. IInv /\ [Next]_vars =>
        [/\ audit \subseteq audit'
         /\ \A r \in Requests :
              approvals[r].decision \in Decided => approvals'[r].decision \in Decided
         /\ \A d \in Deciders :
              approvals[d] # NoApproval => approvals'[d] = approvals[d]]_vars
  BY RecordKeptStep
<1> QED
  BY <1>1, Invariance, PTL DEF Spec, RecordKept

-----------------------------------------------------------------------------
(* A closed case stays closed.                                             *)

(* A decision that commits on a workflow read it as undecided, so the      *)
(* workflow was not closed.                                                *)
LEMMA ClosedRecordStays ==
  ASSUME TablesInv, [Next]_vars, NEW w \in Workflows, Closed(w)
  PROVE  /\ workflows'[w] = workflows[w]
         /\ RowsOf(w)' = RowsOf(w)
         /\ \A r \in RowsOf(w) : approvals'[r] = approvals[r]
         /\ TrailOf(w)' = TrailOf(w)
<1> USE ParametersAssumption DEF Requests
<1> DEFINE Stays == /\ workflows'[w] = workflows[w]
                    /\ RowsOf(w)' = RowsOf(w)
                    /\ \A r \in RowsOf(w) : approvals'[r] = approvals[r]
                    /\ TrailOf(w)' = TrailOf(w)
<1>1. /\ workflows \in [Workflows -> WorkflowRow]
      /\ approvals \in [Requests -> ApprovalRow]
  BY DEF TablesInv, TypeOK
<1>2. CASE Quiet
  BY <1>2 DEF Quiet, tables, RowsOf, TrailOf
<1>3. ASSUME NEW v \in Workflows, CommitStart(v) PROVE Stays
  <2>1. v # w /\ approvals[v].workflow = NoOne
    BY <1>3, CommitStartFacts DEF Closed, TablesInv, TablesAgree
  <2>2. \A r \in Requests : r # v => approvals'[r] = approvals[r]
    BY <1>1, <1>3, CommitStartFacts
  <2>3. approvals'[v].workflow \in {v, NoOne}
    BY <1>1, <1>3, <2>1, CommitStartFacts DEF PendingRow
  <2>4. RowsOf(w)' = RowsOf(w) /\ v \notin RowsOf(w)
    BY <2>1, <2>2, <2>3 DEF RowsOf
  <2>5. TrailOf(w)' = TrailOf(w)
    BY <1>3, <2>1, CommitStartFacts DEF TrailOf
  <2> QED
    BY <1>1, <1>3, <2>1, <2>2, <2>4, <2>5, CommitStartFacts DEF RowsOf
<1>4. ASSUME NEW d \in Deciders, CommitDecision(d) PROVE Stays
  <2>1. PICK v \in Workflows, op \in Op : v = dec[d].workflow /\ op = dec[d].op
    BY <1>4, CommitDecisionFacts
  <2>2. pc[d] = "flushed" /\ dec[d].seen \in DECIDABLE
    BY <1>4 DEF CommitDecision, MayCommit, TablesInv, ReadingsHold, ReadingHolds
  <2>3. v # w
    BY <2>1, <2>2 DEF Closed, DECIDABLE
  <2>4. PICK t \in {v, d} :
          /\ approvals'[t].workflow = v
          /\ \A r \in Requests \ {t} : approvals'[r] = approvals[r]
    BY <1>4, <2>1, DecidedRow
  <2>5. approvals[t].workflow \in {v, NoOne}
    BY <1>4, <2>1, <2>4, CommitDecisionFacts
       DEF HasGateRow, TablesInv, TablesAgree
  <2>6. RowsOf(w)' = RowsOf(w) /\ t \notin RowsOf(w)
    BY <2>3, <2>4, <2>5 DEF RowsOf
  <2>7. TrailOf(w)' = TrailOf(w)
    BY <1>4, <2>1, <2>3, CommitDecisionFacts DEF TrailOf
  <2> QED
    BY <1>4, <2>1, <2>3, <2>4, <2>6, <2>7, CommitDecisionFacts DEF RowsOf
<1> QED
  BY <1>2, <1>3, <1>4, StepShape

(* A request that reads a closed workflow from now on reads a settled      *)
(* status, and is refused.                                                 *)
LEMMA ClosedStays ==
  ASSUME TablesInv, [Next]_vars, NEW w \in Workflows, Closed(w)
  PROVE  Closed(w)'
<1> SUFFICES ASSUME NEW d \in Deciders,
                    pc'[d] \in {"read", "loaded", "flushed"},
                    dec'[d].workflow = w
             PROVE  dec'[d].seen \notin {"awaiting_approval", "escalated"}
  BY ClosedRecordStays DEF Closed
<1> USE ParametersAssumption DEF Requests, Goto, Answer, Refuse
<1>1. /\ pc \in [Requests -> {"new"} \cup Live \cup Ended]
      /\ dec \in [Deciders -> DecisionSession]
  BY DEF TablesInv, TypeOK
<1>2. CASE dec'[d] = dec[d] /\ pc'[d] = pc[d]
  BY <1>2 DEF Closed
<1>3. CASE Decide(d) \/ RefuseDecision(d)
  BY <1>1, <1>3 DEF Decide, RefuseDecision
<1>4. CASE ReadWorkflow(d)
  <2>1. /\ dec'[d].workflow = dec[d].workflow
        /\ dec'[d].seen = workflows[dec[d].workflow].status
    BY <1>1, <1>4 DEF ReadWorkflow, DecisionSession
  <2> QED
    BY <2>1 DEF Closed
<1>5. CASE ReadApprovals(d)
  <2>1. /\ pc[d] = "read"
        /\ dec'[d].workflow = dec[d].workflow
        /\ dec'[d].seen = dec[d].seen
    BY <1>1, <1>5 DEF ReadApprovals, DecisionSession
  <2> QED
    BY <2>1 DEF Closed
<1>6. CASE FlushDecision(d)
  BY <1>1, <1>6 DEF FlushDecision, Closed
<1>7. CASE CommitDecision(d)
  BY <1>1, <1>7 DEF CommitDecision
<1>8. CASE Respond(d) \/ LoseAnswer(d)
  BY <1>1, <1>8 DEF Respond, LoseAnswer, Closed
<1>9. CASE Rollback(d)
  BY <1>1, <1>9 DEF Rollback
<1> QED
  BY <1>2, <1>3, <1>4, <1>5, <1>6, <1>7, <1>8, <1>9, DecisionFrame

(* Whoever is told 200 about a closed workflow has committed: a session    *)
(* that answers before its commit is one the workflow is not closed to.    *)
LEMMA ClosedAnswers ==
  ASSUME IInv, [Next]_vars, NEW w \in Workflows, Closed(w),
         NEW d \in Deciders, dec[d].workflow = w,
         answer[d] # "ok", answer'[d] = "ok"
  PROVE  \E e \in TrailOf(w) : e.request = d
<1> USE ParametersAssumption DEF Requests, Goto, Answer, Refuse
<1>1. /\ pc \in [Requests -> {"new"} \cup Live \cup Ended]
      /\ answer \in [Requests -> {"none", "ok", "failed", "forbidden",
                                  "not_found", "conflict"}]
      /\ TablesInv
  BY DEF IInv, TablesInv, TypeOK
<1>2. CASE Respond(d)
  <2>1. pc[d] \in {"flushed", "committed"}
    BY <1>2 DEF Respond, MayAnswer
  <2>2. pc[d] # "flushed"
    BY <1>1 DEF TablesInv, ReadingsHold, ReadingHolds, Closed, DECIDABLE
  <2> QED
    BY <2>1, <2>2 DEF IInv, HistoryInv, DecisionsTraced
<1>3. CASE Decide(d) \/ RefuseDecision(d) \/ FlushDecision(d) \/ CommitDecision(d)
  BY <1>1, <1>3 DEF Decide, RefuseDecision, FlushDecision, CommitDecision
<1>4. CASE ReadWorkflow(d) \/ ReadApprovals(d)
  BY <1>1, <1>4 DEF ReadWorkflow, ReadApprovals
<1>5. CASE Rollback(d) \/ LoseAnswer(d)
  BY <1>1, <1>5 DEF Rollback, LoseAnswer
<1> QED
  BY <1>1, <1>2, <1>3, <1>4, <1>5, DecisionFrame

(* In either order of commit and answer, a settled workflow that no open   *)
(* request has read as undecided is never touched again, and nobody is     *)
(* told 200 about it for a decision its trail does not have.               *)
THEOREM ClosedCasesStay == Spec => ClosedForGood
<1>1. ASSUME IInv, [Next]_vars, NEW w \in Workflows, Closed(w)
      PROVE  /\ Closed(w)'
             /\ workflows'[w] = workflows[w]
             /\ RowsOf(w)' = RowsOf(w)
             /\ \A r \in RowsOf(w) : approvals'[r] = approvals[r]
             /\ TrailOf(w)' = TrailOf(w)
             /\ \A d \in Deciders :
                  dec[d].workflow = w /\ answer[d] # "ok" /\ answer'[d] = "ok" =>
                    \E e \in TrailOf(w) : e.request = d
  <2>1. TablesInv
    BY <1>1 DEF IInv
  <2> QED
    BY <1>1, <2>1, ClosedRecordStays, ClosedStays, ClosedAnswers
<1>2. IInv /\ [Next]_vars =>
        [\A w \in Workflows : Closed(w) =>
           /\ Closed(w)'
           /\ workflows'[w] = workflows[w]
           /\ RowsOf(w)' = RowsOf(w)
           /\ \A r \in RowsOf(w) : approvals'[r] = approvals[r]
           /\ TrailOf(w)' = TrailOf(w)
           /\ \A d \in Deciders :
                dec[d].workflow = w /\ answer[d] # "ok" /\ answer'[d] = "ok" =>
                  \E e \in TrailOf(w) : e.request = d]_vars
  BY <1>1
<1> QED
  BY <1>2, Invariance, PTL DEF Spec, ClosedForGood

-----------------------------------------------------------------------------
(* The tables implement the abstract gate.                                 *)

(* A case whose status and approvals rows stay has the same outcome.       *)
LEMMA SameOutcome ==
  ASSUME NEW w \in Workflows, workflows'[w].status = workflows[w].status,
         RowsOf(w)' = {} <=> RowsOf(w) = {}
  PROVE  OutcomeOf(w)' = OutcomeOf(w)
BY DEF OutcomeOf

LEMMA OtherOutcomes ==
  ASSUME NEW w \in Workflows,
         \A v \in Workflows \ {w} : OutcomeOf(v)' = OutcomeOf(v),
         NEW o, OutcomeOf(w)' = o
  PROVE  [v \in Workflows |-> OutcomeOf(v)]' =
           [[v \in Workflows |-> OutcomeOf(v)] EXCEPT ![w] = o]
OBVIOUS

LEMMA QuietGate ==
  ASSUME Quiet
  PROVE  UNCHANGED Gate!gateVars
<1>1. \A w \in Workflows : OutcomeOf(w)' = OutcomeOf(w)
  BY DEF Quiet, tables, OutcomeOf, RowsOf
<1>2. VotesCast' = VotesCast
  BY DEF Quiet, tables, VotesCast
<1> QED
  BY <1>1, <1>2 DEF Gate!gateVars

(* start's commit opens the case.                                          *)
LEMMA StartOpens ==
  ASSUME TablesInv, NEW w \in Workflows, CommitStart(w)
  PROVE  \E o \in Gate!Outcomes : Gate!Open(w, o)
<1> USE ParametersAssumption DEF Requests
<1>1. /\ approvals \in [Requests -> ApprovalRow]
      /\ workflows \in [Workflows -> WorkflowRow]
      /\ approvals[w].workflow = NoOne
  BY CommitStartFacts DEF TablesInv, TypeOK, TablesAgree
<1>2. ASSUME NEW v \in Workflows \ {w} PROVE OutcomeOf(v)' = OutcomeOf(v)
  <2>1. workflows'[v].status = workflows[v].status /\ RowsOf(v)' = RowsOf(v)
    BY <1>1, CommitStartFacts DEF RowsOf, PendingRow
  <2> QED
    BY <2>1, SameOutcome
<1>3. OutcomeOf(w) = "unborn"
  BY CommitStartFacts DEF OutcomeOf
<1>4. PICK o \in {"failed", "automatic", "pending"} : OutcomeOf(w)' = o
  <2>1. /\ workflows'[w].status = exec[w].status
        /\ exec[w].status \in {"failed", "awaiting_approval", "completed"}
    BY <1>1, CommitStartFacts
  <2>2. exec[w].status = "completed" => RowsOf(w)' = {}
    BY CommitStartFacts DEF RowsOf
  <2> QED
    BY <2>1, <2>2 DEF OutcomeOf
<1>5. VotesCast' = VotesCast
  <2>1. {x \in audit' : x.action \in Decided} = {x \in audit : x.action \in Decided}
    BY CommitStartFacts DEF Decided
  <2> QED
    BY <2>1 DEF VotesCast
<1>6. Gate!Open(w, o)
  BY <1>2, <1>3, <1>4, <1>5, OtherOutcomes DEF Gate!Open
<1> QED
  BY <1>4, <1>6 DEF Gate!Outcomes

(* A decision's commit casts a ballot, or logs one more escalation.        *)
LEMMA DecisionVotes ==
  ASSUME IInv, NEW d \in Deciders, CommitDecision(d)
  PROVE  \E w \in Workflows :
           \/ \E x \in Gate!Choices : Gate!Vote(d, w, x)
           \/ Gate!EscalateAgain(d, w)
<1> USE ParametersAssumption DEF Requests
<1>0. PICK w \in Workflows, op \in Op : w = dec[d].workflow /\ op = dec[d].op
  BY CommitDecisionFacts DEF IInv
<1> DEFINE x == Decision(op)
           entry == [request |-> d, workflow |-> w, actor |-> dec[d].decided_by,
                     action |-> x]
<1>1. /\ HasGateRow(w)
      /\ workflows[w].status \notin {"absent", "failed"}
      /\ workflows[w].status \in Status
      /\ workflows'[w].status \in {workflows[w].status, TargetStatus(op)}
      /\ \A v \in Workflows \ {w} : workflows'[v] = workflows[v]
      /\ audit' = audit \cup {entry}
      /\ approvals[d].workflow = NoOne
  BY <1>0, CommitDecisionFacts
     DEF IInv, TablesInv, TypeOK, WorkflowRow, TablesAgree
<1>2. PICK t \in {w, d} :
        /\ approvals'[t].workflow = w
        /\ \A r \in Requests \ {t} : approvals'[r] = approvals[r]
  BY <1>0, DecidedRow DEF IInv
<1>3. w \in RowsOf(w) /\ t \in RowsOf(w)'
  BY <1>1, <1>2 DEF RowsOf, HasGateRow
<1>4. ASSUME NEW v \in Workflows \ {w} PROVE OutcomeOf(v)' = OutcomeOf(v)
  <2>1. RowsOf(v)' = RowsOf(v)
    BY <1>1, <1>2 DEF RowsOf, HasGateRow
  <2> QED
    BY <1>1, <2>1, SameOutcome
<1>5. Gate!WentToPeople(w)
  <2>1. OutcomeOf(w) \in {"pending"} \cup {"approved", "rejected", "escalated"}
    BY <1>1, <1>3 DEF OutcomeOf, Status
  <2> QED
    BY <2>1 DEF Gate!WentToPeople, Gate!Choices
<1>6. Gate!Unused(d)
  <2>1. ASSUME NEW e \in audit PROVE e.request # d
    BY DEF CommitDecision, MayCommit, IInv, TablesInv, AuditByReviewers
  <2> QED
    BY <2>1 DEF Gate!Unused, VotesCast
<1>7. VotesCast' = VotesCast \cup {<<d, w, x>>}
  <2>1. entry.request = d /\ entry.workflow = w /\ entry.action = x /\ x \in Decided
    BY DecisionValues
  <2>2. {e \in audit' : e.action \in Decided} =
          {e \in audit : e.action \in Decided} \cup {entry}
    BY <1>1, <2>1
  <2> QED
    BY <2>1, <2>2 DEF VotesCast
<1>8. CASE workflows'[w].status = TargetStatus(op)
  <2>1. OutcomeOf(w)' = x
    BY <1>3, <1>8, DecisionValues DEF OutcomeOf, Decided
  <2>2. x \in Gate!Choices
    BY DecisionValues DEF Gate!Choices, Decided
  <2>3. Gate!Vote(d, w, x)
    BY <1>4, <1>5, <1>6, <1>7, <2>1, OtherOutcomes DEF Gate!Vote
  <2> QED
    BY <2>2, <2>3
<1>9. CASE workflows'[w].status # TargetStatus(op)
  <2>1. /\ workflows'[w].status = workflows[w].status
        /\ dec[d].seen = TargetStatus(op)
    BY <1>0, <1>1, <1>9 DEF CommitDecision, ChangesStatus, IInv, TablesInv, TypeOK,
                            WorkflowRow
  <2>2. dec[d].seen = "escalated" /\ x = "escalated"
    <3>1. dec[d].seen \in DECIDABLE
      BY DEF CommitDecision, MayCommit, IInv, TablesInv, ReadingsHold, ReadingHolds
    <3> QED
      BY <2>1, <3>1, DecisionValues DEF DECIDABLE, Decided
  <2>3. WasEscalated(w)
    BY <1>0, <2>2 DEF CommitDecision, MayCommit, IInv, HistoryInv,
                      ReadingsAudited, ReadingAudited
  <2>4. \E v \in VotesCast : v[2] = w /\ v[3] = "escalated"
    <3>1. PICK e \in audit : e.workflow = w /\ e.action = "escalated"
      BY <2>3 DEF WasEscalated
    <3>2. <<e.request, e.workflow, e.action>> \in VotesCast
      BY <3>1 DEF VotesCast, Decided
    <3> QED
      BY <3>1, <3>2
  <2>5. OutcomeOf(w)' = OutcomeOf(w)
    BY <1>3, <2>1, SameOutcome
  <2>6. [v \in Workflows |-> OutcomeOf(v)]' = [v \in Workflows |-> OutcomeOf(v)]
    BY <1>4, <2>5
  <2> QED
    BY <1>5, <1>6, <1>7, <2>2, <2>4, <2>6 DEF Gate!EscalateAgain
<1> QED
  BY <1>8, <1>9

(* The code implements the abstract gate: whatever the interleaving of     *)
(* sessions, the status column, the approvals rows and the audit trail     *)
(* move as if every decision were one ballot cast in one step.             *)
THEOREM GateImplemented == Spec => ImplementsGate
<1>1. Init => Gate!GateInit
  <2> SUFFICES ASSUME Init PROVE Gate!GateInit
    OBVIOUS
  <2>1. \A w \in Workflows : OutcomeOf(w) = "unborn"
    BY DEF Init, NoWorkflow, OutcomeOf
  <2>2. VotesCast = {}
    BY DEF Init, VotesCast
  <2> QED
    BY <2>1, <2>2 DEF Gate!GateInit
<1>2. IInv /\ [Next]_vars => [Gate!GateNext]_(Gate!gateVars)
  <2> SUFFICES ASSUME IInv, [Next]_vars PROVE [Gate!GateNext]_(Gate!gateVars)
    OBVIOUS
  <2>1. CASE Quiet
    BY <2>1, QuietGate
  <2>2. ASSUME NEW w \in Workflows, CommitStart(w) PROVE Gate!GateNext
    BY <2>2, StartOpens DEF IInv, Gate!GateNext
  <2>3. ASSUME NEW d \in Deciders, CommitDecision(d) PROVE Gate!GateNext
    BY <2>3, DecisionVotes DEF Gate!GateNext
  <2> QED
    BY <2>1, <2>2, <2>3, StepShape DEF IInv
<1> QED
  BY <1>1, <1>2, Invariance, PTL DEF Spec, ImplementsGate, Gate!GateSpec

-----------------------------------------------------------------------------
(* What the callers are shown (WorkflowReads).  Between the two statements *)
(* of _reload others commit; what carries over is that a workflow never    *)
(* goes back to awaiting and a decided row stays decided.                  *)

RowDecided(w) == \E r \in Requests : /\ approvals[r].workflow = w
                                     /\ approvals[r].decision \in Decided

BetweenReadings(d) ==
  pc[d] = "read" =>
    /\ dec[d].seen # "awaiting_approval" =>
         workflows[dec[d].workflow].status # "awaiting_approval"
    /\ dec[d].seen \in {"rejected", "escalated"} => RowDecided(dec[d].workflow)

(* The list fits the status read before, and the row the decision takes,   *)
(* if any, is the only pending one in it.                                  *)
ListFits(d, list) ==
  /\ dec[d].seen # "awaiting_approval" => ~Shows(list, {"pending"})
  /\ dec[d].seen \in {"rejected", "escalated"} => Shows(list, Decided)
  /\ dec[d].seen = "awaiting_approval" => Shows(list, {"pending"} \cup Decided)

TakesTheOne(d, list) ==
  IF dec[d].pending = NoOne
  THEN ~Shows(list, {"pending"}) /\ Shows(list, Decided)
  ELSE /\ dec[d].pending \in Requests
       /\ \A r \in Requests : list[r].decision = "pending" => r = dec[d].pending

AfterReadings(d) ==
  /\ pc[d] \in {"loaded", "flushed", "committed"} \/ answer[d] = "conflict" =>
       ListFits(d, shown[d])
  /\ pc[d] \in {"loaded", "flushed", "committed"} => TakesTheOne(d, shown[d])

ReadsInv == /\ shown \in [Deciders -> [Requests -> ApprovalRow]]
            /\ \A d \in Deciders : BetweenReadings(d) /\ AfterReadings(d)

LEMMA InitReads == ReadsInit => ReadsInv
BY ParametersAssumption
   DEF ReadsInit, Init, ReadsInv, BetweenReadings, AfterReadings, Requests,
       NoApproval, ApprovalRow

LEMMA StepForward ==
  ASSUME TablesInv, [Next]_vars
  PROVE  Forward
<1>1. CASE Quiet
  BY <1>1 DEF Quiet, tables, Forward, HasGateRow
<1> QED
  BY <1>1, StepShape, CommitStartForward, CommitDecisionForward

LEMMA DecidedStays ==
  ASSUME IInv, [Next]_vars, NEW w \in Workflows, RowDecided(w)
  PROVE  RowDecided(w)'
<1> USE ParametersAssumption DEF Requests
<1>1. PICK r \in Requests : approvals[r].workflow = w /\ approvals[r].decision \in Decided
  BY DEF RowDecided
<1>2. approvals'[r].decision \in Decided
  BY <1>1, RecordKeptStep
<1>3. approvals'[r].workflow = w
  <2>1. CASE Quiet
    BY <1>1, <2>1 DEF Quiet, tables
  <2>2. ASSUME NEW v \in Workflows, CommitStart(v) PROVE approvals'[r].workflow = w
    <3>1. approvals[r].decision # "absent" /\ approvals \in [Requests -> ApprovalRow]
      BY <1>1 DEF Decided, IInv, TablesInv, TypeOK
    <3> QED
      BY <1>1, <2>2, <3>1, CommitStartFacts DEF IInv
  <2>3. ASSUME NEW d \in Deciders, CommitDecision(d) PROVE approvals'[r].workflow = w
    <3>1. PICK v \in Workflows : v = dec[d].workflow
      BY <2>3, CommitDecisionFacts DEF IInv
    <3>2. PICK t \in {v, d} : /\ approvals'[t].workflow = v
                             /\ \A x \in Requests \ {t} : approvals'[x] = approvals[x]
      BY <2>3, <3>1, DecidedRow DEF IInv
    <3>3. approvals[d] = NoApproval
      BY <2>3 DEF CommitDecision, MayCommit, IInv, HistoryInv, NothingInsertedEarly
    <3>4. r # d
      BY <1>1, <3>3 DEF NoApproval, Decided
    <3>5. approvals[v].workflow \in {v, NoOne}
      BY DEF IInv, TablesInv, TablesAgree
    <3> QED
      BY <1>1, <3>2, <3>4, <3>5
  <2> QED
    BY <2>1, <2>2, <2>3, StepShape DEF IInv
<1> QED
  BY <1>2, <1>3 DEF RowDecided

(* The second statement loads a list that fits the first.                  *)
LEMMA LoadedFits ==
  ASSUME IInv, NEW d \in Deciders, BetweenReadings(d), pc[d] = "read"
  PROVE  /\ ListFits(d, Loaded(dec[d].workflow))
         /\ Loaded(dec[d].workflow) \in [Requests -> ApprovalRow]
         /\ \A r \in Requests :
              Loaded(dec[d].workflow)[r].decision = "pending" <=>
                r \in PendingRowsOf(dec[d].workflow)
         /\ dec[d].seen \in DECIDABLE /\ PendingRowsOf(dec[d].workflow) = {} =>
              Shows(Loaded(dec[d].workflow), Decided)
<1> USE ParametersAssumption DEF Requests
<1>1. PICK w \in Workflows : w = dec[d].workflow
  BY DEF IInv, TablesInv, DecisionSessions, DecisionSessionOK
<1>2. approvals \in [Requests -> ApprovalRow]
  BY DEF IInv, TablesInv, TypeOK
<1>3. /\ NoApproval \in ApprovalRow
      /\ NoApproval.decision = "absent"
      /\ "absent" \notin Decided \cup {"pending"}
  BY DEF NoApproval, ApprovalRow, Decided
<1>4. /\ Loaded(w) \in [Requests -> ApprovalRow]
      /\ \A r \in Requests : Loaded(w)[r] = IF approvals[r].workflow = w
                                             THEN approvals[r] ELSE NoApproval
  BY <1>2, <1>3 DEF Loaded
<1>5. \A r \in Requests :
        Loaded(w)[r].decision = "pending" <=> r \in PendingRowsOf(w)
  BY <1>3, <1>4 DEF PendingRowsOf
<1>6. RowDecided(w) => Shows(Loaded(w), Decided)
  BY <1>4 DEF RowDecided, Shows
<1>7. PendingRowsOf(w) = IF workflows[w].status = "awaiting_approval" THEN {w} ELSE {}
  BY DEF IInv, TablesInv, OnePendingRow
<1>8. dec[d].seen \in DECIDABLE => Loaded(w)[w].decision \in {"pending"} \cup Decided
  <2>1. dec[d].seen \in DECIDABLE => approvals[w].workflow = w
    BY <1>1 DEF IInv, TablesInv, ReadingsHold, ReadingHolds, HasGateRow
  <2>2. /\ approvals[w].workflow = NoOne <=> approvals[w].decision = "absent"
        /\ approvals[w].decision \in {"absent", "pending"} \cup Decided
    BY <1>2 DEF IInv, TablesInv, TablesAgree, ApprovalRow
  <2> QED
    BY <1>4, <2>1, <2>2
<1>9. ListFits(d, Loaded(w))
  <2>1. dec[d].seen # "awaiting_approval" => ~Shows(Loaded(w), {"pending"})
    BY <1>1, <1>5, <1>7 DEF BetweenReadings, Shows
  <2>2. dec[d].seen \in {"rejected", "escalated"} => Shows(Loaded(w), Decided)
    BY <1>1, <1>6 DEF BetweenReadings
  <2>3. dec[d].seen = "awaiting_approval" => Shows(Loaded(w), {"pending"} \cup Decided)
    BY <1>8 DEF Shows, DECIDABLE
  <2> QED
    BY <2>1, <2>2, <2>3 DEF ListFits
<1>10. dec[d].seen \in DECIDABLE /\ PendingRowsOf(w) = {} => Shows(Loaded(w), Decided)
  BY <1>5, <1>8 DEF Shows
<1> QED
  BY <1>1, <1>4, <1>5, <1>9, <1>10

LEMMA ReadsStep ==
  ASSUME IInv, ReadsInv, Next,
         shown' = [d \in Deciders |-> IF pc[d] = "read" /\ pc'[d] # "read"
                                      THEN Loaded(dec[d].workflow)
                                      ELSE shown[d]]
  PROVE  ReadsInv'
<1> USE ParametersAssumption DEF Requests, Goto, Answer, Refuse
<1>1. /\ pc \in [Requests -> {"new"} \cup Live \cup Ended]
      /\ answer \in [Requests -> {"none", "ok", "failed", "forbidden",
                                  "not_found", "conflict"}]
      /\ dec \in [Deciders -> DecisionSession]
      /\ TablesInv
  BY DEF IInv, TablesInv, TypeOK
<1>2. shown' \in [Deciders -> [Requests -> ApprovalRow]]
  BY LoadedFits DEF ReadsInv
<1> SUFFICES ASSUME NEW d \in Deciders
             PROVE  BetweenReadings(d)' /\ AfterReadings(d)'
  BY <1>2 DEF ReadsInv
<1>3. /\ BetweenReadings(d) /\ AfterReadings(d)
      /\ shown'[d] = IF pc[d] = "read" /\ pc'[d] # "read"
                     THEN Loaded(dec[d].workflow) ELSE shown[d]
      /\ answer[d] = "conflict" => pc[d] = "refused"
  BY DEF ReadsInv, IInv, HistoryInv, ReadingsAudited, ReadingAudited
<1>4. ASSUME dec'[d] = dec[d], pc'[d] = pc[d], answer'[d] \in {answer[d], "ok", "failed"}
      PROVE  BetweenReadings(d)' /\ AfterReadings(d)'
  <2>1. BetweenReadings(d)'
    <3> SUFFICES ASSUME pc[d] = "read" PROVE BetweenReadings(d)'
      BY <1>4 DEF BetweenReadings
    <3>1. PICK w \in Workflows : w = dec[d].workflow /\ workflows[w].status # "absent"
      BY <1>1 DEF TablesInv, DecisionSessions, DecisionSessionOK, ReadingsHold,
                  ReadingHolds
    <3>2. workflows[w].status # "awaiting_approval" =>
            workflows'[w].status # "awaiting_approval"
      BY <1>1, <3>1, StepForward DEF Forward
    <3>3. RowDecided(w) => RowDecided(w)'
      BY DecidedStays
    <3> QED
      BY <1>3, <1>4, <3>1, <3>2, <3>3 DEF BetweenReadings, RowDecided
  <2>2. AfterReadings(d)'
    BY <1>3, <1>4 DEF AfterReadings, ListFits, TakesTheOne, Shows
  <2> QED
    BY <2>1, <2>2
<1>5. CASE Decide(d)
  BY <1>1, <1>3, <1>5 DEF Decide, BetweenReadings, AfterReadings
<1>6. CASE RefuseDecision(d)
  BY <1>1, <1>3, <1>6 DEF RefuseDecision, BetweenReadings, AfterReadings
<1>7. CASE ReadWorkflow(d)
  <2>1. PICK w \in Workflows : pc[d] = "begun" /\ w = dec[d].workflow
    BY <1>7 DEF ReadWorkflow, IInv, TablesInv, DecisionSessions, DecisionSessionOK
  <2>2. CASE workflows[w].status = "absent"
    BY <1>1, <1>3, <1>7, <2>1, <2>2 DEF ReadWorkflow, BetweenReadings, AfterReadings
  <2>3. CASE workflows[w].status # "absent"
    <3>1. /\ pc'[d] = "read" /\ answer' = answer
          /\ dec'[d].seen = workflows[w].status /\ dec'[d].workflow = w
          /\ workflows' = workflows /\ approvals' = approvals
      BY <1>1, <1>7, <2>1, <2>3 DEF ReadWorkflow, DecisionSession, tables
    <3>2. workflows[w].status \in {"rejected", "escalated"} => RowDecided(w)
      BY <1>1 DEF TablesInv, StatusBacked, RowsOf, RowDecided, Decided
    <3>3. RowDecided(w)' <=> RowDecided(w)
      BY <3>1 DEF RowDecided
    <3> QED
      BY <1>3, <2>1, <3>1, <3>2, <3>3 DEF BetweenReadings, AfterReadings, RowDecided
  <2> QED
    BY <2>2, <2>3
<1>8. CASE ReadApprovals(d)
  <2>1. /\ pc[d] = "read" /\ pc'[d] # "read" /\ dec'[d].seen = dec[d].seen
        /\ pc'[d] \in {"refused", "loaded"}
    BY <1>1, <1>8 DEF ReadApprovals, DecisionSession
  <2>2. PICK w \in Workflows : w = dec[d].workflow
    BY <1>1, <2>1 DEF TablesInv, DecisionSessions, DecisionSessionOK
  <2>3. PICK list \in [Requests -> ApprovalRow] :
          /\ shown'[d] = list /\ ListFits(d, list)
          /\ \A r \in Requests : list[r].decision = "pending" <=> r \in PendingRowsOf(w)
          /\ dec[d].seen \in DECIDABLE /\ PendingRowsOf(w) = {} => Shows(list, Decided)
    BY <1>3, <2>1, <2>2, LoadedFits
  <2>4. ListFits(d, shown[d])'
    BY <2>1, <2>3 DEF ListFits, Shows
  <2>5. pc'[d] = "loaded" => TakesTheOne(d, shown[d])'
    <3> SUFFICES ASSUME pc'[d] = "loaded" PROVE TakesTheOne(d, shown[d])'
      OBVIOUS
    <3>1. dec[d].seen \in DECIDABLE
      BY <1>1, <1>8 DEF ReadApprovals
    <3>2. PICK q \in IF PendingRowsOf(w) = {} THEN {NoOne} ELSE PendingRowsOf(w) :
            dec' = [dec EXCEPT ![d].pending = q]
      BY <1>8, <2>2, <3>1 DEF ReadApprovals
    <3>3. dec'[d].pending = q
      BY <1>1, <3>2 DEF DecisionSession
    <3>4. PendingRowsOf(w) = {} \/ PendingRowsOf(w) = {w}
      BY <1>1 DEF TablesInv, OnePendingRow
    <3>5. CASE PendingRowsOf(w) = {}
      BY <2>3, <3>1, <3>2, <3>3, <3>5 DEF TakesTheOne, Shows
    <3>6. CASE PendingRowsOf(w) = {w}
      BY <2>3, <3>2, <3>3, <3>6 DEF TakesTheOne
    <3> QED
      BY <3>4, <3>5, <3>6
  <2> QED
    BY <2>1, <2>4, <2>5 DEF BetweenReadings, AfterReadings
<1>9. CASE FlushDecision(d) \/ CommitDecision(d)
  <2>1. /\ pc[d] \in {"loaded", "flushed"} /\ pc'[d] \in {"flushed", "committed"}
        /\ dec' = dec /\ answer' = answer
    BY <1>1, <1>9 DEF FlushDecision, CommitDecision, MayCommit
  <2> QED
    BY <1>3, <2>1 DEF BetweenReadings, AfterReadings, ListFits, TakesTheOne, Shows
<1>10. CASE Respond(d) \/ LoseAnswer(d)
  BY <1>1, <1>4, <1>10 DEF Respond, LoseAnswer
<1>11. CASE Rollback(d)
  <2>1. pc[d] \in Live /\ pc'[d] = "rolledback" /\ answer[d] # "conflict"
    BY <1>1, <1>3, <1>11 DEF Rollback, Live
  <2>2. answer'[d] # "conflict"
    BY <1>1, <1>11, <2>1 DEF Rollback
  <2> QED
    BY <2>1, <2>2 DEF BetweenReadings, AfterReadings
<1> QED
  BY <1>1, <1>4, <1>5, <1>6, <1>7, <1>8, <1>9, <1>10, <1>11, DecisionFrame

LEMMA AgreeFromReads ==
  ASSUME IInv, ReadsInv
  PROVE  ResponsesAgree
<1> USE ParametersAssumption DEF Requests
<1> SUFFICES ASSUME NEW d \in Deciders, pc[d] \in {"flushed", "committed"}
             PROVE  /\ ~Shows(ShownAfter(d), {"pending"})
                    /\ Shows(ShownAfter(d), Decided)
                    /\ \/ Shows(ShownAfter(d), {Decision(dec[d].op)})
                       \/ dec[d].pending = NoOne
  BY DEF ResponsesAgree, ReadsInv, AfterReadings, ListFits
<1>1. TakesTheOne(d, shown[d]) /\ shown[d] \in [Requests -> ApprovalRow]
  BY DEF ReadsInv, AfterReadings
<1>2. Decision(dec[d].op) \in Decided /\ "pending" \notin Decided
  BY DecisionValues DEF IInv, TablesInv, DecisionSessions, DecisionSessionOK, Decided
<1>3. CASE dec[d].pending = NoOne
  BY <1>1, <1>3 DEF TakesTheOne, ShownAfter
<1>4. CASE dec[d].pending # NoOne
  <2>1. PICK q \in Requests : q = dec[d].pending
    BY <1>1, <1>4 DEF TakesTheOne
  <2>2. PICK list : list = ShownAfter(d)
    OBVIOUS
  <2>3. /\ list[q].decision = Decision(dec[d].op)
        /\ \A r \in Requests \ {q} : list[r] = shown[d][r]
    BY <1>1, <1>4, <2>1, <2>2 DEF ShownAfter, UpdatedRow
  <2>4. \A r \in Requests \ {q} : list[r].decision # "pending"
    BY <1>1, <1>4, <2>1, <2>3 DEF TakesTheOne
  <2> QED
    BY <1>2, <2>1, <2>2, <2>3, <2>4 DEF Shows
<1> QED
  BY <1>3, <1>4

(* What a person is shown makes sense though it is read in two statements  *)
(* between which others decide, for any number of workflows and deciders   *)
(* (_reload, _decide, get_workflow).                                       *)
THEOREM ResponsesDoAgree == ReadsSpec => []ResponsesAgree
<1>1. ReadsInit => IInv /\ ReadsInv
  BY InitTablesInv, InitHistory, InitReads DEF ReadsInit, IInv
<1>2. (IInv /\ ReadsInv) /\ [ReadsNext]_readVars => (IInv /\ ReadsInv)'
  <2> SUFFICES ASSUME IInv, ReadsInv, [ReadsNext]_readVars
               PROVE  IInv' /\ ReadsInv'
    OBVIOUS
  <2>1. [Next]_vars
    BY DEF ReadsNext, readVars
  <2>2. IInv'
    BY <2>1, IInvStep
  <2>3. CASE ReadsNext
    BY <2>2, <2>3, ReadsStep DEF ReadsNext
  <2>4. CASE UNCHANGED readVars
    BY <2>2, <2>4 DEF readVars, vars, ReadsInv, BetweenReadings, AfterReadings,
       ListFits, TakesTheOne, Shows, RowDecided
  <2> QED
    BY <2>2, <2>3, <2>4
<1>3. IInv /\ ReadsInv => ResponsesAgree
  BY AgreeFromReads
<1> QED
  BY <1>1, <1>2, <1>3, PTL DEF ReadsSpec

=============================================================================
