------------------------ MODULE WorkflowServiceProofs ------------------------
(***************************************************************************)
(* The safety properties of WorkflowService, for every set of workflows,   *)
(* requests, users and roles: the inductive invariant TablesInv is established  *)
(* by Init, kept by every action, and implies the properties.              *)
(***************************************************************************)
EXTENDS WorkflowInvariant, TLAPS

-----------------------------------------------------------------------------
(* The pure helpers return values of the columns they are written to.      *)

LEMMA DecisionValues ==
  ASSUME NEW op \in Op
  PROVE  /\ Decision(op) \in Decided
         /\ Kind(op) \in {"approval", "rejection", "escalation"}
         /\ TargetStatus(op) \in {"completed", "rejected", "escalated"}
         /\ TargetStatus(op) = IF Decision(op) = "approved" THEN "completed"
                                                           ELSE Decision(op)
         /\ Decision(op) = "approved" <=> op = "approve"
         /\ Decision(op) = "escalated" <=> op = "escalate"
BY DEF Op, Decision, Kind, TargetStatus, Decided

LEMMA PermissionValues ==
  ASSUME NEW t \in WorkflowType
  PROVE  RequiredPermission(t) \in Permission \cup {"none"}
BY DEF RequiredPermission, WorkflowType, PLANS, Plan, Permission

LEMMA OutcomeValues ==
  ASSUME NEW a
  PROVE  StepOutcomes(a) \subseteq RunOutcome
BY DEF StepOutcomes, RunOutcome

LEMMA FinalStatusValues ==
  ASSUME NEW w
  PROVE  FinalStatus(w) \in {"failed", "awaiting_approval", "completed"}
BY DEF FinalStatus

LEMMA SessionUpdates ==
  ASSUME NEW s \in DecisionSession
  PROVE  /\ \A x \in Status : [s EXCEPT !.seen = x] \in DecisionSession
         /\ \A p \in Requests \cup {NoOne} :
              [s EXCEPT !.pending = p] \in DecisionSession
BY DEF DecisionSession

LEMMA StatusUpdate ==
  ASSUME NEW row \in WorkflowRow, NEW x \in Status
  PROVE  [row EXCEPT !.status = x] \in WorkflowRow
BY DEF WorkflowRow

LEMMA UpdatedRowValues ==
  ASSUME NEW d \in Deciders, NEW row \in ApprovalRow,
         dec[d].op \in Op, dec[d].decided_by \in Users
  PROVE  UpdatedRow(row, d) \in ApprovalRow
BY DecisionValues DEF UpdatedRow, ApprovalRow

-----------------------------------------------------------------------------
(* The invariant holds before the first request.                           *)

LEMMA InitTablesInv == Init => TablesInv
<1> SUFFICES ASSUME Init PROVE TablesInv
  OBVIOUS
<1> USE ParametersAssumption DEF Init
<1>1. TypeOK
  BY DEF TypeOK, WorkflowRow, Status, ApprovalRow, StartSession,
         DecisionSession, NoWorkflow, NoApproval, NoStart, NoDecision, Requests
<1>2. StartSessions /\ DecisionSessions /\ ReadingsHold
  BY DEF StartSessions, DecisionSessions, ReadingsHold, StartSessionOK,
         DecisionSessionOK, ReadingHolds, Requests
<1>3. TablesAgree
  BY DEF TablesAgree, HasGateRow, NoWorkflow, NoApproval, Requests
<1>4. AuditByReviewers /\ OnePendingRow /\ StatusBacked /\ DecisionsAudited
  BY DEF AuditByReviewers, OnePendingRow, StatusBacked, DecisionsAudited,
         PendingRowsOf, NoWorkflow, NoApproval, Decided, Requests
<1> QED
  BY <1>1, <1>2, <1>3, <1>4 DEF TablesInv

-----------------------------------------------------------------------------
(* Type correctness, action by action.                                     *)

LEMMA TypeOKStep ==
  ASSUME TablesInv, [Next]_vars
  PROVE  TypeOK'
<1> USE ParametersAssumption DEF TablesInv
<1> USE DEF TypeOK, Requests, Live, Ended, Goto, Answer, Refuse, tables
<1>1. ASSUME NEW w \in Workflows, StartWorkflow(w) PROVE TypeOK'
  BY <1>1 DEF StartWorkflow, StartSession, Status
<1>2. ASSUME NEW w \in Workflows, RefuseStart(w) PROVE TypeOK'
  BY <1>2 DEF RefuseStart
<1>3. ASSUME NEW w \in Workflows, RunStep(w) PROVE TypeOK'
  <2>1. PICK o \in RunOutcome :
          exec' = [exec EXCEPT ![w].runs = Append(@, o)]
    BY <1>3, OutcomeValues DEF RunStep
  <2>2. Append(exec[w].runs, o) \in Seq(RunOutcome)
    BY DEF StartSession
  <2>3. exec' \in [Workflows -> StartSession]
    BY <2>1, <2>2 DEF StartSession
  <2> QED
    BY <1>3, <2>3 DEF RunStep
<1>4. ASSUME NEW w \in Workflows, FinishStart(w) PROVE TypeOK'
  BY <1>4, FinalStatusValues DEF FinishStart, StartSession, Status
<1>5. ASSUME NEW w \in Workflows, CommitStart(w) PROVE TypeOK'
  BY <1>5, PermissionValues, FinalStatusValues
     DEF CommitStart, MayCommit, PendingRow, StartSessions, StartSessionOK, WorkflowRow,
         Status,
         ApprovalRow, AuditEntry, StartSession
<1>6. ASSUME NEW d \in Deciders, Decide(d) PROVE TypeOK'
  BY <1>6 DEF Decide, DecisionSession, Status
<1>7. ASSUME NEW d \in Deciders, RefuseDecision(d) PROVE TypeOK'
  BY <1>7 DEF RefuseDecision
<1>8. ASSUME NEW d \in Deciders, ReadWorkflow(d) PROVE TypeOK'
  <2>1. CASE workflows[dec[d].workflow].status = "absent"
    BY <1>8, <2>1 DEF ReadWorkflow
  <2>2. CASE workflows[dec[d].workflow].status # "absent"
    <3>1. workflows[dec[d].workflow].status \in Status
      BY <1>8 DEF ReadWorkflow, DecisionSessions, DecisionSessionOK, WorkflowRow
    <3>2. dec' \in [Deciders -> DecisionSession]
      <4>1. dec' = [dec EXCEPT ![d].seen = workflows[dec[d].workflow].status]
        BY <1>8, <2>2 DEF ReadWorkflow
      <4>2. [dec[d] EXCEPT !.seen = workflows[dec[d].workflow].status]
               \in DecisionSession
        BY <3>1, SessionUpdates
      <4> QED
        BY <4>1, <4>2
    <3> QED
      BY <1>8, <2>2, <3>2 DEF ReadWorkflow
  <2> QED
    BY <2>1, <2>2
<1>9. ASSUME NEW d \in Deciders, ReadApprovals(d) PROVE TypeOK'
  <2>1. CASE dec[d].seen \notin DECIDABLE
    BY <1>9, <2>1 DEF ReadApprovals
  <2>2. CASE dec[d].seen \in DECIDABLE
    <3>1. PICK p \in Workflows \cup Deciders \cup {NoOne} :
            /\ dec' = [dec EXCEPT ![d].pending = p]
            /\ pc' = [pc EXCEPT ![d] = "loaded"]
            /\ UNCHANGED <<workflows, agentRuns, approvals, audit, answer, exec>>
      BY <1>9, <2>2 DEF ReadApprovals, PendingRowsOf
    <3>2. dec' \in [Deciders -> DecisionSession]
      BY <3>1, SessionUpdates
    <3> QED
      BY <3>1, <3>2
  <2> QED
    BY <2>1, <2>2
<1>10. ASSUME NEW d \in Deciders, FlushDecision(d) PROVE TypeOK'
  BY <1>10 DEF FlushDecision
<1>11. ASSUME NEW d \in Deciders, CommitDecision(d) PROVE TypeOK'
  <2> DEFINE w == dec[d].workflow
             e == [request |-> d, workflow |-> w, actor |-> dec[d].decided_by,
                   action |-> Decision(dec[d].op)]
  <2>1. /\ w \in Workflows
        /\ dec[d].op \in Op
        /\ dec[d].decided_by \in Users
        /\ dec[d].pending \in Workflows \cup Deciders \cup {NoOne}
        /\ ReasonOf(d) \in Deciders \cup {NoOne}
    BY <1>11 DEF CommitDecision, MayCommit, DecisionSessions,
                 DecisionSessionOK, DecisionSession, ReasonOf
  <2>2. workflows' \in [Workflows -> WorkflowRow]
    <3>1. TargetStatus(dec[d].op) \in Status
      BY <2>1, DecisionValues DEF Status
    <3>2. [workflows[w] EXCEPT !.status = TargetStatus(dec[d].op)] \in WorkflowRow
      BY <2>1, <3>1, StatusUpdate
    <3>3. \/ workflows' = workflows
          \/ workflows' = [workflows EXCEPT ![w].status = TargetStatus(dec[d].op)]
      BY <1>11 DEF CommitDecision
    <3> QED
      BY <2>1, <3>2, <3>3
  <2>3. InsertedRow(d) \in ApprovalRow
    BY <2>1, DecisionValues DEF InsertedRow, ApprovalRow, Permission
  <2>4. \A r \in Requests : UpdatedRow(approvals[r], d) \in ApprovalRow
    <3> TAKE r \in Requests
    <3>1. approvals[r] \in ApprovalRow
      OBVIOUS
    <3> QED
      BY <2>1, <3>1, UpdatedRowValues
  <2>5. approvals' \in [Requests -> ApprovalRow]
    BY <1>11, <2>1, <2>3, <2>4 DEF CommitDecision
  <2>6. audit' \subseteq AuditEntry
    BY <1>11, <2>1, DecisionValues DEF CommitDecision, AuditEntry
  <2> QED
    BY <1>11, <2>2, <2>5, <2>6 DEF CommitDecision
<1>12. ASSUME NEW r \in Requests, Respond(r) PROVE TypeOK'
  BY <1>12 DEF Respond
<1>13. ASSUME NEW r \in Requests, Rollback(r) PROVE TypeOK'
  <2>1. NoStart \in StartSession /\ NoDecision \in DecisionSession
    BY DEF StartSession, DecisionSession, NoStart, NoDecision, Status
  <2>2. exec' \in [Workflows -> StartSession] /\ dec' \in [Deciders -> DecisionSession]
    BY <1>13, <2>1 DEF Rollback
  <2>3. answer' \in [Requests -> {"none", "ok", "failed", "forbidden",
                                  "not_found", "conflict"}]
    BY <1>13 DEF Rollback
  <2> QED
    BY <1>13, <2>2, <2>3 DEF Rollback
<1>14. ASSUME NEW r \in Requests, LoseAnswer(r) PROVE TypeOK'
  BY <1>14 DEF LoseAnswer
<1>15. CASE UNCHANGED vars
  BY <1>15 DEF vars
<1> QED
  BY <1>1, <1>2, <1>3, <1>4, <1>5, <1>6, <1>7, <1>8, <1>9, <1>10, <1>11,
     <1>12, <1>13, <1>14, <1>15 DEF Next, ServeStart, ServeDecision

-----------------------------------------------------------------------------
(* The steps that commit nothing.  They leave the tables alone and keep    *)
(* the set of committed requests, so what the tables promise stays true    *)
(* for a reason that does not depend on the action.                        *)

Quiet ==
  /\ UNCHANGED tables
  /\ \A r \in Requests : pc'[r] = "committed" <=> pc[r] = "committed"
  /\ \A w \in Workflows : pc[w] = "committed" => exec'[w] = exec[w]

LEMMA QuietKeepsTables ==
  ASSUME TablesInv, Quiet
  PROVE  /\ TablesAgree'
         /\ AuditByReviewers'
         /\ OnePendingRow'
         /\ StatusBacked'
         /\ DecisionsAudited'
<1> USE DEF TablesInv, Quiet, tables
<1>1. TablesAgree'
  BY DEF TablesAgree, HasGateRow, NeedsHuman, Came, Requests
<1>2. AuditByReviewers'
  BY DEF AuditByReviewers, May, TypeOK, AuditEntry
<1>3. OnePendingRow'
  BY DEF OnePendingRow, PendingRowsOf
<1>4. StatusBacked'
  BY DEF StatusBacked, RowsOf
<1>5. DecisionsAudited'
  BY DEF DecisionsAudited
<1> QED
  BY <1>1, <1>2, <1>3, <1>4, <1>5

LEMMA QuietSteps ==
  ASSUME TablesInv,
         \/ \E w \in Workflows : StartWorkflow(w) \/ RefuseStart(w)
                                  \/ RunStep(w) \/ FinishStart(w)
         \/ \E d \in Deciders : Decide(d) \/ RefuseDecision(d)
                                 \/ ReadWorkflow(d) \/ ReadApprovals(d)
                                 \/ FlushDecision(d)
         \/ \E r \in Requests : Respond(r) \/ Rollback(r) \/ LoseAnswer(r)
  PROVE  Quiet
<1> USE ParametersAssumption DEF Quiet, TablesInv, TypeOK, Requests, Goto, Answer, Refuse, tables
<1>1. ASSUME NEW w \in Workflows, StartWorkflow(w) PROVE Quiet
  BY <1>1 DEF StartWorkflow
<1>2. ASSUME NEW w \in Workflows, RefuseStart(w) PROVE Quiet
  BY <1>2 DEF RefuseStart
<1>3. ASSUME NEW w \in Workflows, RunStep(w) PROVE Quiet
  BY <1>3 DEF RunStep
<1>4. ASSUME NEW w \in Workflows, FinishStart(w) PROVE Quiet
  BY <1>4 DEF FinishStart
<1>5. ASSUME NEW d \in Deciders, Decide(d) PROVE Quiet
  BY <1>5 DEF Decide
<1>6. ASSUME NEW d \in Deciders, RefuseDecision(d) PROVE Quiet
  BY <1>6 DEF RefuseDecision
<1>7. ASSUME NEW d \in Deciders, ReadWorkflow(d) PROVE Quiet
  BY <1>7 DEF ReadWorkflow
<1>8. ASSUME NEW d \in Deciders, ReadApprovals(d) PROVE Quiet
  BY <1>8 DEF ReadApprovals
<1>9. ASSUME NEW d \in Deciders, FlushDecision(d) PROVE Quiet
  BY <1>9 DEF FlushDecision
<1>10. ASSUME NEW r \in Requests, Respond(r) PROVE Quiet
  BY <1>10 DEF Respond
<1>11. ASSUME NEW r \in Requests, Rollback(r) PROVE Quiet
  BY <1>11 DEF Rollback, Live
<1>12. ASSUME NEW r \in Requests, LoseAnswer(r) PROVE Quiet
  BY <1>12 DEF LoseAnswer
<1> QED
  BY <1>1, <1>2, <1>3, <1>4, <1>5, <1>6, <1>7, <1>8, <1>9, <1>10, <1>11, <1>12

-----------------------------------------------------------------------------
(* The sessions, action by action.                                         *)

LEMMA OtherSessions ==
  /\ \A v \in Workflows :
       StartSessionOK(v) /\ exec'[v] = exec[v] /\ pc'[v] = pc[v]
         => StartSessionOK(v)'
  /\ \A e \in Deciders :
       DecisionSessionOK(e) /\ dec'[e] = dec[e] /\ pc'[e] = pc[e]
         => DecisionSessionOK(e)'
<1>1. ASSUME NEW v \in Workflows, exec'[v] = exec[v]
      PROVE  FinalStatus(v)' = FinalStatus(v)
  BY <1>1 DEF FinalStatus, NeedsApproval, Came
<1> QED
  BY <1>1 DEF StartSessionOK, DecisionSessionOK, May

LEMMA StartSessionsStep ==
  ASSUME TablesInv, [Next]_vars
  PROVE  StartSessions'
<1> SUFFICES ASSUME NEW v \in Workflows PROVE StartSessionOK(v)'
  BY DEF StartSessions
<1> USE ParametersAssumption DEF Requests, Goto, Answer, Refuse
<1>1. /\ StartSessionOK(v)
      /\ pc \in [Requests -> {"new"} \cup Live \cup Ended]
      /\ exec \in [Workflows -> StartSession]
  BY DEF TablesInv, StartSessions, TypeOK
<1>2. ASSUME StartWorkflow(v) PROVE StartSessionOK(v)'
  BY <1>1, <1>2 DEF StartWorkflow, StartSessionOK
<1>3. ASSUME RefuseStart(v) PROVE StartSessionOK(v)'
  BY <1>1, <1>3 DEF RefuseStart, StartSessionOK
<1>4. ASSUME RunStep(v) PROVE StartSessionOK(v)'
  BY <1>1, <1>4 DEF RunStep, StartSessionOK, StartSession
<1>5. ASSUME FinishStart(v) PROVE StartSessionOK(v)'
  <2>1. exec'[v].status = FinalStatus(v) /\ exec'[v].runs = exec[v].runs
        /\ exec'[v].type = exec[v].type /\ exec'[v].created_by = exec[v].created_by
    BY <1>1, <1>5 DEF FinishStart, StartSession
  <2>2. FinalStatus(v)' = FinalStatus(v)
    BY <2>1 DEF FinalStatus, NeedsApproval, Came
  <2> QED
    BY <1>1, <1>5, <2>1, <2>2 DEF FinishStart, StartSessionOK
<1>6. ASSUME CommitStart(v) PROVE StartSessionOK(v)'
  <2>1. exec' = exec /\ pc[v] = "flushed" /\ pc'[v] = "committed"
    BY <1>1, <1>6 DEF CommitStart, MayCommit
  <2>2. FinalStatus(v)' = FinalStatus(v)
    BY <2>1 DEF FinalStatus, NeedsApproval, Came
  <2> QED
    BY <1>1, <2>1, <2>2 DEF StartSessionOK
<1>7. ASSUME Rollback(v) PROVE StartSessionOK(v)'
  BY <1>1, <1>7 DEF Rollback, Live, StartSessionOK
<1>8. ASSUME exec'[v] = exec[v], pc'[v] = pc[v] PROVE StartSessionOK(v)'
  BY <1>1, <1>8, OtherSessions
<1>9. \/ exec'[v] = exec[v] /\ pc'[v] = pc[v]
      \/ StartWorkflow(v) \/ RefuseStart(v) \/ RunStep(v) \/ FinishStart(v)
      \/ CommitStart(v) \/ Rollback(v)
  <2>1. ASSUME NEW w \in Workflows \ {v},
               \/ StartWorkflow(w) \/ RefuseStart(w) \/ RunStep(w)
               \/ FinishStart(w) \/ CommitStart(w)
        PROVE  exec'[v] = exec[v] /\ pc'[v] = pc[v]
    BY <1>1, <2>1 DEF StartWorkflow, RefuseStart, RunStep, FinishStart, CommitStart
  <2>2. ASSUME NEW d \in Deciders,
               \/ Decide(d) \/ RefuseDecision(d) \/ ReadWorkflow(d)
               \/ ReadApprovals(d) \/ FlushDecision(d) \/ CommitDecision(d)
        PROVE  exec'[v] = exec[v] /\ pc'[v] = pc[v]
    BY <1>1, <2>2 DEF Decide, RefuseDecision, ReadWorkflow, ReadApprovals,
                      FlushDecision, CommitDecision
  <2>3. ASSUME NEW r \in Requests,
               Respond(r) \/ LoseAnswer(r) \/ (Rollback(r) /\ r # v)
        PROVE  exec'[v] = exec[v] /\ pc'[v] = pc[v]
    BY <1>1, <2>3 DEF Respond, LoseAnswer, Rollback
  <2> QED
    BY <2>1, <2>2, <2>3 DEF Next, ServeStart, ServeDecision, vars
<1> QED
  BY <1>2, <1>3, <1>4, <1>5, <1>6, <1>7, <1>8, <1>9

LEMMA DecisionSessionsStep ==
  ASSUME TablesInv, [Next]_vars
  PROVE  DecisionSessions'
<1> SUFFICES ASSUME NEW e \in Deciders PROVE DecisionSessionOK(e)'
  BY DEF DecisionSessions
<1> USE ParametersAssumption DEF Requests, Goto, Answer, Refuse
<1>1. /\ DecisionSessionOK(e)
      /\ pc \in [Requests -> {"new"} \cup Live \cup Ended]
      /\ dec \in [Deciders -> DecisionSession]
  BY DEF TablesInv, DecisionSessions, TypeOK
<1>2. ASSUME Decide(e) PROVE DecisionSessionOK(e)'
  BY <1>1, <1>2 DEF Decide, DecisionSessionOK, May
<1>3. ASSUME RefuseDecision(e) \/ Rollback(e) PROVE DecisionSessionOK(e)'
  BY <1>1, <1>3 DEF RefuseDecision, Rollback, DecisionSessionOK
<1>4. ASSUME ReadWorkflow(e) PROVE DecisionSessionOK(e)'
  BY <1>1, <1>4 DEF ReadWorkflow, DecisionSessionOK, DecisionSession, May
<1>5. ASSUME ReadApprovals(e) PROVE DecisionSessionOK(e)'
  BY <1>1, <1>5 DEF ReadApprovals, DecisionSessionOK, DecisionSession, May
<1>6. ASSUME FlushDecision(e) \/ CommitDecision(e) PROVE DecisionSessionOK(e)'
  BY <1>1, <1>6 DEF FlushDecision, CommitDecision, MayCommit, DecisionSessionOK, May
<1>7. \/ dec'[e] = dec[e] /\ pc'[e] = pc[e]
      \/ Decide(e) \/ RefuseDecision(e) \/ ReadWorkflow(e) \/ ReadApprovals(e)
      \/ FlushDecision(e) \/ CommitDecision(e) \/ Rollback(e)
  <2>1. ASSUME NEW d \in Deciders \ {e},
               \/ Decide(d) \/ RefuseDecision(d) \/ ReadWorkflow(d)
               \/ ReadApprovals(d) \/ FlushDecision(d) \/ CommitDecision(d)
        PROVE  dec'[e] = dec[e] /\ pc'[e] = pc[e]
    BY <1>1, <2>1 DEF Decide, RefuseDecision, ReadWorkflow, ReadApprovals,
                      FlushDecision, CommitDecision
  <2>2. ASSUME NEW w \in Workflows,
               \/ StartWorkflow(w) \/ RefuseStart(w) \/ RunStep(w)
               \/ FinishStart(w) \/ CommitStart(w)
        PROVE  dec'[e] = dec[e] /\ pc'[e] = pc[e]
    BY <1>1, <2>2 DEF StartWorkflow, RefuseStart, RunStep, FinishStart, CommitStart
  <2>3. ASSUME NEW r \in Requests,
               Respond(r) \/ LoseAnswer(r) \/ (Rollback(r) /\ r # e)
        PROVE  dec'[e] = dec[e] /\ pc'[e] = pc[e]
    BY <1>1, <2>3 DEF Respond, LoseAnswer, Rollback
  <2> QED
    BY <2>1, <2>2, <2>3 DEF Next, ServeStart, ServeDecision, vars
<1> QED
  BY <1>1, <1>2, <1>3, <1>4, <1>5, <1>6, <1>7, OtherSessions

-----------------------------------------------------------------------------
(* The commits.  First what a session that is about to commit knows of the *)
(* tables, from the invariant; then each part of the invariant.            *)

LEMMA CommitStartFacts ==
  ASSUME TablesInv, NEW w \in Workflows, CommitStart(w)
  PROVE  /\ exec[w].type \in WorkflowType
         /\ exec[w].created_by \in Users
         /\ exec[w].status \in {"failed", "awaiting_approval", "completed"}
         /\ exec[w].status = FinalStatus(w)
         /\ workflows[w].status = "absent"
         /\ RowsOf(w) = {}
         /\ approvals[w].decision = "absent"
         /\ workflows' = [workflows EXCEPT
              ![w] = [type |-> exec[w].type, status |-> exec[w].status]]
         /\ agentRuns' = [agentRuns EXCEPT ![w] = exec[w].runs]
         /\ approvals' = IF exec[w].status = "awaiting_approval"
                         THEN [approvals EXCEPT ![w] = PendingRow(w)]
                         ELSE approvals
         /\ audit' = audit \cup {[request |-> w, workflow |-> w,
                                  actor |-> exec[w].created_by,
                                  action |-> exec[w].status]}
         /\ pc' = [pc EXCEPT ![w] = "committed"]
         /\ exec' = exec
         /\ dec' = dec
<1> USE ParametersAssumption DEF Requests
<1>1. pc[w] = "flushed" /\ StartSessionOK(w)
  BY DEF CommitStart, MayCommit, TablesInv, StartSessions
<1>2. workflows[w].status = "absent" /\ ~HasGateRow(w)
  BY <1>1 DEF TablesInv, TablesAgree
<1>3. approvals[w].workflow = NoOne /\ approvals[w].decision = "absent"
  BY <1>2 DEF TablesInv, TablesAgree, HasGateRow
<1>4. ASSUME NEW r \in Requests PROVE approvals[r].workflow # w
  <2>1. CASE r \in Workflows
    BY <1>3, <2>1 DEF TablesInv, TablesAgree
  <2>2. CASE r \in Deciders
    BY <1>2, <2>2 DEF TablesInv, TablesAgree
  <2> QED
    BY <2>1, <2>2
<1>5. RowsOf(w) = {}
  BY <1>4 DEF RowsOf
<1> QED
  BY <1>1, <1>2, <1>3, <1>5, FinalStatusValues
     DEF CommitStart, StartSessionOK, Goto

LEMMA CommitDecisionFacts ==
  ASSUME TablesInv, NEW d \in Deciders, CommitDecision(d)
  PROVE  LET w == dec[d].workflow
             op == dec[d].op IN
         /\ w \in Workflows
         /\ op \in Op
         /\ May(dec[d].decided_by, EndpointPermission(op))
         /\ HasGateRow(w)
         /\ workflows[w].status \notin {"absent", "failed"}
         /\ approvals[d].decision = "absent"
         /\ \/ /\ dec[d].pending = NoOne
               /\ workflows[w].status # "awaiting_approval"
               /\ approvals' = [approvals EXCEPT ![d] = InsertedRow(d)]
            \/ /\ dec[d].pending = w
               /\ workflows'[w].status = TargetStatus(op)
               /\ approvals' = [approvals EXCEPT ![w] = UpdatedRow(@, d)]
         /\ workflows'[w].status \in {workflows[w].status, TargetStatus(op)}
         /\ workflows'[w].type = workflows[w].type
         /\ \A v \in Workflows \ {w} : workflows'[v] = workflows[v]
         /\ agentRuns' = agentRuns
         /\ audit' = audit \cup {[request |-> d, workflow |-> w,
                                  actor |-> dec[d].decided_by,
                                  action |-> Decision(op)]}
         /\ pc' = [pc EXCEPT ![d] = "committed"]
         /\ exec' = exec
         /\ dec' = dec
<1> DEFINE w == dec[d].workflow
           op == dec[d].op
<1> USE ParametersAssumption DEF Requests
<1>1. /\ pc[d] = "flushed"
      /\ DecisionSessionOK(d)
      /\ ReadingHolds(d)
  BY DEF CommitDecision, MayCommit, TablesInv, DecisionSessions, ReadingsHold
<1>2. /\ w \in Workflows
      /\ op \in Op
      /\ May(dec[d].decided_by, EndpointPermission(op))
  BY <1>1 DEF DecisionSessionOK
<1>3. /\ HasGateRow(w)
      /\ workflows[w].status \notin {"absent", "failed"}
      /\ IF dec[d].pending = NoOne
         THEN workflows[w].status # "awaiting_approval"
         ELSE dec[d].pending = w /\ dec[d].seen = "awaiting_approval"
  BY <1>1 DEF ReadingHolds
<1>4. approvals[d].decision = "absent"
  BY <1>1 DEF TablesInv, TablesAgree
<1>5. workflows' = IF ChangesStatus(d)
                   THEN [workflows EXCEPT ![w].status = TargetStatus(op)]
                   ELSE workflows
  BY DEF CommitDecision
<1>6. workflows \in [Workflows -> WorkflowRow]
  BY DEF TablesInv, TypeOK
<1>7. /\ workflows'[w].status = IF ChangesStatus(d) THEN TargetStatus(op)
                                                    ELSE workflows[w].status
      /\ workflows'[w].type = workflows[w].type
      /\ \A v \in Workflows \ {w} : workflows'[v] = workflows[v]
  BY <1>2, <1>5, <1>6 DEF WorkflowRow
<1>8. dec[d].seen = "awaiting_approval" => ChangesStatus(d)
  BY <1>2, DecisionValues DEF ChangesStatus
<1>9. NoOne \notin Workflows
  OBVIOUS
<1>10. approvals' = IF dec[d].pending = NoOne
                    THEN [approvals EXCEPT ![d] = InsertedRow(d)]
                    ELSE [approvals EXCEPT ![dec[d].pending] = UpdatedRow(@, d)]
  BY DEF CommitDecision
<1>11. /\ agentRuns' = agentRuns
       /\ audit' = audit \cup {[request |-> d, workflow |-> w,
                                actor |-> dec[d].decided_by,
                                action |-> Decision(op)]}
       /\ pc' = [pc EXCEPT ![d] = "committed"]
       /\ exec' = exec
       /\ dec' = dec
  BY DEF CommitDecision, Goto
<1> QED
  BY <1>2, <1>3, <1>4, <1>7, <1>8, <1>9, <1>10, <1>11

-----------------------------------------------------------------------------
(* What a session has read stays good while others commit, because the     *)
(* tables only move forward.                                               *)

Forward ==
  \A w \in Workflows :
    /\ workflows[w].status # "absent" => workflows'[w].status # "absent"
    /\ workflows[w].status \notin {"absent", "awaiting_approval"}
         => workflows'[w].status # "awaiting_approval"
    /\ workflows[w].status \notin {"absent", "failed"}
         => workflows'[w].status # "failed"
    /\ HasGateRow(w) => HasGateRow(w)'

LEMMA CommitStartForward ==
  ASSUME TablesInv, NEW w \in Workflows, CommitStart(w)
  PROVE  Forward
<1> USE ParametersAssumption DEF Requests
<1>1. /\ workflows \in [Workflows -> WorkflowRow]
      /\ approvals \in [Requests -> ApprovalRow]
  BY DEF TablesInv, TypeOK
<1>2. ASSUME NEW v \in Workflows \ {w} PROVE workflows'[v] = workflows[v]
  BY <1>1, CommitStartFacts
<1>3. ASSUME NEW v \in Workflows, HasGateRow(v) PROVE HasGateRow(v)'
  BY <1>1, <1>3, CommitStartFacts DEF HasGateRow, PendingRow
<1>4. workflows[w].status = "absent" /\ workflows'[w].status # "absent"
  BY <1>1, CommitStartFacts
<1>5. ~HasGateRow(w)
  BY <1>4 DEF TablesInv, TablesAgree
<1> QED
  BY <1>2, <1>3, <1>4 DEF Forward

LEMMA CommitDecisionForward ==
  ASSUME TablesInv, NEW d \in Deciders, CommitDecision(d)
  PROVE  Forward
<1> USE ParametersAssumption DEF Requests
<1> DEFINE w == dec[d].workflow
<1>1. /\ workflows \in [Workflows -> WorkflowRow]
      /\ approvals \in [Requests -> ApprovalRow]
  BY DEF TablesInv, TypeOK
<1>2. ASSUME NEW v \in Workflows, HasGateRow(v) PROVE HasGateRow(v)'
  <2>1. CASE approvals' = [approvals EXCEPT ![d] = InsertedRow(d)]
    BY <1>1, <1>2, <2>1 DEF HasGateRow
  <2>2. CASE approvals' = [approvals EXCEPT ![w] = UpdatedRow(@, d)]
    BY <1>1, <1>2, <2>2 DEF HasGateRow, UpdatedRow
  <2> QED
    BY <2>1, <2>2, CommitDecisionFacts
<1>3. TargetStatus(dec[d].op) \in {"completed", "rejected", "escalated"}
  BY CommitDecisionFacts, DecisionValues
<1>4. \A v \in Workflows \ {w} : workflows'[v] = workflows[v]
  BY CommitDecisionFacts
<1>5. workflows'[w].status \in {workflows[w].status, TargetStatus(dec[d].op)}
  BY CommitDecisionFacts
<1> QED
  BY <1>2, <1>3, <1>4, <1>5 DEF Forward

LEMMA OtherReadings ==
  ASSUME Forward, NEW e \in Deciders, ReadingHolds(e), DecisionSessionOK(e),
         dec'[e] = dec[e], pc'[e] = pc[e]
  PROVE  ReadingHolds(e)'
<1> DEFINE w == dec[e].workflow
<1>1. CASE pc[e] = "read"
  BY <1>1 DEF ReadingHolds, DecisionSessionOK, Forward, DECIDABLE
<1>2. CASE pc[e] \in {"loaded", "flushed"}
  <2>1. w \in Workflows
    BY <1>2 DEF DecisionSessionOK
  <2> QED
    BY <1>2, <2>1 DEF ReadingHolds, Forward, DECIDABLE
<1>3. CASE pc[e] \notin {"read", "loaded", "flushed"}
  BY <1>3 DEF ReadingHolds
<1> QED
  BY <1>1, <1>2, <1>3

LEMMA ReadWorkflowHolds ==
  ASSUME TablesInv, NEW e \in Deciders, ReadWorkflow(e)
  PROVE  ReadingHolds(e)'
<1> USE ParametersAssumption DEF Requests
<1> DEFINE w == dec[e].workflow
<1>1. /\ pc \in [Requests -> {"new"} \cup Live \cup Ended]
      /\ dec \in [Deciders -> DecisionSession]
      /\ w \in Workflows
  BY DEF TablesInv, TypeOK, DecisionSessions, DecisionSessionOK, ReadWorkflow
<1>2. CASE workflows[w].status = "absent"
  BY <1>1, <1>2 DEF ReadWorkflow, Refuse, Goto, ReadingHolds
<1>3. CASE workflows[w].status # "absent"
  <2>1. /\ pc'[e] = "read"
        /\ dec'[e].seen = workflows[w].status
        /\ dec'[e].workflow = w
        /\ workflows' = workflows /\ approvals' = approvals
    BY <1>1, <1>3 DEF ReadWorkflow, Goto, DecisionSession, tables
  <2>2. workflows[w].status \in DECIDABLE => HasGateRow(w)
    BY <1>1 DEF TablesInv, TablesAgree, DECIDABLE
  <2>3. HasGateRow(w)' <=> HasGateRow(w)
    BY <2>1 DEF HasGateRow
  <2> QED
    BY <1>3, <2>1, <2>2, <2>3 DEF ReadingHolds, HasGateRow, DECIDABLE
<1> QED
  BY <1>2, <1>3

LEMMA ReadApprovalsHolds ==
  ASSUME TablesInv, NEW e \in Deciders, ReadApprovals(e)
  PROVE  ReadingHolds(e)'
<1> USE ParametersAssumption DEF Requests
<1> DEFINE w == dec[e].workflow
<1>1. /\ pc \in [Requests -> {"new"} \cup Live \cup Ended]
      /\ dec \in [Deciders -> DecisionSession]
      /\ w \in Workflows
      /\ pc[e] = "read"
      /\ ReadingHolds(e)
  BY DEF TablesInv, TypeOK, DecisionSessions, DecisionSessionOK, ReadApprovals,
         ReadingsHold
<1>2. CASE dec[e].seen \notin DECIDABLE
  BY <1>1, <1>2 DEF ReadApprovals, Refuse, Goto, ReadingHolds
<1>3. CASE dec[e].seen \in DECIDABLE
  <2>1. /\ HasGateRow(w)
        /\ workflows[w].status \notin {"absent", "failed"}
        /\ dec[e].seen = "escalated" => workflows[w].status # "awaiting_approval"
    BY <1>1, <1>3 DEF ReadingHolds
  <2>2. PendingRowsOf(w) = IF workflows[w].status = "awaiting_approval"
                           THEN {w} ELSE {}
    BY <1>1 DEF TablesInv, OnePendingRow
  <2>3. PICK p \in IF PendingRowsOf(w) = {} THEN {NoOne} ELSE PendingRowsOf(w) :
               dec' = [dec EXCEPT ![e].pending = p]
    BY <1>3 DEF ReadApprovals
  <2>4. IF p = NoOne THEN workflows[w].status # "awaiting_approval"
                     ELSE p = w /\ dec[e].seen = "awaiting_approval"
    BY <1>1, <1>3, <2>1, <2>2, <2>3 DEF DECIDABLE
  <2>5. /\ pc'[e] = "loaded"
        /\ dec'[e].seen = dec[e].seen
        /\ dec'[e].workflow = w
        /\ dec'[e].pending = p
        /\ workflows' = workflows /\ approvals' = approvals
    BY <1>1, <1>3, <2>3 DEF ReadApprovals, Goto, DecisionSession, tables
  <2>6. HasGateRow(w)'
    BY <2>1, <2>5 DEF HasGateRow
  <2> QED
    BY <1>3, <2>1, <2>4, <2>5, <2>6 DEF ReadingHolds, HasGateRow
<1> QED
  BY <1>2, <1>3

LEMMA ReadingsStep ==
  ASSUME TablesInv, [Next]_vars
  PROVE  ReadingsHold'
<1> SUFFICES ASSUME NEW e \in Deciders PROVE ReadingHolds(e)'
  BY DEF ReadingsHold
<1> USE ParametersAssumption DEF Requests
<1>1. /\ ReadingHolds(e)
      /\ DecisionSessionOK(e)
      /\ pc \in [Requests -> {"new"} \cup Live \cup Ended]
      /\ dec \in [Deciders -> DecisionSession]
  BY DEF TablesInv, ReadingsHold, DecisionSessions, TypeOK
<1>2. ASSUME UNCHANGED tables, UNCHANGED <<dec[e], pc[e]>>
      PROVE  ReadingHolds(e)'
  BY <1>1, <1>2, OtherReadings DEF Forward, HasGateRow, tables
<1>3. ASSUME NEW w \in Workflows, CommitStart(w) PROVE ReadingHolds(e)'
  BY <1>1, <1>3, CommitStartFacts, CommitStartForward, OtherReadings
<1>4. ASSUME NEW d \in Deciders, CommitDecision(d) PROVE ReadingHolds(e)'
  <2>1. CASE d = e
    BY <1>1, <1>4, <2>1, CommitDecisionFacts DEF ReadingHolds
  <2>2. CASE d # e
    BY <1>1, <1>4, <2>2, CommitDecisionFacts, CommitDecisionForward, OtherReadings
  <2> QED
    BY <2>1, <2>2
<1>5. ASSUME Decide(e) \/ RefuseDecision(e) \/ Rollback(e)
      PROVE  ReadingHolds(e)'
  BY <1>1, <1>5 DEF Decide, RefuseDecision, Rollback, Refuse, Goto, ReadingHolds
<1>6. ASSUME FlushDecision(e) PROVE ReadingHolds(e)'
  BY <1>1, <1>6 DEF FlushDecision, Goto, ReadingHolds, HasGateRow, tables
<1>7. \/ UNCHANGED tables /\ UNCHANGED <<dec[e], pc[e]>>
      \/ \E w \in Workflows : CommitStart(w)
      \/ \E d \in Deciders : CommitDecision(d)
      \/ Decide(e) \/ RefuseDecision(e) \/ Rollback(e)
      \/ ReadWorkflow(e) \/ ReadApprovals(e) \/ FlushDecision(e)
  <2> USE DEF Goto, Answer, Refuse, tables
  <2>1. ASSUME NEW d \in Deciders \ {e},
               \/ Decide(d) \/ RefuseDecision(d) \/ ReadWorkflow(d)
               \/ ReadApprovals(d) \/ FlushDecision(d)
        PROVE  UNCHANGED tables /\ UNCHANGED <<dec[e], pc[e]>>
    BY <1>1, <2>1 DEF Decide, RefuseDecision, ReadWorkflow, ReadApprovals,
                      FlushDecision
  <2>2. ASSUME NEW w \in Workflows,
               \/ StartWorkflow(w) \/ RefuseStart(w) \/ RunStep(w)
               \/ FinishStart(w)
        PROVE  UNCHANGED tables /\ UNCHANGED <<dec[e], pc[e]>>
    BY <1>1, <2>2 DEF StartWorkflow, RefuseStart, RunStep, FinishStart
  <2>3. ASSUME NEW r \in Requests,
               Respond(r) \/ LoseAnswer(r) \/ (Rollback(r) /\ r # e)
        PROVE  UNCHANGED tables /\ UNCHANGED <<dec[e], pc[e]>>
    BY <1>1, <2>3 DEF Respond, LoseAnswer, Rollback
  <2>4. CASE UNCHANGED vars
    BY <2>4 DEF vars
  <2> QED
    BY <2>1, <2>2, <2>3, <2>4 DEF Next, ServeStart, ServeDecision
<1> QED
  BY <1>2, <1>3, <1>4, <1>5, <1>6, <1>7, ReadWorkflowHolds, ReadApprovalsHolds

-----------------------------------------------------------------------------
(* What the tables promise, after a start request's commit.  Its workflow  *)
(* and its row are new, and nothing else changes.                          *)

LEMMA CommitStartTables ==
  ASSUME TablesInv, NEW w \in Workflows, CommitStart(w)
  PROVE  /\ TablesAgree'
         /\ AuditByReviewers'
         /\ OnePendingRow'
         /\ StatusBacked'
         /\ DecisionsAudited'
<1> USE ParametersAssumption DEF Requests
<1>1. /\ workflows \in [Workflows -> WorkflowRow]
      /\ agentRuns \in [Workflows -> Seq(RunOutcome)]
      /\ approvals \in [Requests -> ApprovalRow]
      /\ audit \subseteq AuditEntry
      /\ pc \in [Requests -> {"new"} \cup Live \cup Ended]
  BY DEF TablesInv, TypeOK
<1> DEFINE gated == exec[w].status = "awaiting_approval"
<1>2. /\ workflows'[w].type = exec[w].type
      /\ workflows'[w].status = exec[w].status
      /\ exec[w].status \in {"failed", "awaiting_approval", "completed"}
      /\ agentRuns'[w] = exec[w].runs
      /\ pc'[w] = "committed"
      /\ \A v \in Workflows \ {w} :
           workflows'[v] = workflows[v] /\ agentRuns'[v] = agentRuns[v]
      /\ \A r \in Requests \ {w} :
           approvals'[r] = approvals[r] /\ pc'[r] = pc[r]
  BY <1>1, CommitStartFacts
<1>3. /\ gated => /\ approvals'[w].workflow = w
                  /\ approvals'[w].decision = "pending"
      /\ ~gated => approvals'[w] = approvals[w]
  BY <1>1, CommitStartFacts DEF PendingRow
<1>4. /\ workflows[w].status = "absent"
      /\ pc[w] # "committed"
      /\ \A r \in Requests : approvals[r].workflow # w
      /\ approvals[w].workflow = NoOne
      /\ approvals[w].decision = "absent"
  BY <1>1, CommitStartFacts DEF TablesInv, TablesAgree, RowsOf
<1>5. TablesAgree'
  <2>1. NeedsHuman(w)' => exec[w].status # "completed"
    BY <1>2, CommitStartFacts DEF NeedsHuman, FinalStatus, NeedsApproval, Came
  <2>2. ASSUME NEW v \in Workflows
        PROVE  /\ workflows'[v].status = "absent" <=> pc'[v] # "committed"
               /\ pc'[v] = "committed" => workflows'[v].type = exec'[v].type
               /\ pc'[v] = "committed" => agentRuns'[v] = exec'[v].runs
               /\ approvals'[v].workflow \in {v, NoOne}
               /\ workflows'[v].status \in {"awaiting_approval", "rejected",
                                            "escalated"} => HasGateRow(v)'
               /\ workflows'[v].status = "completed" /\ NeedsHuman(v)'
                    => HasGateRow(v)'
               /\ HasGateRow(v)' => workflows'[v].status \notin {"absent", "failed"}
    <3>1. CASE v = w
      BY <1>2, <1>3, <1>4, <2>1, <3>1, CommitStartFacts DEF HasGateRow
    <3>2. CASE v # w
      BY <1>2, <3>2, CommitStartFacts DEF TablesInv, TablesAgree, HasGateRow,
         NeedsHuman, Came
    <3> QED
      BY <3>1, <3>2
  <2>3. \A r \in Requests :
          approvals'[r].workflow = NoOne <=> approvals'[r].decision = "absent"
    BY <1>2, <1>3 DEF TablesInv, TablesAgree
  <2>4. ASSUME NEW d \in Deciders
        PROVE  /\ approvals'[d].decision # "pending"
               /\ approvals'[d].decision # "absent" =>
                    pc'[d] = "committed" /\ HasGateRow(approvals[d].workflow)'
                    /\ approvals'[d].workflow = approvals[d].workflow
    <3>1. approvals'[d] = approvals[d] /\ pc'[d] = pc[d]
      BY <1>2
    <3>2. approvals[d].decision # "pending"
      BY DEF TablesInv, TablesAgree
    <3>3. ASSUME approvals[d].decision # "absent"
          PROVE  pc[d] = "committed" /\ HasGateRow(approvals[d].workflow)'
      <4> DEFINE x == approvals[d].workflow
      <4>1. pc[d] = "committed" /\ HasGateRow(x) /\ x # NoOne
        BY <3>3 DEF TablesInv, TablesAgree
      <4>2. approvals[d] \in ApprovalRow
        BY <1>1
      <4>3. x \in Workflows
        BY <4>1, <4>2 DEF ApprovalRow
      <4>4. approvals'[x] = approvals[x]
        BY <1>2, <1>4, <4>3
      <4> QED
        BY <3>1, <4>1, <4>4 DEF HasGateRow
    <3> QED
      BY <3>1, <3>2, <3>3
  <2> QED
    BY <2>2, <2>3, <2>4 DEF TablesAgree, HasGateRow
<1>6. AuditByReviewers'
  BY <1>1, <1>2, CommitStartFacts DEF TablesInv, AuditByReviewers, May, AuditEntry
<1>7. OnePendingRow'
  <2>1. PendingRowsOf(w)' = IF gated THEN {w} ELSE {}
    BY <1>2, <1>3, <1>4 DEF PendingRowsOf
  <2>2. ASSUME NEW v \in Workflows \ {w} PROVE PendingRowsOf(v)' = PendingRowsOf(v)
    BY <1>2, <1>3, <1>4 DEF PendingRowsOf
  <2> QED
    BY <1>2, <2>1, <2>2 DEF TablesInv, OnePendingRow
<1>8. StatusBacked'
  <2>1. RowsOf(w)' \subseteq {w} /\ (~gated => RowsOf(w)' = {})
    BY <1>2, <1>3, <1>4 DEF RowsOf
  <2>2. ASSUME NEW v \in Workflows \ {w}
        PROVE  RowsOf(v)' = RowsOf(v) /\ w \notin RowsOf(v)
    BY <1>2, <1>3, <1>4 DEF RowsOf
  <2> QED
    BY <1>2, <2>1, <2>2 DEF TablesInv, StatusBacked, RowsOf
<1>9. DecisionsAudited'
  BY <1>2, <1>3, <1>4, CommitStartFacts DEF TablesInv, DecisionsAudited, Decided
<1> QED
  BY <1>5, <1>6, <1>7, <1>8, <1>9

-----------------------------------------------------------------------------
(* And after a decision's commit: one row t of the workflow, the gate row  *)
(* or a new one, becomes the decision.                                     *)

LEMMA DecidedRow ==
  ASSUME TablesInv, NEW d \in Deciders, CommitDecision(d),
         NEW w \in Workflows, w = dec[d].workflow
  PROVE  \E t \in {w, d} :
           /\ t = d => workflows[w].status # "awaiting_approval"
           /\ t = w => workflows'[w].status = TargetStatus(dec[d].op)
           /\ approvals'[t].workflow = w
           /\ approvals'[t].decision = Decision(dec[d].op)
           /\ approvals'[t].decided_by = dec[d].decided_by
           /\ \A r \in Requests \ {t} : approvals'[r] = approvals[r]
<1> USE ParametersAssumption DEF Requests
<1>1. /\ approvals \in [Requests -> ApprovalRow]
      /\ approvals[w].workflow = w
  BY CommitDecisionFacts DEF TablesInv, TypeOK, HasGateRow
<1>2. CASE dec[d].pending = NoOne
  <2>1. /\ workflows[w].status # "awaiting_approval"
        /\ approvals' = [approvals EXCEPT ![d] = InsertedRow(d)]
    BY <1>1, <1>2, CommitDecisionFacts
  <2> WITNESS d \in {w, d}
  <2> QED
    BY <1>1, <2>1 DEF InsertedRow
<1>3. CASE dec[d].pending # NoOne
  <2>1. /\ workflows'[w].status = TargetStatus(dec[d].op)
        /\ approvals' = [approvals EXCEPT ![w] = UpdatedRow(@, d)]
    BY <1>3, CommitDecisionFacts
  <2> WITNESS w \in {w, d}
  <2> QED
    BY <1>1, <2>1 DEF UpdatedRow
<1> QED
  BY <1>2, <1>3

LEMMA CommitDecisionTables ==
  ASSUME TablesInv, NEW d \in Deciders, CommitDecision(d)
  PROVE  /\ TablesAgree'
         /\ AuditByReviewers'
         /\ OnePendingRow'
         /\ StatusBacked'
         /\ DecisionsAudited'
<1> USE ParametersAssumption DEF Requests
<1>0. PICK w \in Workflows, op \in Op, u \in Users :
        w = dec[d].workflow /\ op = dec[d].op /\ u = dec[d].decided_by
  BY CommitDecisionFacts DEF TablesInv, DecisionSessions, DecisionSessionOK,
     CommitDecision, MayCommit
<1> DEFINE entry == [request |-> d, workflow |-> w, actor |-> u,
                     action |-> Decision(op)]
<1>1. /\ approvals \in [Requests -> ApprovalRow]
      /\ audit \subseteq AuditEntry
      /\ pc \in [Requests -> {"new"} \cup Live \cup Ended]
  BY DEF TablesInv, TypeOK
<1>2. /\ HasGateRow(w)
      /\ workflows[w].status \notin {"absent", "failed"}
      /\ approvals[d].decision = "absent"
      /\ workflows'[w].status \in {workflows[w].status, TargetStatus(op)}
      /\ workflows'[w].type = workflows[w].type
      /\ \A v \in Workflows \ {w} : workflows'[v] = workflows[v]
      /\ agentRuns' = agentRuns /\ exec' = exec
      /\ audit' = audit \cup {entry}
      /\ pc'[d] = "committed"
      /\ \A r \in Requests \ {d} : pc'[r] = pc[r]
  BY <1>0, <1>1, CommitDecisionFacts
<1>3. PICK t \in {w, d} :
        /\ t = d => workflows[w].status # "awaiting_approval"
        /\ t = w => workflows'[w].status = TargetStatus(op)
        /\ approvals'[t].workflow = w
        /\ approvals'[t].decision = Decision(op)
        /\ approvals'[t].decided_by = u
        /\ \A r \in Requests \ {t} : approvals'[r] = approvals[r]
  BY <1>0, DecidedRow
<1>4. /\ Decision(op) \in Decided
      /\ TargetStatus(op) \in {"completed", "rejected", "escalated"}
      /\ TargetStatus(op) = IF Decision(op) = "approved" THEN "completed"
                                                         ELSE Decision(op)
      /\ Decision(op) = "approved" <=> op = "approve"
  BY DecisionValues
<1>5. approvals[d].workflow = NoOne
  BY <1>2 DEF TablesInv, TablesAgree
<1>6. TablesAgree'
  <2>1. ASSUME NEW v \in Workflows PROVE HasGateRow(v)' <=> HasGateRow(v)
    BY <1>2, <1>3, <2>1 DEF HasGateRow
  <2>2. ASSUME NEW v \in Workflows PROVE NeedsHuman(v)' <=> NeedsHuman(v)
    BY <1>2 DEF NeedsHuman, Came
  <2>3. ASSUME NEW v \in Workflows
        PROVE  /\ workflows'[v].status = "absent" <=> pc'[v] # "committed"
               /\ pc'[v] = "committed" => workflows'[v].type = exec'[v].type
               /\ pc'[v] = "committed" => agentRuns'[v] = exec'[v].runs
               /\ approvals'[v].workflow \in {v, NoOne}
               /\ workflows'[v].status \in {"awaiting_approval", "rejected",
                                            "escalated"} => HasGateRow(v)
               /\ workflows'[v].status = "completed" /\ NeedsHuman(v)
                    => HasGateRow(v)
               /\ HasGateRow(v) => workflows'[v].status \notin {"absent", "failed"}
    <3>1. CASE v = w
      BY <1>2, <1>3, <1>4, <3>1 DEF TablesInv, TablesAgree, HasGateRow
    <3>2. CASE v # w
      BY <1>2, <1>3, <3>2 DEF TablesInv, TablesAgree
    <3> QED
      BY <3>1, <3>2
  <2>4. \A r \in Requests :
          approvals'[r].workflow = NoOne <=> approvals'[r].decision = "absent"
    BY <1>2, <1>3, <1>4 DEF TablesInv, TablesAgree, Decided
  <2>5. ASSUME NEW e \in Deciders
        PROVE  /\ approvals'[e].decision # "pending"
               /\ approvals'[e].decision # "absent" =>
                    /\ pc'[e] = "committed"
                    /\ HasGateRow(approvals[e].workflow)'
    <3>1. CASE e = t
      <4>1. approvals'[e].workflow = w /\ HasGateRow(w)'
        BY <1>2, <1>3, <2>1, <3>1
      <4>2. e = d /\ approvals'[e].decision # "pending"
        BY <1>3, <1>4, <3>1 DEF Decided
      <4> QED
        BY <1>2, <4>1, <4>2 DEF HasGateRow
    <3>2. CASE e # t
      <4> DEFINE x == approvals[e].workflow
      <4>1. approvals'[e] = approvals[e]
        BY <1>3, <3>2
      <4>2. approvals[e].decision # "pending"
        BY DEF TablesInv, TablesAgree
      <4>3. ASSUME approvals[e].decision # "absent"
            PROVE  pc[e] = "committed" /\ HasGateRow(x) /\ x \in Workflows
        <5>1. pc[e] = "committed" /\ HasGateRow(x) /\ x # NoOne
          BY <4>3 DEF TablesInv, TablesAgree
        <5>2. approvals[e] \in ApprovalRow
          BY <1>1
        <5> QED
          BY <5>1, <5>2 DEF ApprovalRow
      <4> QED
        <5>1. approvals[e].decision # "absent" => approvals'[x].workflow = x
          BY <2>1, <4>3 DEF HasGateRow
        <5> QED
          BY <1>2, <4>1, <4>2, <4>3, <5>1 DEF HasGateRow
    <3> QED
      BY <3>1, <3>2
  <2> QED
    BY <2>1, <2>2, <2>3, <2>4, <2>5 DEF TablesAgree, HasGateRow
<1>7. AuditByReviewers'
  <2>1. Decision(op) = "approved" => May(u, "workflow:approve")
    BY <1>0, <1>4, CommitDecisionFacts DEF EndpointPermission
  <2> QED
    BY <1>1, <1>2, <2>1 DEF TablesInv, AuditByReviewers, May, AuditEntry
<1>8. OnePendingRow'
  <2>1. workflows'[w].status # "awaiting_approval"
    BY <1>3, <1>4, <1>2
  <2>2. \A r \in Requests \ {t} : approvals[r].workflow = w
                                    => approvals[r].decision # "pending"
    <3>1. PendingRowsOf(w) \subseteq {t}
      BY <1>2, <1>3 DEF TablesInv, OnePendingRow
    <3> QED
      BY <3>1 DEF PendingRowsOf
  <2>3. PendingRowsOf(w)' = {}
    BY <1>3, <1>4, <2>2 DEF PendingRowsOf, Decided
  <2>4. ASSUME NEW v \in Workflows \ {w} PROVE PendingRowsOf(v)' = PendingRowsOf(v)
    BY <1>2, <1>3, <1>5 DEF PendingRowsOf, HasGateRow
  <2> QED
    BY <1>2, <2>1, <2>3, <2>4 DEF TablesInv, OnePendingRow
<1>9. StatusBacked'
  <2>1. ASSUME NEW v \in Workflows \ {w}
        PROVE  RowsOf(v)' = RowsOf(v) /\ t \notin RowsOf(v)
    BY <1>2, <1>3, <1>5 DEF RowsOf, HasGateRow
  <2>2. t \in RowsOf(w)'
    BY <1>2, <1>3 DEF RowsOf
  <2>3. CASE workflows'[w].status = TargetStatus(op)
    <3>1. /\ workflows'[w].status \in {"rejected", "escalated"}
               => approvals'[t].decision = workflows'[w].status
          /\ workflows'[w].status = "completed"
               => approvals'[t].decision = "approved"
      BY <1>3, <1>4, <2>3 DEF Decided
    <3>2. ASSUME NEW v \in Workflows \ {w}, NEW r \in RowsOf(v)
          PROVE  approvals'[r] = approvals[r]
      BY <1>3, <2>1, <3>2 DEF RowsOf
    <3> QED
      BY <1>2, <2>1, <2>2, <3>1, <3>2 DEF TablesInv, StatusBacked
  <2>4. CASE workflows'[w].status # TargetStatus(op)
    <3>1. t = d /\ workflows'[w].status = workflows[w].status
      BY <1>2, <1>3, <2>4
    <3>2. w \in RowsOf(w)
      BY <1>2 DEF RowsOf, HasGateRow
    <3>3. \A r \in RowsOf(w) : r \in RowsOf(w)' /\ approvals'[r] = approvals[r]
      BY <1>3, <1>5, <1>2, <3>1 DEF RowsOf
    <3> QED
      BY <1>2, <1>3, <2>1, <3>1, <3>2, <3>3 DEF TablesInv, StatusBacked, RowsOf
  <2> QED
    BY <2>3, <2>4
<1>10. DecisionsAudited'
  <2>1. ASSUME NEW r \in Requests \ {t}, approvals'[r].decision \in Decided
        PROVE  \E e \in audit' : /\ e.workflow = approvals'[r].workflow
                                 /\ e.action = approvals'[r].decision
                                 /\ e.actor = approvals'[r].decided_by
    BY <1>2, <1>3, <2>1 DEF TablesInv, DecisionsAudited
  <2>2. \E e \in audit' : /\ e.workflow = approvals'[t].workflow
                          /\ e.action = approvals'[t].decision
                          /\ e.actor = approvals'[t].decided_by
    <3>1. /\ entry \in audit'
          /\ entry.workflow = w /\ entry.action = Decision(op) /\ entry.actor = u
      BY <1>2
    <3> QED
      BY <1>3, <3>1
  <2> QED
    BY <2>1, <2>2 DEF DecisionsAudited
<1> QED
  BY <1>6, <1>7, <1>8, <1>9, <1>10

-----------------------------------------------------------------------------
(* The invariant is inductive.                                             *)

LEMMA TablesInvStep == TablesInv /\ [Next]_vars => TablesInv'
<1> SUFFICES ASSUME TablesInv, [Next]_vars PROVE TablesInv'
  OBVIOUS
<1>1. /\ TypeOK'
      /\ StartSessions'
      /\ DecisionSessions'
      /\ ReadingsHold'
  BY TypeOKStep, StartSessionsStep, DecisionSessionsStep, ReadingsStep
<1>2. /\ TablesAgree'
      /\ AuditByReviewers'
      /\ OnePendingRow'
      /\ StatusBacked'
      /\ DecisionsAudited'
  <2>1. CASE Next
    BY <2>1, QuietSteps, QuietKeepsTables, CommitStartTables,
       CommitDecisionTables DEF Next, ServeStart, ServeDecision, Requests
  <2>2. CASE UNCHANGED vars
    BY <2>2, QuietKeepsTables DEF vars, Quiet, tables
  <2> QED
    BY <2>1, <2>2
<1> QED
  BY <1>1, <1>2 DEF TablesInv

LEMMA TablesInvariance == Spec => []TablesInv
BY InitTablesInv, TablesInvStep, PTL DEF Spec

(* Every variable of the model keeps its type: what the code writes to the *)
(* status, kind, decision and permission columns stays in their enums.     *)
THEOREM TypeCorrect == Spec => []TypeOK
BY TablesInvariance, PTL DEF TablesInv

(* _decide may take the first pending row: a workflow awaiting approval    *)
(* has exactly one, any other has none, however many decisions race.       *)
THEOREM OnePendingRowHolds == Spec => []OnePendingRow
BY TablesInvariance, PTL DEF TablesInv

(* The status column is backed by the approvals table: racing decisions    *)
(* overwrite each other in both tables or in neither.                      *)
THEOREM StatusBackedHolds == Spec => []StatusBacked
BY TablesInvariance, PTL DEF TablesInv

(* A decided row names one who took that decision, and the audit trail     *)
(* says so.                                                                *)
THEOREM DecisionsAuditedHolds == Spec => []DecisionsAudited
BY TablesInvariance, PTL DEF TablesInv

LEMMA GateFromInvariant == TablesInv => HumanGate
<1> SUFFICES ASSUME TablesInv, NEW w \in Workflows,
                    workflows[w].status = "completed", NeedsHuman(w)
             PROVE  \E e \in audit : /\ e.workflow = w
                                     /\ e.action = "approved"
                                     /\ "workflow:approve" \in Permissions(e.actor)
  BY DEF HumanGate
<1>1. w \in RowsOf(w)
  BY DEF TablesInv, TablesAgree, HasGateRow, RowsOf, Requests
<1>2. PICK r \in RowsOf(w) : approvals[r].decision = "approved"
  BY <1>1 DEF TablesInv, StatusBacked
<1>3. PICK e \in audit : /\ e.workflow = approvals[r].workflow
                         /\ e.action = approvals[r].decision
  BY <1>2 DEF TablesInv, DecisionsAudited, RowsOf, Decided
<1>4. May(e.actor, "workflow:approve")
  BY <1>2, <1>3 DEF TablesInv, AuditByReviewers
<1> QED
  BY <1>2, <1>3, <1>4 DEF RowsOf, May, Permissions

(* A gated or flagged workflow is completed only by an audited approval of *)
(* a user who holds workflow:approve: start never completes it, and every  *)
(* path through _decide that does leaves the entry.                        *)
THEOREM HumanGateHolds == Spec => []HumanGate
BY TablesInvariance, GateFromInvariant, PTL

LEMMA MachineOutcomeStep ==
  ASSUME TablesInv, [Next]_vars, NEW w \in Workflows,
         \/ workflows[w].status = "failed"
         \/ workflows[w].status = "completed" /\ RowsOf(w) = {}
  PROVE  workflows'[w] = workflows[w] /\ RowsOf(w)' = RowsOf(w)
<1> USE ParametersAssumption DEF Requests
<1>1. /\ workflows \in [Workflows -> WorkflowRow]
      /\ approvals \in [Requests -> ApprovalRow]
      /\ w \notin RowsOf(w)
  BY DEF TablesInv, TypeOK, RowsOf, TablesAgree, HasGateRow
<1>2. ASSUME NEW v \in Workflows, CommitStart(v)
      PROVE  workflows'[w] = workflows[w] /\ RowsOf(w)' = RowsOf(w)
  <2>1. v # w /\ approvals[v].workflow = NoOne
    BY <1>2, CommitStartFacts DEF TablesInv, TablesAgree
  <2> QED
    BY <1>1, <1>2, <2>1, CommitStartFacts DEF RowsOf, PendingRow
<1>3. ASSUME NEW d \in Deciders, CommitDecision(d)
      PROVE  workflows'[w] = workflows[w] /\ RowsOf(w)' = RowsOf(w)
  <2>1. PICK v \in Workflows : v = dec[d].workflow
    BY <1>3, CommitDecisionFacts
  <2>2. /\ workflows[v].status # "failed"
        /\ v \in RowsOf(v)
        /\ approvals[d].workflow = NoOne
    BY <1>3, <2>1, CommitDecisionFacts DEF RowsOf, HasGateRow, TablesInv, TablesAgree
  <2>3. v # w
    BY <2>2
  <2>4. PICK t \in {v, d} :
          /\ approvals'[t].workflow = v
          /\ \A r \in Requests \ {t} : approvals'[r] = approvals[r]
    BY <1>3, <2>1, DecidedRow
  <2>5. approvals[t].workflow # w
    BY <2>2, <2>3, <2>4 DEF RowsOf
  <2> QED
    BY <1>3, <2>1, <2>3, <2>4, <2>5, CommitDecisionFacts DEF RowsOf
<1>4. CASE UNCHANGED tables
  BY <1>4 DEF tables, RowsOf
<1>5. \/ UNCHANGED tables
      \/ \E v \in Workflows : CommitStart(v)
      \/ \E d \in Deciders : CommitDecision(d)
  BY QuietSteps DEF Next, ServeStart, ServeDecision, Quiet, vars, tables
<1> QED
  BY <1>2, <1>3, <1>4, <1>5

(* No decision touches what the machine settled alone: the guard of        *)
(* _decide on the status it read keeps failed and automatically completed  *)
(* workflows out, although that status may be stale when it is used.       *)
THEOREM MachineOutcomeIsFinal == Spec => MachineOutcomeFinal
<1>1. TablesInv /\ [Next]_vars =>
        [\A w \in Workflows :
           \/ workflows[w].status = "failed"
           \/ workflows[w].status = "completed" /\ RowsOf(w) = {}
           => workflows'[w] = workflows[w] /\ RowsOf(w)' = RowsOf(w)]_vars
  BY MachineOutcomeStep
<1> QED
  BY <1>1, TablesInvariance, PTL DEF Spec, MachineOutcomeFinal

=============================================================================
