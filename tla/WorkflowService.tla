--------------------------- MODULE WorkflowService ---------------------------
(***************************************************************************)
(* The human-in-the-loop workflow engine: services/workflow_service.py     *)
(* under its endpoints (api/v1/workflows.py), over the tables it writes    *)
(* and the transaction every request runs in (api/deps.py, session_dep).   *)
(*                                                                         *)
(* Several API processes serve requests concurrently.  Each request has    *)
(* one database transaction of its own, at the default isolation level of  *)
(* the production database (READ COMMITTED): a SELECT sees what is         *)
(* committed when that statement runs, nothing is read FOR UPDATE, and no  *)
(* table has a version column.  So the state is split in two: the tables,  *)
(* which hold committed rows only, and what each request's session holds   *)
(* in memory until its COMMIT.                                             *)
(*                                                                         *)
(* A start request creates at most one workflow, hence a workflow is named *)
(* by the request that creates it; an approvals row is named by the        *)
(* request that inserts it (a request inserts at most one).                *)
(*                                                                         *)
(* A definition marked "variant" is no part of the model: it stands before *)
(* the definition it distorts, and shows that a property notices.          *)
(***************************************************************************)
EXTENDS Naturals, Sequences, Plans, Rbac

CONSTANTS
  Workflows,    \* the start requests, and the workflows they create
  Deciders,     \* the approve, reject and escalate requests
  Users,        \* the callers of either kind of request
  RolesOf,      \* the roles in a caller's access token
  StartTypes,   \* bound: the workflow types that are started
  Reasoned,     \* bound: whether a decision's body carries a reason
  AnswerFirst,  \* whether the web framework answers before session_dep commits
  NoOne         \* no request, no user, no text

Requests == Workflows \cup Deciders

ASSUME ParametersAssumption ==
  /\ Workflows \cap Deciders = {}
  /\ NoOne \notin Requests \cup Users
  /\ StartTypes \subseteq WorkflowType
  /\ Reasoned \subseteq BOOLEAN
  /\ AnswerFirst \in BOOLEAN

VARIABLES
  workflows,    \* table: workflows[w] is the row of workflow w
  agentRuns,    \* table: agentRuns[w] are the agent_runs of w, in step order
  approvals,    \* table: approvals[r] is the row request r inserted
  audit,        \* table: the audit_logs rows on workflows
  pc,           \* pc[r] is how far request r has got
  answer,       \* answer[r] is what the caller of request r has been told
  exec,         \* exec[w] is what the session of start request w holds
  dec           \* dec[d] is what the session of decision request d holds

tables == <<workflows, agentRuns, approvals, audit>>
vars == <<workflows, agentRuns, approvals, audit, pc, answer, exec, dec>>

-----------------------------------------------------------------------------
(* Rows and sessions.                                                      *)

Op == {"approve", "reject", "escalate"}
Decided == {"approved", "rejected", "escalated"}
Status == {"absent", "awaiting_approval", "completed", "rejected",
           "escalated", "failed"}
DECIDABLE_WithFailed == {"awaiting_approval", "escalated", "failed"}  \* variant
DECIDABLE_WithRejected == {"awaiting_approval", "escalated", "rejected"}  \* variant
DECIDABLE_AwaitingOnly == {"awaiting_approval"}                       \* variant
DECIDABLE == {"awaiting_approval", "escalated"}

WorkflowRow == [type : WorkflowType \cup {"none"}, status : Status]

ApprovalRow ==
  [workflow : Workflows \cup {NoOne},
   kind : {"none", "approval", "rejection", "escalation"},
   decision : {"absent", "pending"} \cup Decided,
   decided_by : Users \cup {NoOne},
   reason : Deciders \cup {NoOne},          \* the request whose text it holds
   required_permission : Permission \cup {"none"}]

AuditEntry ==
  [request : Requests, workflow : Workflows, actor : Users,
   action : {"failed", "awaiting_approval", "completed"} \cup Decided]

NoWorkflow == [type |-> "none", status |-> "absent"]

NoApproval == [workflow |-> NoOne, kind |-> "none", decision |-> "absent",
               decided_by |-> NoOne, reason |-> NoOne,
               required_permission |-> "none"]

(* How far a request has got.  A request in Live has an open transaction.  *)
Live == {"open", "begun", "read", "loaded", "flushed"}
Ended == {"refused", "rolledback", "committed"}

StartSession == [type : WorkflowType \cup {"none"}, created_by : Users \cup {NoOne},
                 runs : Seq(RunOutcome), status : Status]

DecisionSession == [workflow : Workflows \cup {NoOne}, op : Op \cup {"none"},
                    decided_by : Users \cup {NoOne}, reasoned : BOOLEAN,
                    seen : Status, pending : Requests \cup {NoOne}]

NoStart == [type |-> "none", created_by |-> NoOne, runs |-> <<>>,
            status |-> "absent"]

NoDecision == [workflow |-> NoOne, op |-> "none", decided_by |-> NoOne,
               reasoned |-> FALSE, seen |-> "absent", pending |-> NoOne]

TypeOK ==
  /\ workflows \in [Workflows -> WorkflowRow]
  /\ agentRuns \in [Workflows -> Seq(RunOutcome)]
  /\ approvals \in [Requests -> ApprovalRow]
  /\ audit \subseteq AuditEntry
  /\ pc \in [Requests -> {"new"} \cup Live \cup Ended]
  /\ answer \in [Requests -> {"none", "ok", "failed", "forbidden", "not_found",
                              "conflict"}]
  /\ exec \in [Workflows -> StartSession]
  /\ dec \in [Deciders -> DecisionSession]

Init ==
  /\ workflows = [w \in Workflows |-> NoWorkflow]
  /\ agentRuns = [w \in Workflows |-> <<>>]
  /\ approvals = [r \in Requests |-> NoApproval]
  /\ audit = {}
  /\ pc = [r \in Requests |-> "new"]
  /\ answer = [r \in Requests |-> "none"]
  /\ exec = [w \in Workflows |-> NoStart]
  /\ dec = [d \in Deciders |-> NoDecision]

-----------------------------------------------------------------------------
(* What every request shares.                                              *)

(* Principal.from_claims resolves the token's roles to permissions;        *)
(* require_permissions refuses with 403 before the endpoint runs.          *)
May(u, p) == p \in PermissionsForRoles(RolesOf[u])

Goto(r, to) == pc' = [pc EXCEPT ![r] = to]

Answer(r, a) == answer' = [answer EXCEPT ![r] = a]

(* An error the service raises on purpose: session_dep rolls back, the     *)
(* exception handler answers.                                              *)
Refuse(r, a) == /\ Goto(r, "refused")
                /\ Answer(r, a)

-----------------------------------------------------------------------------
(* start                                                                   *)

(* The endpoint is entered: the plan is looked up and the RUNNING row is   *)
(* flushed, which nobody else can see.  A caller without workflow:start    *)
(* is refused.                                                             *)
StartWorkflow(w) ==
  \E u \in Users, t \in StartTypes :
    /\ pc[w] = "new"
    /\ May(u, "workflow:start")
    /\ Goto(w, "open")
    /\ exec' = [exec EXCEPT ![w] = [type |-> t, created_by |-> u, runs |-> <<>>,
                                    status |-> "absent"]]
    /\ UNCHANGED <<tables, answer, dec>>

RefuseStart(w) ==
  /\ pc[w] = "new"
  /\ \E u \in Users : ~May(u, "workflow:start")
  /\ Refuse(w, "forbidden")
  /\ UNCHANGED <<tables, exec, dec>>

Steps(w) == PLANS[exec[w].type].steps

Came(runs, o) == \E i \in 1 .. Len(runs) : runs[i] = o

(* The loop over plan.steps returns from start at the first failed step.   *)
StepLeftIgnoringFailure(w) == Len(exec[w].runs) < Len(Steps(w))  \* variant
StepLeft(w) == /\ Len(exec[w].runs) < Len(Steps(w))
               /\ ~Came(exec[w].runs, "failed")

(* One iteration: the STARTED row, the agent, the row's final status.  The *)
(* rows are this transaction's own until the commit.                       *)
RunStep(w) ==
  /\ pc[w] = "open"
  /\ StepLeft(w)
  /\ \E o \in StepOutcomes(Steps(w)[Len(exec[w].runs) + 1]) :
        exec' = [exec EXCEPT ![w].runs = Append(@, o)]
  /\ UNCHANGED <<tables, pc, answer, dec>>

NeedsApprovalByPlan(w) == PLANS[exec[w].type].requires_human_approval  \* variant
NeedsApproval(w) == \/ PLANS[exec[w].type].requires_human_approval
                    \/ Came(exec[w].runs, "flagged")

FinalStatus(w) == IF Came(exec[w].runs, "failed") THEN "failed"
                  ELSE IF NeedsApproval(w) THEN "awaiting_approval"
                  ELSE "completed"

(* The status, the approvals row and the audit entry are flushed.          *)
FinishStart(w) ==
  /\ pc[w] = "open"
  /\ ~StepLeft(w)
  /\ exec' = [exec EXCEPT ![w].status = FinalStatus(w)]
  /\ Goto(w, "flushed")
  /\ UNCHANGED <<tables, answer, dec>>

(* plan.approval_permission or "workflow:approve"                          *)
RequiredPermission(t) ==
  IF PLANS[t].approval_permission = "none" THEN "workflow:approve"
                                           ELSE PLANS[t].approval_permission

PendingRow(w) ==
  [workflow |-> w, kind |-> "approval", decision |-> "pending",
   decided_by |-> NoOne, reason |-> NoOne,
   required_permission |-> RequiredPermission(exec[w].type)]

(* Nothing is answered yet, or, when the framework answers first, the      *)
(* caller already has its 201 or 200.                                      *)
MayCommitStart(r) ==  \* variant: the session of a decision is left open
  r \in Workflows /\ pc[r] = "flushed" /\ (AnswerFirst => answer[r] = "ok")
MayCommit(r) == pc[r] = "flushed" /\ (AnswerFirst => answer[r] = "ok")

CommitStart(w) ==
  /\ MayCommit(w)
  /\ workflows' = [workflows EXCEPT
                     ![w] = [type |-> exec[w].type, status |-> exec[w].status]]
  /\ agentRuns' = [agentRuns EXCEPT ![w] = exec[w].runs]
  /\ approvals' = IF exec[w].status = "awaiting_approval"
                  THEN [approvals EXCEPT ![w] = PendingRow(w)]
                  ELSE approvals
  /\ audit' = audit \cup {[request |-> w, workflow |-> w,
                           actor |-> exec[w].created_by,
                           action |-> exec[w].status]}
  /\ Goto(w, "committed")
  /\ UNCHANGED <<answer, exec, dec>>

-----------------------------------------------------------------------------
(* approve, reject, escalate                                               *)

Decision(op) == CASE op = "approve" -> "approved"
                  [] op = "reject" -> "rejected"
                  [] op = "escalate" -> "escalated"

Kind(op) == CASE op = "approve" -> "approval"
              [] op = "reject" -> "rejection"
              [] op = "escalate" -> "escalation"

(* The status a decision leaves: approval completes the workflow.          *)
TargetStatus(op) == IF op = "approve" THEN "completed" ELSE Decision(op)

EndpointPermission(op) == CASE op = "approve" -> "workflow:approve"
                            [] op = "reject" -> "workflow:reject"
                            [] op = "escalate" -> "workflow:escalate"

(* The endpoint is entered, with or without a reason in the body.          *)
Decide(d) ==
  \E u \in Users, w \in Workflows, op \in Op, reasoned \in Reasoned :
    /\ pc[d] = "new"
    /\ May(u, EndpointPermission(op))
    /\ Goto(d, "begun")
    /\ dec' = [dec EXCEPT ![d] = [workflow |-> w, op |-> op,
                 decided_by |-> u, reasoned |-> reasoned, seen |-> "absent",
                 pending |-> NoOne]]
    /\ UNCHANGED <<tables, answer, exec>>

RefuseDecision(d) ==
  /\ pc[d] = "new"
  /\ \E u \in Users, op \in Op : ~May(u, EndpointPermission(op))
  /\ Refuse(d, "forbidden")
  /\ UNCHANGED <<tables, exec, dec>>

(* _reload, first statement: SELECT the workflow.                          *)
ReadWorkflow(d) ==
  LET row == workflows[dec[d].workflow] IN
  /\ pc[d] = "begun"
  /\ IF row.status = "absent"
     THEN Refuse(d, "not_found") /\ UNCHANGED dec
     ELSE /\ Goto(d, "read")
          /\ dec' = [dec EXCEPT ![d].seen = row.status]
          /\ UNCHANGED answer
  /\ UNCHANGED <<tables, exec>>

AnyRowOf(w) == {r \in Requests : approvals[r].workflow = w}  \* variant
PendingRowsOf(w) == {r \in Requests : /\ approvals[r].workflow = w
                                      /\ approvals[r].decision = "pending"}

(* _reload, second statement: selectinload SELECTs the approvals, in no    *)
(* stated order, and later than the workflow was read; then the guard on   *)
(* the status read before, and the first pending row, or none.             *)
ReadApprovals(d) ==
  LET found == PendingRowsOf(dec[d].workflow) IN
  /\ pc[d] = "read"
  /\ IF dec[d].seen \notin DECIDABLE
     THEN Refuse(d, "conflict") /\ UNCHANGED dec
     ELSE /\ Goto(d, "loaded")
          /\ \E p \in IF found = {} THEN {NoOne} ELSE found :
                dec' = [dec EXCEPT ![d].pending = p]
          /\ UNCHANGED answer
  /\ UNCHANGED <<tables, exec>>

(* The unit of work writes the columns whose value differs from the one    *)
(* the session loaded: a workflow read as escalated and escalated again    *)
(* gets no UPDATE at all.                                                  *)
ChangesStatus(d) == dec[d].seen # TargetStatus(dec[d].op)

(* An UPDATE holds the workflow's row lock from the flush to the end of    *)
(* the transaction.  The workflows table is flushed before approvals, and  *)
(* a session that updates an existing approvals row read the workflow as   *)
(* awaiting, so the approvals row's own lock adds nothing.                 *)
HoldsRowLock(d) == pc[d] = "flushed" /\ ChangesStatus(d)

RowLockFree(w) ==
  \A e \in Deciders : HoldsRowLock(e) => dec[e].workflow # w

(* The decision and its audit entry are flushed; the UPDATE waits for the  *)
(* row lock.                                                               *)
FlushDecision(d) ==
  /\ pc[d] = "loaded"
  /\ ChangesStatus(d) => RowLockFree(dec[d].workflow)
  /\ Goto(d, "flushed")
  /\ UNCHANGED <<tables, answer, exec, dec>>

ReasonOf(d) == IF dec[d].reasoned THEN d ELSE NoOne

InsertedRowSwapped(d) ==  \* variant
  [workflow |-> dec[d].workflow, kind |-> Decision(dec[d].op),
   decision |-> Kind(dec[d].op), decided_by |-> dec[d].decided_by,
   reason |-> ReasonOf(d), required_permission |-> "workflow:approve"]
InsertedRowLeftPending(d) ==  \* variant: the column's default
  [workflow |-> dec[d].workflow, kind |-> Kind(dec[d].op),
   decision |-> "pending", decided_by |-> dec[d].decided_by,
   reason |-> ReasonOf(d), required_permission |-> "workflow:approve"]
InsertedRow(d) ==
  [workflow |-> dec[d].workflow, kind |-> Kind(dec[d].op),
   decision |-> Decision(dec[d].op), decided_by |-> dec[d].decided_by,
   reason |-> ReasonOf(d), required_permission |-> "workflow:approve"]

(* The UPDATE of the pending row.  The session loaded it as start wrote    *)
(* it, kind approval and no reason, so an approval does not write kind     *)
(* and a decision without a reason does not write the reason, whatever     *)
(* another transaction has put there since.                                *)
UpdatedRowKeepsDecider(row, d) ==  \* variant
  [row EXCEPT !.decision = Decision(dec[d].op),
              !.decided_by = IF @ = NoOne THEN dec[d].decided_by ELSE @]
UpdatedRowKeepsDecision(row, d) ==  \* variant
  [row EXCEPT !.decided_by = dec[d].decided_by]
UpdatedRow(row, d) ==
  [workflow |-> row.workflow,
   kind |-> IF dec[d].op = "approve" THEN row.kind ELSE Kind(dec[d].op),
   decision |-> Decision(dec[d].op),
   decided_by |-> dec[d].decided_by,
   reason |-> IF dec[d].reasoned THEN d ELSE row.reason,
   required_permission |-> row.required_permission]

CommitDecision(d) ==
  LET w == dec[d].workflow IN
  /\ MayCommit(d)
  /\ workflows' = IF ChangesStatus(d)
                  THEN [workflows EXCEPT ![w].status = TargetStatus(dec[d].op)]
                  ELSE workflows
  /\ approvals' = IF dec[d].pending = NoOne
                  THEN [approvals EXCEPT ![d] = InsertedRow(d)]
                  ELSE [approvals EXCEPT ![dec[d].pending] = UpdatedRow(@, d)]
  /\ audit' = audit \cup {[request |-> d, workflow |-> w,
                           actor |-> dec[d].decided_by,
                           action |-> Decision(dec[d].op)]}
  /\ Goto(d, "committed")
  /\ UNCHANGED <<agentRuns, answer, exec, dec>>

-----------------------------------------------------------------------------
(* The end of a request.                                                   *)

(* The answer leaves after the commit, or before it when AnswerFirst.      *)
MayAnswer(r) == pc[r] = IF AnswerFirst THEN "flushed" ELSE "committed"

Respond(r) ==
  /\ answer[r] = "none"
  /\ MayAnswer(r)
  /\ Answer(r, "ok")
  /\ UNCHANGED <<tables, pc, exec, dec>>

(* A statement or the commit fails, the process dies, or the database is   *)
(* lost: the transaction is rolled back and the session with it.  A caller *)
(* who has no answer yet gets an error, or nothing.                        *)
Rollback(r) ==
  /\ pc[r] \in Live
  /\ Goto(r, "rolledback")
  /\ IF answer[r] = "none" THEN Answer(r, "failed") ELSE UNCHANGED answer
  /\ exec' = IF r \in Workflows THEN [exec EXCEPT ![r] = NoStart] ELSE exec
  /\ dec' = IF r \in Deciders THEN [dec EXCEPT ![r] = NoDecision] ELSE dec
  /\ UNCHANGED tables

(* The process dies between the commit and the answer.                     *)
LoseAnswer(r) ==
  /\ pc[r] = "committed"
  /\ answer[r] = "none"
  /\ Answer(r, "failed")
  /\ UNCHANGED <<tables, pc, exec, dec>>

-----------------------------------------------------------------------------
ServeStart(w) == RunStep(w) \/ FinishStart(w) \/ CommitStart(w) \/ Respond(w)

ServeDecision(d) == \/ ReadWorkflow(d) \/ ReadApprovals(d) \/ FlushDecision(d)
                    \/ CommitDecision(d) \/ Respond(d)

Next ==
  \/ \E w \in Workflows : StartWorkflow(w) \/ RefuseStart(w) \/ ServeStart(w)
  \/ \E d \in Deciders : Decide(d) \/ RefuseDecision(d) \/ ServeDecision(d)
  \/ \E r \in Requests : Rollback(r) \/ LoseAnswer(r)

Spec == Init /\ [][Next]_vars

(* The event loop keeps running the coroutine of an open request, and the  *)
(* database grants a row lock that stays free.  Nobody has to send a       *)
(* request.                                                                *)
Fairness == /\ \A w \in Workflows : WF_vars(ServeStart(w))
            /\ \A d \in Deciders : WF_vars(ServeDecision(d))

FairSpec == Spec /\ Fairness
-----------------------------------------------------------------------------
(* Properties.                                                             *)

Permissions(u) == PermissionsForRoles(RolesOf[u])

NeedsHuman(w) == \/ PLANS[workflows[w].type].requires_human_approval
                 \/ Came(agentRuns[w], "flagged")

RowsOf(w) == {r \in Requests : approvals[r].workflow = w}

(* No high-risk outcome takes effect without a person: a completed         *)
(* workflow whose plan is gated, or one of whose agents asked for a        *)
(* review, has an audited approval by a user who may approve               *)
(* (workflow_service.py, start and _decide).                               *)
HumanGate ==
  \A w \in Workflows :
    workflows[w].status = "completed" /\ NeedsHuman(w) =>
      \E e \in audit : /\ e.workflow = w
                       /\ e.action = "approved"
                       /\ "workflow:approve" \in Permissions(e.actor)

(* The two tables _decide writes agree however decisions interleave: a     *)
(* workflow that people settled or escalated has an approvals row with     *)
(* that very decision, though rows are overwritten by racing requests and  *)
(* a second escalation leaves the status alone.                            *)
StatusBacked ==
  \A w \in Workflows :
    /\ workflows[w].status \in {"rejected", "escalated"} =>
         \E r \in RowsOf(w) : approvals[r].decision = workflows[w].status
    /\ workflows[w].status = "completed" /\ RowsOf(w) # {} =>
         \E r \in RowsOf(w) : approvals[r].decision = "approved"

(* What _decide takes for granted when it takes the first pending row: a   *)
(* workflow awaiting approval has exactly one, the one start inserted, and *)
(* any other workflow has none.                                            *)
OnePendingRow ==
  \A w \in Workflows :
    PendingRowsOf(w) =
      IF workflows[w].status = "awaiting_approval" THEN {w} ELSE {}

(* A decided approvals row names a user who really took that decision on   *)
(* that workflow, and the audit trail has the entry: the columns of two    *)
(* racing decisions never mix into one nobody took.                        *)
DecisionsAudited ==
  \A r \in Requests :
    approvals[r].decision \in Decided =>
      \E e \in audit : /\ e.workflow = approvals[r].workflow
                       /\ e.action = approvals[r].decision
                       /\ e.actor = approvals[r].decided_by

(* A 409 is deserved: when _decide refuses a request, the workflow was     *)
(* settled before, by the machine alone or by an audited approval or       *)
(* rejection of another request.                                           *)
ConflictJustified ==
  \A d \in Deciders :
    answer[d] = "conflict" =>
      \E e \in audit : /\ e.workflow = dec[d].workflow
                       /\ e.action \in {"failed", "completed", "approved",
                                        "rejected"}

(* The agent_runs of a workflow explain its status: start stops at the     *)
(* first failed step and fails the workflow, and any other status means    *)
(* that every step of the plan ran and none failed.                        *)
RunsExplainStatus ==
  \A w \in Workflows : workflows[w].status # "absent" =>
    LET runs == agentRuns[w] IN
    /\ \A i \in 1 .. Len(runs) :
         runs[i] = "failed" => i = Len(runs) /\ workflows[w].status = "failed"
    /\ Came(runs, "failed") \/ Len(runs) = Len(PLANS[workflows[w].type].steps)

(* A closed case stays closed, whichever of commit and answer comes first. *)
(* Once a workflow is settled and no open request has read it as           *)
(* undecided, no request changes its row, its approvals rows or its audit  *)
(* trail again, be it already received, sent later, repeated after a lost  *)
(* answer or rolled back; and nobody is told 200 any more for a decision   *)
(* on it that the trail does not have (_decide, session_dep).              *)
Closed(w) ==
  /\ workflows[w].status \in {"failed", "completed", "rejected"}
  /\ \A d \in Deciders :
       pc[d] \in {"read", "loaded", "flushed"} /\ dec[d].workflow = w =>
         dec[d].seen \notin {"awaiting_approval", "escalated"}

TrailOf(w) == {e \in audit : e.workflow = w}

ClosedForGood ==
  [][\A w \in Workflows : Closed(w) =>
       /\ Closed(w)'
       /\ workflows'[w] = workflows[w]
       /\ RowsOf(w)' = RowsOf(w)
       /\ \A r \in RowsOf(w) : approvals'[r] = approvals[r]
       /\ TrailOf(w)' = TrailOf(w)
       /\ \A d \in Deciders :
            dec[d].workflow = w /\ answer[d] # "ok" /\ answer'[d] = "ok" =>
              \E e \in TrailOf(w) : e.request = d]_vars

(* What the machine settled alone stays: a workflow that failed, or that   *)
(* completed without ever having had an approvals row, is never changed by *)
(* a decision.                                                             *)
MachineOutcomeFinal ==
  [][\A w \in Workflows :
       \/ workflows[w].status = "failed"
       \/ workflows[w].status = "completed" /\ RowsOf(w) = {}
       => workflows'[w] = workflows[w] /\ RowsOf(w)' = RowsOf(w)]_vars

(* The record only grows: audit entries stay, a decided row is never       *)
(* pending again, and the row a decision request inserted (there was       *)
(* nothing pending) is never overwritten by a later one.                   *)
RecordKept ==
  [][/\ audit \subseteq audit'
     /\ \A r \in Requests :
          approvals[r].decision \in Decided => approvals'[r].decision \in Decided
     /\ \A d \in Deciders :
          approvals[d] # NoApproval => approvals'[d] = approvals[d]]_vars

(* Every request that enters its endpoint comes to an end and its caller   *)
(* to an answer, those that wait for a row lock included.                  *)
RequestsEnd ==
  \A r \in Requests :
    pc[r] \in Live ~> pc[r] \in Ended /\ answer[r] # "none"

(* The tables implement the abstract gate: the status column, read         *)
(* together with the approvals rows, is the outcome of a case, and the     *)
(* audit trail is the record of the ballots.                               *)
OutcomeOf(w) ==
  CASE workflows[w].status = "absent" -> "unborn"
    [] workflows[w].status = "awaiting_approval" -> "pending"
    [] workflows[w].status = "completed" ->
         IF RowsOf(w) = {} THEN "automatic" ELSE "approved"
    [] OTHER -> workflows[w].status

VotesCast == {<<e.request, e.workflow, e.action>> :
                e \in {x \in audit : x.action \in Decided}}

Gate == INSTANCE ApprovalGate WITH Cases <- Workflows, Ballots <- Deciders,
                                   outcome <- [w \in Workflows |-> OutcomeOf(w)],
                                   votes <- VotesCast

ImplementsGate == Gate!GateSpec

-----------------------------------------------------------------------------
(* Three statements of the documentation and the comments, each checked by *)
(* a run of its own, which finds a behaviour of the code that contradicts  *)
(* it.                                                                     *)

(* docs/architecture.md: decisions "apply only to a workflow in            *)
(* awaiting_approval/escalated".                                           *)
GuardedTransitions ==
  [][\A w \in Workflows :
       workflows'[w].status # workflows[w].status =>
         workflows[w].status \in {"absent"} \cup DECIDABLE]_vars

(* workflow_service.py, module comment: "each records the decision, the    *)
(* deciding user and a reason": a decided row is what one request decided. *)
RecordsOneDecision ==
  \A r \in Requests :
    approvals[r].decision \in Decided =>
      \E d \in Deciders : /\ pc[d] = "committed"
                          /\ approvals[r].decision = Decision(dec[d].op)
                          /\ approvals[r].decided_by = dec[d].decided_by
                          /\ approvals[r].reason = ReasonOf(d)

(* agents/orchestrator.py: the plan names "the permission a reviewer must  *)
(* hold": who settles a row holds the permission the row requires.         *)
ReviewerHoldsPermission ==
  \A r \in Requests :
    approvals[r].decision \in Decided =>
      approvals[r].required_permission \in Permissions(approvals[r].decided_by)

=============================================================================
