-------------------------- MODULE WorkflowInvariant --------------------------
(***************************************************************************)
(* The inductive invariant behind the safety properties of                 *)
(* WorkflowService.  The properties themselves are not inductive: whether  *)
(* a COMMIT preserves them depends on what the committing session read     *)
(* several steps earlier, and on what that reading still tells about the   *)
(* tables now.                                                             *)
(***************************************************************************)
EXTENDS WorkflowService

(* The workflow went to people: start inserted an approvals row for it,    *)
(* and that row is still the one named w.                                  *)
HasGateRow(w) == approvals[w].workflow = w

(* What the sessions hold.                                                 *)
StartSessionOK(w) ==
  /\ pc[w] \notin {"begun", "read", "loaded"}
  /\ pc[w] \in {"open", "flushed", "committed"} =>
       /\ exec[w].type \in WorkflowType
       /\ exec[w].created_by \in Users
  /\ pc[w] \in {"flushed", "committed"} => exec[w].status = FinalStatus(w)

DecisionSessionOK(d) ==
  /\ pc[d] # "open"
  /\ pc[d] \in {"begun", "read", "loaded", "flushed", "committed"} =>
       /\ dec[d].workflow \in Workflows
       /\ dec[d].op \in Op
       /\ dec[d].decided_by \in Users
       /\ May(dec[d].decided_by, EndpointPermission(dec[d].op))

StartSessions == \A w \in Workflows : StartSessionOK(w)
DecisionSessions == \A d \in Deciders : DecisionSessionOK(d)

(* What a session has read still tells something about the tables.  A      *)
(* status other than awaiting was read after the pending row had gone, and *)
(* a workflow never goes back to awaiting, nor a row to pending.           *)
ReadingHolds(d) ==
  LET w == dec[d].workflow IN
  /\ pc[d] = "read" =>
       /\ workflows[w].status # "absent"
       /\ dec[d].seen = "escalated" => workflows[w].status # "awaiting_approval"
       /\ dec[d].seen \in DECIDABLE =>
            HasGateRow(w) /\ workflows[w].status # "failed"
  /\ pc[d] \in {"loaded", "flushed"} =>
       /\ dec[d].seen \in DECIDABLE
       /\ HasGateRow(w)
       /\ workflows[w].status \notin {"absent", "failed"}
       /\ IF dec[d].pending = NoOne
          THEN workflows[w].status # "awaiting_approval"
          ELSE dec[d].pending = w /\ dec[d].seen = "awaiting_approval"

ReadingsHold == \A d \in Deciders : ReadingHolds(d)

(* What the tables hold: rows appear with their request's commit, an       *)
(* approvals row belongs to a workflow that exists and did not fail, and   *)
(* the gate row is there whenever the outcome is not the machine's alone.  *)
TablesAgree ==
  /\ \A w \in Workflows :
       /\ workflows[w].status = "absent" <=> pc[w] # "committed"
       /\ pc[w] = "committed" => workflows[w].type = exec[w].type
       /\ pc[w] = "committed" => agentRuns[w] = exec[w].runs
       /\ approvals[w].workflow \in {w, NoOne}
       /\ workflows[w].status \in {"awaiting_approval", "rejected", "escalated"}
            => HasGateRow(w)
       /\ workflows[w].status = "completed" /\ NeedsHuman(w) => HasGateRow(w)
       /\ HasGateRow(w) => workflows[w].status \notin {"absent", "failed"}
  /\ \A r \in Requests :
       approvals[r].workflow = NoOne <=> approvals[r].decision = "absent"
  /\ \A d \in Deciders :
       /\ approvals[d].decision # "pending"
       /\ approvals[d].decision # "absent" =>
            pc[d] = "committed" /\ HasGateRow(approvals[d].workflow)

(* Every audit entry of a decision was written by one who may take it.     *)
AuditByReviewers ==
  \A e \in audit :
    /\ e.action = "approved" => May(e.actor, "workflow:approve")
    /\ pc[e.request] = "committed"

(* The parts above and the properties they carry along: this much is      *)
(* inductive by itself.                                                    *)
TablesInv ==
  /\ TypeOK
  /\ StartSessions
  /\ DecisionSessions
  /\ ReadingsHold
  /\ TablesAgree
  /\ AuditByReviewers
  /\ OnePendingRow
  /\ StatusBacked
  /\ DecisionsAudited

-----------------------------------------------------------------------------
(* What the audit trail remembers.  On top of TablesInv, whose step proofs *)
(* never look at this part.                                                *)

(* The trail says that workflow w was settled, by the machine or a person. *)
Settled(w) == \E e \in audit : /\ e.workflow = w
                               /\ e.action \in {"failed", "completed",
                                                "approved", "rejected"}

(* The trail says that a person escalated workflow w.                      *)
WasEscalated(w) == \E e \in audit : e.workflow = w /\ e.action = "escalated"

(* Every commit left its entry, and every settled workflow has one.        *)
CommitsAudited ==
  /\ \A r \in Requests : pc[r] = "committed" => \E e \in audit : e.request = r
  /\ \A w \in Workflows :
       workflows[w].status \in {"failed", "completed", "rejected"} => Settled(w)

(* A decision request that has not committed has inserted nothing.         *)
NothingInsertedEarly ==
  \A d \in Deciders : pc[d] # "committed" => approvals[d] = NoApproval

(* What a decision request read is in the trail: the reason for its 409,   *)
(* and the escalation that a second one would repeat.                      *)
ReadingAudited(d) ==
  /\ pc[d] = "read" /\ dec[d].seen \notin DECIDABLE => Settled(dec[d].workflow)
  /\ pc[d] \in {"read", "loaded", "flushed"} /\ dec[d].seen = "escalated" =>
       WasEscalated(dec[d].workflow)
  /\ answer[d] = "conflict" => pc[d] = "refused" /\ Settled(dec[d].workflow)

ReadingsAudited == \A d \in Deciders : ReadingAudited(d)

(* A committed decision is in the trail of the workflow it was about.      *)
DecisionsTraced ==
  \A d \in Deciders :
    pc[d] = "committed" => \E e \in TrailOf(dec[d].workflow) : e.request = d

(* The agent runs of a start request: only the last can have failed, there *)
(* are no more than steps, and at the flush there is no step left to run.  *)
RunsInOrder(w) ==
  /\ pc[w] \in {"open", "flushed", "committed"} =>
       /\ Len(exec[w].runs) <= Len(Steps(w))
       /\ \A i \in 1 .. Len(exec[w].runs) :
            exec[w].runs[i] = "failed" => i = Len(exec[w].runs)
  /\ pc[w] \in {"flushed", "committed"} => ~StepLeft(w)
  /\ pc[w] = "committed" =>
       (workflows[w].status = "failed" <=> Came(exec[w].runs, "failed"))

AllRunsInOrder == \A w \in Workflows : RunsInOrder(w)

HistoryInv ==
  /\ CommitsAudited
  /\ NothingInsertedEarly
  /\ ReadingsAudited
  /\ DecisionsTraced
  /\ AllRunsInOrder

(* The whole inductive invariant.                                          *)
IInv == TablesInv /\ HistoryInv

=============================================================================
