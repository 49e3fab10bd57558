---------------------------- MODULE WorkflowReads ----------------------------
(***************************************************************************)
(* What the callers of the workflow engine are shown: WorkflowService with *)
(* the approvals rows every session has loaded.                            *)
(*                                                                         *)
(* GET /workflows/{id} is the first half of a decision: _reload SELECTs    *)
(* the workflow and then its approvals.  A decision's own answer comes     *)
(* from a second _reload, which finds the workflow in the session with its *)
(* approvals loaded and leaves them alone: it shows the rows of the first  *)
(* reading, among them the one the decision has updated, but not one it    *)
(* has inserted.                                                           *)
(***************************************************************************)
EXTENDS WorkflowService

VARIABLE shown   \* shown[d]: the approvals rows the session of d has loaded

readVars == <<vars, shown>>

Loaded(w) == [r \in Requests |-> IF approvals[r].workflow = w THEN approvals[r]
                                                              ELSE NoApproval]

ReadsInit == Init /\ shown = [d \in Deciders |-> [r \in Requests |-> NoApproval]]

(* The step that leaves "read" is the second SELECT, or loses the session. *)
ReadsNext ==
  /\ Next
  /\ shown' = [d \in Deciders |-> IF pc[d] = "read" /\ pc'[d] # "read"
                                  THEN Loaded(dec[d].workflow)
                                  ELSE shown[d]]

ReadsSpec == ReadsInit /\ [][ReadsNext]_readVars /\ Fairness

(* WorkflowDetail.model_validate(_reload(...)) at the end of _decide       *)
ShownAfter(d) == IF dec[d].pending = NoOne
                 THEN shown[d]
                 ELSE [shown[d] EXCEPT ![dec[d].pending] = UpdatedRow(@, d)]

-----------------------------------------------------------------------------
Shows(list, decisions) == \E r \in Requests : list[r].decision \in decisions

(* What a person is shown makes sense though it is read in two statements  *)
(* between which others decide.  A workflow shown as rejected or escalated *)
(* has a decision beside it and nothing pending; one shown as awaiting has *)
(* a row, which may be decided already.  After an accepted decision        *)
(* nothing is shown as pending, somebody's decision is shown, and it is    *)
(* the caller's own unless an earlier one had emptied the gate, when the   *)
(* row this decision inserted is missing from its answer (_reload,         *)
(* _decide).                                                               *)
ResponsesAgree ==
  \A d \in Deciders :
    /\ pc[d] \in {"loaded", "flushed", "committed"} \/ answer[d] = "conflict" =>
         /\ dec[d].seen # "awaiting_approval" => ~Shows(shown[d], {"pending"})
         /\ dec[d].seen \in {"rejected", "escalated"} => Shows(shown[d], Decided)
         /\ dec[d].seen = "awaiting_approval" =>
              Shows(shown[d], {"pending"} \cup Decided)
    /\ pc[d] \in {"flushed", "committed"} =>
         /\ ~Shows(ShownAfter(d), {"pending"})
         /\ Shows(ShownAfter(d), Decided)
         /\ \/ Shows(ShownAfter(d), {Decision(dec[d].op)})
            \/ dec[d].pending = NoOne

=============================================================================
