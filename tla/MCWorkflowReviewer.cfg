\* A decision by a user without the permission the approvals row names.
CONSTANTS
  w1 = w1
  d1 = d1
  d2 = d2
  mira = mira
  ravi = ravi
  NoOne = NoOne
  Workflows = {w1}
  Deciders = {d1, d2}
  Users <- MCUsers
  RolesOf <- MCRolesOf
  StartTypes = {"fraud_review"}
  Reasoned = {FALSE}
  AnswerFirst = FALSE
SPECIFICATION Spec
INVARIANT ReviewerHoldsPermission
CHECK_DEADLOCK FALSE
