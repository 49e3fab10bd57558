\* Two decisions, with or without a reason, that both load the pending row.
CONSTANTS
  w1 = w1
  d1 = d1
  d2 = d2
  mira = mira
  ravi = ravi
  NoOne = NoOne
  Workflows = {w1}
  Deciders = {d1, d2}
  Users <- MCUsers
  RolesOf <- MCRolesOf
  StartTypes = {"fraud_review"}
  Reasoned = {TRUE, FALSE}
  AnswerFirst = FALSE
SPECIFICATION Spec
INVARIANT RecordsOneDecision
CHECK_DEADLOCK FALSE
