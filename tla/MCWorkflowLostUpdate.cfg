\* Two decisions that both read the workflow before either commits.
CONSTANTS
  w1 = w1
  d1 = d1
  d2 = d2
  mira = mira
  ravi = ravi
  NoOne = NoOne
  Workflows = {w1}
  Deciders = {d1, d2}
  Users <- MCUsers
  RolesOf <- MCRolesOf
  StartTypes = {"fraud_review"}
  Reasoned = {FALSE}
  AnswerFirst = FALSE
SPECIFICATION Spec
PROPERTY GuardedTransitions
CHECK_DEADLOCK FALSE
