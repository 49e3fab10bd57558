\* Two decisions over all six plans, answered before the commit, with fairness.
CONSTANTS
  w1 = w1
  d1 = d1
  d2 = d2
  mira = mira
  ravi = ravi
  NoOne = NoOne
  Workflows = {w1}
  Deciders = {d1, d2}
  Users <- MCUsers
  RolesOf <- MCRolesOf
  StartTypes = {"document_intelligence", "kyc", "fraud_review", "compliance",
                "audit_evidence", "loan"}
  Reasoned = {FALSE}
  AnswerFirst = TRUE
SPECIFICATION ReadsSpec
INVARIANTS
  HumanGate
  RunsExplainStatus
  ResponsesAgree
PROPERTIES
  ClosedForGood
  MachineOutcomeFinal
  RequestsEnd
CHECK_DEADLOCK FALSE
