\* One workflow, three decisions: the races between them.
CONSTANTS
  w1 = w1
  d1 = d1
  d2 = d2
  d3 = d3
  mira = mira
  ravi = ravi
  NoOne = NoOne
  Workflows = {w1}
  Deciders = {d1, d2, d3}
  Users <- MCUsers
  RolesOf <- MCRolesOf
  StartTypes = {"fraud_review"}
  Reasoned = {FALSE}
  AnswerFirst = FALSE
SPECIFICATION Spec
SYMMETRY DeciderSymmetry
INVARIANTS
  TypeOK
  StatusBacked
  OnePendingRow
  DecisionsAudited
  ConflictJustified
  IInv
PROPERTIES
  ClosedForGood
  RecordKept
  ImplementsGate
CHECK_DEADLOCK FALSE
