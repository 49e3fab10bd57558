\* Every plan on both engines, over the payloads of MCAgents.
CONSTANTS
  RateUnit = 2
  Payloads <- MCPayloads
  Today <- MCToday
SPECIFICATION WorkerSpec
INVARIANTS
  OutcomesAsPlanned
  WorseNeverSafer
  TwoSignalsForReview
  MinorsAreCaught
  LastValueWins
  WhereEnginesPart
PROPERTIES
  WorkflowReturns
CHECK_DEADLOCK FALSE
