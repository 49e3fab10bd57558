\* One call: a provider breaks its contract and leaves no record.
CONSTANTS
  c1 = c1
  c2 = c2
  None = None
  Calls = {c1}
  Configs <- MCConfigs
  Capacity = 2
  MaxRetries = 1
  Usages <- MCUsages
SPECIFICATION Spec
INVARIANT OneRecordPerAttempt
CHECK_DEADLOCK FALSE
