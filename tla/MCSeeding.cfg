\* Three processes that start, fail, die and start again.
CONSTANTS
  s1 = s1
  s2 = s2
  s3 = s3
  Processes = {s1, s2, s3}
  Installed <- MCInstalled
  Accounts <- MCAccounts
SPECIFICATION FairSpec
INVARIANTS
  SeedsAgree
PROPERTIES
  StartupEnds
CHECK_DEADLOCK FALSE
