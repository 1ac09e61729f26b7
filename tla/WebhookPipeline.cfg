SPECIFICATION Spec
CONSTANTS
  d1 = d1
  d2 = d2
  c1 = c1
  c2 = c2
  Delivery = {d1, d2}
  Commit = {c1, c2}
  CommitOf <- TwoCommits
  FirstCommit = c1
  Requests = 2
  LedgerMax = 1
  QueueDepth = 1
  Retention = 1
  MaxAttempts = 2
  Faults <- AllFaults
  MaxTrouble = 2
CHECK_DEADLOCK FALSE
INVARIANTS
  TypeOK
  DeliveredOnce
  RefusalForgotten
  NoStrandedJob
  SucceededIsEarned
PROPERTIES
  ForwardOnly
  JobsEnd
