CONSTANTS
  MaxReplicas = 1
  MaxProcs = 4
  MaxVersion = 1
  MaxAttempts = 1
  Retries = 1
  Policies = {"on-failure"}
  Modes = {"process"}
  Strategies = {"rolling"}
  Commands = {"restart"}
  WorkerFaults = {}
  MaxFaults = 0
  MaxBad = 1
  MaxOps = 1
SPECIFICATION Spec
INVARIANT LiveNotWrittenOff
CHECK_DEADLOCK FALSE
