CONSTANTS
  MaxReplicas = 2
  MaxProcs = 4
  MaxVersion = 2
  MaxAttempts = 1
  Retries = 2
  Policies = {"on-failure"}
  Modes = {"exec"}
  Strategies = {"rolling", "classic"}
  Commands = {"start", "stop", "restart", "grow", "shrink", "deploy", "monitor"}
  WorkerFaults = {"store", "stop", "launch", "gate", "build", "env", "promote", "paths", "crash"}
  MaxFaults = 1
  MaxBad = 1
  MaxOps = 2
SPECIFICATION Spec
INVARIANTS HonestFailure NoOrphans StopHonoured
PROPERTY OldOutlivesGate
CHECK_DEADLOCK FALSE
