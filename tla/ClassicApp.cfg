SPECIFICATION Spec
CONSTANTS
  Imports = {1, 2}
  Kinds = {"rebuild", "rollback", "restart", "set", "apply", "stop", "start", "restore", "settle"}
  Faults = {"read", "write", "sync", "launch", "stop", "build", "promote", "die", "stale"}
  Journaled = {FALSE}
  MaxFaults = 2
  MaxPid = 4
  MaxTxn = 2
  MaxVer = 2
  MaxVal = 2
INVARIANT LaunchesAccounted
INVARIANT HonestApply
INVARIANT FailureRestores
