SPECIFICATION Spec
CONSTANTS
  MaxInst = 4
  MaxReplicas = 2
  Faults <- AllFaults
  MaxFaults = 2
  Origins <- RunningApps
INVARIANT OnlyProvenRouted
INVARIANT CapacityKept
INVARIANT NothingLost
INVARIANT CompletedFleetAgrees
PROPERTY NoServingKill
