SPECIFICATION Spec
CONSTANTS
  MaxInst = 4
  NSteps = 2
  Faults <- AllFaults
  MaxFaults = 2
  Origins <- BothOrigins
INVARIANT OnlyProvenRouted
INVARIANT RolloutConverges
PROPERTY NoServingKill
