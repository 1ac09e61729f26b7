SPECIFICATION Spec
CONSTANTS
  MaxInst = 3
  NSteps = 2
  Faults <- Kills
  MaxFaults = 1
  Origins <- ActiveSlot
PROPERTY InterruptedStaysStable
