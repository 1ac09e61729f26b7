SPECIFICATION Spec
CONSTANTS
  Proc = {p1, p2, p3}
  Key = {k1, k2}
  Fingerprint = {f1, f2}
  None = None
  Capacity = 1
  MaxRuns = 3
  Faults <- AllFaults
SYMMETRY Symmetry
INVARIANT TypeOK
INVARIANT LiveRunsRemembered
INVARIANT MutualExclusion
INVARIANT ReplayFaithful
PROPERTY ResultsAreFinal
