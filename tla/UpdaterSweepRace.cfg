CONSTANTS
  Procs = {p1, p2}
  Platform = "darwin"
  Overlap = TRUE
  Faults = {}
SPECIFICATION Spec
PROPERTY SweepSparesLastCopy
CHECK_DEADLOCK FALSE
