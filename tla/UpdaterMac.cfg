CONSTANTS
  Procs = {p1, p2, p3, p4}
  Platform = "darwin"
  Overlap = FALSE
  Faults = {"kill", "rename", "remove", "slowexit"}
SPECIFICATION Spec
SYMMETRY Symmetry
INVARIANTS TypeOK CopySurvives NoPartialInstalled SwapsAlone
PROPERTY ImplementsInstall
CHECK_DEADLOCK FALSE
