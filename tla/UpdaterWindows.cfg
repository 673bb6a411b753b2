CONSTANTS
  Procs = {p1, p2, p3}
  Platform = "windows"
  Overlap = FALSE
  Faults = {"remove"}
SPECIFICATION FairSpec
PROPERTIES ImplementsInstall Relaunches
CHECK_DEADLOCK FALSE
