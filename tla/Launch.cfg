CONSTANTS
  Builds <- MCBuilds
  Sidecars <- MCSidecars
  Lives <- MCLives
  People = {"Ann", "Bob"}
SPECIFICATION Spec
INVARIANTS ConfigFromBestSource WindowIsTrue
CHECK_DEADLOCK FALSE
