CONSTANTS
  Hosts = {h1, h2}
  Samples = 2
  Shared = TRUE
  Expires = TRUE
  Series <- MCSeries
SPECIFICATION Spec
SYMMETRY Symmetry
INVARIANTS LatencyInv AggregateIsRight
CHECK_DEADLOCK FALSE
