CONSTANTS
  Rates <- MCRates
  Packets = 3
  LossLimit = 50
  MaxArrivals = 3
SPECIFICATION Spec
INVARIANTS StatsMeanWhatTheySay CleanIsHighest
CHECK_DEADLOCK FALSE
