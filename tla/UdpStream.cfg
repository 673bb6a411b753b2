CONSTANTS
  MaxAttempts = 2
  Hellos = 3
  Packets = 2
  MaxLoss = 3
  MaxDup = 0
  Delay = FALSE
SPECIFICATION Spec
INVARIANTS VerdictsHaveCause NoFalseLoss OneStream
CHECK_DEADLOCK FALSE
