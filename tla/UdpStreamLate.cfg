CONSTANTS
  MaxAttempts = 2
  Hellos = 1
  Packets = 1
  MaxLoss = 1
  MaxDup = 1
  Delay = TRUE
SPECIFICATION FairSpec
INVARIANT MeasuredIsOurs
PROPERTY Terminates
CHECK_DEADLOCK FALSE
