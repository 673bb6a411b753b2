CONSTANTS
  Timeout = 9
  RetryAfters = {0, 1}
  Fallback = 10
  MaxAttempts = 4
SPECIFICATION FairSpec
INVARIANTS MeasuredIsFlight RetriesAsAsked TestsApart NoPhantomDrop
PROPERTIES EveryTickPinged AllReturn
CHECK_DEADLOCK FALSE
