CONSTANTS
  POPs = 2
  Medians = {50,100}
  MaxLatency = 100
  Limits = {1,2}
  Echoes = {2}
  Cap = 1
  Breakable = {"udp_stream_8443"}
  Shown = {"quick","udp_stream_8443"}
SPECIFICATION FairSpec
INVARIANTS RunnerInv GapsExplained RowsSettle OneTestShown
PROPERTIES FailedRowStays RunAllReturns
CHECK_DEADLOCK FALSE
