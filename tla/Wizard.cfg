CONSTANTS
  Runs = {r1, r2}
  None = None
  Sender = Sender
  MaxRetries = 1
  Habits = {}
  Interfaces <- MCInterfaces
  PortLists <- MCPortLists
  Trees <- MCTrees
  Screens <- MCScreens
SPECIFICATION FairSpec
INVARIANTS TypeOK RunningIsTrue NoSwapDuringRun WizardInv CollectedIsRight
PROPERTIES CancelReachesRun RunCompletes RetryAnswered
CHECK_DEADLOCK FALSE
