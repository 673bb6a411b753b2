CONSTANTS
  Runs = {r1, r2}
  None = None
  Sender = Sender
  MaxRetries = 0
  Habits = {"overlap"}
  Interfaces <- MCInterfaces
  PortLists <- MCPortLists
  Trees <- MCTrees
  Screens <- MCScreens
SPECIFICATION Spec
INVARIANT StoredComplete
CHECK_DEADLOCK FALSE
