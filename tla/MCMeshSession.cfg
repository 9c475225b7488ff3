CONSTANTS
  N = 3
  None = None
  Links <- AllLinks
  Up <- Line
  Weight <- UnitWeight
  MaxConnects = 1
  MaxFaults = 1
SPECIFICATION Spec
INVARIANT SessionKept
CHECK_DEADLOCK FALSE
