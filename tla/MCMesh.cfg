CONSTANTS
  N = 3
  None = None
  Links <- AllLinks
  Up <- Line
  Weight <- UnitWeight
  MaxConnects = 1
  MaxFaults = 2
SPECIFICATION Spec
INVARIANT OwnEdgesKept
INVARIANT RoutesUsable
INVARIANT NoGhosts
INVARIANT SessionKnown
INVARIANT CorrectionsEnd
CHECK_DEADLOCK FALSE
