SPECIFICATION Spec
CONSTANTS
  Sizes = {0, 2, 3, 4}
  Statuses = {200, 404}
  kCoalesceBelow = 3
  Undumpable = Undumpable
  None = None
  MaxCalls = 3
CHECK_DEADLOCK FALSE
INVARIANT FramedAlways
