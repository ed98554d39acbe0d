SPECIFICATION LiveSpec
CONSTANTS
  OutputLen = 9
  StateBytes = 4
  StreamLen = 45
  IntSizes = {1, 3}
  ClearAfterYield = FALSE
  Pids = {p1}
  NoPid = nobody
  First = p1
  Sources = {os}
  Requests <- EdgeRequests
  Seeds = {1}
  SeedLens = {1, 3}
  IntRange = 16
  Uppers = {0, 4, 7, 8, 14, 15}
  PidReuse = FALSE
  MaxOps = 5
CHECK_DEADLOCK FALSE
INVARIANTS Uniform MostlyAccepted
PROPERTIES SeedsReachKey BacktrackingPrevented CallsReturn
