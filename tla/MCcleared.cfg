SPECIFICATION Spec
CONSTANTS
  OutputLen = 6
  StateBytes = 2
  StreamLen = 30
  IntSizes = {1, 3}
  ClearAfterYield = TRUE
  Pids = {p1}
  NoPid = nobody
  First = p1
  Sources = {os}
  Requests = {1, 4, 6}
  Seeds = {1}
  SeedLens = {1}
  IntRange = 8
  Uppers = {2}
  PidReuse = FALSE
  MaxOps = 4
CHECK_DEADLOCK FALSE
INVARIANTS GivenBytesCleared
