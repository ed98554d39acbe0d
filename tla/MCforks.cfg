SPECIFICATION Spec
CONSTANTS
  OutputLen = 6
  StateBytes = 2
  StreamLen = 30
  IntSizes = {1, 3}
  ClearAfterYield = TRUE
  Pids = {p1, p2, p3}
  NoPid = nobody
  First = p1
  Sources = {os, cpu}
  Requests <- OneOfEach
  Seeds = {1}
  SeedLens = {1}
  IntRange = 8
  Uppers = {2}
  PidReuse = FALSE
  MaxOps = 5
CHECK_DEADLOCK FALSE
INVARIANTS SrcFlagsExact IInv HistoryInv
PROPERTIES SeedsReachKey KeepsPromise
