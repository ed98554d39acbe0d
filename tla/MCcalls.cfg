SPECIFICATION Spec
CONSTANTS
  OutputLen = 6
  StateBytes = 2
  StreamLen = 30
  IntSizes = {1, 3}
  ClearAfterYield = TRUE
  Pids = {p1}
  NoPid = nobody
  First = p1
  Sources = {os, cpu}
  Requests <- EdgeRequests
  Seeds = {1}
  SeedLens = {1, 2}
  IntRange = 8
  Uppers = {2, 7}
  PidReuse = FALSE
  MaxOps = 5
CHECK_DEADLOCK FALSE
INVARIANTS TypeOK PosInRange KeyBytesNeverGiven KeyForgetsGiven SrcFlagsExact
PROPERTIES KeepsPromise
