SPECIFICATION LiveSpec
CONSTANTS
  Workers = {w1, w2}
  Children = {c1}
  Home = home
  Free = free
  Calls = {"init", "wipe", "seed", "system", "rand", "range", "prevent"}
  Careful = TRUE
  MaxOps = 3
CHECK_DEADLOCK FALSE
PROPERTIES ForkedCallsReturn
