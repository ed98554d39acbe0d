SPECIFICATION Spec
CONSTANTS
  Workers = {w1, w2}
  Children = {}
  Home = home
  Free = free
  Calls = {"init", "wipe", "seed", "system", "rand", "range", "prevent"}
  Careful = FALSE
  MaxOps = 4
CHECK_DEADLOCK FALSE
PROPERTIES GoodOutput
