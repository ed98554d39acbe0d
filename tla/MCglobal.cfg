SPECIFICATION LiveSpec
CONSTANTS
  Workers = {w1, w2}
  Children = {c1}
  Home = home
  Free = free
  Calls = {"init", "wipe", "system", "rand", "range", "prevent"}
  Careful = TRUE
  MaxOps = 4
CHECK_DEADLOCK FALSE
INVARIANTS LockMatchesHolder LockInv OutputInv
PROPERTIES GoodOutput CallsReturn
