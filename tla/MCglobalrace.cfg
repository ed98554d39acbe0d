SPECIFICATION Spec
CONSTANTS
  Workers = {w1, w2}
  Children = {c1}
  Home = home
  Free = free
  Calls = {"init", "wipe", "seed", "rand"}
  Careful = FALSE
  MaxOps = 4
SYMMETRY ThreadSymmetry
CHECK_DEADLOCK FALSE
INVARIANTS ForkSeparates SeedInv
