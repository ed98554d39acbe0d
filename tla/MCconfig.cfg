SPECIFICATION Spec
CONSTANTS
  Words = 32
  Xor <- MCXor
  Rotl <- MCRotl
  Machines <- SomeMachines
  Names <- SomeNames
  ManualPrfs <- SomePrfs
  Masks <- SomeMasks
  CapMasks <- SomeCaps
  Fds <- SomeFds
  NULL = null
  Key <- SomeKey
  Indices = {0, 1, 2, 31}
  MaxOps = 5
CHECK_DEADLOCK FALSE
INVARIANTS TypeOK RunsHere AskedForIsUsed DefaultIsBest OutputCodeFits StreamAsReference IInv
