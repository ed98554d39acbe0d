SPECIFICATION LiveSpec
CONSTANTS
  Table <- UnixTable
  N = 3
  Word = 2
  Configs <- SomeConfigs
  Files <- SomeFiles
  NoFile = nofile
  MaxCalls = 2
  MaxChanges = 2
CHECK_DEADLOCK FALSE
INVARIANTS TypeOK Delivered StrongInput NoFdLeak OneInode IInv
PROPERTIES UserFdKept EntropyReturns
