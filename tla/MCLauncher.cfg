CONSTANTS
  v1 = v1
  v2 = v2
  v3 = v3
  main = main
  lib = lib
  extra = extra
  Versions = {v1, v2, v3}
  Files = {main, lib, extra}
  Content <- Archives
  Entry <- Entries
  None = none
  Torn = torn
  Careful = TRUE
SPECIFICATION Spec
INVARIANTS  StaleFilesGo
