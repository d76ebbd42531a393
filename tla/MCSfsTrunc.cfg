CONSTANTS
  File = {f1}
  Fd = {d1, d2}
  NoFile = none
  NBlock = 4
  BlkSize = 2
  BlkNEntry = 2
  NDirect = 1
  MaxFileSize = 6
  Lengths = {1, 4}
  Positions = {0, 3}
  Careful = FALSE
SPECIFICATION Spec
INVARIANT NoHole
