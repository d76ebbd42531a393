CONSTANTS
  File = {f1, f2}
  Fd = {d1, d2}
  NoFile = none
  NBlock = 3
  BlkSize = 3
  BlkNEntry = 1
  NDirect = 1
  MaxFileSize = 8
  Lengths = {4}
  Positions = {1, 4, 7}
  Careful = TRUE
SPECIFICATION Spec
SYMMETRY FilesAndFds
INVARIANT BlocksExact
INVARIANT StopsOnlyIfTooLarge
INVARIANT ReadsBack
PROPERTY IsByteFile
CHECK_DEADLOCK FALSE
