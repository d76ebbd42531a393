CONSTANTS
  Proc = {idle, init, p1, p2}
  Idle = idle
  InitProc = init
  KThread = {}
  NoProc = null
  MaxProcess = 4
  MaxSlice = 1
  MaxSleep = 0
SPECIFICATION FairSpec
PROPERTY KilledDies
