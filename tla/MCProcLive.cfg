CONSTANTS
  Proc = {idle, init, k1, p1, p2}
  Idle = idle
  InitProc = init
  KThread = {k1}
  NoProc = null
  MaxProcess = 4
  MaxSlice = 1
  MaxSleep = 1
SPECIFICATION FairSpec
PROPERTY NoStarvation
PROPERTY KilledDiesOrWaits
PROPERTY OrphanReaped
PROPERTY SleepEnds
