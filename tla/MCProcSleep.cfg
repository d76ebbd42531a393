CONSTANTS
  Proc = {idle, init, k1, p1, p2}
  Idle = idle
  InitProc = init
  KThread = {k1}
  NoProc = null
  MaxProcess = 4
  MaxSlice = 2
  MaxSleep = 2
SPECIFICATION Spec
SYMMETRY Slots
INVARIANT RunQueueOK
INVARIANT NoAssertFails
INVARIANT TimersLive
