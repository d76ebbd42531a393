CONSTANTS
  Proc = {idle, init, p1, p2, p3}
  Idle = idle
  InitProc = init
  KThread = {}
  NoProc = null
  MaxProcess = 5
  MaxSlice = 1
  MaxSleep = 0
SPECIFICATION Spec
SYMMETRY Slots
INVARIANT TypeOK
INVARIANT NoLostChild
INVARIANT FamilyTree
PROPERTY ZombieReapedByParent
