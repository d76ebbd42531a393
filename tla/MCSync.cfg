CONSTANTS
  Proc = {idle, t1, t2, t3}
  Idle = idle
  MaxSlice = 1
  Sem = {c1, c2, m, next}
  Value0 <- OnlyMutex
  MaxValue = 2
  Cond = {c1, c2}
  Mutex = m
  NextSem = next
  Nobody = nobody
SPECIFICATION SyncSpec
SYMMETRY Threads
INVARIANT QueuesExact
INVARIANT MonitorExact
PROPERTY Linearizable
PROPERTY FifoHandOff
PROPERTY IsHoareMonitor
PROPERTY UsesSemaphores
