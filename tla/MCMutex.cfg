SPECIFICATION MutexFairSpec
CONSTANTS
  m = m
  a = a
  d = d
  mutex = mutex
  Task <- MCTask
  Main = m
  SystemTask = {}
  DetachTask = {d}
  PollPeriod = 1
  UserEvent = {mutex}
  NoEvent = NoEvent
  RecursiveMutex = {mutex}
  LockCntMax = 2
INVARIANTS MutexInv NoStrandedWaiter
PROPERTIES ImplementsMutex FreeMutexServed
