SPECIFICATION SemCarefulSpec
CONSTANTS
  m = m
  a = a
  d = d
  sem = sem
  Task <- MCTask
  Main = m
  SystemTask = {}
  DetachTask = {d}
  PollPeriod = 1
  UserEvent = {sem}
  NoEvent = NoEvent
  Width = 3
  Dead = Dead
INVARIANTS SemInv NoStrandedToken
PROPERTIES ImplementsSemaphore
