SPECIFICATION MCSpec
CONSTANTS
  m = m
  a = a
  d = d
  s = s
  evt = evt
  Task <- MCTask
  Main = m
  SystemTask = {s}
  DetachTask = {d}
  PollPeriod = 2
  UserEvent = {evt}
  NoEvent = NoEvent
INVARIANT SchedInv
PROPERTIES FreedIsOffStack TurnsAreKept ReadyRuns DetachedFreed PollsWhileBusy WaitersReturn
