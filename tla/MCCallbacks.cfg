SPECIFICATION MCSpec
CONSTANTS
  e1 = e1
  e2 = e2
  s1 = s1
  s2 = s2
  Self = self
  Events = {self, e1, e2}
  Slots = {s1, s2}
  Connections <- MCConnections
  NoTrigger = NoTrigger
  NoSlot = NoSlot
  SlotSize = 2
  Task = {m, a, d}
  Main = m
  SystemTask = {}
  DetachTask = {d}
  PollPeriod = 1
  UserEvent = {evt}
  NoEvent = NoEvent
INVARIANTS EventInv NoLostWakeup JoinedIsAllocated DestroysOnce SlotsInv
PROPERTIES ImplementsScheduler QuitIsHeeded NotificationsReachLoop
