SPECIFICATION FlagsSpec
CONSTANTS
  m = m
  a = a
  group = group
  x = x
  y = y
  Task <- MCTask
  Main = m
  SystemTask = {}
  DetachTask = {}
  PollPeriod = 1
  UserEvent = {group}
  NoEvent = NoEvent
  Bit = {x, y}
  Requests <- MCRequests
  Masks <- MCMasks
  Locks = {"masked", "mutex"}
  MaxDue = 1
  NoRmw = NoRmw
INVARIANTS NoStrandedWait
PROPERTIES BitsAreAccounted
