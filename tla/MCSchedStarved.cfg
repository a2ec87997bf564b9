SPECIFICATION SchedFairSpec
CONSTANTS
  m = m
  a = a
  s = s
  Task <- MCTaskChain
  Main = m
  SystemTask = {}
  DetachTask = {}
  PollPeriod = 2
PROPERTY PollsForever
