SPECIFICATION Spec
CONSTANTS
  Events = {e1, e2, e3}
  SlotSize = 2
  MemAlign = 2
  MemHead = 2
  MemWidth = 64
  MemStatic <- MCMemStatic
  MemExtra <- MCMemExtra
  MemMaxHeaps = 2
  MemRequests = {0, 1, 4, 7, 63}
  RingSizes = {1, 2}
  RingWidth = 16
  RingByte = {0, 1}
  PoolNums = {1, 2, 3}
  PoolSize = 2
  PoolWidth = 16
  PoolPtrs = {0, 2, 3, 4, 6, 14}
  PoolNull = PoolNull
  HashNodes = {n1, n2, n3}
  HashKeys <- MCHashKeys
  HashMin = 2
  HashMax = 16
  HashThresholds = {1, 2}
  HashUnmade = HashUnmade
  HashNoKey = HashNoKey
  TreeNodes <- MCTreeNodes
  TreeKey <- MCTreeKey
  TreeNil = 0
  ListNodes = {x1, x2, x3}
  ListHeads = {h1, h2}
  ListNull = ListNull
  CtxPorts = {"linux", "windows", "macos", "riscv", "m0-psp", "m3-psp", "m33-msp", "m33-msp-fpu", "m0-pendsv", "m3-pendsv", "m4", "m7", "m33"}
  CtxMain = "main"
  CtxNew = {"task"}
  CtxWords = {64, 65}
  LifeLevel <- MCLifeLevel
  LifeOpens <- MCLifeOpens
  LifeKeeps <- MCLifeKeeps
  LifeMax = 2
  FmtDirectives <- MCFmtDirectives
  FmtShort <- MCFmtShort
  FmtStreams <- MCFmtStreams
  FmtBits <- MCFmtBits
  FmtBytes <- MCFmtBytes
  FmtPointer = 4
  FmtPowers = 5
  FmtRange = 1000
  FmtUndefined = {0, 12}
INVARIANTS
  MemInv
  PoolInv
  HashInv
  TreeInv
  ListInv
  ContextInv
  LifeInv
  FormatInv
  EpollInv
PROPERTIES
  ImplementsQueue
  ImplementsEpoll
  TimedWaitEnds
