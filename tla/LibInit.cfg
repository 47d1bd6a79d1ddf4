SPECIFICATION FairSpec
CONSTANTS
  Threads = {t1, t2, t3}
  Contexts = {c1, c2, c3}
  NoContext = NoContext
  NoThread = NoThread
INVARIANTS
  TypeOK
  InitOnce
  InitOrder
  GateBlocks
  ContextLedger
PROPERTIES
  ModeFixed
  RunnerReports
  CallReturns
