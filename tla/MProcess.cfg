SPECIFICATION FairSpec
CONSTANTS
  None = None
  Workers = {w1, w2, w3}
  Asyncs = {w2}
  Raisers = {w2}
  Killable = {w2, w3}
  NTasks = 3
  MaxQueue = 2
  PipeCap = 1
CHECK_DEADLOCK FALSE
INVARIANTS TasksAccounted StoppedMeansDone IInv
PROPERTIES PoolSpec CallsReturn
