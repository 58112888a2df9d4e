SPECIFICATION Spec
CONSTANTS
  MaxInput = 6
  MaxPerRead = 3
  Budgets <- MCBudgets
  Sinks <- MCSinks
  MaxSize = 4
CHECK_DEADLOCK FALSE
INVARIANTS Conveyed LoopbackInOrder
