SPECIFICATION Rates
CONSTANTS
  Tasks = {t1, t2}
  Threads = {h1}
  Speeds = {4, 16}
  MaxIter = 3
  MaxLen = 4
  MaxInput = 3
  NCancels = 1
  Interval = 2
  MaxUnits = 2
CHECK_DEADLOCK FALSE
INVARIANTS WithinRate PermitsSpaced ReadKeepsBytes
PROPERTIES SleepersReturn
