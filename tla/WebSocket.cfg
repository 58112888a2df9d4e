SPECIFICATION FairSpec
CONSTANTS
  Openers = {o1, o2}
  Senders = {s1, s2}
  Nobody = nobody
  MaxOpens = 2
  MaxSends = 1
  Pieces = 2
CHECK_DEADLOCK FALSE
INVARIANTS OneReader NoLeak
PROPERTIES FramesNotMixed SendsOnCurrent CloseCompletes SendsEnd
