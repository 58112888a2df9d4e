SPECIFICATION OneStream
CONSTANTS
  Openers = {o1}
  Senders = {s1}
  Nobody = nobody
  MaxOpens = 1
  MaxSends = 0
  Pieces = 1
  Lengths = {0, 126, 127, 65536}
  MaxFrames = 3
CHECK_DEADLOCK FALSE
INVARIANTS FramesExact MessagesInOrder
PROPERTIES MessagesArrive
