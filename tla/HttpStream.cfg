SPECIFICATION OneConnection
CONSTANTS
  Bytes = {}
  MaxInput = 0
  Delimiters = {}
  Sizes = {}
  Limits = {}
  CR = CR
  LF = LF
  Others = {b}
  Bodies <- MCBodies
  Lengths = {1}
  MaxMessages = 2
  MaxEdits = 2
  MaxChunks = 2
  ReadSizes = {1, 4}
CHECK_DEADLOCK FALSE
INVARIANTS Faithful Aligned
PROPERTIES Received
