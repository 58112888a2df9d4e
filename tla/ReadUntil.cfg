SPECIFICATION Spec
CONSTANTS
  CR = CR
  LF = LF
  Bytes = {CR, LF}
  MaxInput = 6
  Delimiters <- MCDelimiters
  Sizes = {1, 3}
  Limits <- MCLimits
CHECK_DEADLOCK FALSE
INVARIANTS Conservation ShortestPrefix WaitsForReason ExactIsExact
PROPERTIES CallsEnd
