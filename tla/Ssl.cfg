SPECIFICATION Spec
CONSTANTS
  Client = Client
  Server = Server
  FlightCounts = {3, 4}
  Writes <- MCWrites
  Chatty = {Server}
  NCancels = 1
  LowWater = 2
CHECK_DEADLOCK FALSE
INVARIANTS StreamIntact ReadsAccounted
PROPERTIES HandshakeEnds DataArrive
