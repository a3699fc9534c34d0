SPECIFICATION FairSpec
CONSTANTS
  Stations = {s1, s2}
  NONE = NONE
  MAX_STATIONS = 2
  HELD_FRAMES = 1
  HANDSHAKE_RESENDS = 1
  Dozes = {s1}
  OutOfOrder = FALSE
  Sheds = FALSE
  MaxHandshakes = 2
  MaxKeys = 0
  MaxCounter = 2
PROPERTIES HandshakeEnds 
