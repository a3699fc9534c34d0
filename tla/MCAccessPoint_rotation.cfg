SPECIFICATION FairSpec
CONSTANTS
  Stations = {s1, s2}
  NONE = NONE
  MAX_STATIONS = 2
  HELD_FRAMES = 0
  HANDSHAKE_RESENDS = 1
  Dozes = {}
  OutOfOrder = FALSE
  Sheds = FALSE
  MaxHandshakes = 1
  MaxKeys = 1
  MaxCounter = 3
PROPERTY RotationEnds
