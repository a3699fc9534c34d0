SPECIFICATION Spec
CONSTANTS
  Stations = {s1, s2}
  NONE = NONE
  MAX_STATIONS = 2
  HELD_FRAMES = 2
  HANDSHAKE_RESENDS = 1
  Dozes = {s1}
  OutOfOrder = FALSE
  Sheds = TRUE
  MaxHandshakes = 2
  MaxKeys = 1
  MaxCounter = 5
INVARIANTS StationsKeyed RecipientsHaveKey 
