SPECIFICATION LinkSpec
CONSTANTS
  a = a
  b = b
  r = r
  q = q
  BROADCAST = BROADCAST
  Initiators = {a, b}
  Responders = {r, q}
  Allow <- Rosters
  Named <- NamesOne
  IdSpace = 1
  MaxAttempts = 2
  WINDOW = 2
  MaxSeq = 2
INVARIANTS FramesGenuine SessionsAgree RosterOnly AddressesKept
