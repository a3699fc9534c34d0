SPECIFICATION LiveSpec
CONSTANTS
  \* station policy
  MIN_BACKOFF = 2
  MAX_BACKOFF = 3
  MAX_JOIN_FAILURES = 2
  \* open station
  RUNGS = 3
  AirtimeOf <- MCAirtimes
  Arms = {"hal", "threshold", "probe", "expected", "fixed"}
  Links <- MCLinks
  Qualities <- MCQualities
  BUSY_FRAMES = 128
  RATE_UP_AFTER = 2
  PROBE_EVERY = 2
  MaxUpsets = 1
  \* bench run
  Carriers = {"espnow", "raw", "udp"}
  FRAMES = 2
  ATTEMPTS = 3
  MAX_TIMEOUTS = 2
  MAX_FOREIGN = 3
  MaxMishaps = 2
  \* splices
  CROSSING = 1
  RADIO_TX = 1
  STACK_RX = 1
  MaxReceived = 2
  MaxStackSends = 1
  MaxShedding = 0
  \* GATT on Bluedroid
  Peers = {p1, p2}
  NoPeer = NoPeer
  Overlaps = {FALSE}
  LongPeers = {}
  SETUP_MAX = 2
  MaxConnects = 2
  MaxWindows = 1
  \* boards on esp-hal
  Boards = {"s3", "c6"}
  Networks = {n1, n2}
  NoNetwork = NoNetwork
  Reachable = {n1}
  Phones = {p1, p2}
  NoPhone = NoPhone
  GUESSES = 2
  TornWrites = TRUE
  MaxVisits = 2
  MaxOutages = 1
  \* relay
  RING = 6
  LINE_PIECES = 2
  CHUNK = 2
  OUTSTANDING = 2
  PATIENCE = 1
  Bauds = {115, 921}
  BOOT_BAUD = 115
  AirRates = {1}
  Stations = {s1}
  MaxLines = 3
  MaxSwitches = 1
PROPERTIES
  StationRecovers RunEnds SplicesMove   RelayAnswers
CHECK_DEADLOCK FALSE
