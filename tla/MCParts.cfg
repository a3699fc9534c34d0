SPECIFICATION PartsSpec
CONSTANTS
  \* LD2410
  GATES = 2
  BASIC_LEN = 1
  MAX_DATA = 14
  MAX_EXTRA = 1
  Reads = {12}
  Drivers = {"idf", "hal"}
  Garbage = {0, 14, 244}
  MaxFaults = 1
  MaxFrames = 3
  \* CSI capture
  CAPACITY = 2
  MAX_IQ = 4
  Lengths = {2, 4, 5}
  NeededEntries = 2
  MaxCallbacks = 5
  MaxBegins = 2
  \* amplitude presence
  W = 2
  Layouts <- MCLayouts
  Samples <- MCSamples
  Entries = 2
  Gains = {2}
  Configs <- MCConfigs
  Hold = 2
  NORM = 16
  \* phase presence
  PW = 2
  Counts = {1, 2}
  Angles <- MCAngles
  Iqs <- MCIqs
  Lines = 3
  PHold = 2
  PConfigs <- MCPConfigs
  \* vitals
  VN = 18
  DECIM = 2
  RATE = 10
  BandLo = 1500
  BandHi = 2500
  UPDATE_EVERY = 2
  ACCEPT = 400
  Highpasses = {0, 7}
  Periods = {0, 3, 4, 5, 6}
  MaxSamples = 23
  MaxChanges = 1
  \* falls
  ActiveLevel = 3
  BurstLevel = 5
  StillLevel = 1
  Levels = {1, 2, 3, 5, 6}
  Gaps = {1, 3}
  MIN_ACTIVE = 2
  QUIET_GRACE = 2
  SETTLE = 2
  STILL_FOR = 2
  REFRACTORY = 12
  MaxLog = 5
  \* presence records
  Energies = {90}
  Rates = {152}
  Confidences = {70, 800}
  \* LoRa
  Regions <- MCRegions
  ModemParams <- MCModemParams
  Payloads = {1, 12}
  OVERHEAD = 23
  DUTY_WINDOW = 75000
  DUTY_RING_LEN = 2
  Pauses = {37000}
  MaxSends = 5
  \* access point data path
  Builds = {"crate", "crate_open", "wpa2_ap", "open_ap"}
  Members = {1, 2}
  Senders = {1}
  Tids = {0, 6}
  DSSS = 1
  LEGACY = 2
  START = 1
  Mcs <- MCMcs
  UP_AFTER = 2
  Clear = {1}
  UP_ROOM = 1
  MaxUp = 2
  MaxData = 3
  MaxJoins = 1
  MaxRekeys = 1
  \* station policy
  MIN_BACKOFF = 2
  MAX_BACKOFF = 3
  MAX_JOIN_FAILURES = 2
  \* open station
  RUNGS = 3
  AirtimeOf <- MCAirtimes
  Arms = {"hal", "threshold", "probe", "expected", "fixed"}
  Links <- MCLinks
  Qualities <- MCQualities
  BUSY_FRAMES = 128
  RATE_UP_AFTER = 2
  PROBE_EVERY = 2
  MaxUpsets = 1
  \* bench run
  Carriers = {"espnow", "raw", "udp"}
  FRAMES = 2
  ATTEMPTS = 3
  MAX_TIMEOUTS = 2
  MAX_FOREIGN = 3
  MaxMishaps = 3
  \* splices
  CROSSING = 1
  RADIO_TX = 1
  STACK_RX = 1
  MaxReceived = 2
  MaxStackSends = 1
  MaxShedding = 1
  \* GATT on Bluedroid
  Peers = {p1, p2}
  NoPeer = NoPeer
  Overlaps = {FALSE, TRUE}
  LongPeers = {p2}
  SETUP_MAX = 3
  MaxConnects = 2
  MaxWindows = 1
  \* boards on esp-hal
  Boards = {"s3", "c6"}
  Networks = {n1, n2}
  NoNetwork = NoNetwork
  Reachable = {n1}
  Phones = {p1, p2}
  NoPhone = NoPhone
  GUESSES = 2
  TornWrites = TRUE
  MaxVisits = 3
  MaxOutages = 2
  \* relay
  RING = 6
  LINE_PIECES = 2
  CHUNK = 2
  OUTSTANDING = 2
  PATIENCE = 1
  Bauds = {115, 921}
  BOOT_BAUD = 115
  AirRates = {1, 24}
  Stations = {s1}
  MaxLines = 3
  MaxSwitches = 1
  \* replay window
  WINDOW = 3
  MaxSeq = 7
INVARIANTS
  ReaderExact  PresenceExact   FallsAreEvents RecordFaithful
   DataPathSound
  StationHonest VerdictsTrue SpliceFair CarrierSound PhoneToldTrue 
  AtMostOnce LateFrameAccepted
PROPERTY PromiseSpec
CHECK_DEADLOCK FALSE
