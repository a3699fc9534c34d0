SPECIFICATION Spec
CONSTANTS
  Codes = {c1}
  Nets = {good, bad}
  Owners = {}
  None = None
  Joinable = {good}
  MAX_FAILURES = 2
  IDLE_TIMEOUT = 0
  WINDOW_AFTER_RESET = 2
  BACKOFF_UNIT = 1
  MaxLifts = 1
  MIN_BACKOFF = 1
  MAX_BACKOFF = 2
  MAX_JOIN_FAILURES = 2
  MaxChan = 1
  SendFails = FALSE
  MaxResets = 0
PROPERTY FirstFailedJoinReopens
