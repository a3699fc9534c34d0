SPECIFICATION StationSpec
CONSTANTS
  MIN_BACKOFF = 2
  MAX_BACKOFF = 3
  MAX_JOIN_FAILURES = 2
  RUNGS = 3
  AirtimeOf <- MCAirtimes
  Arms = {"expected"}
  Links = {1}
  Qualities <- MCQualities
  BUSY_FRAMES = 128
  RATE_UP_AFTER = 2
  PROBE_EVERY = 2
  MaxUpsets = 1
INVARIANT MeasuredWasTried
CHECK_DEADLOCK FALSE
