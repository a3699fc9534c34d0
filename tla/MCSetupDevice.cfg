SPECIFICATION DeviceSpec
CONSTANTS
  Codes = {c1, c2}
  Nets = {n1}
  Owners = {o1, o2}
  None = None
  MAX_FAILURES = 5
  IDLE_TIMEOUT = 1
  WINDOW_AFTER_RESET = 4
  BACKOFF_UNIT = 1
  MaxLifts = 2
INVARIANT GuessBound
PROPERTIES OnlyTheCodeHolderWrites CodeRotatesLast OwnerStaysPinned
