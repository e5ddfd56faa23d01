SPECIFICATION Spec
CONSTANTS
  None = None
  a = a
  b = b
  Services = {a, b}
  ChannelOf <- MCChannelOf
  Uses <- MCUses
  QUEUE = 2
  MAX_POLL = 1
  LIVE_DELAY = 1
  ACTIVITY_INTERVAL = 1
  RATE_LIMIT_DELAY = 2
  MAX_DELAY = 2
  STABLE = 1
  POST_INTERVAL = 1
  Jitter = {0}
  RETRY_AFTER = 3
  MaxEvents = 2
INVARIANTS
  TypeOK
  ReceptionIsHonest
PROPERTIES
  LimitsHold
  PostingIsHonest
CHECK_DEADLOCK FALSE
