SPECIFICATION Spec
CONSTANTS
  a = a
  b = b
  c = c
  all = all
  Node = {a, b, c}
  L2BROADCAST = all
  Power <- ChainPower
  sensitivity = 2
  thermalNoise = 1
  SnrThreshold = 1
  publishRSSIAlways = TRUE
  swSleep = 0
  swSend = 0
  swRecv = 0
  SIFS = 1
  ST = 2
  DIFS = 5
  EIFS = 8
  LENGTH_RTS = 2
  LENGTH_CTS = 2
  LENGTH_ACK = 2
  LENGTH_LARGE = 4
  LENGTH_SMALL = 3
  RED_PHY_HEADER_DURATION = 2
  CW_MIN = 0
  CW_MAX = 1
  LONG_RETRY_LIMIT = 2
  SHORT_RETRY_LIMIT = 2
  queueLength = 1
  neighborhoodCacheSize = 2
  Dest <- ToMiddle
  Size = {"large", "small"}
  MaxPackets = 2
  MaxBitErrors = 1
INVARIANTS NoTimerError NoDuplicateUp AckedWasDelivered
