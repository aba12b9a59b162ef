SPECIFICATION CsmaAlohaSpec
CONSTANTS
  a = a
  b = b
  c = c
  all = all
  Node = {a, b, c}
  CsmaNode = {a, b}
  L2BROADCAST = all
  Power <- ChainPower
  sensitivity = 2
  thermalNoise = 1
  SnrThreshold = 1
  publishRSSIAlways = FALSE
  swSleep = 1
  swSend = 1
  swRecv = 2
  queueLength = 1
  busyRSSI = 3
  difs = 1
  slotDuration = 1
  maxTxAttempts = 1
  initialCW = 3
  Dest <- ToMiddle
  FrameTime = 3
  MaxPackets = 4
INVARIANTS NoTimerError AlohaKeepsSending
PROPERTY SendsOverNoReception
CHECK_DEADLOCK FALSE
