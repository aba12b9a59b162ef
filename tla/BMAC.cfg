SPECIFICATION FairSpec
CONSTANTS
  a = a
  b = b
  c = c
  all = all
  Node = {a, b, c}
  L2BROADCAST = all
  Power <- ChainPower
  sensitivity = 2
  thermalNoise = 1
  SnrThreshold = 1
  publishRSSIAlways = TRUE
  swSleep = 0
  swSend = 0
  swRecv = 0
  queueLength = 1
  slotDuration = 5
  CheckTime = 1
  DataTimeout = 5
  SoonTime = 5
  PreambleTime = 1
  DataTime = 2
  Dest <- ToMiddle
  MaxPackets = 2
PROPERTIES OnlySleepersFail PreamblesWakeNeighbours QueueDrains
CHECK_DEADLOCK FALSE
