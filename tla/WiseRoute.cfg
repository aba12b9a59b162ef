SPECIFICATION Spec
CONSTANTS
  o = o
  x = x
  z = z
  all = all
  Node = {o, x, z}
  Sink = {o}
  Root = o
  Rssi <- StrongRssi
  rssiThreshold = 2
  NET_BROADCAST = all
  Dest <- Flows
  MaxFloods = 2
  MaxData = 1
INVARIANT DeliveredOnce
PROPERTIES RoutesGrowTree DataArrives
CHECK_DEADLOCK FALSE
