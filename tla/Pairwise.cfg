SPECIFICATION Spec
CONSTANTS
  s = s
  a = a
  b = b
  c = c
  none = none
  Node = {s, a, b, c}
  sinkAddress = s
  NoNode = none
  Link <- Qualities
  maxNoUpdates = 0
  MaxMetric = 9
  Dest <- ToSink
  MaxData = 1
  MaxLosses = 2
INVARIANTS StopsWhenComplete DataReachesSink
PROPERTY ParentsGrowTree
CHECK_DEADLOCK FALSE
