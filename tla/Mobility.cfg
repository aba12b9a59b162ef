SPECIFICATION MobilitySpec
CONSTANTS
  Mover <- Movers
  playgroundSizeX = 6
  playgroundSizeY = 8
  updateInterval = 4
  Lengths = {2, 4, 6}
  Rectangles <- TwoRectangles
  MaxBacklog = 4
INVARIANTS InPlayground StepsAsMirrored BordersFirst KeepsSchedule
CHECK_DEADLOCK FALSE
