SPECIFICATION MCSpec
CONSTANTS
  g = g
  a1 = a1
  a2 = a2
  a3 = a3
  b1 = b1
  b2 = b2
  b3 = b3
  x = x
  y = y
  z = z
  None = None
  Key = {x, y, z}
  Number <- MCNumber
  Parent <- MCParent
  StateOf <- MCStateOf
  MaxBlocksPerLevel = 3
  MaxNumber = 4
  Block = {g, a1, a2, b1, b2, b3}
  MaintenanceBlock = {g, a1, a2, b1, b2, b3}
  CountInsertions = TRUE
  MaxBlocks = 1
  MaxPins = 0
CHECK_DEADLOCK FALSE
PROPERTIES
  RevertOneReverts
