SPECIFICATION FairSpec
CONSTANTS
  Controls <- MCControls
  MaxLevel = 3
  power_limit = 2
  MaxAwake = 2
  MaxOrders = 3
CHECK_DEADLOCK FALSE
INVARIANT TypeOK
PROPERTY LevelConverges
INVARIANT OrderStands
