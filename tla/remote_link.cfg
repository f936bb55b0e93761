SPECIFICATION FairSpec
CONSTANTS
  Items <- MCItems
  tcpip_drops_allowed = 2
  RetryCalls = 2
  MaxOrders = 2
  MaxFalls = 2
  MaxLate = 2
CHECK_DEADLOCK FALSE
INVARIANT TypeOK
INVARIANT ReceiverRuns
INVARIANT OrdersStand
PROPERTY Reconnects
