\* A breakpoint that is set later.
CONSTANTS
  t1 = t1
  t2 = t2
  a1 = a1
  a2 = a2
  none = none
  Threads <- OneThread
  MainThread = t1
  NoThread = none
  Addrs <- TwoAddrs
  Sessions <- LateSessions
  MaxQueue = 2
  Late <- LateSessions
  Quiet <- Nothing
SPECIFICATION BptSpec
INVARIANTS NoBlindCode
