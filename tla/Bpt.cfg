\* Breakpoints set before the application runs, or one change at a time.
CONSTANTS
  t1 = t1
  t2 = t2
  a1 = a1
  a2 = a2
  none = none
  Threads <- TwoThreads
  MainThread = t1
  NoThread = none
  Addrs <- TwoAddrs
  Sessions <- BptSessions
  MaxQueue = 2
  Late <- Nothing
  Quiet <- BptQuiet
SPECIFICATION BptFairSpec
INVARIANTS NoBlindCode
PROPERTIES BlindnessEnds
