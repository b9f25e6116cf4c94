\* A breakpoint that becomes installed disarms a pause.
CONSTANTS
  t1 = t1
  t2 = t2
  a1 = a1
  a2 = a2
  none = none
  Threads <- TwoThreads
  MainThread = t1
  NoThread = none
  Addrs <- OneAddr
  Sessions <- LostPauseSessions
  MaxQueue = 2
SPECIFICATION Spec
INVARIANTS PauseIsArmed
