\* A suspended thread ends: the count of suspended threads is wrong.
CONSTANTS
  t1 = t1
  t2 = t2
  a1 = a1
  a2 = a2
  none = none
  Threads <- TwoThreads
  MainThread = t1
  NoThread = none
  Addrs <- OneAddr
  Sessions <- LostThreadSessions
  MaxQueue = 2
SPECIFICATION Spec
INVARIANTS SuspendHasThread
