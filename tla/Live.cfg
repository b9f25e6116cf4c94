\* Pauses are answered, stops end, and the internal threads leave at the exit.
CONSTANTS
  t1 = t1
  t2 = t2
  a1 = a1
  a2 = a2
  none = none
  Threads <- TwoThreads
  MainThread = t1
  NoThread = none
  Addrs <- OneAddr
  Sessions <- LiveSessions
  MaxQueue = 2
SPECIFICATION FairSpec
PROPERTIES PauseIsAnswered StopIsTemporary FiniReturns
