\* The trace buffer, two threads and pauses.
CONSTANTS
  t1 = t1
  t2 = t2
  a1 = a1
  none = none
  Threads <- TwoThreads
  MainThread = t1
  NoThread = none
  Addrs <- OneAddr
  Sessions <- TraceSessions
  MaxQueue = 2
  TraceLimit = 1
  ChunkSize = 1
  MaxTrace = 2
SPECIFICATION TraceFairSpec
INVARIANTS TraceTypeOK FullMeansWaiting NoSilentFlush UnansweredMeansStopped SemaphoreMatchesState
PROPERTIES FlushEnds
