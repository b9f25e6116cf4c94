\* Safety of stopping and resuming, in every kind of session.
CONSTANTS
  t1 = t1
  t2 = t2
  a1 = a1
  a2 = a2
  none = none
  Threads <- TwoThreads
  MainThread = t1
  NoThread = none
  Addrs <- OneAddr
  Sessions <- StopSessions
  MaxQueue = 2
SPECIFICATION Spec
INVARIANTS TypeOK SemaphoreMatchesState UnansweredMeansSuspended NoSilentStop ReporterWaits
PROPERTIES KeepsStopGoPromise PauseIsKept OverIsFinal PendingAreWatched StepIsArmed SuspendedAreWatched
