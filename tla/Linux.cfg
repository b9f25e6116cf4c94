CONSTANTS
  Thread = {1, 2}
  Main = 1
  Addr = {a}
  MaxHappenings = 3
  MaxRequests = 3
SPECIFICATION FairSpec
INVARIANTS TypeOK AssertionsHold PendingCounted StopsAccounted SigstopAccounted StandStill SuspendedStaysSo NobodyForgotten
PROPERTIES HitReported KeepsReports
CHECK_DEADLOCK FALSE
