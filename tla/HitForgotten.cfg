CONSTANTS
  Thread = {1, 2}
  Main = 1
  Addr = {a}
  MaxHappenings = 2
  MaxRequests = 2
SPECIFICATION Spec
INVARIANTS OwnTrapsMasked
CHECK_DEADLOCK FALSE
