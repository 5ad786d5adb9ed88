SPECIFICATION FairSpec
CONSTANTS
  Endpoints = {e1}
  Timestamps = {t1, t2}
  None = None
  MaxDevices = 1
  MaxRequests = 1
  MaxRemovals = 1
INVARIANT TypeOK
INVARIANT MutexOwned
INVARIANT StatusWatched
PROPERTY FirstPressKept
PROPERTY PressShown
PROPERTY DeadRemoved
PROPERTY ImplementsRegistry
CHECK_DEADLOCK FALSE
