SPECIFICATION Spec
CONSTANTS
  Endpoints = {e1}
  Timestamps = {t1}
  None = None
  MaxDevices = 1
  MaxRequests = 1
  MaxRemovals = 1
PROPERTY RemoveSurvived
CHECK_DEADLOCK FALSE
