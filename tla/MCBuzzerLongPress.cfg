SPECIFICATION Spec
CONSTANTS
  RCV_QUEUE_SIZE = 1
  CONFIG_GCOAP_REQ_WAITING_MAX = 1
  MAX_SNTP_ATTEMPTS = 2
  StalePidMayBePairing = FALSE
PROPERTY LongPressStarts
CHECK_DEADLOCK FALSE
