SPECIFICATION Spec
CONSTANTS
  RCV_QUEUE_SIZE = 1
  CONFIG_GCOAP_REQ_WAITING_MAX = 2
  MAX_SNTP_ATTEMPTS = 2
  StalePidMayBePairing = TRUE
INVARIANT TypeOK
INVARIANT NoLostWakeup
INVARIANT MonitoredWhilePaired
PROPERTY ImplementsRoundBuzzer
CHECK_DEADLOCK FALSE
