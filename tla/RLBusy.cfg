SPECIFICATION BusySpec
CONSTANTS
  Wait1 = 2
  Wait2 = 3
  Wait3 = 4
  PingInterval = 2
PROPERTY Reconnects LossNoticed PatientRetry
CHECK_DEADLOCK TRUE
