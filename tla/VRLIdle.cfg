SPECIFICATION FairSpec
CONSTANTS
  Wait1 = 2
  Wait2 = 3
  Wait3 = 4
  PingInterval = 2
PROPERTY Reconnects
CHECK_DEADLOCK TRUE
