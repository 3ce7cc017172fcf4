SPECIFICATION Spec
CONSTANTS
  N = 2
  k1 = k1
  k2 = k2
  a = a
  b = b
  NULL = NULL
  Key <- Keys
  Salt <- Salts
  queryKeys <- MCQueryKeys
  listenKeys <- MCListenKeys
  Sessions <- MCSessions
  MaxRecords = 2
INVARIANT Authenticated
INVARIANT PeerAgrees
PROPERTY Served
PROPERTY Ends
