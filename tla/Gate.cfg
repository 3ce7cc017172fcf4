SPECIFICATION Spec
CONSTANTS
  Sock = {srv, rls, s1, s2, s3}
  ServerSock = srv
  FirstRLSock = rls
  ListenId = {home}
  StaticId = {home}
  Otp = {o1, o2}
  NULL = NULL
  Dangling = Dangling
  Confs <- Gate
SYMMETRY Symmetry
INVARIANT TypeOK
INVARIANT ListeningSound
INVARIANT WaitingSound
INVARIANT NoZombieWaiter
INVARIANT RelayPartner
INVARIANT PendingListed
PROPERTY PairingSpec
