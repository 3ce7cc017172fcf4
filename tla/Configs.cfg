SPECIFICATION Spec
CONSTANTS
  Sock = {srv, rls, s1, s2}
  ServerSock = srv
  FirstRLSock = rls
  ListenId = {anon}
  StaticId = {}
  Otp = {o1}
  NULL = NULL
  Dangling = Dangling
  Confs <- AllConfs
SYMMETRY Symmetry
INVARIANT NoFreedListed
INVARIANT NoSocketLost
INVARIANT OneRemoteListener
