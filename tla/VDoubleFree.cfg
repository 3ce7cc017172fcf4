SPECIFICATION Spec
CONSTANTS
  Sock = {srv, rls, s1}
  ServerSock = srv
  FirstRLSock = rls
  ListenId = {home}
  StaticId = {home}
  Otp = {o1}
  NULL = NULL
  Dangling = Dangling
  Confs <- Home
PROPERTY SafeToFree
