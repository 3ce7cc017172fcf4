SPECIFICATION FairSpec
CONSTANTS
  Sock = {srv, rls, s1, s2}
  ServerSock = srv
  FirstRLSock = rls
  ListenId = {home}
  StaticId = {home}
  Otp = {o1}
  NULL = NULL
  Dangling = Dangling
  Confs <- Gate
PROPERTY DeadIsReleased
PROPERTY HalfOpenCloses
PROPERTY ListenerLossReleases
