\* Two conversations, a pool of one, an end, a drop and a restart.
CONSTANTS
  Convs = {k1, k2}
  Channels = {h1, h2, h3}
  RemoteSessions = {r1, r2}
  NoConv = NoConv
  NoChannel = NoChannel
  NoSid = NoSid
  MaxOpen = 1
  MaxTurns = 2
  MaxEnds = 1
  MaxDrops = 1
  MaxRestarts = 1
SPECIFICATION FairSpec
INVARIANTS TypeOK SocketsAccounted OwnInterview OneResend
PROPERTIES RemoteIdStable TurnsEnd
CHECK_DEADLOCK FALSE
