\* One conversation; nothing ends a session or a socket.
CONSTANTS
  Convs = {k1}
  Channels = {h1, h2, h3}
  RemoteSessions = {r1, r2}
  NoConv = NoConv
  NoChannel = NoChannel
  NoSid = NoSid
  MaxOpen = 2
  MaxTurns = 2
  MaxEnds = 0
  MaxDrops = 0
  MaxRestarts = 0
SPECIFICATION Spec
INVARIANTS SendsOnOwnSession
CHECK_DEADLOCK FALSE
