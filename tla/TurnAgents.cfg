\* Two requests at a time, two interview agents, with fairness.
CONSTANTS
  Connections = {c1, c2}
  Agents = {chat, story, talk}
  PinAgents = {story, talk}
  RemoteAgents = {story, talk}
  DefaultAgent = chat
  Sessions = {s1, s2}
  ConvRow = ConvRow
  NoConn = NoConn
  NoAgent = NoAgent
  NoSession = NoSession
  MaxTurns = 2
  MaxCalls = 1
  MaxCrashes = 0
  MaxHeld = 2
SPECIFICATION FairSpec
INVARIANTS PinAgreesWithSession
PROPERTIES RequestEnds
