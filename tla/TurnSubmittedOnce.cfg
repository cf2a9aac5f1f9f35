\* Refuted: a session may be submitted twice.
CONSTANTS
  Connections = {c1, c2}
  Agents = {chat, story}
  PinAgents = {story}
  RemoteAgents = {story}
  DefaultAgent = chat
  Sessions = {s1, s2}
  ConvRow = ConvRow
  NoConn = NoConn
  NoAgent = NoAgent
  NoSession = NoSession
  MaxTurns = 2
  MaxCalls = 1
  MaxCrashes = 0
  MaxHeld = 2
SPECIFICATION Spec
INVARIANT SubmittedAtMostOnce
