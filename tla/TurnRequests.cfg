\* Three requests at a time, one crash.
CONSTANTS
  Connections = {c1, c2, c3}
  Agents = {chat, story}
  PinAgents = {story}
  RemoteAgents = {story}
  DefaultAgent = chat
  Sessions = {s1, s2}
  ConvRow = ConvRow
  NoConn = NoConn
  NoAgent = NoAgent
  NoSession = NoSession
  MaxTurns = 2
  MaxCalls = 2
  MaxCrashes = 1
  MaxHeld = 2
SPECIFICATION Spec
SYMMETRY Symmetry
INVARIANTS
  TypeOK TurnExclusion LockAccounting AtMostOneOpenSession SingleSubmitter
  CompletedHasStory
PROPERTIES TerminalIsFinal ReplyNeedsSession ImplementsLog
