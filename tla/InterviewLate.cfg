\* Two turns on one connection.
CONSTANTS
  BotReplies <- MCBotReplies
  BotErrors <- MCBotErrors
  Texts = {yes, no}
  PageTail = 2
  PageSize = 100
  MaxTurns = 2
  MaxFaults = 0
  MaxChecks = 0
SPECIFICATION Spec
INVARIANTS LateFramesDiscarded
CHECK_DEADLOCK FALSE
