\* Two turns of spoken replies, a fault and a check.
CONSTANTS
  BotReplies <- Spoken
  BotErrors <- MCBotErrors
  Texts = {yes}
  PageTail = 2
  PageSize = 100
  MaxTurns = 2
  MaxFaults = 1
  MaxChecks = 1
SPECIFICATION FairSpec
PROPERTIES WaitsEnd
CHECK_DEADLOCK FALSE
