\* Two turns, two faults and a check; the first page holds the whole interview.
CONSTANTS
  BotReplies <- MCBotReplies
  BotErrors <- MCBotErrors
  Texts = {yes, no}
  PageTail = 2
  PageSize = 100
  MaxTurns = 2
  MaxFaults = 2
  MaxChecks = 1
SPECIFICATION Spec
SYMMETRY Symmetry
INVARIANTS TypeOK InStep NeverSpliced RecoveredAnswersTurn 
PROPERTIES ReceivedIsNotDenied
CHECK_DEADLOCK FALSE
