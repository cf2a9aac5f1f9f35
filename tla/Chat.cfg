\* Two tabs, two acts of the user, one lost response.
CONSTANTS
  t1 = t1
  t2 = t2
  Tabs = {t1, t2}
  Rows <- MCRows
  Stored <- MCStored
  Stale = Stale
  ActsBefore = 2
  MaxActs = 4
  MaxCalls = 2
  MaxLost = 1
SPECIFICATION Spec
INVARIANTS TypeOK OneTurnPerTab OwnTranscript InterviewRemembered TitleIsFirstWords OneEmptyConversation
PROPERTIES NewChatIsEmpty PageSettles
