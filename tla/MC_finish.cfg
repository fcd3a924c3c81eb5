SPECIFICATION PersistentSpec
CONSTANTS
  RowIds <- TwoIds
  None = None
  t1 = t1
  t2 = t2
  Tabs = {t1}
  maxPasskeyCountLimit = 1
  Habits <- ForwardHabit
PROPERTIES FlowsEnd
\* The home page has no buttons, and no one signs in to a deleted account.
CHECK_DEADLOCK FALSE
