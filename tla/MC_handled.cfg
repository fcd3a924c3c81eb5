SPECIFICATION Spec
CONSTANTS
  RowIds <- TwoIds
  None = None
  t1 = t1
  t2 = t2
  Tabs = {t1}
  maxPasskeyCountLimit = 1
  Habits <- UpdateHabit
INVARIANTS AnswersAreHandled
