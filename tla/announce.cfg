SPECIFICATION LiveSpec
CONSTANTS
  None = None
  u1 = u1
  h1 = h1
  s1 = s1
  Trackers <- Mixed
  HasAnnounce = TRUE
INVARIANT VisitsAreBounded
PROPERTIES
  AnswersBelong
  PausesFit
  RoundsEnd
