SPECIFICATION FairSpec
CONSTANTS
  Queries = {q1, q2, q3, q4}
CHECK_DEADLOCK FALSE
INVARIANTS
  InOrder
  HeadIsStarted
  ErrorsComeFirst
  NobodyLeftBehind
PROPERTIES
  ImplementsConnection
  EveryoneIsCalled
