SPECIFICATION Spec
CONSTANTS
  Values = {a}
  MaxOps = 3
  MaxTime = 3
  MaxOutput = 2
INVARIANTS
  TypeOK
  AnswerIsLinearizability
  ListIsRemaining
  CallsArePartialLinearization
  LongestIsLongest
PROPERTIES
  SearchEnds
CHECK_DEADLOCK FALSE
