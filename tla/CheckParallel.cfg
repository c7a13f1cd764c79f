SPECIFICATION Spec
CONSTANT Partitions = {p1, p2, p3}
INVARIANTS
  TypeOK
  VerdictIsRight
  NoRaceOnLongest
PROPERTIES
  WorkersEnd
  CheckReturns
CHECK_DEADLOCK FALSE
