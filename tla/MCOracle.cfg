SPECIFICATION Spec
CONSTANTS
  cmdA = cmdA
  cmdB = cmdB
  cmdC = cmdC
  pid1 = pid1
  pid2 = pid2
  None = None
  Nil = Nil
  NoVar = NoVar
SYMMETRY Symmetry
INVARIANTS
  TypeOK
  WrongIsNoticed
  NoFalseAlarm
  LeaderAnswers
  OutputIsExpected
  CountsParallel
CHECK_DEADLOCK FALSE
