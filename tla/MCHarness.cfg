SPECIFICATION Spec
CONSTANTS
  s1 = s1
  s2 = s2
  g1 = g1
  g2 = g2
  adm = adm
  NoGroup = NoGroup
  m1 = m1
  m2 = m2
  k1 = k1
  c1 = c1
  Nil = Nil
  NoVar = NoVar
INVARIANTS
  TypeOK
  AckedSurvives
  PersistersApart
  DeadIsSilent
  ConnectedAsTold
  OperationsInOrder
PROPERTIES
  ConfigMonotonic
CHECK_DEADLOCK FALSE
