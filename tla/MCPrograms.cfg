SPECIFICATION Spec
CONSTANTS
  alice = alice
  bob = bob
  e1 = e1
  s1 = s1
  o1 = o1
  o2 = o2
  c1 = c1
  k1 = k1
  g1 = g1
  g2 = g2
  adm = adm
  NoGroup = NoGroup
  Nil = Nil
INVARIANTS
  TypeOK
  StreamsKept
  SumsBounded
PROPERTIES
  Returns
CHECK_DEADLOCK FALSE
