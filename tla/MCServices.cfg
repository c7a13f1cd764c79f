SPECIFICATION Spec
CONSTANTS
  alice = alice
  bob = bob
  carol = carol
  n1 = n1
  r1 = r1
  r2 = r2
  Nothing = Nothing
  NoVar = NoVar
INVARIANTS
  TypeOK
  UsersServed
  ChatDelivers
  Framing
  OrderedThoughIdsWrap
CHECK_DEADLOCK FALSE
