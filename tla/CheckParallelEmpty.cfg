SPECIFICATION Spec
CONSTANT Partitions = {}
PROPERTIES
  AllLegalIsOk
CHECK_DEADLOCK FALSE
