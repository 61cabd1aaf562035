CONSTANTS
  None = None
  t1 = t1
  t2 = t2
SPECIFICATION Spec
PROPERTIES CallersReturn WorkEnds
CHECK_DEADLOCK FALSE
