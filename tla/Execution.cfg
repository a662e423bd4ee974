SPECIFICATION Spec
CONSTANTS
  h = h
  a = a
  b = b
  c = c
  Handler = h
  Callable = {a, b, c}
  Signatures <- Programs
  MaxPaths = 2
INVARIANTS
  TypeOK
  SharedAfterFirst
  OpenWhileUsed
  LeftBeforeReport
  PathsFollowFlags
CHECK_DEADLOCK FALSE
