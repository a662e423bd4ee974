SPECIFICATION FairSpec
CONSTANT MaxHandlers = 2
INVARIANTS
  TypeOK
  TransitionsValid
  TeardownAwaited
PROPERTY LifespanSettles
CHECK_DEADLOCK FALSE
