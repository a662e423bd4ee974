SPECIFICATION Spec
CONSTANTS
  t1 = t1
  t2 = t2
  Transaction <- TwoTransactions
INVARIANTS
  TypeOK
  OneOutcome
  OperationsTold
PROPERTY NothingLeftOpen
CHECK_DEADLOCK FALSE
