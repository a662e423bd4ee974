SPECIFICATION Spec
CONSTANTS
  w1 = w1
  w2 = w2
  Exchange <- TwoExchanges
  Nobody = Nobody
  NotSet = NotSet
  InitialRetries <- OnlyNotSet
  DefaultRetries = 3
  Outcomes <- CoreOutcomes
  RetryArgs <- NoGivenRetries
  MaxRetries = 2
  MaxAttempts = 2
SYMMETRY Symmetry
INVARIANTS
  TypeOK
  ExecutionUnderLease
  NoDoubleExecution
  ReportsFollowGrant
  OneAnsweredReport
PROPERTY ImplementsLease
CHECK_DEADLOCK FALSE
