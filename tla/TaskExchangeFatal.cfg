SPECIFICATION Spec
CONSTANTS
  w1 = w1
  w2 = w2
  Exchange <- OneExchange
  Nobody = Nobody
  NotSet = NotSet
  InitialRetries <- FreshOrLastRetry
  DefaultRetries = 3
  Outcomes <- FatalOnly
  RetryArgs <- GivenRetries
  MaxRetries = 2
  MaxAttempts = 3
INVARIANT FatalStops
CHECK_DEADLOCK FALSE
