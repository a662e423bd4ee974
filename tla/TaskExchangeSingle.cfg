SPECIFICATION FairSpec
CONSTANTS
  w1 = w1
  w2 = w2
  Exchange <- OneExchange
  Nobody = Nobody
  NotSet = NotSet
  InitialRetries <- FreshOrLastRetry
  DefaultRetries = 3
  Outcomes <- AllOutcomes
  RetryArgs <- GivenRetries
  MaxRetries = 2
  MaxAttempts = 3
INVARIANTS
  CompletedByHandler
  SilentAfterEnd
  ProtocolAgreement
  HeartbeatEndsFirst
PROPERTY ExchangeEnds
CHECK_DEADLOCK FALSE
