SPECIFICATION FairSpec
CONSTANTS
  a = a
  b = b
  Caller <- TwoCallers
  Heart = Heart
  Main = Main
  Duration = 18
  Latency = 2
  Setup = 2
  MaxCalls = 2
INVARIANTS
  TypeOK
  LeaseKept
  OnlyEndStranded
PROPERTIES
  CallsReturn
  EndArrives
CHECK_DEADLOCK FALSE
