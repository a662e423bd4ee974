SPECIFICATION Spec
CONSTANTS
  NoTenant = NoTenant
  None = None
  NoTask = NoTask
  A = A
  B = B
  x = x
  y = y
  t1 = t1
  t2 = t2
  Process <- TwoProcesses
  Topic <- TwoTopics
  Tenant <- TwoTenants
  TenantList <- Lists
  ProcessObject <- Objects
  AppHandler <- GenericHandlers
  TaskGroup <- Groups
  MaxHandlers = 3
  MaxProcesses = 2
INVARIANTS
  TopicContract
CHECK_DEADLOCK FALSE
