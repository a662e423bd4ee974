SPECIFICATION Spec
CONSTANTS
  NoTask = NoTask
  t1 = t1
  t2 = t2
  t3 = t3
  a1 = a1
  a2 = a2
  a3 = a3
  Task <- TwoTasks
  Worker <- ThreeWorkers
  Parallelism = 2
INVARIANT StartedTasksFinish
CHECK_DEADLOCK FALSE
