SPECIFICATION Spec
CONSTANTS
  t1 = t1
  t2 = t2
  h1 = h1
  Tasks <- TwoTasks
  Handled <- NoTasks
  HandlerTasks <- NoTasks
  HandlerOf <- NoHandlers
  CacheTasks <- NoTasks
  Loop = "async"
  LateFailure = TRUE
  LastRun = 2
INVARIANT AppliedWhole
