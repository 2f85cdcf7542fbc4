SPECIFICATION Spec
CONSTANTS
  t1 = t1
  t2 = t2
  h1 = h1
  Tasks <- TwoTasks
  Handled <- OneTask
  HandlerTasks <- OneHandler
  HandlerOf <- Handles1
  CacheTasks <- OtherTask
  Loop = "async"
  LateFailure = FALSE
  LastRun = 3
INVARIANT AppliedWhole
PROPERTY HandlerInstead
PROPERTY NoRerun
