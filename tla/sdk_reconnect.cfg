SPECIFICATION StreamsSpec
CONSTANTS
  t1 = t1
  t2 = t2
  Tasks <- TwoTasks
  Questions <- Twice1
  LastRun = 3
  Readers = {"events", "child", "output"}
  AtOnce = 2
  MaxParts = 3
  Subs <- SubNames
  Params <- Filters
  Kinds <- OneKind
  MaxEvents = 2
  MaxQueue = 1
  MaxAttempts = 1
  MaxFaults = 2
CHECK_DEADLOCK FALSE
INVARIANT ShapeKept
