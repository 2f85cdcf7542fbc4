SPECIFICATION PipelineSpec
CONSTANTS
  t1 = t1
  c1 = c1
  NullTask = NullTask
  Tasks <- OneTask
  Chans <- OneChan
  LastStep = 2
  Workers = 4
  Executor = "async"
  Durability = "async"
  CanFail = FALSE
INVARIANT InOrder
INVARIANT DeltaVisible
INVARIANT Loadable
PROPERTY RefinesLog
INVARIANT NothingLost
INVARIANT DrainedFirst
INVARIANT DurableSteps
PROPERTY ExitEnds
