SPECIFICATION Spec
CONSTANTS
  t1 = t1
  t2 = t2
  h1 = h1
  NoExc = NoExc
  Tasks <- TwoTasks
  Handled <- OneTask
  HandlerTasks <- OneHandler
  HandlerOf <- Handles1
  Settings <- Safe
  Workers = 2
  EarlierIds <- NoIds
INVARIANT CommittedFirst
INVARIANT NoSilentFailure
INVARIANT OnlyForFailures
PROPERTY TickEnds
