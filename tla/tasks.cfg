SPECIFICATION TasksSpec
CONSTANTS
  Agents <- FourAgents
  Limits = {2, 3}
  MaxCalls = 3
  LastTurn = 3
  Errors = {"e1", "e2"}
  Policies <- TwoPolicies
  Calls <- FiveCalls
  CacheHit = TRUE
  Modes <- SixModes
  Program = 2
  MaxAttempts = 2
  LastRun = 2
INVARIANT OwnWrites
INVARIANT AttemptsCounted
PROPERTY TimedEnds
INVARIANT OwnResults
INVARIANT NotRunAgain
PROPERTY CallsAnswered
INVARIANT AnsweredHistory
INVARIANT DirectEnds
