SPECIFICATION Spec
CONSTANTS
  r = r
  a = a
  b = b
  j = j
  d = d
  p1 = p1
  p2 = p2
  cs = cs
  ca = ca
  cb = cb
  cj = cj
  cd = cd
  cv = cv
  tk = tk
  w = w
  Nodes <- JoinNodes
  Packets <- None
  Target <- Nowhere
  Chans <- JoinChans
  Kind <- JoinKind
  Names <- JoinNames
  Triggers <- JoinTriggers
  Outputs <- JoinOutputs
  TASKS = tk
  Value = w
  Input <- Start
  Commands <- None
  InterruptBefore <- OnlyB
  InterruptAfter <- OnlyA
  Limit = 4
  Durability = "exit"
  Events = {"fail"}
  LastRun = 3
PROPERTY ImplementsSupersteps
INVARIANT NothingLeft
INVARIANT Approved
PROPERTY ResumeProceeds
