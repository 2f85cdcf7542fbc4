SPECIFICATION Spec
CONSTANTS
  r = r
  a = a
  b = b
  j = j
  d = d
  p1 = p1
  p2 = p2
  cs = cs
  ca = ca
  cb = cb
  cj = cj
  cd = cd
  cv = cv
  tk = tk
  w = w
  Nodes <- SendNodes
  Packets <- SendPackets
  Target <- SendTarget
  Chans <- SendChans
  Kind <- SendKind
  Names <- SendNames
  Triggers <- SendTriggers
  Outputs <- SendOutputs
  TASKS = tk
  Value = w
  Input <- Start
  Commands <- GotoB
  InterruptBefore <- None
  InterruptAfter <- None
  Limit = 3
  Durability = "async"
  Events = {"crash", "fail", "drain"}
  LastRun = 2
PROPERTY ImplementsSupersteps
INVARIANT FailedStepOwed
