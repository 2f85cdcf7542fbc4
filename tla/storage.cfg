SPECIFICATION StorageSpec
CONSTANTS
  PageSize = 2
  LastPut = 4
  LastWrite = 2
  LastFork = 1
  Frequency = 2
  MaxSteps = 3
  MaxCalls = 3
  MaxFaults = 1
  Keys = {"a", "b"}
  Backends = {"sqlite", "postgres_omit"}
  Ops <- FiveOps
INVARIANT SaversAgree
INVARIANT SameHistory
INVARIANT Rebuilt
INVARIANT ReplayBounded
INVARIANT FreshReads
