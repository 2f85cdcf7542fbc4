SPECIFICATION Spec
CONSTANTS
  PageSize = 2
  LastPut = 4
  LastWrite = 2
  LastFork = 1
  Frequency = 2
  MaxSteps = 3
INVARIANT ForksApart
