SPECIFICATION Spec
CONSTANTS
  Agents <- OneAgent
  Limits = {3}
  MaxCalls = 2
  LastTurn = 1
INVARIANT NoRecursionError
