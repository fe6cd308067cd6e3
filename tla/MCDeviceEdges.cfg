SPECIFICATION MCSpec
CONSTANTS
  Name = {1, 2}
  Fields <- MCFields
  Neighbours = 1
  Paths = {FALSE}
  Calls = {"edges"}
  EdgeBuffers = 0
  MaxCalls = 5
  Concerns = {"order"}
  Transformers = {}
  MaxCompiled = 0
INVARIANT HalosOfLastExchange
CHECK_DEADLOCK FALSE
