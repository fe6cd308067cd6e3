SPECIFICATION MCSpec
CONSTANTS
  Name = {1, 2}
  Fields <- MCFields
  Neighbours = 1
  Paths = {TRUE, FALSE}
  Calls = {"get", "startOnce", "start", "wait", "drop", "compute", "edges"}
  EdgeBuffers = 2
  MaxCalls = 4
  Concerns = {"order", "elements"}
  Transformers <- MCTransformers
  MaxCompiled = 2
INVARIANTS NoRace SentAsStarted HalosOfLastExchange StreamsConserved CopiesAsCpu
CHECK_DEADLOCK FALSE
