CONSTANTS
  app = app
  other = other
  Callers <- AppOnly
  MaxThreads = 2
  MaxStops = 1
SPECIFICATION Spec
INVARIANTS
  StartMeansRunning
CHECK_DEADLOCK FALSE
