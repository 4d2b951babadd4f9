SPECIFICATION Spec
CONSTANTS
  Runs = {r1}
  Handlers = {h1, h2}
  Workers = {w1}
  Keys = {}
  NoRun = NoRun
  NoKey = NoKey
  MaxConcurrent = 2
  QueueCap = 1
  MaxSteps = 1
  MaxCancelDepth = 2
  BatchSize = 2
  Ops = {"create"}
  AutoRetry = FALSE
  StoreFaults = FALSE
  MaxCrashes = 0
  CanShutdown = FALSE
  DeadlinePasses = FALSE
SYMMETRY Symmetry
INVARIANTS
  SlotsReturned
