SPECIFICATION FairSpec
CONSTANTS
  Runs = {r1, r2}
  Handlers = {h1, h2}
  Workers = {w1}
  Keys = {}
  NoRun = NoRun
  NoKey = NoKey
  MaxConcurrent = 2
  QueueCap = 1
  MaxSteps = 1
  MaxCancelDepth = 2
  BatchSize = 2
  Ops = {"create", "cancel"}
  AutoRetry = TRUE
  StoreFaults = FALSE
  MaxCrashes = 0
  CanShutdown = FALSE
  DeadlinePasses = FALSE
PROPERTIES
  RunsSettle
