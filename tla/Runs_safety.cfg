SPECIFICATION Spec
CONSTANTS
  Runs = {r1, r2}
  Handlers = {h1, h2}
  Workers = {w1}
  Keys = {k1}
  NoRun = NoRun
  NoKey = NoKey
  MaxConcurrent = 2
  QueueCap = 1
  MaxSteps = 1
  MaxCancelDepth = 1
  BatchSize = 2
  Ops = {"create", "batch", "retry", "cancel"}
  AutoRetry = TRUE
  StoreFaults = TRUE
  MaxCrashes = 1
  CanShutdown = TRUE
  DeadlinePasses = TRUE
ACTION_CONSTRAINT InScope
SYMMETRY Symmetry
INVARIANTS
  TypeOK
  ExclusiveExecution
  NoOrphanedRun
  EventMatchesStatus
  RetriesAndSlotsAddUp
  DrainFinishesJobs
PROPERTIES
  OutcomeStands
