SPECIFICATION FarmSpec
CONSTANTS
  MAX_TASKS = 4
  MaxWorkers = 5
INVARIANTS
  FarmInv
  SignalAfterLastTask
  OnlySecondSignalsUnread
PROPERTIES
  ImplementsBagOfTasks
  FarmTermination
