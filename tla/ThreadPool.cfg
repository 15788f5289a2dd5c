CONSTANTS
  MAX_THREADS = 3
  DEFAULT_THREADS = 2
  MaxJobs = 3
SPECIFICATION Spec
INVARIANTS TypeOK TakeFindsWork TokensBacked WakeUpForAll
PROPERTY KeepsPromise
CHECK_DEADLOCK FALSE
