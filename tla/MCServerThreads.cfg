CONSTANTS
  MAX_THREADS = 3
  DEFAULT_THREADS = 2
  MaxJobs = 3
  HardwareThreads = 4
  Options <- MCOptions
SPECIFICATION SFairSpec
PROPERTIES CallsReturn ServesAtItsSize
CHECK_DEADLOCK FALSE
