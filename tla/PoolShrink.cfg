CONSTANTS
  MAX_THREADS = 3
  DEFAULT_THREADS = 2
  MaxJobs = 2
SPECIFICATION FairSpec
PROPERTY InProgressWorkCompletes
CHECK_DEADLOCK FALSE
